---------------------------- MODULE HostMC ----------------------------
(* The components of the host side and of the board, each on its own small  *)
(* instance: a behaviour is about one of them, chosen in world.             *)
EXTENDS HostStore, NetRaw, Input, Interrupts, TLC

CONSTANTS c1, c2, c3, p1, p2, h1, h2, m1, m2, nobody
CONSTANTS
  Worlds,  \* the components to look at
  Sols,    \* the processes that run Sol scripts
  SolRuns  \* which scripts they may run

VARIABLES
  world,   \* the component this behaviour is about
  published, liveRec, chain, tabs, ranges, cellOf, code, lstep, todo, lastAns, boots,
  boundApp, image, winSet, live, nextPid, lpc, root, appOf, calls, rpc, wrote, inbox,
  conns, rr, posted, usedQ, inc, polled, got, hole, passed,
  disk, pageOf, super, job, done, recOf, stops,
  begun, mutex, caller, voices, heardOf, taken, music, mixing,
  st, ua_mail, waits, ier, fifo, ua_line, rbr, unmasked, tx, rx, read,
  rxAvail, rxUsed, rxSeen, lastUsed, rxBufs, cur, txBuf, txAvail, txUsed, before, arrived,
  vq_taken, handled, sent, vq_wire,
  pend, pend_seq, g_sink, sending, replay, ring, said, hl_dropped,
  tx_disk, lock, journal, marks, sol, truth, owed,
  G, heap, asked, drawn

hoall == <<kv, storeMu, call, sysout, whole, torn, deaths>>
neall == <<slots, prr, sock, inq, kern, recvd, sentN, accepted, record, heard, polledId,
           alive>>
inall == <<typed, line, q, escStale, out, winDirty, size, told, winAt, explicit, struck, wire,
           buf, inj, mods, keys, dropped>>
lvall == <<published, liveRec, chain, tabs, ranges, cellOf, code, lstep, todo, lastAns, boots>>
slall == <<boundApp, image, winSet, live, nextPid, lpc, root, appOf, calls, rpc, wrote, inbox>>
tcall == <<conns, rr, posted, usedQ, inc, polled, got, hole, passed>>
dkall == <<disk, pageOf, super, job, done, recOf, stops>>
snall == <<begun, mutex, caller, voices, heardOf, taken, music, mixing>>
uaall == <<st, ua_mail, waits, ier, fifo, ua_line, rbr, unmasked, tx, rx, read>>
vqall == <<rxAvail, rxUsed, rxSeen, lastUsed, rxBufs, cur, txBuf, txAvail, txUsed, before,
           arrived, vq_taken, handled, sent, vq_wire>>
hlall == <<pend, pend_seq, g_sink, sending, replay, ring, said, hl_dropped>>
txall == <<tx_disk, lock, journal, marks, sol, truth, owed>>
gxall == <<G, heap, asked, drawn>>

PayloadCells == "a" :> 1 @@ "b" :> 2
OpsAllowed == c1 :> {"append", "replay", "attach"} @@ c2 :> {"append", "index", "compile", "sleep", "bad"}
(* v1, v2 and v3 have an export in common and may be published anew; app takes  *)
(* v1's addresses, then free ones, then has a foreign ABI.                      *)
Image(b, x, rw, im, me, ex) ==
  [qar2 |-> TRUE, abi |-> "ok", shell |-> "ok", whole |-> TRUE, base |-> b, entry |-> 0,
   execsz |-> x, rwoff |-> rw, imagesz |-> im, memsz |-> me, len |-> im, exports |-> ex]
Archives ==
  "v1" :> {Image(0, 1, 2, 2, 3, [f |-> 1])}
  @@ "v2" :> {Image(4, 1, 2, 3, 4, [f |-> 1, g |-> 2]), Image(4, 1, 2, 3, 4, [f |-> 2, g |-> 2])}
  @@ "v3" :> {Image(8, 2, 2, 2, 2, [f |-> 1, g |-> 2]), Image(7, 1, 3, 3, 4, [f |-> 1, g |-> 2])}
  @@ "app" :> {Image(3, 1, 1, 1, 1, [app |-> 1]), Image(10, 1, 1, 2, 2, [app |-> 1]),
               [Image(10, 1, 2, 2, 2, [app |-> 1]) EXCEPT !.abi = "bad"]}
LoadsOf == "calc" :> TRUE @@ "notes" :> TRUE @@ "bad" :> FALSE
Records == {[tag |-> "QREC", urls |-> {"u"}, np |-> 1], [tag |-> "QDEL", urls |-> {"u"}, np |-> 0],
            [tag |-> "QBLK", urls |-> {"u", "v"}, np |-> 2]}
FramesOf == 1 :> [delay |-> 1, len |-> 2] @@ 2 :> [delay |-> 0, len |-> 1] @@ 3 :> [delay |-> 0, len |-> 2]
(* m1 and m2 share a word, their actors run on either hart; p1 and p2 share   *)
(* one on the hart that claims.                                               *)
HandlerOn == m1 :> {h1, h2} @@ m2 :> {h1, h2} @@ p1 :> {h2} @@ p2 :> {h2}
WordsOf == m1 :> 0 @@ m2 :> 0 @@ p1 :> 1 @@ p2 :> 1
RaisesOf == m1 :> 2 @@ m2 :> 1 @@ p1 :> 2 @@ p2 :> 2
OneWord == irqAct' \subseteq {m1, m2} \/ irqAct' \subseteq {p1, p2}  \* BOUND: the words a behaviour uses
(* inc rewrites files 1 and 2 with a deferred command in between; sum reads   *)
(* both and writes 2; bump rewrites 1.                                        *)
ScriptsNamed ==
  "inc" :> [reads |-> {1}, effs |-> <<1, 0, 2>>]
  @@ "sum" :> [reads |-> {1, 2}, effs |-> <<2>>]
  @@ "bump" :> [reads |-> {1}, effs |-> <<1>>]
Ent(what, z, solid) == [what |-> what, z |-> z, solid |-> solid]
(* a room with and without a tree; a label alone, and beside a veil or a tree *)
Rooms == {<<Ent("cube", 1, TRUE)>>,
          <<Ent("clip", 7, TRUE), Ent("tree", 2, TRUE), Ent("cube", 1, TRUE)>>}
Dynamics ==
  {<<>>, <<Ent("text", 2, FALSE)>>, <<Ent("cube", 1, TRUE)>>,
   <<Ent("cube", 3, FALSE), Ent("clip", 5, TRUE), Ent("cube", 1, TRUE), Ent("text", 2, FALSE)>>,
   <<Ent("tree", 4, FALSE), Ent("cube", 1, TRUE), Ent("text", 5, FALSE), Ent("clip", 0, TRUE),
     Ent("tree", 3, TRUE)>>}
IncBeside == {[s \in Sols |-> IF s = c1 THEN "inc" ELSE other] : other \in {"inc", "sum"}}
IncSumBump == {[s \in Sols |-> IF s = c1 THEN "inc" ELSE IF s = c2 THEN "sum" ELSE "bump"]}

Lv == INSTANCE LiveSet WITH Mods <- {"v1", "v2", "v3", "app"}, Archive <- Archives,
                            WinPages <- 6, PagesOf <- 2, PlugMax <- 3, MaxAttach <- 3,
                            MaxBoots <- 3, NoMod <- NoRaw
Sl == INSTANCE Slot WITH Apps <- {"calc", "notes", "bad"}, NoApp <- NoRaw, Loads <- LoadsOf,
                         MaxPids <- 3, MaxCalls <- 3, HasDisk <- TRUE
Tc == INSTANCE NetTcp WITH Peers <- {p1, p2}, NoPeer <- NoRaw, NETCONN <- 2, QSZ <- 1,
                           RXRING <- 2, Win <- 2, Chunk <- 1, StreamLen <- 3, MaxInc <- 1
Dk == INSTANCE Disk WITH Urls <- {"u", "v"}, DPages <- 9, MinParted <- 8, DRecords <- Records,
                         DTop <- 4, DCrashes <- 2, SweepStops <- FALSE
Sn == INSTANCE Snd WITH SndHarts <- {h1, h2}, Unheld <- NoRaw, NVOICE <- 1, Pulls <- TRUE,
                        Frames <- FramesOf, Tracks <- {m1}, Off <- NoRaw
Ua == INSTANCE Uart WITH Clients <- {c1, c2}, Nobody <- nobody, Everybody <- NoRaw,
                         Shares <- FALSE, Interrupts <- TRUE, Budget <- 2, FifoLen <- 1,
                         MaxTx <- 2, MaxRx <- 1, mail <- ua_mail, line <- ua_line
Vq == INSTANCE Virtq WITH QSZ <- 2, IdxMod <- 4, Patient <- TRUE, MaxRx <- 5, MaxTx <- 3,
                          taken <- vq_taken, wire <- vq_wire
Hl == INSTANCE HostLog WITH Threads <- {c1, c2}, PEND_N <- 2, MaxLines <- 6,
                            dropped <- hl_dropped
Tx == INSTANCE Txn WITH NoSol <- nobody, Paths <- {1, 2}, Scripts <- ScriptsNamed,
                        Runs <- SolRuns, MaxKills <- 1, disk <- tx_disk
Gx == INSTANCE Gfx WITH Builtin <- {"cube"}, Registered <- {"tree"}, Addrs <- {"a", "b"},
                        NilAddr <- "nil", StaticLists <- Rooms, FrameLists <- Dynamics,
                        MaxMeshes <- 2, MaxInst <- 2, MaxText <- 1, Slack <- 1,
                        Retains <- TRUE, Steady <- TRUE, Careful <- TRUE

AllInit == /\ world \in Worlds /\ SInit /\ RInit /\ IInit /\ (world # "keyboard" => explicit)
                               /\ Lv!LInit /\ (world # "modules" => published = [i \in {"v1", "v2", "v3", "app"} |-> CHOOSE a \in Archives[i] : TRUE])
                               /\ Sl!SlotInit /\ Tc!NInit /\ Dk!DInit /\ Sn!SndInit /\ PInit
                               /\ Ua!UInit /\ Vq!VInit /\ Hl!HInit /\ TInit /\ Tx!TxnInit
                               /\ Gx!GfxInit
                               /\ (world # "scripts" => \A s \in Sols : sol[s].own = "inc")
AllNext ==
  /\ UNCHANGED world
  /\ \/ world = "store" /\ SNext /\ UNCHANGED <<neall, inall, lvall, slall, tcall, dkall,
                                                snall, pvars, uaall, vqall, hlall, tvars, txall, gxall>>
     \/ world = "sockets" /\ RNext /\ UNCHANGED <<hoall, inall, lvall, slall, tcall, dkall,
                                                  snall, pvars, uaall, vqall, hlall, tvars, txall, gxall>>
     \/ world = "terminal" /\ TtyNext /\ UNCHANGED <<hoall, neall, lvall, slall, tcall, dkall,
                                                     snall, pvars, uaall, vqall, hlall, tvars, txall, gxall>>
     \/ world = "keyboard" /\ EvNext /\ UNCHANGED <<hoall, neall, lvall, slall, tcall, dkall,
                                                    snall, pvars, uaall, vqall, hlall, tvars, txall, gxall>>
     \/ world = "modules" /\ Lv!LNext /\ UNCHANGED <<hoall, neall, inall, slall, tcall, dkall,
                                                     snall, pvars, uaall, vqall, hlall, tvars, txall, gxall>>
     \/ world = "slot" /\ Sl!SlotNext /\ UNCHANGED <<hoall, neall, inall, lvall, tcall, dkall,
                                                     snall, pvars, uaall, vqall, hlall, tvars, txall, gxall>>
     \/ world = "tcp" /\ Tc!NNext /\ UNCHANGED <<hoall, neall, inall, lvall, slall, dkall,
                                                 snall, pvars, uaall, vqall, hlall, tvars, txall, gxall>>
     \/ world = "disk" /\ Dk!DiskNext /\ UNCHANGED <<hoall, neall, inall, lvall, slall, tcall,
                                                     snall, pvars, uaall, vqall, hlall, tvars, txall, gxall>>
     \/ world = "sound" /\ Sn!SndNext /\ UNCHANGED <<hoall, neall, inall, lvall, slall, tcall,
                                                     dkall, pvars, uaall, vqall, hlall, tvars, txall, gxall>>
     \/ world = "irqs" /\ PNext /\ OneWord /\ UNCHANGED <<hoall, neall, inall, lvall, slall, tcall,
                                                            dkall, snall, uaall, vqall, hlall, tvars, txall, gxall>>
     \/ world = "uart" /\ Ua!UNext /\ UNCHANGED <<hoall, neall, inall, lvall, slall, tcall,
                                                  dkall, snall, pvars, vqall, hlall, tvars, txall, gxall>>
     \/ world = "virtq" /\ Vq!VNext /\ UNCHANGED <<hoall, neall, inall, lvall, slall, tcall,
                                                   dkall, snall, pvars, uaall, hlall, tvars, txall, gxall>>
     \/ world = "hostlog" /\ Hl!HNext /\ UNCHANGED <<hoall, neall, inall, lvall, slall, tcall,
                                                     dkall, snall, pvars, uaall, vqall, tvars, txall, gxall>>
     \/ world = "clint" /\ TNext /\ UNCHANGED <<hoall, neall, inall, lvall, slall, tcall,
                                                   dkall, snall, pvars, uaall, vqall, hlall, txall, gxall>>
     \/ world = "scripts" /\ Tx!TxnNext /\ UNCHANGED <<hoall, neall, inall, lvall, slall,
                                                      tcall, dkall, snall, pvars, uaall,
                                                      vqall, hlall, tvars, gxall>>
     \/ world = "scenes" /\ Gx!GfxNext /\ UNCHANGED <<hoall, neall, inall, lvall, slall,
                                                      tcall, dkall, snall, pvars, uaall,
                                                      vqall, hlall, tvars, txall>>
allvars == <<world, hoall, neall, inall, lvall, slall, tcall, dkall, snall, pvars, uaall,
                    vqall, hlall, tvars, txall, gxall>>
AllSpec == AllInit /\ [][AllNext]_allvars

ASSUME Sizes == /\ StoreSizes /\ RawBounds /\ InputBounds /\ Lv!LiveBounds /\ Sl!SlotBounds
                /\ Tc!NetBounds /\ Vq!QueueSizes /\ Sn!SndBounds /\ Tx!TxnSizes /\ Gx!GfxSizes

(* What is stored is kept: qosd's append-only store across deaths of the    *)
(* host (store.c), and the log disk across crashes and compactions          *)
(* (qlog.fpr): a record that was answered for is read back, before the torn *)
(* ones; and a script's commit lands whole although a process is killed     *)
(* (Txn.hs).                                                                *)
StoredIsKept == /\ world = "store" => StoreKeepsPrefix
                /\ world = "disk" => Dk!Durable
                /\ world = "scripts" => Tx!CommitAtomic
(* Bytes keep their order and lose nothing before the end of the stream,    *)
(* through the host's sockets (net_raw.c), the board's TCP (net.c) and the  *)
(* UART driver (uart.fpr); and a record names the peer its slot holds.  What*)
(* is typed is what is heard, and the last size told is the window's,       *)
(* however the bytes and records are cut (tty_raw.c, evdev_raw.c).          *)
StreamsKeepOrder == /\ world = "sockets" => RecordTrue /\ BytesInOrder
                    /\ world = "tcp" => Tc!StreamPrefix
                    /\ world = "uart" => Ua!BytesInOrder
                    /\ world = "terminal" => TtyHeard /\ SizeTold
                    /\ world = "keyboard" => KeyboardHeard
(* Nobody waits for an answer that nothing will bring: a connection with    *)
(* bytes is named by net_poll before another is named twice (net.c), and a  *)
(* parked UFlush has its interrupt armed or its answer queued (uart.fpr).   *)
NobodyForgotten == /\ world = "tcp" => Tc!PollRotates
                   /\ world = "uart" => Ua!FlushAnswered
(* A name resolves to the newest attached module that exports it, no page   *)
(* is both code and writable, a reboot replays the set (loader.fpr); the    *)
(* slot's image is that of every process that still runs in it (process.c). *)
ImagesSound ==
  /\ world = "modules" => Lv!NewestOfChain /\ Lv!ReplayNeverRefused /\ Lv!PlugSound
  /\ world = "slot" => Sl!SlotKept
(* Every item goes through its ring once: frames through the virtio queues  *)
(* (net.c), lines through the host's log (hostlog.c), tones through the     *)
(* mixer (snd_raw.c).  Interrupts are about OncePerAck, the timer and the   *)
(* clock about ClockExact.                                                  *)
DevicesExact ==
  /\ world = "virtq" => Vq!RxExact /\ Vq!TxTrue
  /\ world = "hostlog" => Hl!LineOnce
  /\ world = "sound" => Sn!TonesWhole
(* A frame shows its scene and nothing of the scenes before it, each entity *)
(* under its clip, what can be seen through from far to near (gfx.c).       *)
SceneDrawn == world = "scenes" => Gx!FrameTrue

(* Commits of scripts happen one after another, also when a third process   *)
(* takes a lock that is being reclaimed (tryReclaim).                       *)
OneAfterAnother == world = "scripts" => Tx!Serial
======================================================================

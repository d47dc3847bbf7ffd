---------------------------- MODULE RuntimeMC ----------------------------
(* The components of the language runtime, each on its own small instance:   *)
(* a behaviour is about one of them, chosen in world.                       *)
EXTENDS Admission, Buddy, Arc, ChanBlocks, Pool, TLC

CONSTANTS c1, c2, s1, s2, s3, m1, m2, g1, g2, a1, a2, a3, b1, b2
CONSTANTS
  Worlds,   \* the components to look at
  HeapNil,  \* a primitive may build a nil on the heap (vec.c:445)
  EqDepth   \* VEQ_MAX_DEPTH

VARIABLES
  world,   \* the component this behaviour is about
  vec, heap, ref, ops,
  mem, msg, mine, hung, sent, pool,
  nextSeq, grows, grower, reader, list,
  logged, cells, lockedBy, conBy, winBase, echoUsed, suppressed, actor, onHart, echoed, noted,
  snaps,
  call, whole, pair, equal

adall == <<bl, stamp, place, nextp, rq, ring, hart, clk, adm, maxWait, dead, since, longest,
           passed>>
buall == <<bfree, hdr, own, mv, res, rel, lost>>
arall == <<sl, root, cnt, has, box, snd, mslab, dp, ent, alive, win>>
chall == <<run, tk, status, chOf, homeOf, stk, arena, unused, limbo, extras, raw>>
veall == <<vec, heap, ref, ops>>
dcall == <<mem, msg, mine, hung, sent, pool>>
glall == <<nextSeq, grows, grower, reader, list>>
lrall == <<logged, cells, lockedBy, conBy, winBase, echoUsed, suppressed, actor, onHart,
           echoed, noted, snaps>>
vaall == <<call, whole, pair, equal>>

OnFirst == [a \in Actors |-> g1]
TaskOn == c1 :> g1 @@ c2 :> g2
WriterOn == s1 :> 0 @@ s2 :> 1 @@ s3 :> 0
Rows == {<<1>>, <<3>>, <<3, 8>>}
(* f1 gives the function f2, f2 a partial application of f3, f3 f1 or 7 *)
Params == "f1" :> 1 @@ "f2" :> 2 @@ "f3" :> 3
Partial(f, args) == [k |-> "pap", fn |-> f, args |-> args]
Answer(f, args) == CASE f = "f1" -> Partial("f2", <<>>)
                     [] f = "f2" -> Partial("f3", <<args[2]>>)
                     [] f = "f3" -> IF args[1].n = 0 THEN Partial("f1", <<>>) ELSE [k |-> "int", n |-> 7]

Ve == INSTANCE Vec WITH Handles <- {c1, c2}, NoVec <- NoSlab, ColIds <- 1..9, VL_B0 <- 1,
                        MaxLen <- 2, MaxOps <- 5, VRows <- Rows, Specs <- {<<"d">>}
Dc == INSTANCE DeepCopy WITH Addrs <- 1..10, SlabRoom <- 12, HeapNil <- HeapNil, MaxCells <- 2,
                             MaxMsgs <- 1
Lr == INSTANCE LogRings WITH Writers <- {s1, s2, s3}, HomeOf <- WriterOn, LOG_N <- 2,
                             ECHO_WIN <- 3, ECHO_ALLOW <- 1, MaxLines <- 5, Growers <- {g1, g2},
                             GROWLOG_N <- 2, Lapped <- FALSE, MaxGrows <- 5
Va == INSTANCE Values WITH Fns <- {"f1", "f2", "f3"}, Arity <- Params, Body <- Answer,
                           VEQ_MAX_DEPTH <- EqDepth, ListLens <- {0, 1, 2, 3}, SpineLens <- {1, 2, 4}

AllInit == /\ world \in Worlds /\ Init /\ BInit /\ AInit /\ CInit /\ PoolInit
                               /\ Ve!VInit /\ Dc!DInit /\ Lr!GrowInit /\ Lr!LogInit
                               /\ Va!VInit /\ (world # "values" => whole.args = <<>> /\ pair = Va!None)
AllNext ==
  /\ UNCHANGED world
  /\ \/ world = "admission" /\ Next /\ UNCHANGED <<buall, arall, chall, pvars, veall,
                                                   dcall, glall, lrall, vaall>>
     \/ world = "buddy" /\ BNext /\ UNCHANGED <<adall, arall, chall, pvars, veall,
                                                dcall, glall, lrall, vaall>>
     \/ world = "slabs" /\ ANext /\ UNCHANGED <<adall, buall, chall, pvars, veall,
                                                dcall, glall, lrall, vaall>>
     \/ world = "channels" /\ CNext /\ UNCHANGED <<adall, buall, arall, pvars, veall,
                                                   dcall, glall, lrall, vaall>>
     \/ world = "pool" /\ PoolNext /\ UNCHANGED <<adall, buall, arall, chall, veall,
                                                  dcall, glall, lrall, vaall>>
     \/ world = "vectors" /\ Ve!VNext /\ UNCHANGED <<adall, buall, arall, chall, pvars,
                                                     dcall, glall, lrall, vaall>>
     \/ world = "copy" /\ Dc!DNext /\ UNCHANGED <<adall, buall, arall, chall, pvars,
                                                  veall, glall, lrall, vaall>>
     \/ world = "grow" /\ Lr!GrowNext /\ UNCHANGED <<adall, buall, arall, chall, pvars,
                                                  veall, dcall, lrall, vaall>>
     \/ world = "logs" /\ Lr!LogNext /\ UNCHANGED <<adall, buall, arall, chall, pvars,
                                                  veall, dcall, glall, vaall>>
     \/ world = "values" /\ Va!VNext /\ UNCHANGED <<adall, buall, arall, chall, pvars,
                                                    veall, dcall, glall, lrall>>
allvars == <<world, adall, buall, arall, chall, pvars, veall, dcall, glall, lrall, vaall>>
AllSpec == AllInit /\ [][AllNext]_allvars

ASSUME Sizes == /\ Lr!LogSizes /\ Va!ValueBounds

(* What is read is what was written: a vector's elements, whatever layout   *)
(* its columns took, and no column has two owners (vec.c); a message, which *)
(* refers to nothing outside its own copy (runtime.c); growth records, whole*)
(* ones, the log's last lines, in order, with every suppressed echo         *)
(* accounted for.  Applying a spine of arguments at once is applying them   *)
(* one by one, and equality of lists is equality of their elements.         *)
WrittenIsRead ==
  /\ world = "vectors" => Ve!ReadsBack /\ Ve!OneOwner
  /\ world = "copy" => Dc!SelfContained
  /\ world = "grow" => Lr!ListedWhole
  /\ world = "logs" => Lr!SnapExact /\ Lr!EchoAccounted
  /\ world = "values" => Va!SpineIsCurried /\ Va!EqIsDeep

(* The copy of a message ends (dc_size), also for a list whose nil is on    *)
(* the heap.                                                                *)
SendAnswers == world = "copy" => Dc!SendAnswers
=========================================================================

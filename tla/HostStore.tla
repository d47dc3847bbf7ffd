------------------------------ MODULE HostStore ------------------------------
(***************************************************************************)
(* The syscall channel of a hosted app: the app-side shims                 *)
(* (qos/appside/entry.c), the host's dispatch and kv file                  *)
(* (qos/portable/store.c) and the compiler bridge (compile.c).  Any hart   *)
(* may call; the file has one writer under store_mu; the answer comes back *)
(* in the one buffer g_sysout, which the shim reads after the lock is      *)
(* free again.  The file is a sequence of cells: a header line with the    *)
(* payload's length, its bytes, a newline.  The process may die while a    *)
(* record is being written and start again on the same file.               *)
(***************************************************************************)
EXTENDS Integers, FiniteSets, Sequences, SequencesExt

CONSTANTS
  Callers,      \* harts that call
  Payloads,     \* payload -> its length in cells
  OutCap,       \* sizeof g_sysout
  OpsOf,        \* hart -> the calls it makes
  MaxRecords, MaxDeaths

Ops == {"append", "replay", "index", "bad", "compile", "attach", "sleep"}
StoreSizes == /\ \A p \in DOMAIN Payloads : Payloads[p] \in Nat
                     /\ {OutCap, MaxRecords, MaxDeaths} \subseteq Nat
                     /\ \A h \in Callers : OpsOf[h] \subseteq Ops

VARIABLES
  kv,       \* the file
  storeMu,  \* the mutex's holder, or "free"
  call,     \* hart -> the call under way: [op, pay, at, r, out], out
            \* what the host wrote for it
  sysout,   \* g_sysout: the cells the last writer left there
  whole,    \* payloads appended in full before the first tear, in order
  torn, deaths
svars == <<kv, storeMu, call, sysout, whole, torn, deaths>>

NoCall == [op |-> "none", pay |-> "", at |-> "", r |-> 0, out |-> <<>>]
SInit == /\ kv = <<>> /\ storeMu = "free" /\ call = [h \in Callers |-> NoCall]
         /\ sysout = <<>> /\ whole = <<>> /\ torn = FALSE /\ deaths = 0

Bytes(p) == [k \in 1 .. Payloads[p] |-> <<"byte", p, k>>]
Record(p) == <<<<"head", Payloads[p]>>>> \o Bytes(p) \o <<<<"nl">>>>

(* One record at position i: fgets takes the line there (cells up to the     *)
(* first that ends a line), strtoull its number.  A line that does not start *)
(* with digits counts 0.                                                     *)
EndsLine(c) == c[1] \in {"head", "nl"}
LineEnd(i) == LET e == {j \in i .. Len(kv) : EndsLine(kv[j])}
              IN IF e = {} THEN Len(kv) ELSE CHOOSE j \in e : \A k \in e : j <= k
LineNumber(i) == IF kv[i][1] = "head" THEN kv[i][2] ELSE 0
Part(s, a, b) == SubSeq(s, a, IF b < Len(s) THEN b ELSE Len(s))
Load(i) == Part(kv, LineEnd(i) + 1, LineEnd(i) + LineNumber(i))
(* tag 3: the payloads, up to the capacity or the first record cut short *)
Replay == LET From[i \in Nat, n \in Nat] ==
                IF i > Len(kv) \/ n + LineNumber(i) > OutCap \/ Len(Load(i)) < LineNumber(i) THEN <<>>
                ELSE Load(i) \o From[LineEnd(i) + LineNumber(i) + 2, n + LineNumber(i)]
          IN From[1, 0]
(* tag 5: where each record's payload begins and its length *)
Index == LET From[i \in Nat, n \in Nat] ==
               IF i > Len(kv) \/ n + 1 > OutCap THEN <<>>
               ELSE <<<<n, LineEnd(i) + 1, LineNumber(i)>>>> \o From[LineEnd(i) + LineNumber(i) + 2, n + 1]
         IN From[1, 0]

(* -- the shim's first half: the request is built, the channel entered ------- *)
Call(h) ==
  /\ call[h].op = "none"
  /\ \E op \in OpsOf[h], p \in DOMAIN Payloads :
       /\ op # "append" => p = CHOOSE q \in DOMAIN Payloads : TRUE
       /\ op = "append" => Cardinality({k \in DOMAIN kv : kv[k][1] = "head"})
                           + Cardinality({g \in Callers : call[g].op = "append" /\ call[g].r = 0}) < MaxRecords
       /\ call' = [call EXCEPT ![h] = [op |-> op, pay |-> p, at |-> "enter", r |-> 0, out |-> <<>>]]
       /\ sysout' = IF op = "attach" THEN <<>> ELSE sysout      \* g_sysout[0] = 0
  /\ UNCHANGED <<kv, storeMu, whole, torn, deaths>>
(* mutant: no lock for appends, "one fopen per record is enough" *)
LockedButAppend(op) == op \notin {"compile", "sleep", "append"}
Locked(op) == op \notin {"compile", "sleep"}
Enter(h) ==
  /\ call[h].at = "enter"
  /\ IF Locked(call[h].op) THEN storeMu = "free" /\ storeMu' = h ELSE UNCHANGED storeMu
  /\ call' = [call EXCEPT ![h].at = "host", ![h].r = 0]
  /\ UNCHANGED <<kv, sysout, whole, torn, deaths>>

(* -- store_call_locked ------------------------------------------------------ *)
Answer(h, r, out) ==
  /\ call' = [call EXCEPT ![h].at = "back", ![h].r = r, ![h].out = out]
  /\ sysout' = out
  /\ storeMu' = IF storeMu = h THEN "free" ELSE storeMu
AppendCells(h) ==                 \* stdio hands the record to the file in pieces
  /\ call[h].at = "host" /\ call[h].op = "append"
  /\ LET rec == Record(call[h].pay) IN
     IF call[h].r < Len(rec)
     THEN \E n \in {1, Len(rec) - call[h].r} :
            /\ kv' = kv \o SubSeq(rec, call[h].r + 1, call[h].r + n)
            /\ call' = [call EXCEPT ![h].r = @ + n] /\ UNCHANGED <<storeMu, sysout, whole>>
     ELSE Answer(h, 0, sysout) /\ UNCHANGED kv
          /\ whole' = IF torn THEN whole ELSE Append(whole, call[h].pay)
  /\ UNCHANGED <<torn, deaths>>
ReadStore(h) ==
  /\ call[h].at = "host" /\ call[h].op \in {"replay", "index"}
  /\ LET out == IF call[h].op = "replay" THEN Replay ELSE Index IN Answer(h, Len(out), out)
  /\ UNCHANGED <<kv, whole, torn, deaths>>
Refuse(h) == /\ call[h].at = "host" /\ call[h].op = "bad" /\ Answer(h, -3, sysout)
             /\ UNCHANGED <<kv, whole, torn, deaths>>
(* tag 4: a table address, or the reason in the buffer.  Tag 6 only waits. *)
PlugOrSleep(h) ==
  /\ call[h].at = "host"
  /\ \/ call[h].op = "attach" /\ (Answer(h, 1, sysout) \/ Answer(h, -1, <<<<"why">>>>))
     \/ call[h].op = "sleep" /\ Answer(h, 0, sysout)
  /\ UNCHANGED <<kv, whole, torn, deaths>>
(* tag 7 (compile.c): no server, a socket error that may leave part of a     *)
(* reply behind, a reply that does not fit, or the framed reply              *)
Compile(h) ==
  /\ call[h].at = "host" /\ call[h].op = "compile"
  /\ \/ \E r \in {-2, -4} : Answer(h, r, sysout)
     \/ \E out \in {sysout, <<<<"ok">>>>} : Answer(h, -1, out)
     \/ \E s \in {"ok", "err", "?"} : Answer(h, 2, <<<<s>>, <<"text", h>>>>)
  /\ UNCHANGED <<kv, whole, torn, deaths>>

(* -- the shim's second half: the Result from r and the buffer as it is now --- *)
Result(c, buf) ==
  IF c.op = "attach" THEN IF c.r > 0 THEN <<"ok", <<>>>> ELSE <<"err", buf>>
  ELSE IF c.r < 0 THEN <<"err", <<>>>>
  ELSE IF c.op = "compile"
  THEN <<IF buf # <<>> /\ buf[1] = <<"ok">> THEN "ok" ELSE "err", Part(buf, 2, c.r)>>
  ELSE <<"ok", Part(buf, 1, c.r)>>
Return(h) ==
  /\ call[h].at = "back" /\ call' = [call EXCEPT ![h] = NoCall]
  /\ UNCHANGED <<kv, storeMu, sysout, whole, torn, deaths>>

(* The process dies (a fault, a kill, power) and starts again on the file. *)
Die ==
  /\ deaths < MaxDeaths /\ deaths' = deaths + 1
  /\ torn' = (torn \/ \E h \in Callers : call[h].op = "append" /\ call[h].at = "host"
                                         /\ call[h].r \in 1 .. Len(Record(call[h].pay)) - 1)
  /\ whole' = IF torn THEN whole
              ELSE whole \o SetToSeq({call[h].pay : h \in {g \in Callers :
                     call[g].op = "append" /\ call[g].at = "host" /\ call[g].r = Len(Record(call[g].pay))}})
  /\ call' = [h \in Callers |-> NoCall] /\ storeMu' = "free" /\ sysout' = <<>>
  /\ UNCHANGED kv

SNext == \/ \E h \in Callers : Call(h) \/ Enter(h) \/ AppendCells(h) \/ ReadStore(h) \/ Refuse(h)
                               \/ PlugOrSleep(h) \/ Compile(h) \/ Return(h)
         \/ Die
SSpec == SInit /\ [][SNext]_svars

(* What was appended in full before the first record cut short is what a     *)
(* replay begins with, whole and in order, as far as the buffer holds it, and *)
(* the index finds each of those payloads: through any mix of harts, and      *)
(* whatever deaths and later appends put behind it.                           *)
WholeLen(k) == FoldLeft(LAMBDA n, p : n + Payloads[p], 0, SubSeq(whole, 1, k))
Fitting == Cardinality({k \in 1 .. Len(whole) : WholeLen(k) <= OutCap})
StoreKeepsPrefix ==
  /\ IsPrefix(FlattenSeq([k \in 1 .. Fitting |-> Bytes(whole[k])]), Replay)
  /\ LET ix == Index IN
     \A k \in 1 .. Len(whole) : k <= OutCap =>
       Part(kv, ix[k][2], ix[k][2] + ix[k][3] - 1) = Bytes(whole[k])
(* Every caller gets what the host wrote for it.  It does not: g_sysout is    *)
(* read after store_mu was released, and the compile call never takes it.     *)
OwnReply ==
  \A h \in Callers : call[h].at = "back" => Result(call[h], sysout) = Result(call[h], call[h].out)
=============================================================================

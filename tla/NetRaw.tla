------------------------------- MODULE NetRaw -------------------------------
(* The hosted socket tier (hal/unix/net_raw.c): slots over nonblocking      *)
(* sockets, one receive buffer and one unsent tail each, and a program that *)
(* polls for an id, reads it, writes to the ids it has on record and closes *)
(* them.  An empty read is the program's notice that an id is over.         *)
EXTENDS Integers, Sequences, SequencesExt

CONSTANTS
  RawPeers, NoRaw,
  MAXCONN, RXCAP, TXCAP,
  KernRoom,          \* what the kernel takes of one write before EAGAIN
  SendLen, WriteLen  \* BOUND: bytes a peer sends, bytes the program writes it
RawBounds == {MAXCONN, RXCAP, TXCAP, KernRoom, SendLen, WriteLen} \subseteq Nat

VARIABLES
  slots,   \* slot -> [who, rx, eof, tx]; who = NoRaw: fd is -1
  prr,     \* poll_rr
  sock,    \* peer -> "none", "backlog", "open", "fin", "reset" (RST while
           \* open), "pipe" (RST after its FIN)
  inq,     \* peer -> bytes in the kernel on their way to the host
  kern,    \* peer -> bytes in the kernel on their way to the peer
  recvd,   \* peer -> bytes it has received
  sentN,   \* peer -> bytes it has sent
  accepted,\* peer -> bytes netWrite took for it
  record,  \* slot -> the peer the program has on record there
  heard,   \* peer -> bytes the program has read of it
  polledId,\* what the last netPoll answered: a slot, or 0
  alive    \* FALSE: SIGPIPE has ended the process
rvars == <<slots, prr, sock, inq, kern, recvd, sentN, accepted, record, heard, polledId, alive>>
Ids == 1 .. MAXCONN
FreeSlot == [who |-> NoRaw, rx |-> <<>>, eof |-> FALSE, tx |-> <<>>]
Nothing == [p \in RawPeers |-> <<>>]
RInit ==
  /\ slots = [s \in Ids |-> FreeSlot] /\ prr = 0 /\ sock = [p \in RawPeers |-> "none"]
  /\ inq = Nothing /\ kern = Nothing /\ recvd = Nothing /\ accepted = Nothing /\ heard = Nothing
  /\ sentN = [p \in RawPeers |-> 0] /\ record = [s \in Ids |-> NoRaw]
  /\ polledId = 0 /\ alive = TRUE

Take(q, n) == SubSeq(q, 1, IF n < Len(q) THEN n ELSE Len(q))
Rest(q, n) == SubSeq(q, n + 1, Len(q))
Least(S) == CHOOSE s \in S : \A t \in S : s <= t

(* write(2) of bytes b to p: what the kernel took, "again", "error" or     *)
(* "signal".  Nothing in the repository ignores SIGPIPE.                    *)
KernWrite(p, k, b) ==
  CASE sock[p] = "pipe"  -> [k |-> k, n |-> 0, err |-> "signal"]
    [] sock[p] = "reset" -> [k |-> k, n |-> 0, err |-> "error"]
    [] OTHER -> LET n == Len(Take(b, KernRoom - Len(k)))
                IN [k |-> k \o Take(b, n), n |-> n, err |-> "none"]
(* tx_flush on slot c with kernel buffer k *)
Gone(c) == [c EXCEPT !.eof = TRUE, !.rx = <<>>]
Flushed(c, k) ==
  IF c.tx = <<>> \/ c.eof THEN [c |-> c, k |-> k, sig |-> FALSE]
  ELSE LET w == KernWrite(c.who, k, c.tx) IN
       [c |-> IF w.err = "none" THEN [c EXCEPT !.tx = Rest(@, w.n)] ELSE Gone(c),
        k |-> w.k, sig |-> w.err = "signal"]
(* read(2) until EAGAIN, the buffer's end or the peer's *)
Filled(c) ==
  LET n == Len(Take(inq[c.who], RXCAP - Len(c.rx)))
      full == Len(c.rx) + n = RXCAP
  IN IF c.eof THEN c
     ELSE [c EXCEPT !.rx = @ \o Take(inq[c.who], n),
                    !.eof = ~full /\ sock[c.who] \in {"fin", "reset", "pipe"}]

(* net_pump: accept while a slot is free, then flush and fill every slot.  *)
Backlog == {p \in RawPeers : sock[p] = "backlog"}
Accepting == {f \in [Ids -> RawPeers \cup {NoRaw}] :
  /\ \A s \in Ids : f[s] # NoRaw => f[s] \in Backlog /\ slots[s].who = NoRaw
  /\ \A s, t \in Ids : s # t /\ f[s] # NoRaw => f[s] # f[t]
  /\ \A s \in Ids : slots[s].who = NoRaw /\ f[s] = NoRaw
       => /\ \A p \in Backlog : \E t \in Ids : f[t] = p
          /\ \A t \in Ids : t > s => f[t] = NoRaw}
Pump(then(_)) ==
  \E f \in Accepting :
    LET seated == [s \in Ids |-> IF f[s] = NoRaw THEN slots[s] ELSE [FreeSlot EXCEPT !.who = f[s]]]
        fl == [s \in Ids |-> IF seated[s].who = NoRaw THEN [c |-> seated[s], k |-> <<>>, sig |-> FALSE]
                             ELSE Flushed(seated[s], kern[seated[s].who])]
        at(p) == {s \in Ids : seated[s].who = p}
        pumped == [s \in Ids |-> IF seated[s].who = NoRaw \/ f[s] # NoRaw THEN fl[s].c ELSE Filled(fl[s].c)]
    IN /\ alive' = ~ \E s \in Ids : fl[s].sig
       /\ sock' = [p \in RawPeers |-> IF \E s \in Ids : f[s] = p THEN "open" ELSE sock[p]]
       /\ kern' = [p \in RawPeers |-> IF at(p) = {} THEN kern[p] ELSE fl[Least(at(p))].k]
       /\ inq' = [p \in RawPeers |-> IF at(p) = {} \/ f[Least(at(p))] # NoRaw THEN inq[p] ELSE
            LET c == fl[Least(at(p))].c IN IF c.eof THEN inq[p] ELSE Rest(inq[p], RXCAP - Len(c.rx))]
       /\ then(pumped)

Ready(cs) == {s \in Ids : cs[s].who # NoRaw /\ (cs[s].rx # <<>> \/ cs[s].eof)}
Turn(s) == (s - 1 - prr) % MAXCONN
NetPoll ==
  /\ alive
  /\ Pump(LAMBDA cs : /\ slots' = cs
       /\ IF Ready(cs) = {} THEN polledId' = 0 /\ prr' = prr
          ELSE LET s == CHOOSE x \in Ready(cs) : \A y \in Ready(cs) : Turn(x) <= Turn(y)
               IN polledId' = s /\ prr' = s % MAXCONN)
  /\ UNCHANGED <<recvd, sentN, accepted, record, heard>>
(* The program reads the id it was named.  An empty read of a closed peer   *)
(* gives the slot back, and only that.                                      *)
NetRead ==
  /\ alive /\ polledId # 0 /\ polledId' = 0
  /\ Pump(LAMBDA cs :
       LET s == polledId
           c == cs[s] IN
       IF c.who = NoRaw THEN slots' = cs /\ UNCHANGED <<record, heard>>
       ELSE IF c.rx # <<>>
       THEN /\ slots' = [cs EXCEPT ![s].rx = <<>>] /\ record' = [record EXCEPT ![s] = IF @ = NoRaw THEN c.who ELSE @]
            /\ heard' = [heard EXCEPT ![record'[s]] = @ \o c.rx]
       ELSE /\ slots' = IF c.eof THEN [cs EXCEPT ![s] = FreeSlot] ELSE cs
            /\ record' = [record EXCEPT ![s] = NoRaw] /\ UNCHANGED heard)
  /\ UNCHANGED <<prr, recvd, sentN, accepted>>

(* netWrite: flush, write through when nothing is queued, keep the tail.    *)
(* A tail over TXCAP, or an error, ends the connection: the slot stays      *)
(* until the program has had its empty read.                                *)
WriteThroughAlways(c) == TRUE
WriteThrough(c) == c.tx = <<>>
EndsInDrop(c) == FreeSlot
Ends(c) == Gone(c)
Written(c, k, b, d) ==      \* the peer takes d bytes between the two writes
  LET fl == Flushed(c, k)
      k2 == Rest(fl.k, d)
      w == IF WriteThrough(fl.c) THEN KernWrite(c.who, k2, b) ELSE [k |-> k2, n |-> 0, err |-> "none"]
      tail == fl.c.tx \o Rest(b, w.n)
      result(e, n) == [c |-> e, k |-> w.k, got |-> Take(fl.k, d), n |-> n,
                       sig |-> fl.sig \/ w.err = "signal"]
  IN IF fl.c.eof THEN result(fl.c, 0)
     ELSE IF w.err # "none" \/ Len(tail) > TXCAP THEN result(Ends(fl.c), w.n)
     ELSE result([fl.c EXCEPT !.tx = tail], Len(b))
Fresh(p, n) == [i \in 1 .. n |-> Len(accepted[p]) + i]
NetWrite(s, n) ==
  /\ alive /\ record[s] # NoRaw /\ Len(accepted[record[s]]) + n <= WriteLen
  /\ slots[s].who # NoRaw /\ ~slots[s].eof
  /\ \E d \in 0 .. KernRoom :
       LET p == slots[s].who
           w == Written(slots[s], kern[p], Fresh(p, n), d) IN
       /\ d > 0 => sock[p] \in {"open", "fin"} /\ Len(w.got) = d
       /\ slots' = [slots EXCEPT ![s] = w.c] /\ kern' = [kern EXCEPT ![p] = w.k]
       /\ recvd' = [recvd EXCEPT ![p] = @ \o w.got]
       /\ accepted' = [accepted EXCEPT ![p] = @ \o Take(Fresh(p, n), w.n)]
       /\ alive' = ~w.sig
  /\ UNCHANGED <<prr, sock, inq, sentN, record, heard, polledId>>
NetClose(s) ==
  /\ alive /\ record[s] # NoRaw /\ slots' = [slots EXCEPT ![s] = FreeSlot]
  /\ record' = [record EXCEPT ![s] = NoRaw] /\ polledId' = IF polledId = s THEN 0 ELSE polledId
  /\ UNCHANGED <<prr, sock, inq, kern, recvd, sentN, accepted, heard, alive>>

(* -- the peers ------------------------------------------------------------ *)
PeerMoves(p) ==
  /\ \/ /\ sock[p] = "none" /\ sock' = [sock EXCEPT ![p] = "backlog"] /\ UNCHANGED <<inq, kern, recvd, sentN>>
     \/ /\ sock[p] \in {"backlog", "open"} /\ sentN[p] < SendLen
        /\ sentN' = [sentN EXCEPT ![p] = @ + 1] /\ inq' = [inq EXCEPT ![p] = Append(@, sentN[p] + 1)]
        /\ UNCHANGED <<sock, kern, recvd>>
     \/ /\ sock[p] = "open" /\ sock' \in {[sock EXCEPT ![p] = e] : e \in {"fin", "reset"}}
        /\ UNCHANGED <<inq, kern, recvd, sentN>>
     \/ /\ sock[p] = "fin" /\ sock' = [sock EXCEPT ![p] = "pipe"] /\ UNCHANGED <<inq, kern, recvd, sentN>>
     \/ /\ sock[p] \in {"open", "fin"} /\ kern[p] # <<>>
        /\ recvd' = [recvd EXCEPT ![p] = Append(@, Head(kern[p]))] /\ kern' = [kern EXCEPT ![p] = Tail(@)]
        /\ UNCHANGED <<sock, inq, sentN>>
  /\ UNCHANGED <<slots, prr, accepted, record, heard, polledId, alive>>

RNext == \/ NetPoll \/ NetRead \/ (\E s \in Ids : NetClose(s) \/ \E n \in 1 .. 2 : NetWrite(s, n))
         \/ \E p \in RawPeers : PeerMoves(p)
RSpec == RInit /\ [][RNext]_rvars

-----------------------------------------------------------------------------
(* The program's record of an id is the peer that has it: a slot does not   *)
(* pass to the next peer before the program was told (net_raw.c: "a silent  *)
(* drop left the program's record of the id alive for the NEXT peer").      *)
RecordTrue == \A s \in Ids : record[s] # NoRaw => slots[s].who = record[s]
(* Both directions keep their order and lose nothing before the end: what   *)
(* the peer got, what is in the kernel and the unsent tail are the bytes    *)
(* netWrite took, and the program has read the beginning of what was sent.  *)
BytesInOrder ==
  /\ \A p \in RawPeers : \A i \in DOMAIN heard[p] : heard[p][i] = i
  /\ \A s \in Ids : LET p == slots[s].who IN
       p # NoRaw /\ ~slots[s].eof => recvd[p] \o kern[p] \o slots[s].tx = accepted[p]
(* A peer that goes away never ends the host. *)
HostSurvives == alive
=============================================================================

-------------------------------- MODULE NetTcp --------------------------------
(***************************************************************************)
(* hal/virt/net.c: the virtio receive ring, the small connection table and *)
(* the TCP receive side behind netPoll, netRead and netClose.  Frames are  *)
(* taken by the device into posted buffers; every call of the app first    *)
(* pumps them.  The wire may lose, repeat and reorder segments.  Peers     *)
(* keep to the window of 8192 bytes the code always advertises.  A peer's  *)
(* sequence number is <<incarnation, n>>: n = 0 is its SYN, then its bytes.*)
(***************************************************************************)
EXTENDS Integers, FiniteSets, Sequences, SequencesExt

CONSTANTS
  Peers, NoPeer,
  NETCONN, QSZ,     \* slots of the table, descriptors of the ring
  RXRING, Win, Chunk, \* bytes a slot buffers, the window, bytes one netRead takes
  StreamLen, MaxInc  \* bytes a peer has to send, connections it makes

NetBounds == {NETCONN, QSZ, RXRING, Win, Chunk, StreamLen, MaxInc} \subseteq Nat \ {0}

Slots == 0 .. NETCONN - 1
VARIABLES
  conns,   \* slot -> [est, peer, nxt, fin, rx]
  rr,      \* conn_rr
  posted,  \* receive buffers the device may fill
  usedQ,   \* used ring from last_used on: <<buffer, segment>>
  inc,     \* peer -> its current incarnation, 0 before the first
  polled,  \* what the last netPoll answered: a slot number plus 1, or 0
  got,     \* slot -> bytes read since the slot was taken
  hole,    \* slot -> a segment found too little room
  passed   \* slot -> polls that named another slot while this one had bytes
nvars == <<conns, rr, posted, usedQ, inc, polled, got, hole, passed>>

FreeConn == [est |-> FALSE, peer |-> NoPeer, nxt |-> <<0, 0>>, fin |-> FALSE, rx |-> <<>>]
NInit == /\ conns = [s \in Slots |-> FreeConn] /\ rr = 0
         /\ posted = 0 .. QSZ - 1 /\ usedQ = <<>> /\ inc = [p \in Peers |-> 0]
         /\ polled = 0 /\ got = [s \in Slots |-> <<>>] /\ hole = [s \in Slots |-> FALSE]
         /\ passed = [s \in Slots |-> 0]

(* -- the wire: a segment of the peer's current or an earlier connection ---- *)
Lowest(S) == CHOOSE s \in S : \A t \in S : s <= t
SlotsOf(p) == {s \in Slots : conns[s].est /\ conns[s].peer = p}
Acked(p) == IF SlotsOf(p) = {} THEN 0 ELSE conns[Lowest(SlotsOf(p))].nxt[2]
Segment(p) ==
  [peer : {p}, syn : {TRUE}, rst : {FALSE}, fin : {FALSE}, seq : {<<i, 0>> : i \in 1 .. inc[p]}, len : {0}]
  \cup {g \in [peer : {p}, syn : {FALSE}, rst : {FALSE}, fin : BOOLEAN,
               seq : (1 .. inc[p]) \X (1 .. StreamLen + 1), len : 0 .. Win] :
          /\ g.seq[2] + g.len <= StreamLen + 1 /\ (g.fin <=> g.seq[2] + g.len = StreamLen + 1)
          /\ g.seq[2] + g.len <= Acked(p) + Win}
  \cup [peer : {p}, syn : {FALSE}, rst : {TRUE}, fin : {FALSE}, seq : {<<inc[p], 0>>}, len : {0}]
Arrive(p) ==
  /\ inc[p] > 0 /\ posted # {}
  /\ \E g \in Segment(p) : usedQ' = Append(usedQ, <<Lowest(posted), g>>)
  /\ posted' = posted \ {Lowest(posted)}
  /\ UNCHANGED <<conns, rr, inc, polled, got, hole, passed>>
Connect(p) ==                       \* the peer opens its next connection
  /\ inc[p] < MaxInc /\ inc' = [inc EXCEPT ![p] = @ + 1]
  /\ UNCHANGED <<conns, rr, posted, usedQ, polled, got, hole, passed>>

(* -- handle_tcp on one segment: table, read bytes and holes afterwards ------ *)
Bytes(g) == [k \in 1 .. g.len |-> <<g.seq[1], g.seq[2] + k - 1>>]
Plus(q, n) == <<q[1], q[2] + n>>
ConnFind(c, p) == {s \in Slots : c[s].est /\ c[s].peer = p}
Store(cn, g) ==                     \* all of it is acknowledged, what fits is kept
  LET room == RXRING - Len(cn.rx) IN
  [cn EXCEPT !.rx = @ \o SubSeq(Bytes(g), 1, IF g.len > room THEN room ELSE g.len),
             !.nxt = Plus(@, g.len + (IF g.fin THEN 1 ELSE 0)), !.fin = @ \/ g.fin]
(* mutant: a segment that begins before what is expected is taken as well *)
AcceptsOld(cn, g) == g.seq[1] = cn.nxt[1] /\ g.seq[2] <= cn.nxt[2]
Accepts(cn, g) == g.seq = cn.nxt
HandleTcp(st, g) ==
  LET here == ConnFind(st.c, g.peer)
      idle == {s \in Slots : ~st.c[s].est} IN
  IF g.rst THEN [st EXCEPT !.c = [s \in Slots |-> IF s \in here THEN [@[s] EXCEPT !.est = FALSE] ELSE @[s]]]
  ELSE IF here = {}
  THEN IF g.syn /\ idle # {}        \* a full table: the SYN goes unanswered
       THEN LET s == Lowest(idle) IN
            [c |-> [st.c EXCEPT ![s] = [est |-> TRUE, peer |-> g.peer, nxt |-> Plus(g.seq, 1), fin |-> FALSE, rx |-> <<>>]],
             g |-> [st.g EXCEPT ![s] = <<>>], h |-> [st.h EXCEPT ![s] = FALSE]]
       ELSE st
  ELSE LET s == Lowest(here) IN
       IF ~g.syn /\ Accepts(st.c[s], g)
       THEN [st EXCEPT !.c[s] = Store(@, g), !.h[s] = @ \/ g.len > RXRING - Len(st.c[s].rx)]
       ELSE st                      \* at most a duplicate ACK
Pumped == FoldLeft(LAMBDA st, e : HandleTcp(st, e[2]), [c |-> conns, g |-> got, h |-> hole], usedQ)
Repost == usedQ' = <<>> /\ posted' = posted \cup {usedQ[k][1] : k \in DOMAIN usedQ}

(* -- the app's calls --------------------------------------------------------- *)
Waiting(c) == {s \in Slots : c[s].est /\ c[s].rx # <<>>}
After(s) == (s - rr) % NETCONN
(* mutant: the cursor stays on the slot it named *)
CursorStays(s) == s
Cursor(s) == s + 1
NetPoll ==
  /\ Repost /\ conns' = Pumped.c /\ got' = Pumped.g /\ hole' = Pumped.h
  /\ LET w == Waiting(Pumped.c) IN
     IF w = {} THEN polled' = 0 /\ UNCHANGED <<rr, passed>>
     ELSE LET s == CHOOSE x \in w : \A y \in w : After(x) <= After(y) IN
          /\ rr' = Cursor(s) /\ polled' = s + 1
          /\ passed' = [t \in Slots |-> IF t \in w \ {s} THEN passed[t] + 1 ELSE 0]
  /\ UNCHANGED inc
NetRead ==                          \* of the slot the poll named
  /\ polled # 0 /\ Repost /\ polled' = 0
  /\ LET s == polled - 1
         cn == Pumped.c[s]
         n == IF Len(cn.rx) > Chunk THEN Chunk ELSE Len(cn.rx) IN
     IF cn.est
     THEN /\ conns' = [Pumped.c EXCEPT ![s].rx = SubSeq(@, n + 1, Len(@))]
          /\ got' = [Pumped.g EXCEPT ![s] = @ \o SubSeq(cn.rx, 1, n)]
     ELSE conns' = Pumped.c /\ got' = Pumped.g
  /\ hole' = Pumped.h
  /\ UNCHANGED <<rr, inc, passed>>
NetClose(s) ==                      \* FIN out, the slot is free at once
  /\ conns[s].est /\ conns' = [conns EXCEPT ![s].est = FALSE]
  /\ UNCHANGED <<rr, posted, usedQ, inc, polled, got, hole, passed>>

NNext == \/ \E p \in Peers : Arrive(p) \/ Connect(p)
         \/ NetPoll \/ NetRead \/ \E s \in Slots : NetClose(s)
NSpec == NInit /\ [][NNext]_nvars

(* Until a segment finds the buffer too full, what the app has read from a     *)
(* slot and what still waits there is the beginning of one connection's stream,*)
(* each byte once and in order, whatever the wire did to the segments and      *)
(* whichever connection had the slot before.                                   *)
StreamPrefix ==
  \A s \in Slots : conns[s].est /\ ~hole[s] =>
    LET seen == got[s] \o conns[s].rx IN
    \A k \in 1 .. Len(seen) : seen[k] = <<conns[s].nxt[1], k>>
(* A connection with bytes waiting is named before any other is named twice. *)
PollRotates == \A s \in Slots : conns[s].est /\ conns[s].rx # <<>> => passed[s] < NETCONN
=============================================================================

-------------------------------- MODULE Uart --------------------------------
(* UART.qa (mods/uart.fpr): one actor owns the 16550.  Clients send it      *)
(* requests and wait for the answer; the device interrupts it through the   *)
(* source it bound; what is written is queued and moved into the FIFO while *)
(* there is room.  Registers are those of virt/hal.c and unix/net_raw.c.    *)
EXTENDS Integers, Sequences, FiniteSets, SequencesExt

CONSTANTS
  Clients, Nobody, Everybody,  \* owner 0 and owner -1
  Shares,            \* the owner may open the device to everybody (UShare)
  Interrupts,        \* there is a PLIC; a host has none, and its FIFO never fills
  Budget,            \* UBuf
  FifoLen,           \* bytes the transmit FIFO takes before LSR.THRE clears
  MaxTx, MaxRx       \* BOUND: bytes written, bytes that arrive

VARIABLES
  st,        \* [owner, txq, rxs, sub, fl, armed]
  mail,      \* the actor's mailbox: requests, and "irq"
  waits,     \* client -> the request it waits for an answer to, or "none"
  ier,       \* interrupts enabled: "rda", "thre"
  fifo, line,\* bytes in the transmit FIFO, bytes out
  rbr,       \* bytes received and not yet read
  unmasked,  \* the PLIC lets the source through
  tx, rx,    \* bytes written to an owner's answer, bytes that arrived
  read       \* bytes handed to a client
uvars == <<st, mail, waits, ier, fifo, line, rbr, unmasked, tx, rx, read>>
Fresh == [owner |-> Nobody, txq |-> <<>>, rxs |-> <<>>, sub |-> Nobody, fl |-> Nobody, armed |-> FALSE]
UInit == /\ st = Fresh /\ mail = <<>> /\ waits = [c \in Clients |-> "none"] /\ ier = {} /\ fifo = <<>>
         /\ line = <<>> /\ rbr = <<>> /\ unmasked = FALSE /\ tx = 0 /\ rx = 0 /\ read = <<>>

(* txDrain and rxDrain: what they make of the state and of the device *)
Room == IF Interrupts THEN FifoLen - Len(fifo) ELSE Len(st.txq) + 1 + MaxTx
Moved(s) == IF Room < Len(s.txq) THEN Room ELSE Len(s.txq)
TxDrainedLate(s) == [s EXCEPT !.txq = SubSeq(@, IF Moved(s) = 0 THEN 1 ELSE Moved(s), Len(@))]
TxDrained(s) == [s EXCEPT !.txq = SubSeq(@, Moved(s) + 1, Len(@))]
TxDrain(s) == fifo' = fifo \o SubSeq(s.txq, 1, Moved(s))
RxDrained(s) == IF s.owner = Nobody THEN s ELSE [s EXCEPT !.rxs = @ \o rbr]
RxDrain(s) == rbr' = IF s.owner = Nobody THEN rbr ELSE <<>>
(* irqSet: IER follows the state *)
IrqNotSet(s) == ier
IrqSet(s) == IF s.armed /\ Interrupts THEN {"rda"} \cup (IF s.txq # <<>> THEN {"thre"} ELSE {}) ELSE ier
OwnerOk(c) == st.owner \in {c, Everybody}
Answer(cs) == waits' = [c \in Clients |-> IF c \in cs THEN "none" ELSE waits[c]]
DevSame == UNCHANGED <<ier, fifo, rbr, unmasked, tx, read>>

Request(c, op) ==
  /\ waits[c] = "none" /\ waits' = [waits EXCEPT ![c] = op] /\ mail' = Append(mail, [from |-> c, op |-> op])
  /\ op = "UShare" => Shares
  /\ op = "UClose" => OwnerOk(c)        \* std/uart.fpr: close consumes the handle
  /\ UNCHANGED <<st, ier, fifo, line, rbr, unmasked, tx, rx, read>>
Hearing(op) == mail # <<>> /\ Head(mail).op = op /\ mail' = Tail(mail)
Taking(op) == Hearing(op) /\ UNCHANGED <<line, rx>>
From == Head(mail).from

UOpen == /\ Taking("UOpen") /\ Answer({From}) /\ UNCHANGED <<fifo, rbr, unmasked, tx, read>>
         /\ IF st.owner # Nobody THEN UNCHANGED <<st, ier>>
            ELSE st' = [st EXCEPT !.owner = From, !.armed = FALSE] /\ ier' = {}
UArm == /\ Taking("UArm") /\ Answer({From}) /\ UNCHANGED <<fifo, rbr, tx, read>>
        /\ IF st.owner # From THEN UNCHANGED <<st, ier, unmasked>>
           ELSE st' = [st EXCEPT !.armed = TRUE] /\ ier' = IrqSet(st') /\ unmasked' = Interrupts
UShare == /\ Taking("UShare") /\ Answer({From}) /\ DevSame
          /\ st' = IF st.owner = From THEN [st EXCEPT !.owner = Everybody] ELSE st
USub == /\ Taking("USub") /\ Answer({From}) /\ DevSame /\ st' = [st EXCEPT !.sub = From]
UWrite ==
  /\ Taking("UWrite") /\ Answer({From}) /\ UNCHANGED <<rbr, unmasked, read>>
  /\ IF ~OwnerOk(From) \/ Len(st.txq) + 1 > Budget THEN UNCHANGED <<st, ier, fifo, tx>>
     ELSE LET s == [st EXCEPT !.txq = Append(@, tx + 1)] IN
          st' = TxDrained(s) /\ TxDrain(s) /\ tx' = tx + 1 /\ ier' = IrqSet(st')
(* answered at once when the queue is empty; armed, when an interrupt has   *)
(* emptied it; not armed, the drain is repeated until the device took it    *)
UFlush ==
  LET s == TxDrained(st)
      out == fifo \o st.txq
      left == Len(out) - FifoLen IN      \* shifted out while the actor spins
  /\ Hearing("UFlush") /\ UNCHANGED <<ier, rbr, unmasked, tx, rx, read>>
  /\ \/ ~OwnerOk(From) /\ Answer({From}) /\ UNCHANGED <<st, fifo, line>>
     \/ OwnerOk(From) /\ s.txq = <<>> /\ TxDrain(st) /\ st' = s /\ Answer({From}) /\ UNCHANGED line
     \/ /\ OwnerOk(From) /\ s.txq # <<>> /\ st.armed /\ TxDrain(st)
        /\ st' = [s EXCEPT !.fl = From] /\ UNCHANGED <<waits, line>>
     \/ /\ OwnerOk(From) /\ s.txq # <<>> /\ ~st.armed
        /\ line' = line \o SubSeq(out, 1, left) /\ fifo' = SubSeq(out, left + 1, Len(out))
        /\ st' = [st EXCEPT !.txq = <<>>] /\ Answer({From})
UGet == /\ Taking("UGet") /\ Answer({From}) /\ UNCHANGED <<ier, fifo, unmasked, tx>>
        /\ IF ~OwnerOk(From) THEN UNCHANGED <<st, rbr, read>>
           ELSE RxDrain(st) /\ st' = [st EXCEPT !.rxs = <<>>] /\ read' = read \o RxDrained(st).rxs
UClose == /\ Taking("UClose") /\ Answer({From}) /\ st' = Fresh
          /\ ier' = (IF st.armed THEN {} ELSE ier) /\ UNCHANGED <<fifo, rbr, unmasked, tx, read>>
(* the interrupt: drain both ways, set IER, arm the source, answer a        *)
(* flusher whose queue is empty, push what came to the subscriber           *)
OnIrq ==
  LET s == TxDrained(RxDrained(st))
      flushed == s.fl # Nobody /\ s.txq = <<>>
      pushes == s.sub # Nobody /\ s.rxs # <<>> IN
  /\ Taking("irq") /\ TxDrain(RxDrained(st)) /\ RxDrain(st) /\ ier' = IrqSet(s) /\ unmasked' = TRUE
  /\ Answer(IF flushed THEN {s.fl} ELSE {})
  /\ st' = [s EXCEPT !.fl = IF flushed THEN Nobody ELSE @, !.rxs = IF pushes THEN <<>> ELSE @]
  /\ read' = (IF pushes THEN read \o s.rxs ELSE read) /\ UNCHANGED tx

(* -- the device ----------------------------------------------------------- *)
Source == \/ "rda" \in ier /\ rbr # <<>>
          \/ "thre" \in ier /\ Len(fifo) < FifoLen
Interrupt == /\ Source /\ unmasked /\ unmasked' = FALSE /\ mail' = Append(mail, [from |-> Nobody, op |-> "irq"])
             /\ UNCHANGED <<st, waits, ier, fifo, line, rbr, tx, rx, read>>
Shift == /\ fifo # <<>> /\ line' = Append(line, Head(fifo)) /\ fifo' = Tail(fifo)
         /\ UNCHANGED <<st, mail, waits, ier, rbr, unmasked, tx, rx, read>>
Arrive == /\ rx < MaxRx /\ rx' = rx + 1 /\ rbr' = Append(rbr, rx + 1)
          /\ UNCHANGED <<st, mail, waits, ier, fifo, line, unmasked, tx, read>>

Asks == {"UOpen", "UArm", "UWrite", "UFlush", "UGet", "USub", "UShare", "UClose"}
UNext == \/ UOpen \/ UArm \/ UShare \/ USub \/ UWrite \/ UFlush \/ UGet \/ UClose \/ OnIrq
         \/ Interrupt \/ Shift \/ Arrive
         \/ \E c \in Clients, op \in Asks : (op = "UWrite" => tx < MaxTx) /\ Request(c, op)
USpec == UInit /\ [][UNext]_uvars

(* Bytes go out in the order they were written, and are received in the     *)
(* order they arrived, each once (txDrain, rxDrain, UGet, irqPush).         *)
Rising(s) == \A i \in 1..(Len(s) - 1) : s[i] < s[i + 1]
BytesInOrder == Rising(line \o fifo \o st.txq) /\ Rising(read \o st.rxs \o rbr)

(* A flusher that waits is on the way to its answer: its request is in the  *)
(* mailbox, or it is the one remembered, bytes are pending and the transmit *)
(* interrupt is enabled and will come (uart.fpr: "answered when the tx      *)
(* buffer is EMPTY").                                                       *)
FlushAnswered ==
  \A c \in Clients : waits[c] = "UFlush" =>
    \/ [from |-> c, op |-> "UFlush"] \in ToSet(mail)
    \/ /\ st.fl = c /\ "thre" \in ier
       /\ unmasked \/ [from |-> Nobody, op |-> "irq"] \in ToSet(mail)
=============================================================================

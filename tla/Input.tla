------------------------------- MODULE Input -------------------------------
(* Keys from a terminal (hal/unix/tty_raw.c) and from evdev records, read    *)
(* or injected by a window (hal/unix/evdev_raw.c).  Whatever the pieces in   *)
(* which bytes and records arrive, a poll hands out at most one event.  An   *)
(* image has one of the two, so each has its own keyboard here.              *)
EXTENDS Integers, Sequences, SequencesExt

CONSTANTS
  QCap,      \* sizeof q
  SplitEnd,  \* a read may end between "[" and the final of a sequence
  BufCap,    \* sizeof buf, in units
  RecLen,    \* sizeof(struct input_event), in the same units
  InjCap,    \* INJ_CAP
  MaxKeys, MaxSizes  \* BOUND: keys struck on a keyboard, sizes of the window
InputBounds == {QCap, BufCap, RecLen, InjCap, MaxKeys, MaxSizes} \subseteq Nat

VARIABLES
  typed,    \* keys typed at the terminal
  line,     \* their bytes, not yet read
  q, escStale, out,       \* the queue, esc_stale, codes reported
  winDirty, size, told, winAt,  \* win_dirty, the window, what was reported, the poll
  explicit, \* FPR_EVDEV names the source
  struck,   \* <<code, value>> of the evdev keyboard, or of the window
  wire,     \* units of the records not yet read
  buf,      \* buf[0 .. buflen)
  inj,      \* inj_ring from inj_r to inj_w
  mods,     \* shift_held, caps_on
  keys,     \* <<biased code, value>> reported
  dropped   \* the ring has dropped a record
ttyVars == <<typed, line, q, escStale, out, winDirty, size, told, winAt>>
evVars == <<explicit, struck, wire, buf, inj, mods, keys, dropped>>
ivars == <<ttyVars, evVars>>

(* Bytes of a key, and what a byte alone or a final means. *)
BytesOf == [up |-> <<"ESC", "[", "A">>, a |-> <<"A">>, d |-> <<"D">>, left |-> <<"ESC", "[", "D">>]
CodeOf(b) == CASE b = "A" -> 30 [] b = "D" -> 32 [] OTHER -> 0
ArrowOf(b) == CASE b = "A" -> 103 [] b = "D" -> 105 [] OTHER -> 0
Means == [up |-> 103, a |-> 30, d |-> 32, left |-> 105]

Shift == 42   \* one of the two; KEY_LEFTSHIFT
Caps == 58
Letter == 30
Digit == 2

IInit ==
  /\ typed = <<>> /\ line = <<>> /\ q = <<>> /\ escStale = FALSE /\ out = <<>>
  /\ winDirty = TRUE /\ size = 1 /\ told = 0 /\ winAt = "idle"
  /\ explicit \in BOOLEAN /\ struck = <<>> /\ wire = <<>> /\ buf = <<>> /\ inj = <<>> /\ dropped = FALSE
  /\ mods = [shift |-> FALSE, caps |-> FALSE] /\ keys = <<>>

Type(k) == /\ Len(typed) < MaxKeys /\ typed' = Append(typed, k) /\ line' = line \o BytesOf[k]
           /\ UNCHANGED <<q, escStale, out, winDirty, size, told, winAt, evVars>>
(* SIGWINCH may come at any instruction *)
Resize == /\ size < MaxSizes /\ size' = size + 1 /\ winDirty' = TRUE
          /\ UNCHANGED <<typed, line, q, escStale, out, told, winAt, evVars>>
(* win_poll: the flag is taken down before the size is asked for. *)
WinAsksFirst ==
  /\ \/ winAt = "idle" /\ winDirty /\ winAt' = "ask" /\ told' = size /\ UNCHANGED winDirty
     \/ winAt = "ask" /\ winAt' = "idle" /\ winDirty' = FALSE /\ UNCHANGED told
  /\ UNCHANGED <<typed, line, q, escStale, out, size, evVars>>
WinPoll ==
  /\ \/ winAt = "idle" /\ winDirty /\ winAt' = "ask" /\ winDirty' = FALSE /\ UNCHANGED told
     \/ winAt = "ask" /\ winAt' = "idle" /\ told' = size /\ UNCHANGED winDirty
  /\ UNCHANGED <<typed, line, q, escStale, out, size, evVars>>

(* qos_tty_poll's loop over the queue: until a key, or nothing certain. *)
NoGrace(st) == TRUE
Waited(st) == st
Decode[b \in Seq(STRING), st \in BOOLEAN] ==
  IF b = <<>> THEN [q |-> b, st |-> st, key |-> 0]
  ELSE IF b[1] # "ESC"
  THEN IF CodeOf(b[1]) # 0 THEN [q |-> Tail(b), st |-> st, key |-> CodeOf(b[1])] ELSE Decode[Tail(b), st]
  ELSE IF Len(b) >= 3 /\ b[2] = "["
  THEN IF ArrowOf(b[3]) # 0 THEN [q |-> SubSeq(b, 4, Len(b)), st |-> FALSE, key |-> ArrowOf(b[3])]
       ELSE Decode[SubSeq(b, 4, Len(b)), FALSE]
  ELSE IF Len(b) > 1 THEN Decode[Tail(b), st]
  ELSE IF Waited(st) THEN Decode[Tail(b), FALSE] ELSE [q |-> b, st |-> TRUE, key |-> 0]
Splits(n) == n > 0 /\ n < Len(line) /\ line[n] = "["
TtyPoll ==
  /\ winAt = "idle" /\ ~winDirty
  /\ \E n \in 0 .. Len(line) :
       /\ n <= QCap - Len(q) /\ (Splits(n) => SplitEnd)
       /\ n = 0 => line = <<>> \/ Len(q) = QCap
       /\ LET d == Decode[q \o SubSeq(line, 1, n), escStale] IN
          /\ q' = d.q /\ escStale' = d.st /\ line' = SubSeq(line, n + 1, Len(line))
          /\ out' = IF d.key = 0 THEN out ELSE Append(out, d.key)
          /\ n > 0 \/ d.q # q \/ d.st # escStale
  /\ UNCHANGED <<typed, winDirty, size, told, winAt, evVars>>

-----------------------------------------------------------------------------
Events == ({Shift} \X {0, 1}) \cup ({Letter, Digit, Caps} \X {1})
Held == [shift : BOOLEAN, caps : BOOLEAN]
Units(e) == [i \in 1 .. RecLen |-> <<e, i>>]
(* An explicit source delivers records in pieces; a window injects them. *)
Strike(e) ==
  /\ Len(struck) < MaxKeys /\ struck' = Append(struck, e)
  /\ IF explicit THEN wire' = wire \o Units(e) /\ UNCHANGED <<inj, dropped>>
     ELSE /\ inj' = IF Len(inj) = InjCap - 1 THEN Append(Tail(inj), e) ELSE Append(inj, e)
          /\ dropped' = (dropped \/ Len(inj) = InjCap - 1) /\ UNCHANGED wire
  /\ UNCHANGED <<ttyVars, explicit, buf, mods, keys>>
(* decode_key: the one modifier machine *)
Bias(m, c) == (IF m.shift THEN 1000 ELSE 0)
              + (IF m.caps /\ c = Letter THEN IF m.shift THEN -1000 ELSE 1000 ELSE 0)
Modified(m, e) ==
  CASE e[1] = Shift -> [m EXCEPT !.shift = IF e[2] = 2 THEN @ ELSE e[2] = 1]
    [] e[1] = Caps -> [m EXCEPT !.caps = IF e[2] = 1 THEN ~@ ELSE @]
    [] OTHER -> m
IsKey(e) == e[1] \notin {Shift, Caps}
Decoded(m, e) == [m |-> Modified(m, e), key |-> IF IsKey(e) THEN <<<<e[1] + Bias(m, e[1]), e[2]>>>> ELSE <<>>]
(* whole records until a key surfaces; a partial one stays *)
BufKept(b) == <<>>
Partial(b) == b
Consume[b \in Seq(Events \X Nat), m \in Held] ==
  IF Len(b) < RecLen THEN [b |-> Partial(b), m |-> m, key |-> <<>>]
  ELSE LET d == Decoded(m, b[1][1]) IN
       IF d.key # <<>> THEN [b |-> SubSeq(b, RecLen + 1, Len(b)), m |-> d.m, key |-> d.key]
       ELSE Consume[SubSeq(b, RecLen + 1, Len(b)), d.m]
Popped[r \in Seq(Events), m \in Held] ==
  IF r = <<>> THEN [r |-> r, m |-> m, key |-> <<>>]
  ELSE LET d == Decoded(m, r[1]) IN
       IF d.key # <<>> THEN [r |-> Tail(r), m |-> d.m, key |-> d.key] ELSE Popped[Tail(r), d.m]
EvdevPoll ==
  LET p == Popped[inj, mods] IN
  /\ inj' = p.r
  /\ IF p.key # <<>> THEN mods' = p.m /\ keys' = keys \o p.key /\ UNCHANGED <<wire, buf>>
     ELSE \E n \in 0 .. Len(wire) :
            /\ n <= BufCap - Len(buf) /\ (n > 0 \/ wire = <<>> \/ Len(buf) = BufCap)
            /\ LET c == Consume[buf \o SubSeq(wire, 1, n), p.m] IN
               /\ buf' = c.b /\ mods' = c.m /\ keys' = keys \o c.key
               /\ wire' = SubSeq(wire, n + 1, Len(wire))
  /\ UNCHANGED <<ttyVars, explicit, struck, dropped>>

TtyNext == (\E k \in DOMAIN BytesOf : Type(k)) \/ Resize \/ WinPoll \/ TtyPoll
EvNext == (\E e \in Events : Strike(e)) \/ EvdevPoll
INext == TtyNext \/ EvNext
ISpec == IInit /\ [][INext]_ivars

-----------------------------------------------------------------------------
(* Every key typed is reported once, as itself and in order, in whatever     *)
(* pieces the terminal hands over its bytes (tty_raw.c: "maybe a split       *)
(* escape sequence: give it one poll to complete").                          *)
TtyHeard == IsPrefix(out, [i \in DOMAIN typed |-> Means[typed[i]]])
(* The last size reported is the size the window has, whenever no change     *)
(* is still to be reported.                                                  *)
SizeTold == winAt = "idle" /\ ~winDirty => told = size
(* Until the ring overflows, the keys reported are those struck, in order    *)
(* and under the modifiers that were down when they were struck.             *)
Seen == FoldLeft(LAMBDA a, e : [m |-> Modified(a.m, e), k |-> a.k \o Decoded(a.m, e).key],
                 [m |-> [shift |-> FALSE, caps |-> FALSE], k |-> <<>>], struck).k
KeyboardHeard == ~dropped => IsPrefix(keys, Seen)
=============================================================================

------------------------------- MODULE HostLog -------------------------------
(* unix/hostlog.c and the sink appside/entry.c registers: lines of several  *)
(* host threads park in a rolling window until the app registers its ring   *)
(* writer, then go to it; the window is replayed outside the mutex.         *)
EXTENDS Integers, Sequences, SequencesExt

CONSTANTS Threads, PEND_N, MaxLines   \* BOUND: MaxLines lines are logged

VARIABLES
  pend, pend_seq,   \* the window, the number ever parked
  g_sink,
  sending,          \* thread -> the line it took past the mutex to the sink, or 0
  replay,           \* lines registration still hands to the sink
  ring,             \* what the app's host ring received
  said, dropped     \* lines logged, parked lines the window lost
hlvars == <<pend, pend_seq, g_sink, sending, replay, ring, said, dropped>>
HInit == /\ pend = [i \in 0..(PEND_N - 1) |-> 0] /\ pend_seq = 0 /\ g_sink = FALSE
         /\ sending = [t \in Threads |-> 0] /\ replay = <<>> /\ ring = <<>> /\ said = 0 /\ dropped = {}

(* qos_hostlog: under the mutex, to the window or on to the sink *)
Park(t) == /\ ~g_sink /\ pend' = [pend EXCEPT ![pend_seq % PEND_N] = said + 1] /\ pend_seq' = pend_seq + 1
           /\ dropped' = dropped \cup ({pend[pend_seq % PEND_N]} \ {0}) /\ UNCHANGED sending
Pass(t) == g_sink /\ sending' = [sending EXCEPT ![t] = said + 1] /\ UNCHANGED <<pend, pend_seq, dropped>>
Hostlog(t) == /\ said < MaxLines /\ sending[t] = 0 /\ said' = said + 1 /\ (Park(t) \/ Pass(t))
              /\ UNCHANGED <<g_sink, replay, ring>>
Sink(t) == /\ sending[t] # 0 /\ ring' = Append(ring, sending[t]) /\ sending' = [sending EXCEPT ![t] = 0]
           /\ UNCHANGED <<pend, pend_seq, g_sink, replay, said, dropped>>

(* qos_hostlog_set_sink: the sink and the window in one critical section *)
WindowAll == [i \in 1..pend_seq |-> pend[(i - 1) % PEND_N]]
Window == LET have == IF pend_seq < PEND_N THEN pend_seq ELSE PEND_N IN
          [i \in 1..have |-> pend[(pend_seq - have + i - 1) % PEND_N]]
SetSink == /\ ~g_sink /\ g_sink' = TRUE /\ replay' = Window
           /\ UNCHANGED <<pend, pend_seq, sending, ring, said, dropped>>
Replay == /\ replay # <<>> /\ ring' = Append(ring, Head(replay)) /\ replay' = Tail(replay)
          /\ UNCHANGED <<pend, pend_seq, g_sink, sending, said, dropped>>

HNext == (\E t \in Threads : Hostlog(t) \/ Sink(t)) \/ SetSink \/ Replay
HSpec == HInit /\ [][HNext]_hlvars

(* Each line reaches the app's ring once: once the sink is registered, each *)
(* line said is in the ring, on its way, or among the oldest the window     *)
(* dropped, in exactly one of these (hostlog.h: "boot diagnostics are not   *)
(* lost to the UI either").                                                 *)
InRing(n) == Len(SelectSeq(ring, LAMBDA x : x = n))
LineOnce ==
  g_sink => \A n \in 1..said :
    InRing(n) + (IF n \in ToSet(replay) THEN 1 ELSE 0) + (IF n \in dropped THEN 1 ELSE 0)
      + (IF \E t \in Threads : sending[t] = n THEN 1 ELSE 0) = 1
=============================================================================

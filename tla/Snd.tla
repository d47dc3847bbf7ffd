--------------------------------- MODULE Snd ---------------------------------
(* The host's sound tier (unix/snd_raw.c): harts play tones and change the  *)
(* music, one mixer takes a chunk at a time of every voice; the first call  *)
(* starts it, and where the device pulls, the start itself mixes a chunk.   *)
EXTENDS Integers, FiniteSets

CONSTANTS
  SndHarts, Unheld,
  NVOICE,
  Pulls,        \* the device's callback primes its buffers inside the start
  Frames,       \* tone -> frames of delay and of sound
  Tracks, Off   \* music files, and none
SndBounds == NVOICE \in Nat /\ Pulls \in BOOLEAN

VARIABLES
  begun,     \* start_once: "no", "running", "done"
  mutex,     \* lock
  caller,    \* hart -> [at, tone, slot]
  voices,    \* slot -> [tone, delay, left]; tone = 0: not active
  heardOf,   \* tone -> frames of it in the mix
  taken,     \* tones qos_snd_play answered a slot for
  music,     \* [file, on]: mus.data, mus.on
  mixing     \* the mixer: "no", "wants" (the start's own chunk), "frame"
svars == <<begun, mutex, caller, voices, heardOf, taken, music, mixing>>
Tones == DOMAIN Frames
Slots == 1 .. NVOICE
Quiet == [tone |-> 0, delay |-> 0, left |-> 0]
SndInit ==
  /\ begun = "no" /\ mutex = Unheld /\ caller = [h \in SndHarts |-> [at |-> "idle", tone |-> 0, slot |-> 0]]
  /\ voices = [s \in Slots |-> Quiet] /\ heardOf = [t \in Tones |-> 0] /\ taken = {}
  /\ music = [file |-> Off, on |-> FALSE] /\ mixing = "no"

Played == taken \cup {caller[h].tone : h \in SndHarts}
To(h, at) == caller' = [caller EXCEPT ![h].at = at]
Call(h) ==
  /\ caller[h].at = "idle"
  /\ \/ \E t \in Tones \ Played : caller' = [caller EXCEPT ![h] = [at |-> "once", tone |-> t, slot |-> 0]]
     \/ caller' = [caller EXCEPT ![h] = [at |-> "once", tone |-> 0, slot |-> 0]]
  /\ UNCHANGED <<begun, mutex, voices, heardOf, taken, music, mixing>>
(* pthread_once: the first caller starts, the others wait for it *)
Once(h) ==
  /\ caller[h].at = "once" /\ begun # "running" /\ UNCHANGED <<mutex, voices, heardOf, taken, music>>
  /\ IF begun = "done" THEN To(h, "lock") /\ UNCHANGED <<begun, mixing>>
     ELSE begun' = "running" /\ To(h, "start") /\ mixing' = IF Pulls THEN "wants" ELSE "no"
Started(h) ==
  /\ caller[h].at = "start" /\ mixing = "no" /\ begun' = "done" /\ To(h, "lock")
  /\ UNCHANGED <<mutex, voices, heardOf, taken, music, mixing>>

FreeSlots == {s \in Slots : voices[s].tone = 0}
LockOpen == TRUE
LockFree == mutex = Unheld
Lock(h) ==
  /\ caller[h].at = "lock" /\ LockFree /\ mutex' = h /\ To(h, "search")
  /\ UNCHANGED <<begun, voices, heardOf, taken, music, mixing>>
(* the first slot that is not active, then its fields; none: answer -1 *)
Search(h) ==
  /\ caller[h].at = "search" /\ caller[h].tone # 0
  /\ IF FreeSlots = {} THEN To(h, "idle") /\ mutex' = Unheld
     ELSE /\ caller' = [caller EXCEPT ![h].at = "fill", ![h].slot = CHOOSE s \in FreeSlots : \A u \in FreeSlots : s <= u]
          /\ UNCHANGED mutex
  /\ UNCHANGED <<begun, voices, heardOf, taken, music, mixing>>
Fill(h) ==
  /\ caller[h].at = "fill" /\ LET t == caller[h].tone IN
       /\ voices' = [voices EXCEPT ![caller[h].slot] = [tone |-> t, delay |-> Frames[t].delay, left |-> Frames[t].len]]
       /\ taken' = taken \cup {t}
  /\ mutex' = Unheld /\ To(h, "idle") /\ UNCHANGED <<begun, heardOf, music, mixing>>
(* qos_snd_music: off; on, from the start unless it is the file loaded; a   *)
(* file it cannot read leaves what plays; one it cannot decode leaves none. *)
SndMusic(h) ==
  /\ caller[h].at = "search" /\ caller[h].tone = 0
  /\ \/ music' = [file |-> Off, on |-> FALSE]
     \/ music' = music
     \/ \E t \in Tracks : music' = [file |-> t, on |-> TRUE]
     \/ music' = [music EXCEPT !.file = Off]
  /\ mutex' = Unheld /\ To(h, "idle") /\ UNCHANGED <<begun, voices, heardOf, taken, mixing>>

(* mix: under the lock, a frame of every voice and of the music. *)
Mixers == begun = "done" \/ mixing = "wants"
Mix ==
  /\ Mixers /\ mixing \in {"no", "wants"} /\ LockFree /\ mutex' = "mixer" /\ mixing' = "frame"
  /\ UNCHANGED <<begun, caller, voices, heardOf, taken, music>>
Frame(v) == IF v.tone = 0 THEN v
            ELSE IF v.delay > 0 THEN [v EXCEPT !.delay = @ - 1]
            ELSE IF v.left = 1 THEN Quiet ELSE [v EXCEPT !.left = @ - 1]
Sounding == {s \in Slots : voices[s].tone # 0 /\ voices[s].delay = 0}
MixFrame ==
  /\ mixing = "frame" /\ mixing' = "no" /\ mutex' = Unheld
  /\ voices' = [s \in Slots |-> Frame(voices[s])]
  /\ heardOf' = [t \in Tones |-> heardOf[t] + Cardinality({s \in Sounding : voices[s].tone = t})]
  /\ UNCHANGED <<begun, caller, taken, music>>
SndNext == Mix \/ MixFrame \/ \E h \in SndHarts : Call(h) \/ Once(h) \/ Started(h) \/ Lock(h) \/ Search(h) \/ Fill(h) \/ SndMusic(h)
SndSpec == SndInit /\ [][SndNext]_svars
-----------------------------------------------------------------------------
(* Every tone answered with a slot is heard whole: it has one voice until   *)
(* its last frame, whoever else plays and mixes, and the mix has of it what *)
(* the voice no longer has.                                                 *)
TonesWhole ==
  \A t \in taken :
    LET has == {s \in Slots : voices[s].tone = t} IN
    IF has = {} THEN heardOf[t] = Frames[t].len
    ELSE \E s \in has : has = {s} /\ heardOf[t] + voices[s].left = Frames[t].len
=============================================================================

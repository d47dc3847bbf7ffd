---------------------------- MODULE HartSleepMC ----------------------------
(* Model-checking instances of HartSleep. *)
EXTENDS HartSleep, TLC

CONSTANTS a1, a2, a3

(* a2 and a3 on the last hart, a1 on hart 0 *)
Apart == [a \in Actors |-> IF a = a1 THEN 0 ELSE IrqHart]
(* a1 and a2 on hart 0, a3 on hart 1; hart 2 has nothing *)
FirstTwo == [a \in Actors |-> IF a = a3 THEN 1 ELSE 0]
(* a1 sends, sleeps or arms the timer on hart 0, where a3 ends at once if  *)
(* it is not donated first; a2 receives, and kills, on the last hart       *)
SleeperAndKiller ==
  [a \in Actors |-> CASE a = a1 -> {"send", "receive", "timer", "sleep", "yield"}
                     [] a = a2 -> {"receive", "yield", "kill"}
                     [] OTHER -> {"exit"}]
SecondApart == [a \in Actors |-> IF a = a2 THEN IrqHart ELSE 0]
(* whatever they like *)
SleepersTalk == [a \in Actors |-> {"sleep", "receive", "send"}]
=============================================================================

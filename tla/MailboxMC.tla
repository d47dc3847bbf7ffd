----------------------------- MODULE MailboxMC -----------------------------
(* Model-checking instances of Mailbox: placements and slot bindings.      *)
EXTENDS Mailbox, TLC

CONSTANTS s1, s2, s3, s4, h1, h2

(* Every sender on one hart, the owner on the other. *)
SendersTogether == [a \in Parties |-> IF a = Recv THEN h2 ELSE h1]
(* s1 shares the owner's hart, the other senders run on the other one. *)
SendersApart == [a \in Parties |-> IF a \in {Recv, s1} THEN h2 ELSE h1]

Unbound == [i \in Dedicated |-> NoKey]
(* s1 has sent before: slot 0 is its own. *)
BoundToFirst == [i \in Dedicated |-> IF i = 0 THEN s1 ELSE NoKey]

(* s2 has slot 0; the others share the overflow ring from two harts. *)
BoundToSecond == [i \in Dedicated |-> IF i = 0 THEN s2 ELSE NoKey]

(* The second message of every sender is a Result. *)
SecondIsResult == {m \in Msgs : m[2] = 2}
NoResult == {}
=============================================================================

------------------------------- MODULE FifoBox ------------------------------
(***************************************************************************)
(* What an actor's mailbox promises (docs/MAILBOX.md, docs/PATHS.md): one  *)
(* queue per sender; a send that answers Ok has put its message at the end *)
(* of its sender's queue, atomically and once; receive and receiveFrom     *)
(* take the head of some sender's queue, receiveRes the first Result of    *)
(* one, and what is left keeps its order.  A queue is the set of what      *)
(* waits in it: a sender numbers its messages in the order it puts them.   *)
(***************************************************************************)
EXTENDS Naturals, Sequences

CONSTANTS Senders, Sends, Results

VARIABLES
  inbox,  \* per sender, the messages that wait
  put,    \* the messages whose send took effect
  got     \* what was received, in order

FifoInit ==
  /\ inbox = [s \in Senders |-> {}]
  /\ put = {}
  /\ got = <<>>

(* The n-th send of s takes effect; the sends of s take effect in order.   *)
Put(s, n) ==
  /\ \A m \in put : m[1] = s => m[2] < n
  /\ inbox' = [inbox EXCEPT ![s] = @ \cup {<<s, n>>}]
  /\ put' = put \cup {<<s, n>>}
  /\ UNCHANGED got

(* The oldest message of s, or the oldest among its Results. *)
Oldest(s, W) ==
  {m \in inbox[s] \cap W : \A p \in inbox[s] \cap W : m[2] <= p[2]}
Receive(s) ==
  \E W \in {{s} \X (1 .. Sends), Results} : \E m \in Oldest(s, W) :
    /\ inbox' = [inbox EXCEPT ![s] = @ \ {m}]
    /\ got' = Append(got, m)
    /\ UNCHANGED put

FifoNext ==
  \E s \in Senders : Receive(s) \/ \E n \in 1 .. Sends : Put(s, n)

FifoSpec == FifoInit /\ [][FifoNext]_<<inbox, put, got>>
=============================================================================

--------------------------- MODULE MessageChannel ---------------------------
(***************************************************************************)
(* What the chunk layer promises to the layers above it: every chunk       *)
(* stream is a queue of whole messages.  A message that is sent is         *)
(* received once, as it was sent, after those sent before it on the same   *)
(* chunk stream; nothing is promised across chunk streams.  The messages   *)
(* are numbered in the order they are sent.                                *)
(***************************************************************************)
EXTENDS Naturals, Sequences

CONSTANTS Channels, Messages

VARIABLES
  pending,   \* the messages sent and not yet received: channel and number
  received   \* all that was received, in order

vars == <<pending, received>>

Init == pending = {} /\ received = <<>>

\* A message with a number greater than all before it.
Send(c) ==
  /\ UNCHANGED received
  /\ \E n \in Messages :
       /\ \A p \in pending : p.num < n
       /\ \A i \in DOMAIN received : received[i].num < n
       /\ pending' = pending \cup {[chan |-> c, num |-> n]}

\* The first message of its channel.
Receive(c) ==
  \E p \in pending :
    /\ p.chan = c
    /\ \A q \in pending : q.chan = c => p.num <= q.num
    /\ received' = Append(received, p)
    /\ pending' = pending \ {p}

Next == \E c \in Channels : Send(c) \/ Receive(c)

\* Weak fairness of Receive(c), which can happen whenever a message is pending.
Fairness(c) == []<>(\A p \in pending : p.chan # c) \/ []<><<Receive(c)>>_vars

Spec == Init /\ [][Next]_vars /\ \A c \in Channels : Fairness(c)
=============================================================================

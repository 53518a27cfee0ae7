-------------------------------- MODULE Fifo --------------------------------
(***************************************************************************)
(* What a connection promises to those who write to it: what arrives is    *)
(* what was written, in that order and only once; and who is told that his *)
(* message has been sent is told the truth, as long as the connection is   *)
(* there.  A byte is the pair of its message's number and its place in it. *)
(***************************************************************************)
EXTENDS SequencesExt

VARIABLES
  written,    \* the sizes of the messages that were written
  delivered,  \* the bytes that have been handed over
  confirmed,  \* the messages whose writers were told that they are sent
  up

Place(n, k) == <<n, k>>

\* All bytes of the messages, in order.
Bytes ==
  FlattenSeq([n \in DOMAIN written |-> [k \in 1 .. written[n] |-> Place(n, k)]])

HandedOver(n) ==
  \A k \in 1 .. written[n] : \E i \in DOMAIN delivered : delivered[i] = Place(n, k)

Init ==
  /\ written = <<>>
  /\ delivered = <<>>
  /\ confirmed = {}
  /\ up = TRUE

\* Messages are only added, bytes only delivered in their order.
InOrder ==
  /\ Len(written) <= Len(written') /\ SubSeq(written', 1, Len(written)) = written
  /\ Len(delivered) <= Len(delivered')
  /\ Len(delivered') <= Len(Bytes')
  /\ delivered' = SubSeq(Bytes', 1, Len(delivered'))

Next ==
  /\ InOrder
  /\ confirmed \subseteq confirmed'
  /\ up' \in {up, FALSE}
  /\ ~up => delivered' = delivered
  /\ up => \A n \in confirmed' \ confirmed : HandedOver(n)'

Spec == Init /\ [][Next]_<<written, delivered, confirmed, up>>
=============================================================================

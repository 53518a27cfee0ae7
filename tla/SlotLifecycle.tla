--------------------------- MODULE SlotLifecycle ---------------------------
(***************************************************************************)
(* What a stream slot of the server promises (header.go, fsm.go): it is    *)
(* opened by a request, its command sends CLOSE exactly once before the    *)
(* slot is given up, and only a slot that was given up is opened again.    *)
(***************************************************************************)
CONSTANT Slots

VARIABLE phase   \* free, open (the command may write), closed (CLOSE was sent)

Init == phase = [s \in Slots |-> "free"]

Moves(s, from, to) == /\ phase[s] = from
                      /\ phase' = [phase EXCEPT ![s] = to]

Open(s) == Moves(s, "free", "open")
SendClose(s) == Moves(s, "open", "closed")
Free(s) == Moves(s, "closed", "free")

Next == \E s \in Slots : Open(s) \/ SendClose(s) \/ Free(s)

Spec == Init /\ [][Next]_phase
============================================================================

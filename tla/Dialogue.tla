------------------------------ MODULE Dialogue ------------------------------
(***************************************************************************)
(* What a machine tells the browser, whatever its protocol: hook output    *)
(* and questions while it opens, then either why it failed or that it is   *)
(* connected and what the remote writes, and CLOSE after which there is    *)
(* nothing more.  The ticks of src/ui/commands throw at anything else.     *)
(***************************************************************************)

VARIABLE said   \* the last kind of frame that was written

Opening == {"nothing", "hook", "prompt"}

Init == said = "nothing"

Opens    == said \in Opening /\ said' \in {"hook", "prompt"}
Reports  == said \in Opening /\ said' = "report"
Connects == said \in Opening /\ said' = "connected"
Outputs  == said = "connected" /\ said' = "output"
Closes   == said # "close" /\ said' = "close"

Next == Opens \/ Reports \/ Connects \/ Outputs \/ Closes

Spec == Init /\ [][Next]_said
=============================================================================

-------------------------- MODULE MCProductionLoop --------------------------
(***************************************************************************)
(* ProductionLoop for TLC in two scenarios.  "late": time passes while the *)
(* handlers of expired timers wait in the io_service.  "prompt": queued    *)
(* handlers run before time goes on; without that no promise about when a  *)
(* block is produced can be kept.                                          *)
(***************************************************************************)
EXTENDS ProductionLoop

OneOfTwo == <<"a", "b">>
Early == -1

Prompt == INSTANCE ProductionLoop WITH Late <- FALSE

VARIABLE scenario

all == <<scenario, vars>>

MCInit == Init /\ scenario \in {"late", "prompt"}

MCNext ==
    \/ scenario = "late" /\ Next /\ UNCHANGED scenario
    \/ scenario = "prompt" /\ Prompt!Next /\ UNCHANGED scenario

MCSpec ==
    /\ MCInit /\ [][MCNext]_all
    /\ WF_all(scenario = "prompt" /\ Prompt!Tick /\ UNCHANGED scenario)
    /\ WF_all(scenario = "prompt" /\ Prompt!TimerExpires /\ UNCHANGED scenario)
    /\ WF_all(scenario = "prompt" /\ Prompt!Handler /\ UNCHANGED scenario)

(* KeepsProducing for a machine that keeps up with its timers: a node that *)
(* nothing hinders any more produces again and again.                      *)
PromptKeepsProducing == scenario = "prompt" => Prompt!KeepsProducing
=============================================================================

------------------------------- MODULE MCDesk -------------------------------
(* Around the radar: its event queue and the control room that owns it.  One *)
(* of the two is at work in each behaviour, the other stays in an initial    *)
(* state.  Two processes share one event; one process alone makes two of     *)
(* the same key.                                                             *)
EXTENDS EventBridge, ProcessManager

CONSTANTS p1, p2

VARIABLE part

MCSameKey == [e \in EventIds |-> "k"]

MCDeskInit ==
    /\ part \in {"bridge", "room"}
    /\ BridgeInit /\ RoomInit
    /\ radars \in (IF part = "bridge" THEN {{p1}, {p1, p2}} ELSE {{p1}})

MCDeskNext ==
    /\ UNCHANGED part
    /\ \/ /\ part = "bridge" /\ BridgeNext /\ UNCHANGED roomVars
          /\ Cardinality(radars) = 2 => ev'[2].status = "none" /\ \A p \in Processes : proc'[p].new # 2
       \/ part = "room" /\ RoomNext /\ UNCHANGED bridgeVars

\* BridgeFairness and RoomFairness; the room at rest has no fair step.
MCDeskSpec ==
    /\ MCDeskInit /\ [][MCDeskNext]_<<part, bridgeVars, roomVars>>
    /\ WF_bridgeVars(part = "bridge" /\ BridgeClock)
    /\ \A p \in Processes : WF_bridgeVars(part = "bridge" /\ RadarStep(p))
    /\ RoomFairness

(* Neither waits for good: a taken event is settled and an analysed one is   *)
(* PROCESSED in the end (recover_stale_processing), and a stop leaves        *)
(* STOPPING for an outcome the user can see (_stop_worker).                  *)
DeskSettles == EventsSettle /\ StopSettles
=============================================================================

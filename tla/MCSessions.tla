------------------------------ MODULE MCSessions ------------------------------
(***************************************************************************)
(* The transfers of blocks for TLC: with the SD card, and by the parallel  *)
(* link with the P4, of which the hand-over of Port C by levels, the       *)
(* session by packets and the records by bytes are conversations of their  *)
(* own.  UART1 carries no packet while the port is being handed over or    *)
(* carries records, a record is clocked only between two hand-overs, and   *)
(* the card is on other lines; so a behaviour is one of a single           *)
(* conversation, and component says of which.                              *)
(***************************************************************************)
EXTENDS SdDriver, ParallelSession, PortCHandover, ParallelRecord

VARIABLE component   \* "card", "handover", "session" or "record"

allVars == <<component, sdVars, vars, sessionVars, recordVars>>

MCInit ==
    /\ component \in {"card", "handover", "session", "record"}
    /\ SdDriverInit /\ Init /\ SessionInit /\ RecordInit
    /\ component # "card" => disk = [s \in Sectors |-> CHOOSE d \in Data : TRUE]
    /\ component # "handover" => dir = "forward"
    /\ component # "session" => transaction = 0
    /\ component # "record" => clock = 0

Of(part) == component = part /\ UNCHANGED component
MCNext ==
    \/ Of("card") /\ SdDriverNext /\ UNCHANGED <<vars, sessionVars, recordVars>>
    \/ Of("handover") /\ Next /\ UNCHANGED <<sdVars, sessionVars, recordVars>>
    \/ Of("session") /\ SessionNext /\ UNCHANGED <<sdVars, vars, recordVars>>
    \/ Of("record") /\ RecordNext /\ UNCHANGED <<sdVars, vars, sessionVars>>
    \/ component # "handover" /\ UNCHANGED allVars   \* all its calls are made

\* The fairness of PortCHandover and ParallelRecord, for the behaviours that are their own.
HandoverFairness ==
    /\ WF_vars(Of("handover") /\ Start) /\ WF_vars(Of("handover") /\ RequestRecovery)
    /\ WF_vars(Of("handover") /\ Connect) /\ WF_vars(Of("handover") /\ Coordinate)
    /\ WF_vars(Of("handover") /\ Peer)

MCSpec ==
    /\ MCInit /\ [][MCNext]_allVars
    /\ SdDriverFairness /\ HandoverFairness /\ WF_recordVars(Of("record") /\ RecordStep)

\* Neither side waits for ever: hand-overs complete (PortCHandover), and every call of the
\* record engine (ParallelRecord) and of the SD card driver (SdDriver) ends.
ConversationsEnd == HandoversComplete /\ CallsEnd /\ TransfersEnd
=============================================================================

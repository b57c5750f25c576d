--------------------------- MODULE MCPortCEpoch ---------------------------
(* Small instances of PortCEpoch for TLC: serial says which calls there are. *)
EXTENDS PortCEpoch, TLC

VARIABLE serial

\* The mode coordinator (emos.c) serialises the route's lifecycle in the
\* foreground; an interrupt may write, open and close UART1.
RouteCalls == 0 :> {"routeEnter", "routeLeave", "routeWrite", "openUart", "closeUart"}
              @@ 1 :> {"routeWrite", "write", "openUart", "closeUart"}

\* Any context may call anything, at any point, with a lease of its own.
AnyCalls == [c \in 0 .. 1 |-> {"enter", "leave", "write", "openUart", "closeUart"}]
Direct == INSTANCE PortCEpoch WITH Calls <- AnyCalls

MCInit == Init /\ serial \in BOOLEAN
MCNext == UNCHANGED serial /\ IF serial THEN Next ELSE Direct!Next
MCSpec == MCInit /\ [][MCNext]_<<vars, serial>> /\ \A c \in Ctx : SF_vars(Step(c))
============================================================================

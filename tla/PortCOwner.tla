---------------------------- MODULE PortCOwner ----------------------------
(* What the owner of Port C promises (src/emos_parallel.c, src/uart.c): the *)
(* port is free, or carries UART1, or carries one parallel epoch.  Every     *)
(* epoch has a number of its own that no later epoch reuses, and the port    *)
(* passes through "free" between two owners.                                 *)
EXTENDS Naturals

CONSTANT MaxGen           \* the last epoch number (0xFFFFFF in the code)

VARIABLES owner,          \* "free", "uart" or "epoch"
          generation      \* number of the last epoch granted, 0 before the first

Init == owner = "free" /\ generation = 0

GrantEpoch ==
    /\ owner = "free"
    /\ generation < MaxGen
    /\ owner' = "epoch"
    /\ generation' = generation + 1

GrantUart == owner = "free" /\ owner' = "uart" /\ UNCHANGED generation

Release == owner # "free" /\ owner' = "free" /\ UNCHANGED generation

Next == GrantEpoch \/ GrantUart \/ Release

Spec == Init /\ [][Next]_<<owner, generation>>
============================================================================

------------------------------ MODULE I2cMaster ------------------------------
(***************************************************************************)
(* The I2C master: the calls that start a transfer and wait for its end    *)
(* (i2c.c) and the interrupt that carries it, byte by byte, by the status  *)
(* the controller reports (interrupts.asm).  The controller, the bus and   *)
(* the slave are external: the slave may not answer, stop acknowledging,   *)
(* and another master may win the bus at any byte.                         *)
(*                                                                         *)
(* The waits compare a timer that counts down from 1152 with 2000, so      *)
(* their branch for a timeout is never taken and has no step here.         *)
(***************************************************************************)
EXTENDS Integers, Sequences

CONSTANTS
  MaxBuffer,     \* I2C_MAX_BUFFERLENGTH
  Sizes,         \* the sizes that callers ask for
  MaxI2cCalls    \* bound: calls

ASSUME I2cAssumption == MaxBuffer \in Nat \ {0} /\ Sizes \subseteq Nat /\ MaxI2cCalls \in Nat

VARIABLES
  i2c,      \* [role, error, left, next]: i2c_role, i2c_error, i2c_msg_size, i2c_msg_ptr
  status,   \* what the controller reports, "none" until it interrupts
  memory,   \* the caller's buffer
  slave,    \* the bytes the slave has taken or given
  caller,   \* [kind, size]: the call in progress
  returned, \* [kind, size, error, memory]: the last call
  i2cCalls

i2cVars == <<i2c, status, memory, slave, caller, returned, i2cCalls>>

NoCaller == [kind |-> "none", size |-> 0]
\* Byte i of a transfer, as the sender has it.
ByteAt(i) == i
Empty(n) == [i \in 1 .. n |-> 0]
Cut(size) == IF size > MaxBuffer THEN MaxBuffer ELSE size

-----------------------------------------------------------------------------
(* The calls.                                                              *)

I2cBegins(kind) == \E size \in Sizes :
  /\ caller = NoCaller /\ i2cCalls < MaxI2cCalls /\ i2cCalls' = i2cCalls + 1
  /\ kind = "read" => size > 0
  /\ caller' = [kind |-> kind, size |-> size]
  /\ memory' = IF kind = "write" THEN [i \in 1 .. size |-> ByteAt(i)] ELSE Empty(size)
  /\ i2c' = [role |-> kind, error |-> "ok", left |-> Cut(size), next |-> 1]
  /\ status' = "start" /\ slave' = << >> /\ UNCHANGED returned

mos_I2C_WRITE == i2c.role = "idle" /\ I2cBegins("write")
mos_I2C_READ == i2c.role = "idle" /\ I2cBegins("read")

\* The wait ends when the interrupt has made the role idle.
I2cReturns ==
  /\ caller # NoCaller /\ i2c.role = "idle"
  /\ returned' = [kind |-> caller.kind, size |-> caller.size, error |-> i2c.error, memory |-> memory]
  /\ caller' = NoCaller
  /\ UNCHANGED <<i2c, status, memory, slave, i2cCalls>>

-----------------------------------------------------------------------------
(* The interrupt.                                                          *)

Reports(s) == status = s /\ UNCHANGED <<caller, returned, i2cCalls>>
\* i2c_sendstop: the bus is released and the role idle.
SendStop(error) == i2c' = [i2c EXCEPT !.role = "idle", !.error = error] /\ status' = "none"

\* The address is sent; the slave answers to it, or another master has won.
i2c_case_master_start ==
  /\ Reports("start")
  /\ status' \in {"addressed", "nobody", "lost", "buserror"}
  /\ UNCHANGED <<i2c, memory, slave>>

i2c_case_db_acked ==
  /\ Reports("addressed") /\ i2c.role = "write"
  /\ \/ i2c.left = 0 /\ SendStop(i2c.error) /\ UNCHANGED slave
     \/ /\ i2c.left > 0
        /\ i2c' = [i2c EXCEPT !.left = @ - 1, !.next = @ + 1]
        /\ \/ status' = "addressed" /\ slave' = Append(slave, memory[i2c.next])
           \/ status' \in {"refused", "lost"} /\ UNCHANGED slave
  /\ UNCHANGED memory

\* A seeded fault: the byte after the last one is refused.
OneLeftLate == i2c.left = 0
OneLeft == i2c.left = 1
\* After the address and after each byte but the last: the master acknowledges
\* the next byte unless it is the last one.
AcceptsNext(next) ==
  /\ i2c' = [i2c EXCEPT !.left = @ - 1, !.next = next]
  /\ \/ status' = IF OneLeft THEN "lastbyte" ELSE "byte"
     \/ status' = "lost"
i2c_case_mr_ar_ack ==
  /\ Reports("addressed") /\ i2c.role = "read"
  /\ AcceptsNext(i2c.next) /\ UNCHANGED <<memory, slave>>

Stores ==
  /\ slave' = Append(slave, ByteAt(Len(slave) + 1))
  /\ memory' = [memory EXCEPT ![i2c.next] = ByteAt(Len(slave) + 1)]
i2c_case_mr_dbr_ack == Reports("byte") /\ Stores /\ AcceptsNext(i2c.next + 1)
i2c_case_mr_dbr_nack == Reports("lastbyte") /\ Stores /\ SendStop(i2c.error)

i2c_case_aw_nacked == Reports("nobody") /\ SendStop("noresponse") /\ UNCHANGED <<memory, slave>>
i2c_case_db_nacked == Reports("refused") /\ SendStop("datanack") /\ UNCHANGED <<memory, slave>>
i2c_case_arblost == Reports("lost") /\ SendStop("arblost") /\ UNCHANGED <<memory, slave>>
i2c_case_buserror == Reports("buserror") /\ SendStop("buserror") /\ UNCHANGED <<memory, slave>>

-----------------------------------------------------------------------------
I2cInit ==
  /\ i2c = [role |-> "idle", error |-> "ok", left |-> 0, next |-> 1]
  /\ status = "none" /\ memory = << >> /\ slave = << >> /\ caller = NoCaller
  /\ returned = [kind |-> "none", size |-> 0, error |-> "none", memory |-> << >>]
  /\ i2cCalls = 0

I2cNext ==
  \/ mos_I2C_WRITE \/ mos_I2C_READ \/ I2cReturns
  \/ i2c_case_master_start \/ i2c_case_db_acked \/ i2c_case_mr_ar_ack
  \/ i2c_case_mr_dbr_ack \/ i2c_case_mr_dbr_nack
  \/ i2c_case_aw_nacked \/ i2c_case_db_nacked \/ i2c_case_arblost \/ i2c_case_buserror

I2cSpec == I2cInit /\ [][I2cNext]_i2cVars

\* A transfer that returned without an error has carried its bytes, as many as
\* the buffer of the controller allows, in order, and nothing behind them; the
\* interrupt is then done with the caller's buffer, of which it has never
\* touched more than the caller gave (the cases of i2c_handler count i2c_msg_size
\* down and i2c_msg_ptr up on different statuses).
I2cTransfersAreWhole ==
  /\ i2c.role # "idle" => i2c.next \in 1 .. Len(memory) + 1
  /\ caller = NoCaller => status = "none" /\ i2c.role = "idle"
  /\ returned.error = "ok" /\ caller = NoCaller =>
       /\ slave = [i \in 1 .. Cut(returned.size) |-> ByteAt(i)]
       /\ returned.kind = "read" =>
            returned.memory = [i \in 1 .. returned.size |-> IF i <= MaxBuffer THEN ByteAt(i) ELSE 0]
=============================================================================

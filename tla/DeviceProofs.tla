---------------------------- MODULE DeviceProofs ----------------------------
(***************************************************************************)
(* Proofs about the device drivers: the I2C master, for every size of the  *)
(* buffer and of the transfers, the SD card driver, for every card, every  *)
(* transfer and every number of faults, and the link of the mainboard VDP, *)
(* for all packets and any number of requests and changes of the route.    *)
(* And about the calls of programs into MOS, for every segment.            *)
(***************************************************************************)
EXTENDS I2cMaster, SdDriver, VdpLink, MosApi, SequenceTheorems, TLAPS

-----------------------------------------------------------------------------
(* The I2C master.                                                         *)

I2cErrors == {"ok", "noresponse", "datanack", "arblost", "buserror"}
I2cRecord == i2c \in [role : {"idle", "write", "read"}, error : I2cErrors, left : Nat, next : Nat \ {0}]
CallTypes ==
    /\ i2cCalls \in Nat
    /\ caller \in {NoCaller} \cup [kind : {"write", "read"}, size : Sizes]
    /\ returned \in [kind : {"none", "write", "read"}, size : Nat,
                     error : I2cErrors \cup {"none"}, memory : Seq(Nat)]
BufferTypes == memory \in Seq(Nat) /\ slave \in Seq(Nat)
I2cTypes == I2cRecord /\ CallTypes /\ BufferTypes

\* Byte i is the i-th, up to n; what is behind it is 0.
InOrder(s) == \A i \in 1 .. Len(s) : s[i] = i
Filling(s, n) == \A i \in 1 .. Len(s) : s[i] = IF i <= n THEN i ELSE 0

\* The statuses that the interrupt goes on from, by role; the others end it.
Ending == {"lost", "buserror", "nobody", "refused"}

\* A transfer is under way exactly while a status is awaited.
TransferInv ==
    /\ InOrder(slave)
    /\ status = "none" <=> i2c.role = "idle"
    /\ caller = NoCaller => i2c.role = "idle"
    /\ caller # NoCaller => Len(memory) = caller.size
    /\ i2c.role # "idle" => /\ i2c.role = caller.kind /\ i2c.error = "ok"
                            /\ i2c.next <= Cut(caller.size) + 1

\* The bytes that are left and those that have gone are the transfer.
WriteInv ==
    i2c.role = "write" =>
        /\ InOrder(memory)
        /\ status \in Ending \/
             /\ status \in {"start", "addressed"}
             /\ i2c.next = Len(slave) + 1 /\ i2c.left + Len(slave) = Cut(caller.size)
ReadInv ==
    i2c.role = "read" =>
        /\ Filling(memory, i2c.next - 1)
        /\ status \in {"start", "addressed", "byte", "lastbyte"} => Len(slave) = i2c.next - 1
        /\ \/ status \in Ending
           \/ status \in {"start", "addressed"} /\ i2c.next = 1 /\ i2c.left = Cut(caller.size) /\ 0 < i2c.left
           \/ status = "byte" /\ i2c.left = Cut(caller.size) - i2c.next /\ 0 < i2c.left
           \/ status = "lastbyte" /\ i2c.next = Cut(caller.size)

\* What has ended without an error is whole, and stays so until the next call.
WholeInv ==
    /\ caller # NoCaller /\ i2c.role = "idle" /\ i2c.error = "ok" =>
         /\ Len(slave) = Cut(caller.size)
         /\ caller.kind = "read" => Filling(memory, MaxBuffer)
    /\ caller = NoCaller /\ returned.error = "ok" =>
         /\ Len(slave) = Cut(returned.size) /\ Len(returned.memory) = returned.size
         /\ returned.kind = "read" => Filling(returned.memory, MaxBuffer)

I2cInv == I2cTypes /\ TransferInv /\ WriteInv /\ ReadInv /\ WholeInv


\* What a transfer is cut to, and the buffers that the calls set up.
LEMMA CutRange ==
    ASSUME NEW size \in Nat
    PROVE  /\ Cut(size) \in Nat /\ Cut(size) <= size /\ Cut(size) <= MaxBuffer
           /\ 0 < size => 0 < Cut(size)
           /\ \A i \in 1 .. size : i <= Cut(size) <=> i <= MaxBuffer
BY I2cAssumption DEF Cut

\* The buffers that the calls set up are sequences of the size asked for.
LEMMA Buffers ==
    \A size \in Nat : /\ Empty(size) \in Seq(Nat) /\ Len(Empty(size)) = size /\ Filling(Empty(size), 0)
                       /\ [i \in 1 .. size |-> ByteAt(i)] \in Seq(Nat)
                       /\ Len([i \in 1 .. size |-> ByteAt(i)]) = size
                       /\ InOrder([i \in 1 .. size |-> ByteAt(i)])
<1> SUFFICES ASSUME NEW size \in Nat
             PROVE  /\ Empty(size) \in Seq(Nat) /\ Len(Empty(size)) = size /\ Filling(Empty(size), 0)
                    /\ [i \in 1 .. size |-> ByteAt(i)] \in Seq(Nat)
                    /\ Len([i \in 1 .. size |-> ByteAt(i)]) = size
                    /\ InOrder([i \in 1 .. size |-> ByteAt(i)])
    OBVIOUS
<1>1. Empty(size) \in Seq(Nat) /\ Len(Empty(size)) = size
    BY DEF Empty
<1>2. Filling(Empty(size), 0)
    BY <1>1 DEF Empty, Filling
<1>3. [i \in 1 .. size |-> ByteAt(i)] \in Seq(Nat) /\ Len([i \in 1 .. size |-> ByteAt(i)]) = size
    BY DEF ByteAt
<1>4. InOrder([i \in 1 .. size |-> ByteAt(i)])
    BY <1>3 DEF ByteAt, InOrder
<1> QED BY <1>1, <1>2, <1>3, <1>4

\* One more byte for the slave, or from it into the buffer.
LEMMA NextByte ==
    ASSUME NEW s \in Seq(Nat), InOrder(s), NEW b, b = Len(s) + 1
    PROVE  Append(s, b) \in Seq(Nat) /\ Len(Append(s, b)) = Len(s) + 1 /\ InOrder(Append(s, b))
<1>1. Append(s, b) \in Seq(Nat) /\ Len(Append(s, b)) = Len(s) + 1 /\ Append(s, b)[Len(s) + 1] = b
    OBVIOUS
<1>2. \A i \in 1 .. Len(s) : Append(s, b)[i] = s[i]
    OBVIOUS
<1> QED BY <1>1, <1>2 DEF InOrder

\* One more byte stored in order.
LEMMA StoredByte ==
    ASSUME NEW s \in Seq(Nat), NEW n \in 1 .. Len(s), Filling(s, n - 1)
    PROVE  /\ [s EXCEPT ![n] = n] \in Seq(Nat) /\ Len([s EXCEPT ![n] = n]) = Len(s)
           /\ Filling([s EXCEPT ![n] = n], n)
<1>1. [s EXCEPT ![n] = n] \in Seq(Nat) /\ Len([s EXCEPT ![n] = n]) = Len(s)
    OBVIOUS
<1>2. \A i \in 1 .. Len(s) : [s EXCEPT ![n] = n][i] = IF i = n THEN n ELSE s[i]
    OBVIOUS
<1> QED BY <1>1, <1>2 DEF Filling

\* The call in progress.
LEMMA CallSize ==
    I2cTypes => /\ caller.size \in Nat /\ Cut(caller.size) \in Nat /\ Cut(caller.size) <= caller.size
                /\ Cut(caller.size) <= MaxBuffer /\ Len(slave) \in Nat /\ Len(memory) \in Nat
<1> SUFFICES ASSUME I2cTypes
             PROVE  /\ caller.size \in Nat /\ Cut(caller.size) \in Nat /\ Cut(caller.size) <= caller.size
                    /\ Cut(caller.size) <= MaxBuffer /\ Len(slave) \in Nat /\ Len(memory) \in Nat
    OBVIOUS
<1>1. caller.size \in Nat
  <2>1. CASE caller = NoCaller
      BY <2>1 DEF NoCaller
  <2>2. CASE caller \in [kind : {"write", "read"}, size : Sizes]
      BY <2>2, I2cAssumption
  <2> QED BY <2>1, <2>2 DEF I2cTypes, I2cRecord, CallTypes, BufferTypes
<1>2. Cut(caller.size) \in Nat /\ Cut(caller.size) <= caller.size /\ Cut(caller.size) <= MaxBuffer
    BY <1>1, CutRange
<1>3. Len(slave) \in Nat /\ Len(memory) \in Nat
    BY LenProperties DEF I2cTypes, I2cRecord, CallTypes, BufferTypes
<1> QED BY <1>1, <1>2, <1>3

\* What a call sets up.
Sets(kind, size) ==
    /\ caller = NoCaller /\ caller' = [kind |-> kind, size |-> size]
    /\ memory' \in Seq(Nat) /\ Len(memory') = size
    /\ kind = "write" => InOrder(memory')
    /\ kind = "read" => 0 < Cut(size) /\ Filling(memory', 0)
    /\ i2c' = [role |-> kind, error |-> "ok", left |-> Cut(size), next |-> 1] /\ Cut(size) \in Nat
    /\ status' = "start" /\ slave' = <<>> /\ UNCHANGED returned /\ i2cCalls' = i2cCalls + 1

\* A call sets up the transfer and the caller's buffer for some size.
LEMMA BeginCases ==
    ASSUME NEW kind \in {"write", "read"}, I2cBegins(kind)
    PROVE  \E size \in Sizes : Sets(kind, size)
<1>1. PICK size \in Sizes : I2cBegins(kind)!(size)
    BY DEF I2cBegins
<1>2. size \in Nat
    BY I2cAssumption
<1>3. /\ memory' \in Seq(Nat) /\ Len(memory') = size
      /\ kind = "write" => InOrder(memory')
      /\ kind = "read" => Filling(memory', 0)
    BY <1>1, <1>2, Buffers
<1>4. Cut(size) \in Nat /\ (kind = "read" => 0 < Cut(size))
    BY <1>1, <1>2, CutRange
<1>5. Sets(kind, size)
    BY <1>1, <1>3, <1>4 DEF Sets
<1> QED BY <1>5

\* A byte from the slave, stored.
LEMMA StoreCases ==
    ASSUME I2cInv, status \in {"byte", "lastbyte"}, i2c.role = "read", Stores
    PROVE  /\ slave' \in Seq(Nat) /\ Len(slave') = Len(slave) + 1 /\ InOrder(slave')
           /\ memory' \in Seq(Nat) /\ Len(memory') = Len(memory) /\ Filling(memory', i2c.next)
<1>1. Len(slave) + 1 = i2c.next /\ i2c.next \in 1 .. Len(memory) /\ Filling(memory, i2c.next - 1)
    BY CallSize DEF I2cInv, I2cTypes, I2cRecord, CallTypes, BufferTypes, TransferInv, ReadInv, Ending
<1>2. memory' = [memory EXCEPT ![i2c.next] = i2c.next] /\ slave' = Append(slave, Len(slave) + 1)
    BY <1>1 DEF Stores, ByteAt
<1> QED BY <1>1, <1>2, NextByte, StoredByte DEF I2cInv, I2cTypes, I2cRecord, CallTypes, BufferTypes, TransferInv

\* A byte to the slave.
LEMMA SendCases ==
    ASSUME I2cInv, status = "addressed", i2c.role = "write", 0 < i2c.left,
           slave' = Append(slave, memory[i2c.next])
    PROVE  slave' \in Seq(Nat) /\ Len(slave') = Len(slave) + 1 /\ InOrder(slave')
<1>1. Len(slave) + 1 = i2c.next /\ i2c.next \in 1 .. Len(memory) /\ InOrder(memory)
    BY CallSize DEF I2cInv, I2cTypes, I2cRecord, CallTypes, BufferTypes, TransferInv, WriteInv, Ending
<1>2. memory[i2c.next] = Len(slave) + 1
    BY <1>1 DEF InOrder
<1> QED BY <1>2, NextByte DEF I2cInv, I2cTypes, I2cRecord, CallTypes, BufferTypes, TransferInv
\* One byte fewer to go.
Counts(next) ==
    /\ I2cRecord' /\ i2c'.role = i2c.role /\ i2c'.error = i2c.error
    /\ i2c'.left = i2c.left - 1 /\ i2c'.next = next

\* A byte less to transfer.
LEMMA OneLess ==
    ASSUME I2cRecord, 0 < i2c.left, NEW n \in Nat \ {0}, i2c' = [i2c EXCEPT !.left = @ - 1, !.next = n]
    PROVE  Counts(n)
<1>1. ASSUME NEW l \in Nat, i2c' = [i2c EXCEPT !.left = l, !.next = n]
      PROVE  /\ i2c' \in [role : {"idle", "write", "read"}, error : I2cErrors, left : Nat, next : Nat \ {0}]
             /\ i2c'.role = i2c.role /\ i2c'.error = i2c.error /\ i2c'.left = l /\ i2c'.next = n
    BY <1>1 DEF I2cRecord
<1>2. i2c.left - 1 \in Nat
    BY DEF I2cRecord
<1> QED BY <1>1, <1>2, Zenon DEF Counts, I2cRecord

\* What the interrupt does for the statuses that it goes on from.
Others == UNCHANGED <<caller, returned, i2cCalls>>
AckEnds == i2c.left = 0 /\ SendStop("ok") /\ UNCHANGED slave
AckSends ==
    /\ 0 < i2c.left /\ Counts(i2c.next + 1) /\ status' = "addressed"
    /\ slave' \in Seq(Nat) /\ Len(slave') = Len(slave) + 1 /\ InOrder(slave')
AckFails == 0 < i2c.left /\ Counts(i2c.next + 1) /\ status' \in {"refused", "lost"} /\ UNCHANGED slave

\* A byte was acknowledged: the next one is sent, the transfer ends, or it fails.
LEMMA AckCases ==
    ASSUME I2cInv, i2c_case_db_acked
    PROVE  /\ status = "addressed" /\ i2c.role = "write" /\ UNCHANGED memory /\ Others
           /\ AckEnds \/ AckSends \/ AckFails
<1>1. /\ status = "addressed" /\ i2c.role = "write" /\ UNCHANGED memory /\ Others
      /\ I2cRecord /\ i2c.error = "ok" /\ i2c.left \in Nat /\ i2c.next + 1 \in Nat \ {0}
    BY DEF i2c_case_db_acked, Reports, Others, I2cInv, I2cTypes, I2cRecord, TransferInv
<1>2. CASE i2c.left = 0
    BY <1>1, <1>2 DEF i2c_case_db_acked, AckEnds
<1>3. CASE i2c.left # 0
  <2>1. 0 < i2c.left
      BY <1>1, <1>3
  <2>2. i2c' = [i2c EXCEPT !.left = @ - 1, !.next = i2c.next + 1]
      BY <1>3 DEF i2c_case_db_acked
  <2>3. Counts(i2c.next + 1)
      BY <1>1, <2>1, <2>2, OneLess
  <2>4. CASE status' = "addressed" /\ slave' = Append(slave, memory[i2c.next])
      BY <1>1, <2>1, <2>3, <2>4, SendCases DEF AckSends
  <2>5. CASE status' \in {"refused", "lost"} /\ UNCHANGED slave
      BY <1>1, <2>1, <2>3, <2>5 DEF AckFails
  <2> QED BY <1>1, <1>3, <2>4, <2>5 DEF i2c_case_db_acked
<1> QED BY <1>1, <1>2, <1>3

AddressGoes == /\ status' = (IF i2c.left = 1 THEN "lastbyte" ELSE "byte") \/ status' = "lost"
               /\ 0 < i2c.left

\* The slave acknowledged its address for a read.
LEMMA AddressCases ==
    ASSUME I2cInv, i2c_case_mr_ar_ack
    PROVE  /\ status = "addressed" /\ i2c.role = "read" /\ Counts(i2c.next) /\ AddressGoes
           /\ UNCHANGED <<memory, slave>> /\ Others
<1>1. /\ status = "addressed" /\ i2c.role = "read" /\ UNCHANGED <<memory, slave>> /\ Others
      /\ I2cRecord /\ i2c.next \in Nat \ {0}
    BY DEF i2c_case_mr_ar_ack, Reports, Others, I2cInv, I2cTypes, I2cRecord
<1>2. 0 < i2c.left
    BY <1>1 DEF I2cInv, ReadInv, Ending
<1>3. i2c' = [i2c EXCEPT !.left = @ - 1, !.next = i2c.next] /\ AddressGoes
    BY <1>2 DEF i2c_case_mr_ar_ack, AcceptsNext, OneLeft, AddressGoes
<1> QED BY <1>1, <1>2, <1>3, OneLess

\* A byte was read that is not the last.
LEMMA DataCases ==
    ASSUME I2cInv, i2c_case_mr_dbr_ack
    PROVE  /\ status = "byte" /\ i2c.role = "read" /\ Counts(i2c.next + 1) /\ AddressGoes
           /\ i2c.next < Cut(caller.size)
           /\ slave' \in Seq(Nat) /\ Len(slave') = Len(slave) + 1 /\ InOrder(slave')
           /\ memory' \in Seq(Nat) /\ Len(memory') = Len(memory) /\ Filling(memory', i2c.next)
           /\ Others
<1>1. /\ status = "byte" /\ Stores /\ Others
      /\ I2cRecord /\ i2c.next + 1 \in Nat \ {0}
    BY DEF i2c_case_mr_dbr_ack, Reports, Others, I2cInv, I2cTypes, I2cRecord
<1>2. i2c.role = "read"
    BY <1>1 DEF I2cInv, I2cTypes, I2cRecord, TransferInv, WriteInv, Ending
<1>3. 0 < i2c.left /\ i2c.next < Cut(caller.size)
    BY <1>1, <1>2, CallSize DEF I2cInv, I2cTypes, I2cRecord, ReadInv, Ending
<1>4. i2c' = [i2c EXCEPT !.left = @ - 1, !.next = i2c.next + 1] /\ AddressGoes
    BY <1>3 DEF i2c_case_mr_dbr_ack, AcceptsNext, OneLeft, AddressGoes
<1> QED BY <1>1, <1>2, <1>3, <1>4, OneLess, StoreCases

\* The last byte was read, and the transfer is over.
LEMMA LastCases ==
    ASSUME I2cInv, i2c_case_mr_dbr_nack
    PROVE  /\ status = "lastbyte" /\ i2c.role = "read" /\ SendStop("ok")
           /\ i2c.next = Cut(caller.size) /\ Len(slave) = i2c.next - 1
           /\ slave' \in Seq(Nat) /\ Len(slave') = Len(slave) + 1 /\ InOrder(slave')
           /\ memory' \in Seq(Nat) /\ Len(memory') = Len(memory) /\ Filling(memory', i2c.next)
           /\ Others
<1>1. status = "lastbyte" /\ Stores /\ Others /\ SendStop(i2c.error)
    BY DEF i2c_case_mr_dbr_nack, Reports, Others
<1>2. i2c.role = "read" /\ i2c.error = "ok"
    BY <1>1 DEF I2cInv, I2cTypes, I2cRecord, TransferInv, WriteInv, Ending
<1>3. i2c.next = Cut(caller.size) /\ Len(slave) = i2c.next - 1
    BY <1>1, <1>2 DEF I2cInv, ReadInv, Ending
<1> QED BY <1>1, <1>2, <1>3, StoreCases


\* The transfer keeps its type.
LEMMA I2cRecordStep == I2cInv /\ [I2cNext]_i2cVars => I2cRecord'
<1> SUFFICES ASSUME I2cInv, [I2cNext]_i2cVars PROVE I2cRecord'
    OBVIOUS
<1>1. I2cRecord
    BY DEF I2cInv, I2cTypes
<1>2. CallTypes
    BY DEF I2cInv, I2cTypes
<1>3. BufferTypes
    BY DEF I2cInv, I2cTypes
<1>4. TransferInv
    BY DEF I2cInv, I2cTypes
<1>5. WriteInv
    BY DEF I2cInv, I2cTypes
<1>6. ReadInv
    BY DEF I2cInv, I2cTypes
<1>7. WholeInv
    BY DEF I2cInv, I2cTypes
<1>8. Cut(caller.size) \in Nat /\ caller.size \in Nat /\ Len(slave) \in Nat /\ Len(memory) \in Nat
    BY CallSize DEF I2cInv
<1>9. CASE UNCHANGED i2cVars
    BY <1>1, <1>2, <1>3, <1>4, <1>5, <1>6, <1>7, <1>8, <1>9, I2cAssumption DEF
       I2cRecord, CallTypes, BufferTypes, TransferInv, WriteInv, ReadInv, WholeInv,
       I2cErrors, ByteAt, NoCaller, Ending, i2cVars
<1>10. CASE mos_I2C_WRITE
  <2>1. PICK size \in Sizes : Sets("write", size)
      BY <1>10, BeginCases DEF mos_I2C_WRITE
  <2>2. /\ caller' # NoCaller /\ caller'.kind = "write" /\ caller'.size = size /\ i2c'.role = "write"
        /\ i2c'.error = "ok" /\ i2c'.next = 1 /\ Len(slave') = 0 /\ InOrder(slave')
      BY <2>1 DEF Sets, NoCaller, InOrder
  <2> QED BY <1>1, <1>2, <1>3, <1>4, <1>5, <1>6, <1>7, <1>8, <2>1, <2>2,
     I2cAssumption DEF Sets, I2cRecord, CallTypes, BufferTypes, TransferInv,
     WriteInv, ReadInv, WholeInv, I2cErrors, ByteAt, NoCaller, Ending
<1>11. CASE mos_I2C_READ
  <2>1. PICK size \in Sizes : Sets("read", size)
      BY <1>11, BeginCases DEF mos_I2C_READ
  <2>2. /\ caller' # NoCaller /\ caller'.kind = "read" /\ caller'.size = size /\ i2c'.role = "read"
        /\ i2c'.error = "ok" /\ i2c'.next = 1 /\ Len(slave') = 0 /\ InOrder(slave')
      BY <2>1 DEF Sets, NoCaller, InOrder
  <2> QED BY <1>1, <1>2, <1>3, <1>4, <1>5, <1>6, <1>7, <1>8, <2>1, <2>2,
     I2cAssumption DEF Sets, I2cRecord, CallTypes, BufferTypes, TransferInv,
     WriteInv, ReadInv, WholeInv, I2cErrors, ByteAt, NoCaller, Ending
<1>12. CASE I2cReturns
    BY <1>1, <1>2, <1>3, <1>4, <1>5, <1>6, <1>7, <1>8, <1>12, I2cAssumption DEF
       I2cRecord, CallTypes, BufferTypes, TransferInv, WriteInv, ReadInv, WholeInv,
       I2cErrors, ByteAt, NoCaller, Ending, I2cReturns
<1>13. CASE i2c_case_master_start
    BY <1>1, <1>2, <1>3, <1>4, <1>5, <1>6, <1>7, <1>8, <1>13, I2cAssumption DEF
       I2cRecord, CallTypes, BufferTypes, TransferInv, WriteInv, ReadInv, WholeInv,
       I2cErrors, ByteAt, NoCaller, Ending, i2c_case_master_start, Reports
<1>14. CASE i2c_case_db_acked
  <2>1. CASE AckEnds
      BY <1>1, <1>2, <1>3, <1>4, <1>5, <1>6, <1>7, <1>8, <1>14, <2>1, AckCases DEF
         I2cRecord, CallTypes, BufferTypes, TransferInv, WriteInv, ReadInv, WholeInv,
         I2cErrors, ByteAt, NoCaller, Ending, AckEnds, AckSends, AckFails, SendStop,
         Counts, Others
  <2>2. CASE AckSends
      BY <1>1, <1>2, <1>3, <1>4, <1>5, <1>6, <1>7, <1>8, <1>14, <2>2, AckCases DEF
         I2cRecord, CallTypes, BufferTypes, TransferInv, WriteInv, ReadInv, WholeInv,
         I2cErrors, ByteAt, NoCaller, Ending, AckEnds, AckSends, AckFails, SendStop,
         Counts, Others
  <2>3. CASE AckFails
      BY <1>1, <1>2, <1>3, <1>4, <1>5, <1>6, <1>7, <1>8, <1>14, <2>3, AckCases DEF
         I2cRecord, CallTypes, BufferTypes, TransferInv, WriteInv, ReadInv, WholeInv,
         I2cErrors, ByteAt, NoCaller, Ending, AckEnds, AckSends, AckFails, SendStop,
         Counts, Others
  <2> QED BY <1>14, <2>1, <2>2, <2>3, AckCases DEF AddressGoes
<1>15. CASE i2c_case_mr_ar_ack
  <2>1. CASE status' = (IF i2c.left = 1 THEN "lastbyte" ELSE "byte")
      BY <1>1, <1>2, <1>3, <1>4, <1>5, <1>6, <1>7, <1>8, <1>15, <2>1, AddressCases DEF
         I2cRecord, CallTypes, BufferTypes, TransferInv, WriteInv, ReadInv, WholeInv,
         I2cErrors, ByteAt, NoCaller, Ending, AddressGoes, Counts, Others
  <2>2. CASE status' = "lost"
      BY <1>1, <1>2, <1>3, <1>4, <1>5, <1>6, <1>7, <1>8, <1>15, <2>2, AddressCases DEF
         I2cRecord, CallTypes, BufferTypes, TransferInv, WriteInv, ReadInv, WholeInv,
         I2cErrors, ByteAt, NoCaller, Ending, AddressGoes, Counts, Others
  <2> QED BY <1>15, <2>1, <2>2, AddressCases DEF AddressGoes
<1>16. CASE i2c_case_mr_dbr_ack
  <2>1. CASE status' = (IF i2c.left = 1 THEN "lastbyte" ELSE "byte")
      BY <1>1, <1>2, <1>3, <1>4, <1>5, <1>6, <1>7, <1>8, <1>16, <2>1, DataCases DEF
         I2cRecord, CallTypes, BufferTypes, TransferInv, WriteInv, ReadInv, WholeInv,
         I2cErrors, ByteAt, NoCaller, Ending, AddressGoes, Counts, Others
  <2>2. CASE status' = "lost"
      BY <1>1, <1>2, <1>3, <1>4, <1>5, <1>6, <1>7, <1>8, <1>16, <2>2, DataCases DEF
         I2cRecord, CallTypes, BufferTypes, TransferInv, WriteInv, ReadInv, WholeInv,
         I2cErrors, ByteAt, NoCaller, Ending, AddressGoes, Counts, Others
  <2> QED BY <1>16, <2>1, <2>2, DataCases DEF AddressGoes
<1>17. CASE i2c_case_mr_dbr_nack
    BY <1>1, <1>2, <1>3, <1>4, <1>5, <1>6, <1>7, <1>8, <1>17, LastCases DEF I2cRecord,
       CallTypes, BufferTypes, TransferInv, WriteInv, ReadInv, WholeInv, I2cErrors,
       ByteAt, NoCaller, Ending, SendStop, Others
<1>18. CASE i2c_case_aw_nacked
    BY <1>1, <1>2, <1>3, <1>4, <1>5, <1>6, <1>7, <1>8, <1>18, I2cAssumption DEF
       I2cRecord, CallTypes, BufferTypes, TransferInv, WriteInv, ReadInv, WholeInv,
       I2cErrors, ByteAt, NoCaller, Ending, i2c_case_aw_nacked, Reports, SendStop
<1>19. CASE i2c_case_db_nacked
    BY <1>1, <1>2, <1>3, <1>4, <1>5, <1>6, <1>7, <1>8, <1>19, I2cAssumption DEF
       I2cRecord, CallTypes, BufferTypes, TransferInv, WriteInv, ReadInv, WholeInv,
       I2cErrors, ByteAt, NoCaller, Ending, i2c_case_db_nacked, Reports, SendStop
<1>20. CASE i2c_case_arblost
    BY <1>1, <1>2, <1>3, <1>4, <1>5, <1>6, <1>7, <1>8, <1>20, I2cAssumption DEF
       I2cRecord, CallTypes, BufferTypes, TransferInv, WriteInv, ReadInv, WholeInv,
       I2cErrors, ByteAt, NoCaller, Ending, i2c_case_arblost, Reports, SendStop
<1>21. CASE i2c_case_buserror
    BY <1>1, <1>2, <1>3, <1>4, <1>5, <1>6, <1>7, <1>8, <1>21, I2cAssumption DEF
       I2cRecord, CallTypes, BufferTypes, TransferInv, WriteInv, ReadInv, WholeInv,
       I2cErrors, ByteAt, NoCaller, Ending, i2c_case_buserror, Reports, SendStop
<1> QED BY <1>9, <1>10, <1>11, <1>12, <1>13, <1>14, <1>15, <1>16, <1>17, <1>18,
   <1>19, <1>20, <1>21 DEF I2cNext

\* The call keeps its type, and so does what it returned.
LEMMA CallTypesStep == I2cInv /\ [I2cNext]_i2cVars => CallTypes'
<1> SUFFICES ASSUME I2cInv, [I2cNext]_i2cVars PROVE CallTypes'
    OBVIOUS
<1>1. I2cRecord
    BY DEF I2cInv, I2cTypes
<1>2. CallTypes
    BY DEF I2cInv, I2cTypes
<1>3. BufferTypes
    BY DEF I2cInv, I2cTypes
<1>4. TransferInv
    BY DEF I2cInv, I2cTypes
<1>5. WriteInv
    BY DEF I2cInv, I2cTypes
<1>6. ReadInv
    BY DEF I2cInv, I2cTypes
<1>7. WholeInv
    BY DEF I2cInv, I2cTypes
<1>8. Cut(caller.size) \in Nat /\ caller.size \in Nat /\ Len(slave) \in Nat /\ Len(memory) \in Nat
    BY CallSize DEF I2cInv
<1>9. CASE UNCHANGED i2cVars
    BY <1>1, <1>2, <1>3, <1>4, <1>5, <1>6, <1>7, <1>8, <1>9, I2cAssumption DEF
       I2cRecord, CallTypes, BufferTypes, TransferInv, WriteInv, ReadInv, WholeInv,
       I2cErrors, ByteAt, NoCaller, Ending, i2cVars
<1>10. CASE mos_I2C_WRITE
  <2>1. PICK size \in Sizes : Sets("write", size)
      BY <1>10, BeginCases DEF mos_I2C_WRITE
  <2>2. /\ caller' # NoCaller /\ caller'.kind = "write" /\ caller'.size = size /\ i2c'.role = "write"
        /\ i2c'.error = "ok" /\ i2c'.next = 1 /\ Len(slave') = 0 /\ InOrder(slave')
      BY <2>1 DEF Sets, NoCaller, InOrder
  <2> QED BY <1>1, <1>2, <1>3, <1>4, <1>5, <1>6, <1>7, <1>8, <2>1, <2>2,
     I2cAssumption DEF Sets, I2cRecord, CallTypes, BufferTypes, TransferInv,
     WriteInv, ReadInv, WholeInv, I2cErrors, ByteAt, NoCaller, Ending
<1>11. CASE mos_I2C_READ
  <2>1. PICK size \in Sizes : Sets("read", size)
      BY <1>11, BeginCases DEF mos_I2C_READ
  <2>2. /\ caller' # NoCaller /\ caller'.kind = "read" /\ caller'.size = size /\ i2c'.role = "read"
        /\ i2c'.error = "ok" /\ i2c'.next = 1 /\ Len(slave') = 0 /\ InOrder(slave')
      BY <2>1 DEF Sets, NoCaller, InOrder
  <2> QED BY <1>1, <1>2, <1>3, <1>4, <1>5, <1>6, <1>7, <1>8, <2>1, <2>2,
     I2cAssumption DEF Sets, I2cRecord, CallTypes, BufferTypes, TransferInv,
     WriteInv, ReadInv, WholeInv, I2cErrors, ByteAt, NoCaller, Ending
<1>12. CASE I2cReturns
    BY <1>1, <1>2, <1>3, <1>4, <1>5, <1>6, <1>7, <1>8, <1>12, I2cAssumption DEF
       I2cRecord, CallTypes, BufferTypes, TransferInv, WriteInv, ReadInv, WholeInv,
       I2cErrors, ByteAt, NoCaller, Ending, I2cReturns
<1>13. CASE i2c_case_master_start
    BY <1>1, <1>2, <1>3, <1>4, <1>5, <1>6, <1>7, <1>8, <1>13, I2cAssumption DEF
       I2cRecord, CallTypes, BufferTypes, TransferInv, WriteInv, ReadInv, WholeInv,
       I2cErrors, ByteAt, NoCaller, Ending, i2c_case_master_start, Reports
<1>14. CASE i2c_case_db_acked
  <2>1. CASE AckEnds
      BY <1>1, <1>2, <1>3, <1>4, <1>5, <1>6, <1>7, <1>8, <1>14, <2>1, AckCases DEF
         I2cRecord, CallTypes, BufferTypes, TransferInv, WriteInv, ReadInv, WholeInv,
         I2cErrors, ByteAt, NoCaller, Ending, AckEnds, AckSends, AckFails, SendStop,
         Counts, Others
  <2>2. CASE AckSends
      BY <1>1, <1>2, <1>3, <1>4, <1>5, <1>6, <1>7, <1>8, <1>14, <2>2, AckCases DEF
         I2cRecord, CallTypes, BufferTypes, TransferInv, WriteInv, ReadInv, WholeInv,
         I2cErrors, ByteAt, NoCaller, Ending, AckEnds, AckSends, AckFails, SendStop,
         Counts, Others
  <2>3. CASE AckFails
      BY <1>1, <1>2, <1>3, <1>4, <1>5, <1>6, <1>7, <1>8, <1>14, <2>3, AckCases DEF
         I2cRecord, CallTypes, BufferTypes, TransferInv, WriteInv, ReadInv, WholeInv,
         I2cErrors, ByteAt, NoCaller, Ending, AckEnds, AckSends, AckFails, SendStop,
         Counts, Others
  <2> QED BY <1>14, <2>1, <2>2, <2>3, AckCases DEF AddressGoes
<1>15. CASE i2c_case_mr_ar_ack
  <2>1. CASE status' = (IF i2c.left = 1 THEN "lastbyte" ELSE "byte")
      BY <1>1, <1>2, <1>3, <1>4, <1>5, <1>6, <1>7, <1>8, <1>15, <2>1, AddressCases DEF
         I2cRecord, CallTypes, BufferTypes, TransferInv, WriteInv, ReadInv, WholeInv,
         I2cErrors, ByteAt, NoCaller, Ending, AddressGoes, Counts, Others
  <2>2. CASE status' = "lost"
      BY <1>1, <1>2, <1>3, <1>4, <1>5, <1>6, <1>7, <1>8, <1>15, <2>2, AddressCases DEF
         I2cRecord, CallTypes, BufferTypes, TransferInv, WriteInv, ReadInv, WholeInv,
         I2cErrors, ByteAt, NoCaller, Ending, AddressGoes, Counts, Others
  <2> QED BY <1>15, <2>1, <2>2, AddressCases DEF AddressGoes
<1>16. CASE i2c_case_mr_dbr_ack
  <2>1. CASE status' = (IF i2c.left = 1 THEN "lastbyte" ELSE "byte")
      BY <1>1, <1>2, <1>3, <1>4, <1>5, <1>6, <1>7, <1>8, <1>16, <2>1, DataCases DEF
         I2cRecord, CallTypes, BufferTypes, TransferInv, WriteInv, ReadInv, WholeInv,
         I2cErrors, ByteAt, NoCaller, Ending, AddressGoes, Counts, Others
  <2>2. CASE status' = "lost"
      BY <1>1, <1>2, <1>3, <1>4, <1>5, <1>6, <1>7, <1>8, <1>16, <2>2, DataCases DEF
         I2cRecord, CallTypes, BufferTypes, TransferInv, WriteInv, ReadInv, WholeInv,
         I2cErrors, ByteAt, NoCaller, Ending, AddressGoes, Counts, Others
  <2> QED BY <1>16, <2>1, <2>2, DataCases DEF AddressGoes
<1>17. CASE i2c_case_mr_dbr_nack
    BY <1>1, <1>2, <1>3, <1>4, <1>5, <1>6, <1>7, <1>8, <1>17, LastCases DEF I2cRecord,
       CallTypes, BufferTypes, TransferInv, WriteInv, ReadInv, WholeInv, I2cErrors,
       ByteAt, NoCaller, Ending, SendStop, Others
<1>18. CASE i2c_case_aw_nacked
    BY <1>1, <1>2, <1>3, <1>4, <1>5, <1>6, <1>7, <1>8, <1>18, I2cAssumption DEF
       I2cRecord, CallTypes, BufferTypes, TransferInv, WriteInv, ReadInv, WholeInv,
       I2cErrors, ByteAt, NoCaller, Ending, i2c_case_aw_nacked, Reports, SendStop
<1>19. CASE i2c_case_db_nacked
    BY <1>1, <1>2, <1>3, <1>4, <1>5, <1>6, <1>7, <1>8, <1>19, I2cAssumption DEF
       I2cRecord, CallTypes, BufferTypes, TransferInv, WriteInv, ReadInv, WholeInv,
       I2cErrors, ByteAt, NoCaller, Ending, i2c_case_db_nacked, Reports, SendStop
<1>20. CASE i2c_case_arblost
    BY <1>1, <1>2, <1>3, <1>4, <1>5, <1>6, <1>7, <1>8, <1>20, I2cAssumption DEF
       I2cRecord, CallTypes, BufferTypes, TransferInv, WriteInv, ReadInv, WholeInv,
       I2cErrors, ByteAt, NoCaller, Ending, i2c_case_arblost, Reports, SendStop
<1>21. CASE i2c_case_buserror
    BY <1>1, <1>2, <1>3, <1>4, <1>5, <1>6, <1>7, <1>8, <1>21, I2cAssumption DEF
       I2cRecord, CallTypes, BufferTypes, TransferInv, WriteInv, ReadInv, WholeInv,
       I2cErrors, ByteAt, NoCaller, Ending, i2c_case_buserror, Reports, SendStop
<1> QED BY <1>9, <1>10, <1>11, <1>12, <1>13, <1>14, <1>15, <1>16, <1>17, <1>18,
   <1>19, <1>20, <1>21 DEF I2cNext

\* The bytes of the buffers and of the slave stay numbers.
LEMMA BufferTypesStep == I2cInv /\ [I2cNext]_i2cVars => BufferTypes'
<1> SUFFICES ASSUME I2cInv, [I2cNext]_i2cVars PROVE BufferTypes'
    OBVIOUS
<1>1. I2cRecord
    BY DEF I2cInv, I2cTypes
<1>2. CallTypes
    BY DEF I2cInv, I2cTypes
<1>3. BufferTypes
    BY DEF I2cInv, I2cTypes
<1>4. TransferInv
    BY DEF I2cInv, I2cTypes
<1>5. WriteInv
    BY DEF I2cInv, I2cTypes
<1>6. ReadInv
    BY DEF I2cInv, I2cTypes
<1>7. WholeInv
    BY DEF I2cInv, I2cTypes
<1>8. Cut(caller.size) \in Nat /\ caller.size \in Nat /\ Len(slave) \in Nat /\ Len(memory) \in Nat
    BY CallSize DEF I2cInv
<1>9. CASE UNCHANGED i2cVars
    BY <1>1, <1>2, <1>3, <1>4, <1>5, <1>6, <1>7, <1>8, <1>9, I2cAssumption DEF
       I2cRecord, CallTypes, BufferTypes, TransferInv, WriteInv, ReadInv, WholeInv,
       I2cErrors, ByteAt, NoCaller, Ending, i2cVars
<1>10. CASE mos_I2C_WRITE
  <2>1. PICK size \in Sizes : Sets("write", size)
      BY <1>10, BeginCases DEF mos_I2C_WRITE
  <2>2. /\ caller' # NoCaller /\ caller'.kind = "write" /\ caller'.size = size /\ i2c'.role = "write"
        /\ i2c'.error = "ok" /\ i2c'.next = 1 /\ Len(slave') = 0 /\ InOrder(slave')
      BY <2>1 DEF Sets, NoCaller, InOrder
  <2> QED BY <1>1, <1>2, <1>3, <1>4, <1>5, <1>6, <1>7, <1>8, <2>1, <2>2,
     I2cAssumption DEF Sets, I2cRecord, CallTypes, BufferTypes, TransferInv,
     WriteInv, ReadInv, WholeInv, I2cErrors, ByteAt, NoCaller, Ending
<1>11. CASE mos_I2C_READ
  <2>1. PICK size \in Sizes : Sets("read", size)
      BY <1>11, BeginCases DEF mos_I2C_READ
  <2>2. /\ caller' # NoCaller /\ caller'.kind = "read" /\ caller'.size = size /\ i2c'.role = "read"
        /\ i2c'.error = "ok" /\ i2c'.next = 1 /\ Len(slave') = 0 /\ InOrder(slave')
      BY <2>1 DEF Sets, NoCaller, InOrder
  <2> QED BY <1>1, <1>2, <1>3, <1>4, <1>5, <1>6, <1>7, <1>8, <2>1, <2>2,
     I2cAssumption DEF Sets, I2cRecord, CallTypes, BufferTypes, TransferInv,
     WriteInv, ReadInv, WholeInv, I2cErrors, ByteAt, NoCaller, Ending
<1>12. CASE I2cReturns
    BY <1>1, <1>2, <1>3, <1>4, <1>5, <1>6, <1>7, <1>8, <1>12, I2cAssumption DEF
       I2cRecord, CallTypes, BufferTypes, TransferInv, WriteInv, ReadInv, WholeInv,
       I2cErrors, ByteAt, NoCaller, Ending, I2cReturns
<1>13. CASE i2c_case_master_start
    BY <1>1, <1>2, <1>3, <1>4, <1>5, <1>6, <1>7, <1>8, <1>13, I2cAssumption DEF
       I2cRecord, CallTypes, BufferTypes, TransferInv, WriteInv, ReadInv, WholeInv,
       I2cErrors, ByteAt, NoCaller, Ending, i2c_case_master_start, Reports
<1>14. CASE i2c_case_db_acked
  <2>1. CASE AckEnds
      BY <1>1, <1>2, <1>3, <1>4, <1>5, <1>6, <1>7, <1>8, <1>14, <2>1, AckCases DEF
         I2cRecord, CallTypes, BufferTypes, TransferInv, WriteInv, ReadInv, WholeInv,
         I2cErrors, ByteAt, NoCaller, Ending, AckEnds, AckSends, AckFails, SendStop,
         Counts, Others
  <2>2. CASE AckSends
      BY <1>1, <1>2, <1>3, <1>4, <1>5, <1>6, <1>7, <1>8, <1>14, <2>2, AckCases DEF
         I2cRecord, CallTypes, BufferTypes, TransferInv, WriteInv, ReadInv, WholeInv,
         I2cErrors, ByteAt, NoCaller, Ending, AckEnds, AckSends, AckFails, SendStop,
         Counts, Others
  <2>3. CASE AckFails
      BY <1>1, <1>2, <1>3, <1>4, <1>5, <1>6, <1>7, <1>8, <1>14, <2>3, AckCases DEF
         I2cRecord, CallTypes, BufferTypes, TransferInv, WriteInv, ReadInv, WholeInv,
         I2cErrors, ByteAt, NoCaller, Ending, AckEnds, AckSends, AckFails, SendStop,
         Counts, Others
  <2> QED BY <1>14, <2>1, <2>2, <2>3, AckCases DEF AddressGoes
<1>15. CASE i2c_case_mr_ar_ack
  <2>1. CASE status' = (IF i2c.left = 1 THEN "lastbyte" ELSE "byte")
      BY <1>1, <1>2, <1>3, <1>4, <1>5, <1>6, <1>7, <1>8, <1>15, <2>1, AddressCases DEF
         I2cRecord, CallTypes, BufferTypes, TransferInv, WriteInv, ReadInv, WholeInv,
         I2cErrors, ByteAt, NoCaller, Ending, AddressGoes, Counts, Others
  <2>2. CASE status' = "lost"
      BY <1>1, <1>2, <1>3, <1>4, <1>5, <1>6, <1>7, <1>8, <1>15, <2>2, AddressCases DEF
         I2cRecord, CallTypes, BufferTypes, TransferInv, WriteInv, ReadInv, WholeInv,
         I2cErrors, ByteAt, NoCaller, Ending, AddressGoes, Counts, Others
  <2> QED BY <1>15, <2>1, <2>2, AddressCases DEF AddressGoes
<1>16. CASE i2c_case_mr_dbr_ack
  <2>1. CASE status' = (IF i2c.left = 1 THEN "lastbyte" ELSE "byte")
      BY <1>1, <1>2, <1>3, <1>4, <1>5, <1>6, <1>7, <1>8, <1>16, <2>1, DataCases DEF
         I2cRecord, CallTypes, BufferTypes, TransferInv, WriteInv, ReadInv, WholeInv,
         I2cErrors, ByteAt, NoCaller, Ending, AddressGoes, Counts, Others
  <2>2. CASE status' = "lost"
      BY <1>1, <1>2, <1>3, <1>4, <1>5, <1>6, <1>7, <1>8, <1>16, <2>2, DataCases DEF
         I2cRecord, CallTypes, BufferTypes, TransferInv, WriteInv, ReadInv, WholeInv,
         I2cErrors, ByteAt, NoCaller, Ending, AddressGoes, Counts, Others
  <2> QED BY <1>16, <2>1, <2>2, DataCases DEF AddressGoes
<1>17. CASE i2c_case_mr_dbr_nack
    BY <1>1, <1>2, <1>3, <1>4, <1>5, <1>6, <1>7, <1>8, <1>17, LastCases DEF I2cRecord,
       CallTypes, BufferTypes, TransferInv, WriteInv, ReadInv, WholeInv, I2cErrors,
       ByteAt, NoCaller, Ending, SendStop, Others
<1>18. CASE i2c_case_aw_nacked
    BY <1>1, <1>2, <1>3, <1>4, <1>5, <1>6, <1>7, <1>8, <1>18, I2cAssumption DEF
       I2cRecord, CallTypes, BufferTypes, TransferInv, WriteInv, ReadInv, WholeInv,
       I2cErrors, ByteAt, NoCaller, Ending, i2c_case_aw_nacked, Reports, SendStop
<1>19. CASE i2c_case_db_nacked
    BY <1>1, <1>2, <1>3, <1>4, <1>5, <1>6, <1>7, <1>8, <1>19, I2cAssumption DEF
       I2cRecord, CallTypes, BufferTypes, TransferInv, WriteInv, ReadInv, WholeInv,
       I2cErrors, ByteAt, NoCaller, Ending, i2c_case_db_nacked, Reports, SendStop
<1>20. CASE i2c_case_arblost
    BY <1>1, <1>2, <1>3, <1>4, <1>5, <1>6, <1>7, <1>8, <1>20, I2cAssumption DEF
       I2cRecord, CallTypes, BufferTypes, TransferInv, WriteInv, ReadInv, WholeInv,
       I2cErrors, ByteAt, NoCaller, Ending, i2c_case_arblost, Reports, SendStop
<1>21. CASE i2c_case_buserror
    BY <1>1, <1>2, <1>3, <1>4, <1>5, <1>6, <1>7, <1>8, <1>21, I2cAssumption DEF
       I2cRecord, CallTypes, BufferTypes, TransferInv, WriteInv, ReadInv, WholeInv,
       I2cErrors, ByteAt, NoCaller, Ending, i2c_case_buserror, Reports, SendStop
<1> QED BY <1>9, <1>10, <1>11, <1>12, <1>13, <1>14, <1>15, <1>16, <1>17, <1>18,
   <1>19, <1>20, <1>21 DEF I2cNext

\* A status is awaited only while a transfer is under way, and the counts stay within the buffer.
LEMMA TransferStep == I2cInv /\ [I2cNext]_i2cVars => TransferInv'
<1> SUFFICES ASSUME I2cInv, [I2cNext]_i2cVars PROVE TransferInv'
    OBVIOUS
<1>1. I2cRecord
    BY DEF I2cInv, I2cTypes
<1>2. CallTypes
    BY DEF I2cInv, I2cTypes
<1>3. BufferTypes
    BY DEF I2cInv, I2cTypes
<1>4. TransferInv
    BY DEF I2cInv, I2cTypes
<1>5. WriteInv
    BY DEF I2cInv, I2cTypes
<1>6. ReadInv
    BY DEF I2cInv, I2cTypes
<1>7. WholeInv
    BY DEF I2cInv, I2cTypes
<1>8. Cut(caller.size) \in Nat /\ caller.size \in Nat /\ Len(slave) \in Nat /\ Len(memory) \in Nat
    BY CallSize DEF I2cInv
<1>9. CASE UNCHANGED i2cVars
    BY <1>1, <1>2, <1>3, <1>4, <1>5, <1>6, <1>7, <1>8, <1>9, I2cAssumption DEF
       I2cRecord, CallTypes, BufferTypes, TransferInv, WriteInv, ReadInv, WholeInv,
       I2cErrors, ByteAt, NoCaller, Ending, i2cVars
<1>10. CASE mos_I2C_WRITE
  <2>1. PICK size \in Sizes : Sets("write", size)
      BY <1>10, BeginCases DEF mos_I2C_WRITE
  <2>2. /\ caller' # NoCaller /\ caller'.kind = "write" /\ caller'.size = size /\ i2c'.role = "write"
        /\ i2c'.error = "ok" /\ i2c'.next = 1 /\ Len(slave') = 0 /\ InOrder(slave')
      BY <2>1 DEF Sets, NoCaller, InOrder
  <2> QED BY <1>1, <1>2, <1>3, <1>4, <1>5, <1>6, <1>7, <1>8, <2>1, <2>2,
     I2cAssumption DEF Sets, I2cRecord, CallTypes, BufferTypes, TransferInv,
     WriteInv, ReadInv, WholeInv, I2cErrors, ByteAt, NoCaller, Ending
<1>11. CASE mos_I2C_READ
  <2>1. PICK size \in Sizes : Sets("read", size)
      BY <1>11, BeginCases DEF mos_I2C_READ
  <2>2. /\ caller' # NoCaller /\ caller'.kind = "read" /\ caller'.size = size /\ i2c'.role = "read"
        /\ i2c'.error = "ok" /\ i2c'.next = 1 /\ Len(slave') = 0 /\ InOrder(slave')
      BY <2>1 DEF Sets, NoCaller, InOrder
  <2> QED BY <1>1, <1>2, <1>3, <1>4, <1>5, <1>6, <1>7, <1>8, <2>1, <2>2,
     I2cAssumption DEF Sets, I2cRecord, CallTypes, BufferTypes, TransferInv,
     WriteInv, ReadInv, WholeInv, I2cErrors, ByteAt, NoCaller, Ending
<1>12. CASE I2cReturns
    BY <1>1, <1>2, <1>3, <1>4, <1>5, <1>6, <1>7, <1>8, <1>12, I2cAssumption DEF
       I2cRecord, CallTypes, BufferTypes, TransferInv, WriteInv, ReadInv, WholeInv,
       I2cErrors, ByteAt, NoCaller, Ending, I2cReturns
<1>13. CASE i2c_case_master_start
    BY <1>1, <1>2, <1>3, <1>4, <1>5, <1>6, <1>7, <1>8, <1>13, I2cAssumption DEF
       I2cRecord, CallTypes, BufferTypes, TransferInv, WriteInv, ReadInv, WholeInv,
       I2cErrors, ByteAt, NoCaller, Ending, i2c_case_master_start, Reports
<1>14. CASE i2c_case_db_acked
  <2>1. CASE AckEnds
      BY <1>1, <1>2, <1>3, <1>4, <1>5, <1>6, <1>7, <1>8, <1>14, <2>1, AckCases DEF
         I2cRecord, CallTypes, BufferTypes, TransferInv, WriteInv, ReadInv, WholeInv,
         I2cErrors, ByteAt, NoCaller, Ending, AckEnds, AckSends, AckFails, SendStop,
         Counts, Others
  <2>2. CASE AckSends
      BY SMTT(30), <1>1, <1>2, <1>3, <1>4, <1>5, <1>6, <1>7, <1>8, <1>14, <2>2, AckCases DEF
         I2cRecord, CallTypes, BufferTypes, TransferInv, WriteInv, ReadInv, WholeInv,
         I2cErrors, ByteAt, NoCaller, Ending, AckEnds, AckSends, AckFails, SendStop,
         Counts, Others
  <2>3. CASE AckFails
      BY SMTT(30), <1>1, <1>2, <1>3, <1>4, <1>5, <1>6, <1>7, <1>8, <1>14, <2>3, AckCases DEF
         I2cRecord, CallTypes, BufferTypes, TransferInv, WriteInv, ReadInv, WholeInv,
         I2cErrors, ByteAt, NoCaller, Ending, AckEnds, AckSends, AckFails, SendStop,
         Counts, Others
  <2> QED BY <1>14, <2>1, <2>2, <2>3, AckCases DEF AddressGoes
<1>15. CASE i2c_case_mr_ar_ack
  <2>1. CASE status' = (IF i2c.left = 1 THEN "lastbyte" ELSE "byte")
      BY <1>1, <1>2, <1>3, <1>4, <1>5, <1>6, <1>7, <1>8, <1>15, <2>1, AddressCases DEF
         I2cRecord, CallTypes, BufferTypes, TransferInv, WriteInv, ReadInv, WholeInv,
         I2cErrors, ByteAt, NoCaller, Ending, AddressGoes, Counts, Others
  <2>2. CASE status' = "lost"
      BY <1>1, <1>2, <1>3, <1>4, <1>5, <1>6, <1>7, <1>8, <1>15, <2>2, AddressCases DEF
         I2cRecord, CallTypes, BufferTypes, TransferInv, WriteInv, ReadInv, WholeInv,
         I2cErrors, ByteAt, NoCaller, Ending, AddressGoes, Counts, Others
  <2> QED BY <1>15, <2>1, <2>2, AddressCases DEF AddressGoes
<1>16. CASE i2c_case_mr_dbr_ack
    BY SMTT(30), <1>1, <1>4, <1>8, <1>16, DataCases DEF I2cRecord, TransferInv, Counts, Others, AddressGoes, NoCaller
<1>17. CASE i2c_case_mr_dbr_nack
    BY <1>1, <1>2, <1>3, <1>4, <1>5, <1>6, <1>7, <1>8, <1>17, LastCases DEF I2cRecord,
       CallTypes, BufferTypes, TransferInv, WriteInv, ReadInv, WholeInv, I2cErrors,
       ByteAt, NoCaller, Ending, SendStop, Others
<1>18. CASE i2c_case_aw_nacked
    BY <1>1, <1>2, <1>3, <1>4, <1>5, <1>6, <1>7, <1>8, <1>18, I2cAssumption DEF
       I2cRecord, CallTypes, BufferTypes, TransferInv, WriteInv, ReadInv, WholeInv,
       I2cErrors, ByteAt, NoCaller, Ending, i2c_case_aw_nacked, Reports, SendStop
<1>19. CASE i2c_case_db_nacked
    BY <1>1, <1>2, <1>3, <1>4, <1>5, <1>6, <1>7, <1>8, <1>19, I2cAssumption DEF
       I2cRecord, CallTypes, BufferTypes, TransferInv, WriteInv, ReadInv, WholeInv,
       I2cErrors, ByteAt, NoCaller, Ending, i2c_case_db_nacked, Reports, SendStop
<1>20. CASE i2c_case_arblost
    BY <1>1, <1>2, <1>3, <1>4, <1>5, <1>6, <1>7, <1>8, <1>20, I2cAssumption DEF
       I2cRecord, CallTypes, BufferTypes, TransferInv, WriteInv, ReadInv, WholeInv,
       I2cErrors, ByteAt, NoCaller, Ending, i2c_case_arblost, Reports, SendStop
<1>21. CASE i2c_case_buserror
    BY <1>1, <1>2, <1>3, <1>4, <1>5, <1>6, <1>7, <1>8, <1>21, I2cAssumption DEF
       I2cRecord, CallTypes, BufferTypes, TransferInv, WriteInv, ReadInv, WholeInv,
       I2cErrors, ByteAt, NoCaller, Ending, i2c_case_buserror, Reports, SendStop
<1> QED BY <1>9, <1>10, <1>11, <1>12, <1>13, <1>14, <1>15, <1>16, <1>17, <1>18,
   <1>19, <1>20, <1>21 DEF I2cNext

\* While writing, the slave has the bytes before the next one, in order.
LEMMA WriteStep == I2cInv /\ [I2cNext]_i2cVars => WriteInv'
<1> SUFFICES ASSUME I2cInv, [I2cNext]_i2cVars PROVE WriteInv'
    OBVIOUS
<1>1. I2cRecord
    BY DEF I2cInv, I2cTypes
<1>2. CallTypes
    BY DEF I2cInv, I2cTypes
<1>3. BufferTypes
    BY DEF I2cInv, I2cTypes
<1>4. TransferInv
    BY DEF I2cInv, I2cTypes
<1>5. WriteInv
    BY DEF I2cInv, I2cTypes
<1>6. ReadInv
    BY DEF I2cInv, I2cTypes
<1>7. WholeInv
    BY DEF I2cInv, I2cTypes
<1>8. Cut(caller.size) \in Nat /\ caller.size \in Nat /\ Len(slave) \in Nat /\ Len(memory) \in Nat
    BY CallSize DEF I2cInv
<1>9. CASE UNCHANGED i2cVars
    BY <1>1, <1>2, <1>3, <1>4, <1>5, <1>6, <1>7, <1>8, <1>9, I2cAssumption DEF
       I2cRecord, CallTypes, BufferTypes, TransferInv, WriteInv, ReadInv, WholeInv,
       Ending, I2cErrors, ByteAt, NoCaller, i2cVars
<1>10. CASE mos_I2C_WRITE
  <2>1. PICK size \in Sizes : Sets("write", size)
      BY <1>10, BeginCases DEF mos_I2C_WRITE
  <2>2. /\ caller' # NoCaller /\ caller'.kind = "write" /\ caller'.size = size /\ i2c'.role = "write"
        /\ i2c'.error = "ok" /\ i2c'.next = 1 /\ Len(slave') = 0 /\ InOrder(slave')
      BY <2>1 DEF Sets, NoCaller, InOrder
  <2> QED BY <1>1, <1>2, <1>3, <1>4, <1>5, <1>6, <1>7, <1>8, <2>1, <2>2,
     I2cAssumption DEF Sets, I2cRecord, CallTypes, BufferTypes, TransferInv,
     WriteInv, ReadInv, WholeInv, Ending, I2cErrors, ByteAt, NoCaller, Ending
<1>11. CASE mos_I2C_READ
  <2>1. PICK size \in Sizes : Sets("read", size)
      BY <1>11, BeginCases DEF mos_I2C_READ
  <2>2. /\ caller' # NoCaller /\ caller'.kind = "read" /\ caller'.size = size /\ i2c'.role = "read"
        /\ i2c'.error = "ok" /\ i2c'.next = 1 /\ Len(slave') = 0 /\ InOrder(slave')
      BY <2>1 DEF Sets, NoCaller, InOrder
  <2> QED BY <1>1, <1>2, <1>3, <1>4, <1>5, <1>6, <1>7, <1>8, <2>1, <2>2,
     I2cAssumption DEF Sets, I2cRecord, CallTypes, BufferTypes, TransferInv,
     WriteInv, ReadInv, WholeInv, Ending, I2cErrors, ByteAt, NoCaller, Ending
<1>12. CASE I2cReturns
    BY <1>1, <1>2, <1>3, <1>4, <1>5, <1>6, <1>7, <1>8, <1>12, I2cAssumption DEF
       I2cRecord, CallTypes, BufferTypes, TransferInv, WriteInv, ReadInv, WholeInv,
       Ending, I2cErrors, ByteAt, NoCaller, I2cReturns
<1>13. CASE i2c_case_master_start
    BY <1>1, <1>2, <1>3, <1>4, <1>5, <1>6, <1>7, <1>8, <1>13, I2cAssumption DEF
       I2cRecord, CallTypes, BufferTypes, TransferInv, WriteInv, ReadInv, WholeInv,
       Ending, I2cErrors, ByteAt, NoCaller, i2c_case_master_start, Reports
<1>14. CASE i2c_case_db_acked
  <2>1. CASE AckEnds
      BY <1>1, <1>2, <1>3, <1>4, <1>5, <1>6, <1>7, <1>8, <1>14, <2>1, AckCases DEF
         I2cRecord, CallTypes, BufferTypes, TransferInv, WriteInv, ReadInv, WholeInv,
         Ending, I2cErrors, ByteAt, NoCaller, Ending, AckEnds, AckSends, AckFails,
         SendStop, Counts, Others
  <2>2. CASE AckSends
      BY <1>1, <1>2, <1>3, <1>4, <1>5, <1>6, <1>7, <1>8, <1>14, <2>2, AckCases DEF
         I2cRecord, CallTypes, BufferTypes, TransferInv, WriteInv, ReadInv, WholeInv,
         Ending, I2cErrors, ByteAt, NoCaller, Ending, AckEnds, AckSends, AckFails,
         SendStop, Counts, Others
  <2>3. CASE AckFails
      BY <1>1, <1>2, <1>3, <1>4, <1>5, <1>6, <1>7, <1>8, <1>14, <2>3, AckCases DEF
         I2cRecord, CallTypes, BufferTypes, TransferInv, WriteInv, ReadInv, WholeInv,
         Ending, I2cErrors, ByteAt, NoCaller, Ending, AckEnds, AckSends, AckFails,
         SendStop, Counts, Others
  <2> QED BY <1>14, <2>1, <2>2, <2>3, AckCases DEF AddressGoes
<1>15. CASE i2c_case_mr_ar_ack
  <2>1. CASE status' = (IF i2c.left = 1 THEN "lastbyte" ELSE "byte")
      BY <1>1, <1>2, <1>3, <1>4, <1>5, <1>6, <1>7, <1>8, <1>15, <2>1, AddressCases DEF
         I2cRecord, CallTypes, BufferTypes, TransferInv, WriteInv, ReadInv, WholeInv,
         Ending, I2cErrors, ByteAt, NoCaller, Ending, AddressGoes, Counts, Others
  <2>2. CASE status' = "lost"
      BY <1>1, <1>2, <1>3, <1>4, <1>5, <1>6, <1>7, <1>8, <1>15, <2>2, AddressCases DEF
         I2cRecord, CallTypes, BufferTypes, TransferInv, WriteInv, ReadInv, WholeInv,
         Ending, I2cErrors, ByteAt, NoCaller, Ending, AddressGoes, Counts, Others
  <2> QED BY <1>15, <2>1, <2>2, AddressCases DEF AddressGoes
<1>16. CASE i2c_case_mr_dbr_ack
  <2>1. CASE status' = (IF i2c.left = 1 THEN "lastbyte" ELSE "byte")
      BY <1>1, <1>2, <1>3, <1>4, <1>5, <1>6, <1>7, <1>8, <1>16, <2>1, DataCases DEF
         I2cRecord, CallTypes, BufferTypes, TransferInv, WriteInv, ReadInv, WholeInv,
         Ending, I2cErrors, ByteAt, NoCaller, Ending, AddressGoes, Counts, Others
  <2>2. CASE status' = "lost"
      BY <1>1, <1>2, <1>3, <1>4, <1>5, <1>6, <1>7, <1>8, <1>16, <2>2, DataCases DEF
         I2cRecord, CallTypes, BufferTypes, TransferInv, WriteInv, ReadInv, WholeInv,
         Ending, I2cErrors, ByteAt, NoCaller, Ending, AddressGoes, Counts, Others
  <2> QED BY <1>16, <2>1, <2>2, DataCases DEF AddressGoes
<1>17. CASE i2c_case_mr_dbr_nack
    BY <1>1, <1>2, <1>3, <1>4, <1>5, <1>6, <1>7, <1>8, <1>17, LastCases DEF I2cRecord,
       CallTypes, BufferTypes, TransferInv, WriteInv, ReadInv, WholeInv, Ending,
       I2cErrors, ByteAt, NoCaller, Ending, SendStop, Others
<1>18. CASE i2c_case_aw_nacked
    BY <1>1, <1>2, <1>3, <1>4, <1>5, <1>6, <1>7, <1>8, <1>18, I2cAssumption DEF
       I2cRecord, CallTypes, BufferTypes, TransferInv, WriteInv, ReadInv, WholeInv,
       Ending, I2cErrors, ByteAt, NoCaller, i2c_case_aw_nacked, Reports, SendStop
<1>19. CASE i2c_case_db_nacked
    BY <1>1, <1>2, <1>3, <1>4, <1>5, <1>6, <1>7, <1>8, <1>19, I2cAssumption DEF
       I2cRecord, CallTypes, BufferTypes, TransferInv, WriteInv, ReadInv, WholeInv,
       Ending, I2cErrors, ByteAt, NoCaller, i2c_case_db_nacked, Reports, SendStop
<1>20. CASE i2c_case_arblost
    BY <1>1, <1>2, <1>3, <1>4, <1>5, <1>6, <1>7, <1>8, <1>20, I2cAssumption DEF
       I2cRecord, CallTypes, BufferTypes, TransferInv, WriteInv, ReadInv, WholeInv,
       Ending, I2cErrors, ByteAt, NoCaller, i2c_case_arblost, Reports, SendStop
<1>21. CASE i2c_case_buserror
    BY <1>1, <1>2, <1>3, <1>4, <1>5, <1>6, <1>7, <1>8, <1>21, I2cAssumption DEF
       I2cRecord, CallTypes, BufferTypes, TransferInv, WriteInv, ReadInv, WholeInv,
       Ending, I2cErrors, ByteAt, NoCaller, i2c_case_buserror, Reports, SendStop
<1> QED BY <1>9, <1>10, <1>11, <1>12, <1>13, <1>14, <1>15, <1>16, <1>17, <1>18,
   <1>19, <1>20, <1>21 DEF I2cNext

\* While reading, the buffer holds the bytes before the next one, in order.
LEMMA ReadStep == I2cInv /\ [I2cNext]_i2cVars => ReadInv'
<1> SUFFICES ASSUME I2cInv, [I2cNext]_i2cVars PROVE ReadInv'
    OBVIOUS
<1>1. I2cRecord
    BY DEF I2cInv, I2cTypes
<1>2. CallTypes
    BY DEF I2cInv, I2cTypes
<1>3. BufferTypes
    BY DEF I2cInv, I2cTypes
<1>4. TransferInv
    BY DEF I2cInv, I2cTypes
<1>5. WriteInv
    BY DEF I2cInv, I2cTypes
<1>6. ReadInv
    BY DEF I2cInv, I2cTypes
<1>7. WholeInv
    BY DEF I2cInv, I2cTypes
<1>8. Cut(caller.size) \in Nat /\ caller.size \in Nat /\ Len(slave) \in Nat /\ Len(memory) \in Nat
    BY CallSize DEF I2cInv
<1>9. CASE UNCHANGED i2cVars
    BY <1>1, <1>2, <1>3, <1>4, <1>5, <1>6, <1>7, <1>8, <1>9, I2cAssumption DEF
       I2cRecord, CallTypes, BufferTypes, TransferInv, WriteInv, ReadInv, WholeInv,
       Ending, I2cErrors, ByteAt, NoCaller, i2cVars
<1>10. CASE mos_I2C_WRITE
  <2>1. PICK size \in Sizes : Sets("write", size)
      BY <1>10, BeginCases DEF mos_I2C_WRITE
  <2>2. /\ caller' # NoCaller /\ caller'.kind = "write" /\ caller'.size = size /\ i2c'.role = "write"
        /\ i2c'.error = "ok" /\ i2c'.next = 1 /\ Len(slave') = 0 /\ InOrder(slave')
      BY <2>1 DEF Sets, NoCaller, InOrder
  <2> QED BY <1>1, <1>2, <1>3, <1>4, <1>5, <1>6, <1>7, <1>8, <2>1, <2>2,
     I2cAssumption DEF Sets, I2cRecord, CallTypes, BufferTypes, TransferInv,
     WriteInv, ReadInv, WholeInv, Ending, I2cErrors, ByteAt, NoCaller, Ending
<1>11. CASE mos_I2C_READ
  <2>1. PICK size \in Sizes : Sets("read", size)
      BY <1>11, BeginCases DEF mos_I2C_READ
  <2>2. /\ caller' # NoCaller /\ caller'.kind = "read" /\ caller'.size = size /\ i2c'.role = "read"
        /\ i2c'.error = "ok" /\ i2c'.next = 1 /\ Len(slave') = 0 /\ InOrder(slave')
      BY <2>1 DEF Sets, NoCaller, InOrder
  <2> QED BY <1>1, <1>2, <1>3, <1>4, <1>5, <1>6, <1>7, <1>8, <2>1, <2>2,
     I2cAssumption DEF Sets, I2cRecord, CallTypes, BufferTypes, TransferInv,
     WriteInv, ReadInv, WholeInv, Ending, I2cErrors, ByteAt, NoCaller, Ending
<1>12. CASE I2cReturns
    BY <1>1, <1>2, <1>3, <1>4, <1>5, <1>6, <1>7, <1>8, <1>12, I2cAssumption DEF
       I2cRecord, CallTypes, BufferTypes, TransferInv, WriteInv, ReadInv, WholeInv,
       Ending, I2cErrors, ByteAt, NoCaller, I2cReturns
<1>13. CASE i2c_case_master_start
    BY <1>1, <1>2, <1>3, <1>4, <1>5, <1>6, <1>7, <1>8, <1>13, I2cAssumption DEF
       I2cRecord, CallTypes, BufferTypes, TransferInv, WriteInv, ReadInv, WholeInv,
       Ending, I2cErrors, ByteAt, NoCaller, i2c_case_master_start, Reports
<1>14. CASE i2c_case_db_acked
  <2>1. CASE AckEnds
      BY <1>1, <1>2, <1>3, <1>4, <1>5, <1>6, <1>7, <1>8, <1>14, <2>1, AckCases DEF
         I2cRecord, CallTypes, BufferTypes, TransferInv, WriteInv, ReadInv, WholeInv,
         Ending, I2cErrors, ByteAt, NoCaller, Ending, AckEnds, AckSends, AckFails,
         SendStop, Counts, Others
  <2>2. CASE AckSends
      BY <1>1, <1>2, <1>3, <1>4, <1>5, <1>6, <1>7, <1>8, <1>14, <2>2, AckCases DEF
         I2cRecord, CallTypes, BufferTypes, TransferInv, WriteInv, ReadInv, WholeInv,
         Ending, I2cErrors, ByteAt, NoCaller, Ending, AckEnds, AckSends, AckFails,
         SendStop, Counts, Others
  <2>3. CASE AckFails
      BY <1>1, <1>2, <1>3, <1>4, <1>5, <1>6, <1>7, <1>8, <1>14, <2>3, AckCases DEF
         I2cRecord, CallTypes, BufferTypes, TransferInv, WriteInv, ReadInv, WholeInv,
         Ending, I2cErrors, ByteAt, NoCaller, Ending, AckEnds, AckSends, AckFails,
         SendStop, Counts, Others
  <2> QED BY <1>14, <2>1, <2>2, <2>3, AckCases DEF AddressGoes
<1>15. CASE i2c_case_mr_ar_ack
  <2>1. CASE status' = (IF i2c.left = 1 THEN "lastbyte" ELSE "byte")
      BY <1>1, <1>2, <1>3, <1>4, <1>5, <1>6, <1>7, <1>8, <1>15, <2>1, AddressCases DEF
         I2cRecord, CallTypes, BufferTypes, TransferInv, WriteInv, ReadInv, WholeInv,
         Ending, I2cErrors, ByteAt, NoCaller, Ending, AddressGoes, Counts, Others
  <2>2. CASE status' = "lost"
      BY <1>1, <1>2, <1>3, <1>4, <1>5, <1>6, <1>7, <1>8, <1>15, <2>2, AddressCases DEF
         I2cRecord, CallTypes, BufferTypes, TransferInv, WriteInv, ReadInv, WholeInv,
         Ending, I2cErrors, ByteAt, NoCaller, Ending, AddressGoes, Counts, Others
  <2> QED BY <1>15, <2>1, <2>2, AddressCases DEF AddressGoes
<1>16. CASE i2c_case_mr_dbr_ack
  <2>1. /\ i2c'.role = "read" /\ Filling(memory', i2c'.next - 1) /\ Len(slave') = i2c'.next - 1
        /\ i2c'.next = i2c.next + 1 /\ i2c'.left = i2c.left - 1 /\ i2c.left = Cut(caller.size) - i2c.next
        /\ caller' = caller /\ AddressGoes /\ i2c.next \in Nat /\ i2c.left \in Nat
      BY <1>1, <1>6, <1>16, DataCases DEF I2cRecord, ReadInv, Counts, Others, Ending
  <2> QED BY <2>1, <1>8 DEF ReadInv, AddressGoes, Ending
<1>17. CASE i2c_case_mr_dbr_nack
    BY <1>1, <1>2, <1>3, <1>4, <1>5, <1>6, <1>7, <1>8, <1>17, LastCases DEF I2cRecord,
       CallTypes, BufferTypes, TransferInv, WriteInv, ReadInv, WholeInv, Ending,
       I2cErrors, ByteAt, NoCaller, Ending, SendStop, Others
<1>18. CASE i2c_case_aw_nacked
    BY <1>1, <1>2, <1>3, <1>4, <1>5, <1>6, <1>7, <1>8, <1>18, I2cAssumption DEF
       I2cRecord, CallTypes, BufferTypes, TransferInv, WriteInv, ReadInv, WholeInv,
       Ending, I2cErrors, ByteAt, NoCaller, i2c_case_aw_nacked, Reports, SendStop
<1>19. CASE i2c_case_db_nacked
    BY <1>1, <1>2, <1>3, <1>4, <1>5, <1>6, <1>7, <1>8, <1>19, I2cAssumption DEF
       I2cRecord, CallTypes, BufferTypes, TransferInv, WriteInv, ReadInv, WholeInv,
       Ending, I2cErrors, ByteAt, NoCaller, i2c_case_db_nacked, Reports, SendStop
<1>20. CASE i2c_case_arblost
    BY <1>1, <1>2, <1>3, <1>4, <1>5, <1>6, <1>7, <1>8, <1>20, I2cAssumption DEF
       I2cRecord, CallTypes, BufferTypes, TransferInv, WriteInv, ReadInv, WholeInv,
       Ending, I2cErrors, ByteAt, NoCaller, i2c_case_arblost, Reports, SendStop
<1>21. CASE i2c_case_buserror
    BY <1>1, <1>2, <1>3, <1>4, <1>5, <1>6, <1>7, <1>8, <1>21, I2cAssumption DEF
       I2cRecord, CallTypes, BufferTypes, TransferInv, WriteInv, ReadInv, WholeInv,
       Ending, I2cErrors, ByteAt, NoCaller, i2c_case_buserror, Reports, SendStop
<1> QED BY <1>9, <1>10, <1>11, <1>12, <1>13, <1>14, <1>15, <1>16, <1>17, <1>18,
   <1>19, <1>20, <1>21 DEF I2cNext

\* A call that returned without an error has carried all its bytes.
LEMMA WholeStep == I2cInv /\ [I2cNext]_i2cVars => WholeInv'
<1> SUFFICES ASSUME I2cInv, [I2cNext]_i2cVars PROVE WholeInv'
    OBVIOUS
<1>1. I2cRecord
    BY DEF I2cInv, I2cTypes
<1>2. CallTypes
    BY DEF I2cInv, I2cTypes
<1>3. BufferTypes
    BY DEF I2cInv, I2cTypes
<1>4. TransferInv
    BY DEF I2cInv, I2cTypes
<1>5. WriteInv
    BY DEF I2cInv, I2cTypes
<1>6. ReadInv
    BY DEF I2cInv, I2cTypes
<1>7. WholeInv
    BY DEF I2cInv, I2cTypes
<1>8. Cut(caller.size) \in Nat /\ caller.size \in Nat /\ Len(slave) \in Nat /\ Len(memory) \in Nat
    BY CallSize DEF I2cInv
<1>9. CASE UNCHANGED i2cVars
    BY <1>1, <1>2, <1>3, <1>4, <1>5, <1>6, <1>7, <1>8, <1>9, I2cAssumption DEF
       I2cRecord, CallTypes, BufferTypes, TransferInv, WriteInv, ReadInv, WholeInv,
       Ending, I2cErrors, ByteAt, NoCaller, i2cVars
<1>10. CASE mos_I2C_WRITE
  <2>1. PICK size \in Sizes : Sets("write", size)
      BY <1>10, BeginCases DEF mos_I2C_WRITE
  <2>2. /\ caller' # NoCaller /\ caller'.kind = "write" /\ caller'.size = size /\ i2c'.role = "write"
        /\ i2c'.error = "ok" /\ i2c'.next = 1 /\ Len(slave') = 0 /\ InOrder(slave')
      BY <2>1 DEF Sets, NoCaller, InOrder
  <2> QED BY <1>1, <1>2, <1>3, <1>4, <1>5, <1>6, <1>7, <1>8, <2>1, <2>2,
     I2cAssumption DEF Sets, I2cRecord, CallTypes, BufferTypes, TransferInv,
     WriteInv, ReadInv, WholeInv, Ending, I2cErrors, ByteAt, NoCaller, Ending
<1>11. CASE mos_I2C_READ
  <2>1. PICK size \in Sizes : Sets("read", size)
      BY <1>11, BeginCases DEF mos_I2C_READ
  <2>2. /\ caller' # NoCaller /\ caller'.kind = "read" /\ caller'.size = size /\ i2c'.role = "read"
        /\ i2c'.error = "ok" /\ i2c'.next = 1 /\ Len(slave') = 0 /\ InOrder(slave')
      BY <2>1 DEF Sets, NoCaller, InOrder
  <2> QED BY <1>1, <1>2, <1>3, <1>4, <1>5, <1>6, <1>7, <1>8, <2>1, <2>2,
     I2cAssumption DEF Sets, I2cRecord, CallTypes, BufferTypes, TransferInv,
     WriteInv, ReadInv, WholeInv, Ending, I2cErrors, ByteAt, NoCaller, Ending
<1>12. CASE I2cReturns
    BY <1>1, <1>2, <1>3, <1>4, <1>5, <1>6, <1>7, <1>8, <1>12, I2cAssumption DEF
       I2cRecord, CallTypes, BufferTypes, TransferInv, WriteInv, ReadInv, WholeInv,
       Ending, I2cErrors, ByteAt, NoCaller, I2cReturns
<1>13. CASE i2c_case_master_start
    BY <1>1, <1>2, <1>3, <1>4, <1>5, <1>6, <1>7, <1>8, <1>13, I2cAssumption DEF
       I2cRecord, CallTypes, BufferTypes, TransferInv, WriteInv, ReadInv, WholeInv,
       Ending, I2cErrors, ByteAt, NoCaller, i2c_case_master_start, Reports
<1>14. CASE i2c_case_db_acked
  <2>1. CASE AckEnds
      BY <1>1, <1>2, <1>3, <1>4, <1>5, <1>6, <1>7, <1>8, <1>14, <2>1, AckCases DEF
         I2cRecord, CallTypes, BufferTypes, TransferInv, WriteInv, ReadInv, WholeInv,
         Ending, I2cErrors, ByteAt, NoCaller, Ending, AckEnds, AckSends, AckFails,
         SendStop, Counts, Others
  <2>2. CASE AckSends
      BY <1>1, <1>2, <1>3, <1>4, <1>5, <1>6, <1>7, <1>8, <1>14, <2>2, AckCases DEF
         I2cRecord, CallTypes, BufferTypes, TransferInv, WriteInv, ReadInv, WholeInv,
         Ending, I2cErrors, ByteAt, NoCaller, Ending, AckEnds, AckSends, AckFails,
         SendStop, Counts, Others
  <2>3. CASE AckFails
      BY <1>1, <1>2, <1>3, <1>4, <1>5, <1>6, <1>7, <1>8, <1>14, <2>3, AckCases DEF
         I2cRecord, CallTypes, BufferTypes, TransferInv, WriteInv, ReadInv, WholeInv,
         Ending, I2cErrors, ByteAt, NoCaller, Ending, AckEnds, AckSends, AckFails,
         SendStop, Counts, Others
  <2> QED BY <1>14, <2>1, <2>2, <2>3, AckCases DEF AddressGoes
<1>15. CASE i2c_case_mr_ar_ack
  <2>1. CASE status' = (IF i2c.left = 1 THEN "lastbyte" ELSE "byte")
      BY <1>1, <1>2, <1>3, <1>4, <1>5, <1>6, <1>7, <1>8, <1>15, <2>1, AddressCases DEF
         I2cRecord, CallTypes, BufferTypes, TransferInv, WriteInv, ReadInv, WholeInv,
         Ending, I2cErrors, ByteAt, NoCaller, Ending, AddressGoes, Counts, Others
  <2>2. CASE status' = "lost"
      BY <1>1, <1>2, <1>3, <1>4, <1>5, <1>6, <1>7, <1>8, <1>15, <2>2, AddressCases DEF
         I2cRecord, CallTypes, BufferTypes, TransferInv, WriteInv, ReadInv, WholeInv,
         Ending, I2cErrors, ByteAt, NoCaller, Ending, AddressGoes, Counts, Others
  <2> QED BY <1>15, <2>1, <2>2, AddressCases DEF AddressGoes
<1>16. CASE i2c_case_mr_dbr_ack
  <2>1. CASE status' = (IF i2c.left = 1 THEN "lastbyte" ELSE "byte")
      BY <1>1, <1>2, <1>3, <1>4, <1>5, <1>6, <1>7, <1>8, <1>16, <2>1, DataCases DEF
         I2cRecord, CallTypes, BufferTypes, TransferInv, WriteInv, ReadInv, WholeInv,
         Ending, I2cErrors, ByteAt, NoCaller, Ending, AddressGoes, Counts, Others
  <2>2. CASE status' = "lost"
      BY <1>1, <1>2, <1>3, <1>4, <1>5, <1>6, <1>7, <1>8, <1>16, <2>2, DataCases DEF
         I2cRecord, CallTypes, BufferTypes, TransferInv, WriteInv, ReadInv, WholeInv,
         Ending, I2cErrors, ByteAt, NoCaller, Ending, AddressGoes, Counts, Others
  <2> QED BY <1>16, <2>1, <2>2, DataCases DEF AddressGoes
<1>17. CASE i2c_case_mr_dbr_nack
  <2>1. /\ caller # NoCaller /\ Len(memory') = caller.size /\ Filling(memory', Cut(caller.size))
        /\ Len(slave') = Cut(caller.size) /\ Others /\ i2c' = [i2c EXCEPT !.role = "idle", !.error = "ok"]
      BY <1>4, <1>8, <1>17, LastCases DEF TransferInv, SendStop
  <2>2. Filling(memory', MaxBuffer)
      BY <2>1, <1>8, CutRange DEF Filling
  <2> QED BY <2>1, <2>2 DEF WholeInv, Others
<1>18. CASE i2c_case_aw_nacked
    BY <1>1, <1>2, <1>3, <1>4, <1>5, <1>6, <1>7, <1>8, <1>18, I2cAssumption DEF
       I2cRecord, CallTypes, BufferTypes, TransferInv, WriteInv, ReadInv, WholeInv,
       Ending, I2cErrors, ByteAt, NoCaller, i2c_case_aw_nacked, Reports, SendStop
<1>19. CASE i2c_case_db_nacked
    BY <1>1, <1>2, <1>3, <1>4, <1>5, <1>6, <1>7, <1>8, <1>19, I2cAssumption DEF
       I2cRecord, CallTypes, BufferTypes, TransferInv, WriteInv, ReadInv, WholeInv,
       Ending, I2cErrors, ByteAt, NoCaller, i2c_case_db_nacked, Reports, SendStop
<1>20. CASE i2c_case_arblost
    BY <1>1, <1>2, <1>3, <1>4, <1>5, <1>6, <1>7, <1>8, <1>20, I2cAssumption DEF
       I2cRecord, CallTypes, BufferTypes, TransferInv, WriteInv, ReadInv, WholeInv,
       Ending, I2cErrors, ByteAt, NoCaller, i2c_case_arblost, Reports, SendStop
<1>21. CASE i2c_case_buserror
    BY <1>1, <1>2, <1>3, <1>4, <1>5, <1>6, <1>7, <1>8, <1>21, I2cAssumption DEF
       I2cRecord, CallTypes, BufferTypes, TransferInv, WriteInv, ReadInv, WholeInv,
       Ending, I2cErrors, ByteAt, NoCaller, i2c_case_buserror, Reports, SendStop
<1> QED BY <1>9, <1>10, <1>11, <1>12, <1>13, <1>14, <1>15, <1>16, <1>17, <1>18,
   <1>19, <1>20, <1>21 DEF I2cNext

\* The invariant holds at reset.
LEMMA I2cInvInit == I2cInit => I2cInv
BY I2cAssumption DEF I2cInit, I2cInv, I2cTypes, I2cRecord, CallTypes, BufferTypes, I2cErrors, TransferInv, WriteInv, ReadInv, WholeInv, InOrder,
   Filling, NoCaller

\* The invariant is inductive.
THEOREM I2cInvariant == I2cSpec => []I2cInv
<1>1. I2cInv /\ [I2cNext]_i2cVars => I2cInv'
    BY I2cRecordStep, CallTypesStep, BufferTypesStep, TransferStep, WriteStep, ReadStep, WholeStep DEF I2cInv, I2cTypes
<1> QED BY I2cInvInit, <1>1, PTL DEF I2cSpec

\* A transfer that returned without an error has carried the bytes it was asked
\* for, as many as the buffer takes and in order, and the interrupt never leaves
\* the caller's buffer (the cases of i2c_handler).
THEOREM I2cTransfers == I2cSpec => []I2cTransfersAreWhole
<1>1. I2cInv => I2cTransfersAreWhole
  <2> SUFFICES ASSUME I2cInv PROVE I2cTransfersAreWhole
      OBVIOUS
  <2>1. I2cTypes /\ TransferInv /\ WriteInv /\ ReadInv /\ WholeInv
      BY DEF I2cInv
  <2>2. i2c.role # "idle" => i2c.next \in 1 .. Len(memory) + 1
      BY <2>1, CallSize DEF I2cTypes, I2cRecord, CallTypes, BufferTypes, TransferInv
  <2>3. caller = NoCaller => status = "none" /\ i2c.role = "idle"
      BY <2>1 DEF TransferInv
  <2>4. ASSUME returned.error = "ok", caller = NoCaller
        PROVE  /\ slave = [i \in 1 .. Cut(returned.size) |-> ByteAt(i)]
               /\ returned.kind = "read" =>
                    returned.memory = [i \in 1 .. returned.size |-> IF i <= MaxBuffer THEN ByteAt(i) ELSE 0]
    <3>1. slave \in Seq(Nat) /\ Len(slave) = Cut(returned.size) /\ InOrder(slave)
        BY <2>1, <2>4 DEF I2cTypes, I2cRecord, CallTypes, BufferTypes, TransferInv, WholeInv
    <3>2. slave = [i \in 1 .. Cut(returned.size) |-> ByteAt(i)]
        BY <3>1 DEF InOrder, ByteAt
    <3>3. returned.memory \in Seq(Nat) /\ Len(returned.memory) = returned.size
        BY <2>1, <2>4 DEF I2cTypes, I2cRecord, CallTypes, BufferTypes, WholeInv
    <3>4. returned.kind = "read" => Filling(returned.memory, MaxBuffer)
        BY <2>1, <2>4 DEF WholeInv
    <3>5. returned.kind = "read" =>
            returned.memory = [i \in 1 .. returned.size |-> IF i <= MaxBuffer THEN ByteAt(i) ELSE 0]
        BY <3>3, <3>4 DEF Filling, ByteAt
    <3> QED BY <3>2, <3>5
  <2> QED BY <2>2, <2>3, <2>4 DEF I2cTransfersAreWhole
<1> QED BY I2cInvariant, <1>1, PTL

-----------------------------------------------------------------------------
(* The SD card driver.                                                     *)

Blocks == Data \cup {Spoilt}
CardTypes ==
    /\ card \in [mode : {"off", "idle", "ready"}, busy : {NoBlock} \cup [sector : Sectors, data : Data]]
    /\ disk \in [Sectors -> Blocks] /\ told \in [Sectors -> Data \cup {"none"}] /\ spoilt \subseteq Sectors
SdCallTypes ==
    call \in [kind : {"none", "init", "read", "write"},
              at : {"none", "idle", "ifcond", "opcond", "ocr", "command", "token", "data", "busy"},
              sector : Nat, count : Nat, buf : Seq(Blocks), first : Nat, took : BOOLEAN, tries : Int]

\* Where a call is, and the sectors it still has to do.
Does(kind) == call.kind = kind
PlaceInv ==
    /\ Does("none") => call = NoCall
    /\ Does("init") => call.at \in {"idle", "ifcond", "opcond", "ocr"}
    /\ Does("read") => call.at \in {"command", "token"}
    /\ Does("write") => call.at \in {"command", "data", "busy"}
    /\ Does("read") \/ Does("write") =>
         /\ call.first <= call.sector /\ call.first \in Sectors
         /\ call.first < call.sector => call.sector - 1 \in Sectors
         /\ 0 < call.count => call.sector + call.count - 1 \in Sectors
         /\ call.at # "command" => 0 < call.count

\* The block of sector s is d: on the card, or being programmed, or the card
\* has failed to keep it.
Keeps(s, d) == IF card.busy.sector = s THEN card.busy.data = d ELSE disk[s] = d \/ s \in spoilt

\* What has been read is there still, as the card is not programming anything.
DeliveredInv ==
    Does("read") =>
        /\ Len(call.buf) = call.sector - call.first
        /\ \A i \in 1 .. Len(call.buf) : call.buf[i] = disk[call.first + i - 1]
        /\ call.first < call.sector => ~Busy

\* What has been written in this call, and is not yet reported.
Sent == IF call.at = "busy" THEN call.sector + 1 ELSE call.sector
WrittenInv ==
    Does("write") =>
        /\ Len(call.buf) = call.sector - call.first + call.count
        /\ \A i \in 1 .. Len(call.buf) : call.buf[i] \in Data
        /\ \A s \in call.first .. Sent - 1 : told[s] = "none" /\ Keeps(s, call.buf[s - call.first + 1])

\* What has been reported.
ToldInv == \A s \in Sectors : told[s] # "none" => Keeps(s, told[s])

SdInv == CardTypes /\ SdCallTypes /\ PlaceInv /\ DeliveredInv /\ WrittenInv /\ ToldInv

SdStays == UNCHANGED <<disk, spoilt>> /\ card'.busy = card.busy

\* A call that is over, or that only wakes up the card, has no block of its own.
LEMMA NoCallTypes == NoCall \in [kind : {"none", "init", "read", "write"},
              at : {"none", "idle", "ifcond", "opcond", "ocr", "command", "token", "data", "busy"},
              sector : Nat, count : Nat, buf : Seq(Blocks), first : Nat, took : BOOLEAN, tries : Int]
<1>1. <<>> \in Seq(Blocks)
    OBVIOUS
<1> QED BY <1>1 DEF NoCall

\* A call that is given up leaves the card and what was told as they are.
LEMMA SdQuits ==
    ASSUME SdInv, call' = NoCall, CardTypes', SdStays, UNCHANGED told
    PROVE  SdInv'
<1>1. SdCallTypes' /\ PlaceInv'
    BY NoCallTypes DEF SdCallTypes, PlaceInv, Does, NoCall
<1>2. DeliveredInv' /\ WrittenInv'
    BY DEF DeliveredInv, WrittenInv, Does, NoCall
<1>3. ToldInv'
    BY DEF SdInv, ToldInv, Keeps, SdStays
<1> QED BY <1>1, <1>2, <1>3 DEF SdInv

\* A step of the wake-up touches no block.
LEMMA SdWakes ==
    ASSUME SdInv, SdCallTypes', call'.kind = "init", call'.at \in {"idle", "ifcond", "opcond", "ocr"},
           CardTypes', SdStays, UNCHANGED told
    PROVE  SdInv'
<1>1. PlaceInv' /\ DeliveredInv' /\ WrittenInv'
    BY DEF PlaceInv, DeliveredInv, WrittenInv, Does
<1>2. ToldInv'
    BY DEF SdInv, ToldInv, Keeps, SdStays
<1> QED BY <1>1, <1>2 DEF SdInv

\* A read that starts has delivered nothing yet.
LEMMA SdReads ==
    ASSUME SdInv, SD_readBlocks PROVE SdInv'
<1>1. PICK s \in Sectors, n \in 0 .. MaxCount :
         /\ s + n - 1 \in Sectors \cup {s - 1}
         /\ call' = [NoCall EXCEPT !.kind = "read", !.at = "command", !.sector = s, !.first = s, !.count = n]
         /\ UNCHANGED <<card, disk, told, spoilt>>
    BY DEF SD_readBlocks, Starts
<1>2. /\ call' = [kind |-> "read", at |-> "command", sector |-> s, count |-> n, buf |-> <<>>, first |-> s,
                  took |-> FALSE, tries |-> 0]
      /\ s \in Nat /\ n \in Nat /\ <<>> \in Seq(Blocks)
  <2>1. s \in Nat /\ n \in Nat /\ <<>> \in Seq(Blocks)
      BY SdAssumption
  <2> QED BY <1>1, <2>1, Zenon DEF NoCall
<1>3. SdCallTypes'
    BY <1>2 DEF SdCallTypes
<1>4. PlaceInv'
    BY <1>1, <1>2 DEF PlaceInv, Does
<1>5. DeliveredInv' /\ WrittenInv'
    BY <1>2 DEF DeliveredInv, WrittenInv, Does
<1>6. CardTypes' /\ ToldInv'
    BY <1>1 DEF SdInv, CardTypes, ToldInv, Keeps
<1> QED BY <1>3, <1>4, <1>5, <1>6 DEF SdInv

\* A write that starts has written nothing yet.
LEMMA SdWrites ==
    ASSUME SdInv, SD_writeBlocks PROVE SdInv'
<1>1. PICK s \in Sectors, n \in 0 .. MaxCount : \E blocks \in [1 .. n -> Data] :
         /\ s + n - 1 \in Sectors \cup {s - 1}
         /\ call' = [NoCall EXCEPT !.kind = "write", !.at = "command", !.sector = s, !.first = s,
                                   !.count = n, !.buf = blocks]
         /\ UNCHANGED <<card, disk, told, spoilt>>
    BY DEF SD_writeBlocks, Starts
<1>2. PICK blocks \in [1 .. n -> Data] :
         /\ s + n - 1 \in Sectors \cup {s - 1}
         /\ call' = [NoCall EXCEPT !.kind = "write", !.at = "command", !.sector = s, !.first = s,
                                   !.count = n, !.buf = blocks]
         /\ UNCHANGED <<card, disk, told, spoilt>>
    BY <1>1
<1>3. /\ call' = [kind |-> "write", at |-> "command", sector |-> s, count |-> n, buf |-> blocks, first |-> s,
                  took |-> FALSE, tries |-> 0]
      /\ s \in Nat /\ n \in Nat
  <2>1. s \in Nat /\ n \in Nat
      BY SdAssumption
  <2> QED BY <1>2, <2>1, Zenon DEF NoCall
<1>4. blocks \in Seq(Blocks) /\ Len(blocks) = n /\ \A i \in 1 .. n : blocks[i] \in Data
    BY <1>3 DEF Blocks
<1>5. SdCallTypes'
    BY <1>3, <1>4 DEF SdCallTypes
<1>6. PlaceInv'
    BY <1>2, <1>3 DEF PlaceInv, Does
<1>7. DeliveredInv' /\ WrittenInv'
    BY <1>3, <1>4 DEF DeliveredInv, WrittenInv, Does, Sent
<1>8. CardTypes' /\ ToldInv'
    BY <1>2 DEF SdInv, CardTypes, ToldInv, Keeps
<1> QED BY <1>5, <1>6, <1>7, <1>8 DEF SdInv

\* The parts of the call that a step changes.
LEMMA CallEdits ==
    ASSUME SdCallTypes, NEW at \in {"command", "token", "data", "busy"}, NEW t \in BOOLEAN
    PROVE  /\ call' = [call EXCEPT !.at = at] \/ call' = [call EXCEPT !.at = at, !.took = t] =>
                 /\ SdCallTypes' /\ call'.at = at /\ call'.kind = call.kind /\ call'.sector = call.sector
                 /\ call'.count = call.count /\ call'.buf = call.buf /\ call'.first = call.first
BY DEF SdCallTypes

Advances(buf) ==
    /\ SdCallTypes' /\ call'.at = "command" /\ call'.kind = call.kind /\ call'.first = call.first
    /\ call'.sector = call.sector + 1 /\ call'.count = call.count - 1 /\ call'.buf = buf

\* The call goes on to its next block.
LEMMA BlockEdits ==
    ASSUME SdCallTypes, 0 < call.count, NEW buf \in Seq(Blocks),
           call' = [call EXCEPT !.at = "command", !.sector = @ + 1, !.count = @ - 1, !.buf = buf]
    PROVE  Advances(buf)
<1>1. ASSUME NEW s \in Nat, NEW n \in Nat,
             call' = [call EXCEPT !.at = "command", !.sector = s, !.count = n, !.buf = buf]
      PROVE  /\ SdCallTypes' /\ call'.at = "command" /\ call'.kind = call.kind
             /\ call'.sector = s /\ call'.count = n /\ call'.first = call.first /\ call'.buf = buf
    BY <1>1 DEF SdCallTypes
<1>2. call.sector + 1 \in Nat /\ call.count - 1 \in Nat
    BY DEF SdCallTypes
<1> QED BY <1>1, <1>2, Zenon DEF Advances

\* The record of the call that goes on to its next block.
LEMMA NextBlocks ==
    ASSUME SdCallTypes
    PROVE  /\ NextBlock = [call EXCEPT !.at = "command", !.sector = @ + 1, !.count = @ - 1, !.buf = call.buf]
           /\ \A b : [NextBlock EXCEPT !.buf = b] =
                        [call EXCEPT !.at = "command", !.sector = @ + 1, !.count = @ - 1, !.buf = b]
BY DEF NextBlock, SdCallTypes

\* A command that the card takes, or that it seems to take.
SdEdit(at) == /\ SdCallTypes' /\ call'.at = at /\ call'.kind = call.kind /\ call'.sector = call.sector
              /\ call'.count = call.count /\ call'.buf = call.buf /\ call'.first = call.first

\* A command is taken by the card, refused, or lost.
LEMMA SdCommands ==
    ASSUME SdInv, SD_sendIOCmd PROVE SdInv'
<1>1. call.at = "command" /\ 0 < call.count /\ UNCHANGED <<card, disk, spoilt, told>>
    BY DEF SD_sendIOCmd, CardStays, Fails
<1>2. CASE call' = NoCall
    BY <1>1, <1>2, SdQuits DEF SdInv, CardTypes, SdStays
<1>3. CASE call' = [call EXCEPT !.at = IF call.kind = "read" THEN "token" ELSE "data", !.took = Listens]
  <2>1. SdEdit(IF call.kind = "read" THEN "token" ELSE "data")
      BY <1>3, CallEdits DEF SdEdit, SdInv, Listens
  <2>2. Does("read") \/ Does("write")
      BY <1>1 DEF SdInv, PlaceInv, Does, NoCall, SdCallTypes
  <2>3. PlaceInv'
      BY <1>1, <2>1, <2>2 DEF SdEdit, SdInv, PlaceInv, Does
  <2>4. DeliveredInv'
      BY <1>1, <2>1, <2>2 DEF SdEdit, SdInv, DeliveredInv, Does, Busy
  <2>5. WrittenInv'
      BY <1>1, <2>1, <2>2 DEF SdEdit, SdInv, WrittenInv, Does, Sent, Keeps
  <2>6. CardTypes' /\ ToldInv'
      BY <1>1 DEF SdInv, CardTypes, ToldInv, Keeps
  <2> QED BY <2>1, <2>3, <2>4, <2>5, <2>6 DEF SdInv, SdEdit
<1> QED BY <1>2, <1>3 DEF SD_sendIOCmd, Fails, Ends

\* The next block of a read, as the card holds it.
LEMMA SdReadsBlock ==
    ASSUME SdInv, SD_readSingleBlock PROVE SdInv'
<1>1. call.kind = "read" /\ call.at = "token" /\ UNCHANGED <<card, disk, spoilt, told>>
    BY DEF SD_readSingleBlock, CardStays, Fails, At
<1>2. CASE call' = NoCall
    BY <1>1, <1>2, SdQuits DEF SdInv, CardTypes, SdStays
<1>3. CASE ~Busy /\ call' = [NextBlock EXCEPT !.buf = Append(@, disk[call.sector])]
  <2>1. call.sector \in Sectors /\ 0 < call.count /\ call.first \in Sectors /\ call.first <= call.sector
    <3>1. call.sector \in call.first .. call.sector + call.count - 1
        BY <1>1 DEF SdInv, PlaceInv, SdCallTypes, Does
    <3> QED BY <1>1, <3>1, SdAssumption DEF SdInv, PlaceInv, SdCallTypes, Does
  <2>2. disk[call.sector] \in Blocks /\ Append(call.buf, disk[call.sector]) \in Seq(Blocks)
      BY <2>1 DEF SdInv, CardTypes, SdCallTypes
  <2>3. Advances(Append(call.buf, disk[call.sector]))
    <3>1. NextBlock.buf = call.buf
        BY DEF SdInv, SdCallTypes, NextBlock
    <3> QED BY <1>3, <2>1, <2>2, <3>1, BlockEdits, NextBlocks DEF SdInv
  <2>4. PlaceInv'
    <3>1. call.sector \in Nat /\ call.count \in Nat /\ call.first \in Nat
        BY DEF SdInv, SdCallTypes
    <3>2. /\ call'.sector + call'.count - 1 = call.sector + call.count - 1 /\ call'.first <= call'.sector
          /\ call'.sector - 1 = call.sector /\ call'.count \in Nat
      <4>1. call'.sector = call.sector + 1 /\ call'.count = call.count - 1 /\ call'.first = call.first
          BY <2>3 DEF Advances
      <4> QED BY <2>1, <3>1, <4>1
    <3> QED BY <1>1, <2>1, <2>3, <3>1, <3>2 DEF Advances, SdInv, PlaceInv, Does
  <2>5. DeliveredInv'
    <3>1. Len(call.buf) = call.sector - call.first
          /\ \A i \in 1 .. Len(call.buf) : call.buf[i] = disk[call.first + i - 1]
        BY <1>1 DEF SdInv, DeliveredInv, Does
    <3>2. Len(call'.buf) = Len(call.buf) + 1 /\ call'.buf[Len(call.buf) + 1] = disk[call.sector]
          /\ \A i \in 1 .. Len(call.buf) : call'.buf[i] = call.buf[i]
        BY <2>2, <2>3 DEF Advances, SdInv, SdCallTypes
    <3>3. call.first + (Len(call.buf) + 1) - 1 = call.sector /\ Len(call.buf) \in Nat
        BY <3>1 DEF SdInv, SdCallTypes
    <3>4. \A i \in 1 .. Len(call'.buf) : call'.buf[i] = disk[call.first + i - 1]
      <4>1. ASSUME NEW i \in 1 .. Len(call'.buf), i = Len(call.buf) + 1
            PROVE  call'.buf[i] = disk[call.first + i - 1]
          BY <3>2, <3>3, <4>1
      <4>2. ASSUME NEW i \in 1 .. Len(call'.buf), i # Len(call.buf) + 1
            PROVE  call'.buf[i] = disk[call.first + i - 1]
        <5>1. i \in 1 .. Len(call.buf)
            BY <3>2, <3>3, <4>2
        <5> QED BY <3>1, <3>2, <5>1
      <4> QED BY <4>1, <4>2
    <3>5. Len(call'.buf) = call'.sector - call'.first
        BY <2>3, <3>1, <3>2 DEF Advances, SdInv, SdCallTypes
    <3> QED BY <1>1, <1>3, <2>3, <3>4, <3>5 DEF Advances, DeliveredInv, Does, Busy
  <2>6. WrittenInv'
      BY <1>1, <2>3 DEF Advances, WrittenInv, Does
  <2>7. CardTypes' /\ ToldInv'
      BY <1>1 DEF SdInv, CardTypes, ToldInv, Keeps
  <2> QED BY <2>3, <2>4, <2>5, <2>6, <2>7 DEF SdInv, Advances
<1> QED BY <1>2, <1>3 DEF SD_readSingleBlock, Fails, Ends, Listens


\* The next block of a write: the card takes it and starts to program it.
LEMMA SdWritesBlock ==
    ASSUME SdInv, DataResponse PROVE SdInv'
<1>1. call.kind = "write" /\ call.at = "data" /\ UNCHANGED <<disk, spoilt>>
    BY DEF DataResponse, At
<1>2. CASE call' = NoCall /\ UNCHANGED <<card, told>>
    BY <1>1, <1>2, SdQuits DEF SdInv, CardTypes, SdStays
<1> DEFINE block == call.buf[call.sector - call.first + 1]
<1>3. CASE /\ ~Busy /\ call' = [call EXCEPT !.at = "busy"]
           /\ card' = [card EXCEPT !.busy = [sector |-> call.sector, data |-> block]]
           /\ told' = [told EXCEPT ![call.sector] = "none"]
  <2>1. /\ call.sector \in Sectors /\ 0 < call.count /\ call.first \in Sectors /\ call.first <= call.sector
        /\ call.sector \in Nat /\ call.first \in Nat /\ call.count \in Nat
    <3>1. call.sector \in call.first .. call.sector + call.count - 1
        BY <1>1 DEF SdInv, PlaceInv, SdCallTypes, Does
    <3> QED BY <1>1, <3>1, SdAssumption DEF SdInv, PlaceInv, SdCallTypes, Does
  <2>2. block \in Data
    <3>1. call.sector - call.first + 1 \in 1 .. Len(call.buf)
        BY <1>1, <2>1 DEF SdInv, WrittenInv, Does
    <3> QED BY <1>1, <3>1 DEF SdInv, WrittenInv, Does
  <2>3. SdEdit("busy")
      BY <1>3, CallEdits DEF SdEdit, SdInv
  <2>4. CardTypes' /\ card'.busy = [sector |-> call.sector, data |-> block]
      BY <1>1, <1>3, <2>1, <2>2 DEF SdInv, CardTypes, Blocks
  <2>5. PlaceInv'
      BY <1>1, <2>1, <2>3 DEF SdEdit, SdInv, PlaceInv, Does
  <2>6. DeliveredInv'
      BY <1>1, <2>3 DEF SdEdit, DeliveredInv, Does
  <2>7. \A s \in Sectors : \A d : s # call.sector /\ Keeps(s, d) => Keeps(s, d)'
    <3>1. card.busy = NoBlock
        BY <1>3 DEF Busy
    <3>2. \A s \in Sectors : card.busy.sector # s
        BY <3>1, SdAssumption DEF NoBlock
    <3> QED BY <1>1, <2>4, <3>2 DEF Keeps
  <2>8. \A s \in Sectors : s # call.sector => told'[s] = told[s]
      BY <1>3 DEF SdInv, CardTypes
  <2>9. told'[call.sector] = "none" /\ Keeps(call.sector, block)'
      BY <1>3, <2>1, <2>4 DEF SdInv, CardTypes, Keeps
  <2>10. WrittenInv'
    <3>1. ASSUME NEW s \in call.first .. call.sector
          PROVE  told'[s] = "none" /\ Keeps(s, call.buf[s - call.first + 1])'
      <4>1. CASE s = call.sector
          BY <2>3, <2>9, <4>1 DEF SdEdit
      <4>2. CASE s # call.sector
        <5>1. s \in call.first .. call.sector - 1 /\ s \in Sectors
            BY <2>1, <4>2, SdAssumption
        <5>2. told[s] = "none" /\ Keeps(s, call.buf[s - call.first + 1])
            BY <1>1, <5>1 DEF SdInv, WrittenInv, Does, Sent
        <5>3. Keeps(s, call.buf[s - call.first + 1])'
            BY <2>3, <2>7, <4>2, <5>1, <5>2 DEF SdEdit, Keeps
        <5> QED BY <2>8, <4>2, <5>1, <5>2, <5>3
      <4> QED BY <4>1, <4>2
    <3>2. (Sent - 1)' = call.sector
        BY <2>1, <2>3 DEF SdEdit, Sent
    <3> QED BY <1>1, <2>3, <3>1, <3>2 DEF SdEdit, SdInv, WrittenInv, Does
  <2>11. ToldInv'
    <3>1. ASSUME NEW s \in Sectors, told'[s] # "none" PROVE Keeps(s, told[s])'
      <4>1. s # call.sector /\ told'[s] = told[s]
          BY <2>8, <2>9, <3>1
      <4> QED BY <2>7, <3>1, <4>1 DEF SdInv, ToldInv, Keeps
    <3> QED BY <3>1 DEF ToldInv
  <2> QED BY <2>3, <2>4, <2>5, <2>6, <2>10, <2>11 DEF SdInv, SdEdit
<1> QED BY <1>2, <1>3 DEF DataResponse, Fails, Ends, Listens

\* The driver goes on, whether the card is done or not.
LEMMA SdBusyEnds ==
    ASSUME SdInv, BusyEnds PROVE SdInv'
<1>1. /\ call.kind = "write" /\ call.at = "busy" /\ UNCHANGED <<card, disk, spoilt, told>> /\ call' = NextBlock
      /\ 0 < call.count
    BY DEF BusyEnds, At, CardStays, SdInv, PlaceInv, Does
<1>2. Advances(call.buf)
    BY <1>1, BlockEdits, NextBlocks DEF SdInv, SdCallTypes
<1>3. /\ call'.sector + call'.count - 1 = call.sector + call.count - 1 /\ call'.first <= call'.sector
      /\ call'.sector - call'.first + call'.count = call.sector - call.first + call.count
      /\ call.sector \in Sectors /\ call'.sector - 1 = call.sector
  <2>1. call.sector \in Nat /\ call.count \in Nat /\ call.first \in Nat
      BY DEF SdInv, SdCallTypes
  <2>2. call.first <= call.sector /\ call.first \in Sectors /\ call.sector + call.count - 1 \in Sectors
      BY <1>1 DEF SdInv, PlaceInv, Does
  <2>3. call.sector \in call.first .. call.sector + call.count - 1
      BY <1>1, <2>1, <2>2
  <2>4. call.sector \in Sectors
      BY <2>2, <2>3, SdAssumption
  <2> QED BY <1>1, <1>2, <2>1, <2>2, <2>4 DEF Advances
<1>4. PlaceInv'
    BY <1>1, <1>2, <1>3 DEF Advances, SdInv, PlaceInv, Does
<1>5. DeliveredInv'
    BY <1>1, <1>2 DEF Advances, DeliveredInv, Does
<1>6. WrittenInv'
  <2>1. Sent' = Sent /\ call'.buf = call.buf /\ call'.first = call.first
      BY <1>1, <1>2 DEF Sent, Advances
  <2> QED BY <1>1, <1>2, <1>3, <2>1 DEF Advances, SdInv, WrittenInv, Does, Keeps
<1>7. CardTypes' /\ ToldInv'
    BY <1>1 DEF SdInv, CardTypes, ToldInv, Keeps
<1> QED BY <1>2, <1>4, <1>5, <1>6, <1>7 DEF SdInv, Advances

\* A write that is over is reported.
LEMMA SdDone ==
    ASSUME SdInv, BlocksDone PROVE SdInv'
<1>1. call.at = "command" /\ call.count = 0 /\ UNCHANGED <<card, disk, spoilt>> /\ call' = NoCall
    BY DEF BlocksDone, CardStays, Ends
<1>2. CASE call.kind # "write"
    BY <1>1, <1>2, SdQuits DEF BlocksDone, SdInv, CardTypes, SdStays
<1>3. CASE call.kind = "write"
  <2> DEFINE block(s) == call.buf[s - call.first + 1]
  <2>1. told' = [s \in Sectors |-> IF s \in WrittenBlocks THEN block(s) ELSE told[s]]
      BY <1>3 DEF BlocksDone
  <2>2. \A s \in WrittenBlocks : /\ s \in call.first .. call.sector - 1
                                 /\ s - call.first + 1 \in 1 .. Len(call.buf)
      BY <1>1, <1>3, SdAssumption DEF WrittenBlocks, SdInv, SdCallTypes, WrittenInv, Does
  <2>3. \A s \in WrittenBlocks : block(s) \in Data /\ Keeps(s, block(s))
      BY <1>1, <1>3, <2>2 DEF SdInv, WrittenInv, Does, Sent
  <2>4. CardTypes'
      BY <1>1, <2>1, <2>3 DEF SdInv, CardTypes
  <2>5. ToldInv'
    <3>1. ASSUME NEW s \in Sectors, told'[s] # "none" PROVE Keeps(s, told'[s])
        BY <2>1, <2>3, <3>1 DEF SdInv, ToldInv
    <3> QED BY <1>1, <3>1 DEF ToldInv, Keeps
  <2>6. SdCallTypes' /\ PlaceInv' /\ DeliveredInv' /\ WrittenInv'
      BY <1>1, NoCallTypes DEF SdCallTypes, PlaceInv, DeliveredInv, WrittenInv, Does, NoCall
  <2> QED BY <2>4, <2>5, <2>6 DEF SdInv
<1> QED BY <1>2, <1>3

\* The card finishes a block, or spoils it.
LEMMA SdCardChanges ==
    ASSUME SdInv, UNCHANGED <<call, told>>, CardTypes', card'.busy = NoBlock, NEW b \in Sectors,
           card.busy.sector = b,
           \/ disk' = [disk EXCEPT ![b] = card.busy.data] /\ spoilt' = spoilt \ {b}
           \/ disk' = [disk EXCEPT ![b] = Spoilt] /\ spoilt' = spoilt \cup {b}
    PROVE  SdInv'
<1>1. \A s \in Sectors : \A d : Keeps(s, d) => Keeps(s, d)'
  <2>1. \A s \in Sectors : card'.busy.sector # s
      BY SdAssumption DEF NoBlock
  <2>2. ASSUME NEW s \in Sectors, NEW d, Keeps(s, d) PROVE disk'[s] = d \/ s \in spoilt'
    <3>1. CASE s = b
        BY <2>2, <3>1 DEF SdInv, CardTypes, Keeps
    <3>2. CASE s # b
        BY <2>2, <3>2 DEF SdInv, CardTypes, Keeps
    <3> QED BY <3>1, <3>2
  <2> QED BY <2>1, <2>2 DEF Keeps
<1>2. SdCallTypes' /\ PlaceInv'
    BY DEF SdInv, SdCallTypes, PlaceInv, Does
<1>3. DeliveredInv'
  <2>1. Busy
      BY SdAssumption DEF Busy, NoBlock
  <2>2. Does("read") => call.first = call.sector
      BY <2>1 DEF SdInv, DeliveredInv, PlaceInv, Does, SdCallTypes
  <2> QED BY <2>2 DEF SdInv, DeliveredInv, SdCallTypes, Does, Busy
<1>4. WrittenInv'
  <2>1. ASSUME Does("write"), NEW s \in call.first .. Sent - 1 PROVE s \in Sectors
    <3>1. call.sector \in Nat /\ call.count \in Nat /\ call.first \in Nat
        BY DEF SdInv, SdCallTypes
    <3>2. /\ call.first \in Sectors /\ call.first <= call.sector
          /\ call.first < call.sector => call.sector - 1 \in Sectors
          /\ 0 < call.count => call.sector + call.count - 1 \in Sectors
          /\ call.at # "command" => 0 < call.count
        BY <2>1 DEF SdInv, PlaceInv, Does
    <3>3. CASE call.at = "busy"
      <4>1. s \in call.first .. call.sector + call.count - 1
          BY <3>1, <3>2, <3>3 DEF Sent
      <4> QED BY <3>2, <3>3, <4>1, SdAssumption
    <3>4. CASE call.at # "busy"
      <4>1. s \in call.first .. call.sector - 1 /\ call.first < call.sector
          BY <3>1, <3>2, <3>4 DEF Sent
      <4> QED BY <3>2, <4>1, SdAssumption
    <3> QED BY <3>3, <3>4
  <2>2. ASSUME Does("write"), NEW s \in call.first .. Sent - 1
        PROVE  told'[s] = "none" /\ Keeps(s, call.buf[s - call.first + 1])'
    <3>1. told[s] = "none" /\ Keeps(s, call.buf[s - call.first + 1])
        BY <2>2 DEF SdInv, WrittenInv
    <3>2. Keeps(s, call.buf[s - call.first + 1])'
        BY <1>1, <2>1, <2>2, <3>1 DEF Keeps
    <3> QED BY <3>1, <3>2
  <2>3. Does("write") => /\ Len(call.buf) = call.sector - call.first + call.count
                         /\ \A i \in 1 .. Len(call.buf) : call.buf[i] \in Data
      BY DEF SdInv, WrittenInv
  <2> QED BY <2>2, <2>3 DEF WrittenInv, Does, Sent, Keeps
<1>5. ToldInv'
    BY <1>1 DEF SdInv, ToldInv, Keeps
<1> QED BY <1>2, <1>3, <1>4, <1>5 DEF SdInv

\* The card finishes what it programs, or spoils it.
LEMMA SdFinishes ==
    ASSUME SdInv, CardFinishes PROVE SdInv'
<1>1. card.busy \in [sector : Sectors, data : Data]
    BY DEF CardFinishes, Busy, SdInv, CardTypes
<1>2. /\ card'.busy = NoBlock /\ card.busy.sector \in Sectors /\ UNCHANGED <<call, told>>
      /\ \/ /\ disk' = [disk EXCEPT ![card.busy.sector] = card.busy.data]
            /\ spoilt' = spoilt \ {card.busy.sector}
         \/ /\ disk' = [disk EXCEPT ![card.busy.sector] = Spoilt]
            /\ spoilt' = spoilt \cup {card.busy.sector}
    BY <1>1 DEF CardFinishes, SdInv, CardTypes
<1>3. CardTypes'
    BY <1>1, <1>2 DEF CardFinishes, SdInv, CardTypes, Blocks
<1> QED BY <1>2, <1>3, SdCardChanges

\* The card is taken out: what it was programming is lost.
LEMMA SdTakenOut ==
    ASSUME SdInv, CardIsTakenOut PROVE SdInv'
<1>1. card' = [mode |-> "off", busy |-> NoBlock] /\ UNCHANGED <<call, told>>
    BY DEF CardIsTakenOut
<1>2. CASE Busy
  <2>1. card.busy \in [sector : Sectors, data : Data]
      BY <1>2 DEF Busy, SdInv, CardTypes
  <2>2. /\ card'.busy = NoBlock /\ card.busy.sector \in Sectors
        /\ disk' = [disk EXCEPT ![card.busy.sector] = Spoilt]
        /\ spoilt' = spoilt \cup {card.busy.sector}
      BY <1>1, <1>2, <2>1 DEF CardIsTakenOut
  <2>3. CardTypes'
      BY <1>1, <2>2 DEF SdInv, CardTypes, Blocks
  <2> QED BY <1>1, <2>2, <2>3, SdCardChanges
<1>3. CASE ~Busy
  <2>1. UNCHANGED <<disk, spoilt>> /\ card'.busy = card.busy
      BY <1>1, <1>3 DEF CardIsTakenOut, Busy
  <2> QED BY <1>1, <2>1 DEF SdInv, CardTypes, SdCallTypes, PlaceInv, DeliveredInv, WrittenInv, ToldInv,
             Does, Sent, Keeps, Busy
<1> QED BY <1>2, <1>3

\* Waking up the card: each step goes on, tries again or gives up.
LEMMA SdInitEdits ==
    ASSUME SdCallTypes, call.kind = "init"
    PROVE  /\ \A at \in {"ifcond", "opcond", "ocr"} : call' = [call EXCEPT !.at = at] =>
                 SdCallTypes' /\ call'.kind = "init" /\ call'.at = at
           /\ \A t \in Int : call' = [call EXCEPT !.tries = t] =>
                 SdCallTypes' /\ call'.kind = "init" /\ call'.at = call.at
           /\ call' = [call EXCEPT !.at = "opcond", !.tries = OpTries] =>
                 SdCallTypes' /\ call'.kind = "init" /\ call'.at = "opcond"
           /\ call.tries - 1 \in Int
<1>1. \A at \in {"ifcond", "opcond", "ocr"} : call' = [call EXCEPT !.at = at] =>
        SdCallTypes' /\ call'.kind = "init" /\ call'.at = at
    BY DEF SdCallTypes
<1>2. \A t \in Int : call' = [call EXCEPT !.tries = t] =>
        SdCallTypes' /\ call'.kind = "init" /\ call'.at = call.at
    BY DEF SdCallTypes
<1>3. \A t \in Int : call' = [call EXCEPT !.at = "opcond", !.tries = t] =>
        SdCallTypes' /\ call'.kind = "init" /\ call'.at = "opcond"
    BY DEF SdCallTypes
<1>4. call.tries - 1 \in Int
    BY DEF SdCallTypes
<1>5. OpTries \in Int
    BY SdAssumption
<1> QED BY <1>1, <1>2, <1>3, <1>4, <1>5

\* Each step of the wake-up goes on, tries again or gives up.
LEMMA SdWakeUp ==
    ASSUME SdInv, disk_initialize \/ SD_goIdleState \/ SD_sendIfCond \/ SD_sendOpCond \/ SD_readOCR
    PROVE  SdInv'
<1>1. CASE disk_initialize
  <2>1. call' = [NoCall EXCEPT !.kind = "init", !.at = "idle", !.tries = IdleTries] /\ UNCHANGED <<card, disk, spoilt, told>>
      BY <1>1 DEF disk_initialize, Starts
  <2>2. SdCallTypes' /\ call'.kind = "init" /\ call'.at = "idle"
    <3>1. call' = [kind |-> "init", at |-> "idle", sector |-> 0, count |-> 0, buf |-> <<>>, first |-> 0,
                   took |-> FALSE, tries |-> IdleTries]
        BY <2>1, Zenon DEF NoCall
    <3>2. IdleTries \in Int /\ <<>> \in Seq(Blocks)
        BY SdAssumption
    <3> QED BY <3>1, <3>2 DEF SdCallTypes
  <2> QED BY <2>1, <2>2, SdWakes DEF SdInv, CardTypes, SdStays
<1>2. CASE SD_goIdleState \/ SD_sendIfCond \/ SD_sendOpCond \/ SD_readOCR
  <2>1. call.kind = "init" /\ call.at \in {"idle", "ifcond", "opcond", "ocr"} /\ UNCHANGED told
      BY <1>2 DEF SD_goIdleState, SD_sendIfCond, SD_sendOpCond, SD_readOCR, At, Goes, TriesAgain, Fails
  <2>2. UNCHANGED <<disk, spoilt>> /\ (card' = card \/ \E m \in {"idle", "ready"} : card' = [card EXCEPT !.mode = m])
      BY <1>2 DEF SD_goIdleState, SD_sendIfCond, SD_sendOpCond, SD_readOCR, CardStays
  <2>3. CardTypes' /\ SdStays
      BY <2>1, <2>2 DEF SdInv, CardTypes, SdStays
  <2>4. \/ call' = NoCall
        \/ \E at \in {"ifcond", "opcond", "ocr"} : call' = [call EXCEPT !.at = at]
        \/ call' = [call EXCEPT !.tries = @ - 1]
        \/ call' = [call EXCEPT !.at = "opcond", !.tries = OpTries]
      BY <1>2 DEF SD_goIdleState, SD_sendIfCond, SD_sendOpCond, SD_readOCR, Goes, TriesAgain, Fails, Ends
  <2>5. call' = NoCall \/ (SdCallTypes' /\ call'.kind = "init" /\ call'.at \in {"idle", "ifcond", "opcond", "ocr"})
    <3>1. CASE \E at \in {"ifcond", "opcond", "ocr"} : call' = [call EXCEPT !.at = at]
        BY <2>1, <3>1, SdInitEdits DEF SdInv
    <3>2. CASE call' = [call EXCEPT !.tries = @ - 1]
        BY <2>1, <3>2, SdInitEdits, Zenon DEF SdInv
    <3>3. CASE call' = [call EXCEPT !.at = "opcond", !.tries = OpTries]
        BY <2>1, <3>3, SdInitEdits DEF SdInv
    <3> QED BY <2>4, <3>1, <3>2, <3>3
  <2> QED BY <2>1, <2>3, <2>5, SdQuits, SdWakes
<1> QED BY <1>1, <1>2

\* The invariant holds at reset.
LEMMA SdInvInit == SdDriverInit => SdInv
<1> SUFFICES ASSUME SdDriverInit PROVE SdInv
    OBVIOUS
<1>1. CardTypes
    BY DEF SdDriverInit, CardTypes, Blocks
<1>2. SdCallTypes /\ PlaceInv /\ DeliveredInv /\ WrittenInv
    BY NoCallTypes DEF SdDriverInit, SdCallTypes, PlaceInv, DeliveredInv, WrittenInv, Does, NoCall
<1>3. ToldInv
    BY DEF SdDriverInit, ToldInv
<1> QED BY <1>1, <1>2, <1>3 DEF SdInv

\* The invariant is inductive: one step per action of the driver and of the card.
LEMMA SdInvNext == SdInv /\ [SdDriverNext]_sdVars => SdInv'
<1> SUFFICES ASSUME SdInv, [SdDriverNext]_sdVars PROVE SdInv'
    OBVIOUS
<1>1. CASE UNCHANGED sdVars
    BY <1>1 DEF sdVars, SdInv, CardTypes, SdCallTypes, PlaceInv, DeliveredInv, WrittenInv, ToldInv,
       Does, Sent, Keeps, Busy
<1>2. CASE disk_initialize \/ SD_goIdleState \/ SD_sendIfCond \/ SD_sendOpCond \/ SD_readOCR
    BY <1>2, SdWakeUp
<1>3. CASE SD_readBlocks
    BY <1>3, SdReads
<1>4. CASE SD_writeBlocks
    BY <1>4, SdWrites
<1>5. CASE SD_sendIOCmd
    BY <1>5, SdCommands
<1>6. CASE SD_readSingleBlock
    BY <1>6, SdReadsBlock
<1>7. CASE DataResponse
    BY <1>7, SdWritesBlock
<1>8. CASE BusyEnds
    BY <1>8, SdBusyEnds
<1>9. CASE BlocksDone
    BY <1>9, SdDone
<1>10. CASE CardFinishes
    BY <1>10, SdFinishes
<1>11. CASE CardIsTakenOut
    BY <1>11, SdTakenOut
<1> QED BY <1>1, <1>2, <1>3, <1>4, <1>5, <1>6, <1>7, <1>8, <1>9, <1>10, <1>11 DEF SdDriverNext, DriverSteps

\* The invariant is inductive.
THEOREM SdInvariant == SdDriverSpec => []SdInv
BY SdInvInit, SdInvNext, PTL DEF SdDriverSpec

\* A transfer is of the blocks it was asked for: a read has delivered what the
\* card holds, and what a write reported is on the card or about to be, unless
\* the card failed to keep it (SD_readBlocks, SD_writeBlocks).
THEOREM SdTransfers == SdDriverSpec => []TransfersAreFaithful
<1>1. SdInv => TransfersAreFaithful
  <2> SUFFICES ASSUME SdInv PROVE TransfersAreFaithful
      OBVIOUS
  <2>1. ASSUME call.kind = "read"
        PROVE  call.buf = [i \in 1 .. call.sector - call.first |-> disk[call.first + i - 1]]
    <3>1. /\ call.buf \in Seq(Blocks) /\ Len(call.buf) = call.sector - call.first
          /\ \A i \in 1 .. Len(call.buf) : call.buf[i] = disk[call.first + i - 1]
        BY <2>1 DEF SdInv, SdCallTypes, DeliveredInv, Does
    <3> QED BY <3>1
  <2>2. ASSUME NEW s \in Sectors, told[s] # "none"
        PROVE  disk[s] = told[s] \/ card.busy = [sector |-> s, data |-> told[s]] \/ s \in spoilt
    <3>1. Keeps(s, told[s])
        BY <2>2 DEF SdInv, ToldInv
    <3>2. CASE card.busy.sector = s
      <4>1. card.busy \in [sector : Sectors, data : Data] /\ card.busy.data = told[s]
          BY <3>1, <3>2, SdAssumption DEF SdInv, CardTypes, NoBlock, Keeps
      <4> QED BY <3>2, <4>1
    <3> QED BY <3>1, <3>2 DEF Keeps
  <2> QED BY <2>1, <2>2 DEF TransfersAreFaithful
<1> QED BY SdInvariant, <1>1, PTL

-----------------------------------------------------------------------------
(* The mainboard link.                                                     *)

\* What the VDP may be sending, and the answer to a request.
AnswerTo(r) == [cmd |-> r.cmd, bytes |-> Filled(Takes[r.cmd], r.id)]
RequestT == [cmd : Asks, id : 0 .. MaxAsks]
PacketT == Events \cup {AnswerTo(r) : r \in RequestT}

\* The buffer, with what earlier packets have left in it.
BufferT == {d \in [1 .. BufferLen -> Nat] : \A i \in 1 .. BufferLen : d[i] \in LeftBehind(i)}
ParserT == [state : 0 .. 3, cmd : Nat, len : Nat, stored : Nat, data : BufferT]
Askings == {"none", "clear", "send", "wait", "read", "rest", "done"}
LinkTypes ==
  /\ parser \in ParserT /\ system \in [DOMAIN Takes -> Seq(Nat)]
  /\ owed \in Seq(RequestT) /\ asks \in 0 .. MaxAsks /\ late \in BOOLEAN
  /\ asking.at \in Askings /\ asking = [at |-> asking.at, cmd |-> asking.cmd, id |-> asking.id, copy |-> asking.copy,
                                        seen |-> asking.seen]
  /\ asking.at # "none" => asking.cmd \in Asks /\ asking.id \in 0 .. MaxAsks
  /\ wire = [bytes |-> wire.bytes, sent |-> wire.sent]

\* The packet k is on the wire, and the receiver holds what has come of it.
OnWire(k) ==
  LET n == Len(k.bytes)
  IN /\ wire.bytes = Packet(k.cmd, k.bytes) /\ wire.sent \in 0 .. n + 1
     /\ wire.sent = 0 => parser.state = 0
     /\ wire.sent = 1 => parser.state = 1
     /\ wire.sent > 0 => parser.cmd = k.cmd
     /\ wire.sent > 0 /\ parser.state # 3 => parser.stored = (IF wire.sent = 1 THEN 0 ELSE wire.sent - 2)
     /\ wire.sent > 1 =>
          /\ parser.len = n + 2 - wire.sent
          /\ parser.state = (IF n > BufferLen THEN 3 ELSE 2)
          /\ n <= BufferLen => \A i \in 1 .. parser.stored : parser.data[i] = k.bytes[i]
EventsOnly == wire = Silent \/ \E k \in Events : OnWire(k)
StepInv ==
  /\ wire = Silent => parser.state = 0
  /\ wire # Silent => \E k \in PacketT : OnWire(k)
  /\ delivered.bytes = << >> \/ \E e \in Events : IsOf(delivered, e)

\* As long as no wait was in vain, nothing is owed but what is asked for.
Asked == [cmd |-> asking.cmd, id |-> asking.id]
Answer == Filled(Takes[asking.cmd], asking.id)
NothingOwed == owed = << >> /\ EventsOnly
AnswerComes == wire # Silent /\ \E r \in RequestT : r = Asked /\ OnWire(AnswerTo(r))
AskInv ==
  /\ asking.at # "wait" => NothingOwed
  /\ asking.at = "send" => asking.cmd \notin vdpFlags
  /\ asking.at = "wait" =>
       \/ owed = <<Asked>> /\ EventsOnly /\ asking.cmd \notin vdpFlags
       \/ owed = << >> /\ AnswerComes /\ asking.cmd \notin vdpFlags
       \/ NothingOwed /\ (asking.cmd \in vdpFlags => system[asking.cmd] = Answer)
  /\ asking.at \in {"read", "rest"} => system[asking.cmd] = Answer
  /\ asking.at = "rest" => asking.seen = SubSeq(Answer, 1, Half(Answer))
  /\ asking.at = "done" => asking.seen = Answer
LinkInv == LinkTypes /\ StepInv /\ (~late => AskInv)

\* What the receiver does with the whole of packet k.
Effect(k) ==
  \/ NoEffect
  \/ /\ k.cmd \in DOMAIN Takes /\ Len(k.bytes) <= BufferLen
     /\ vdpFlags' = vdpFlags \cup ({k.cmd} \ {0}) /\ UNCHANGED delivered
     /\ \E s \in Seq(Nat) :
          /\ system' = [system EXCEPT ![k.cmd] = s]
          /\ Len(k.bytes) = Takes[k.cmd] => s = k.bytes
  \/ k \in Events /\ IsOf(delivered, k)' /\ UNCHANGED <<system, vdpFlags>>
UartStays == UNCHANGED <<backend, owed, asking, asks, vdpEvents, routes, late>>
WireT == wire = [bytes |-> wire.bytes, sent |-> wire.sent]
Took(k) ==
  /\ parser' \in ParserT /\ WireT'
  /\ \/ wire' # Silent /\ OnWire(k)' /\ NoEffect
     \/ wire' = Silent /\ parser'.state = 0 /\ Effect(k)

\* No handler copies more than ten bytes.
LEMMA TakesAre == \A c \in DOMAIN Takes : c \in Nat /\ c \notin {KEY, KEYSTATE, GRAPHICS} /\ Takes[c] \in 1 .. 10
<1>1. DOMAIN Takes = {0, 2, 3, 4, 5, 6, 7, 9}
    BY DEF Takes
<1>2. Takes[0] = 1 /\ Takes[3] = 1
    BY DEF Takes
<1>3. Takes[2] = 2 /\ Takes[5] = 2
    BY DEF Takes
<1>4. Takes[4] = 4 /\ Takes[6] = 8
    BY DEF Takes
<1>5. Takes[7] = 6 /\ Takes[9] = 10
    BY DEF Takes
<1>6. \A c \in DOMAIN Takes : Takes[c] \in 1 .. 10
    BY <1>1, <1>2, <1>3, <1>4, <1>5
<1> QED BY <1>1, <1>6 DEF KEY, KEYSTATE, GRAPHICS

\* A run of one byte.
LEMMA FilledIs ==
    ASSUME NEW n \in Nat, NEW b \in Nat
    PROVE  Filled(n, b) \in Seq(Nat) /\ Len(Filled(n, b)) = n /\ \A i \in 1 .. n : Filled(n, b)[i] = b
BY DEF Filled

\* The number of a request.
LEMMA Numbered == \A r \in RequestT : r.cmd \in Asks /\ r.id \in 0 .. MaxAsks /\ r.id \in Nat
BY VdpLinkAssumption DEF RequestT

\* What may be on the wire, and what of it is an answer.
LEMMA Packets ==
    ASSUME NEW k \in PacketT
    PROVE  /\ k.cmd \in Nat /\ k.bytes \in Seq(Nat) /\ k = [cmd |-> k.cmd, bytes |-> k.bytes]
           /\ k.cmd \in {KEY, KEYSTATE, GRAPHICS} => k \in Events
<1>1. CASE k \in Events
    BY <1>1, VdpLinkAssumption
<1>2. CASE k \notin Events
  <2>1. PICK r \in RequestT : k = AnswerTo(r)
      BY <1>2 DEF PacketT
  <2>2. r.cmd \in Asks /\ r.id \in Nat
      BY Numbered
  <2>3. r.cmd \in DOMAIN Takes
      BY <2>2, VdpLinkAssumption
  <2>4. r.cmd \in Nat /\ r.cmd \notin {KEY, KEYSTATE, GRAPHICS} /\ Takes[r.cmd] \in 1 .. 10
      BY <2>3, TakesAre
  <2>5. Takes[r.cmd] \in Nat
      BY <2>4
  <2>6. Filled(Takes[r.cmd], r.id) \in Seq(Nat)
      BY <2>2, <2>5, FilledIs
  <2> QED BY <2>1, <2>4, <2>6 DEF AnswerTo
<1> QED BY <1>1, <1>2

\* An answer fits what its handler copies.
LEMMA Answers ==
    ASSUME NEW r \in RequestT
    PROVE  /\ AnswerTo(r) \in PacketT /\ AnswerTo(r).cmd = r.cmd
           /\ AnswerTo(r).bytes = Filled(Takes[r.cmd], r.id) /\ Len(AnswerTo(r).bytes) = Takes[r.cmd]
<1>1. r.cmd \in Asks /\ r.id \in Nat
    BY Numbered
<1>2. Takes[r.cmd] \in 1 .. 10
    BY <1>1, TakesAre, VdpLinkAssumption
<1>3. Len(Filled(Takes[r.cmd], r.id)) = Takes[r.cmd]
  <2>1. Takes[r.cmd] \in Nat
      BY <1>2
  <2> QED BY <1>1, <2>1, FilledIs
<1> QED BY <1>3 DEF AnswerTo, PacketT

\* The bytes that a packet leaves in the buffer.
LEMMA Leaves ==
    ASSUME NEW k \in PacketT, Len(k.bytes) <= BufferLen, NEW i \in 1 .. Len(k.bytes)
    PROVE  k.bytes[i] \in LeftBehind(i)
<1>1. CASE k \in Events
  <2>1. k.bytes \in Seq(Nat)
      BY Packets
  <2>2. i \in DOMAIN k.bytes
      BY <2>1, LenProperties
  <2> QED BY <1>1, <2>2 DEF LeftBehind
<1>2. CASE k \notin Events
  <2>1. PICK r \in RequestT : k = AnswerTo(r)
      BY <1>2 DEF PacketT
  <2>2. k.bytes = Filled(Takes[r.cmd], r.id) /\ Len(k.bytes) = Takes[r.cmd]
      BY <2>1, Answers
  <2>3. r.cmd \in Asks /\ r.id \in 0 .. MaxAsks
      BY Numbered
  <2>4. k.bytes[i] = r.id
      BY <2>2 DEF Filled
  <2> QED BY <2>3, <2>4 DEF LeftBehind
<1> QED BY <1>1, <1>2

\* The header of a packet and the bytes behind it.
LEMMA Layout ==
    ASSUME NEW c \in Nat, NEW b \in Seq(Nat)
    PROVE  /\ Packet(c, b) \in Seq(Nat) /\ Len(Packet(c, b)) = Len(b) + 2 /\ Len(b) \in Nat
           /\ Packet(c, b)[1] = 128 + c /\ Packet(c, b)[2] = Len(b)
           /\ \A i \in 1 .. Len(b) : Packet(c, b)[i + 2] = b[i] /\ b[i] \in Nat
<1> DEFINE h == <<128 + c, Len(b)>>
<1>1. h \in Seq(Nat) /\ Len(h) = 2 /\ h[1] = 128 + c /\ h[2] = Len(b) /\ Len(b) \in Nat
  <2>1. Len(b) \in Nat /\ 128 + c \in Nat
      BY LenProperties
  <2> QED BY <2>1
<1> HIDE DEF h
<1>2. /\ h \o b \in Seq(Nat) /\ Len(h \o b) = Len(h) + Len(b)
      /\ \A i \in 1 .. Len(h) + Len(b) : (h \o b)[i] = IF i <= Len(h) THEN h[i] ELSE b[i - Len(h)]
    BY <1>1, ConcatProperties
<1>3. Packet(c, b) = h \o b
    BY DEF Packet, h
<1>4. \A i \in 1 .. Len(b) : (h \o b)[i + 2] = b[i] /\ b[i] \in Nat
    BY <1>1, <1>2, ElementOfSeq
<1>5. (h \o b)[1] = 128 + c /\ (h \o b)[2] = Len(b)
    BY <1>1, <1>2
<1> QED BY <1>1, <1>2, <1>3, <1>4, <1>5

\* The part of the buffer that holds the bytes of a packet.
LEMMA HeldBytes ==
    ASSUME NEW d \in [1 .. BufferLen -> Nat], NEW b \in Seq(Nat), NEW n \in 0 .. Len(b), n <= BufferLen,
           \A i \in 1 .. n : d[i] = b[i]
    PROVE  SubSeq(d, 1, n) = SubSeq(b, 1, n) /\ SubSeq(d, 1, n) \in Seq(Nat) /\ (n = Len(b) => SubSeq(d, 1, n) = b)
<1>1. Len(b) \in Nat /\ n \in Nat
    BY LenProperties
<1>2. \A i \in 1 .. n : d[i] \in Nat /\ b[i] \in Nat
  <2> TAKE i \in 1 .. n
  <2>1. i \in Nat /\ 1 <= i /\ i <= n
      BY <1>1
  <2>2. i <= Len(b) /\ i <= BufferLen /\ BufferLen \in Nat
    <3>1. n <= Len(b) /\ BufferLen \in Nat
        BY <1>1 DEF BufferLen
    <3> HIDE DEF BufferLen
    <3> QED BY <1>1, <2>1, <3>1
  <2>3. i \in 1 .. BufferLen /\ i \in 1 .. Len(b)
      BY <1>1, <2>1, <2>2
  <2> QED BY <2>3, ElementOfSeq
<1>3. /\ SubSeq(d, 1, n) \in Seq(Nat) /\ Len(SubSeq(d, 1, n)) = IF 1 <= n THEN n - 1 + 1 ELSE 0
      /\ \A i \in 1 .. n - 1 + 1 : SubSeq(d, 1, n)[i] = d[1 + i - 1]
    BY <1>1, <1>2, SubSeqProperties
<1>4. /\ SubSeq(b, 1, n) \in Seq(Nat) /\ Len(SubSeq(b, 1, n)) = IF 1 <= n THEN n - 1 + 1 ELSE 0
      /\ \A i \in 1 .. n - 1 + 1 : SubSeq(b, 1, n)[i] = b[1 + i - 1]
    BY <1>1, <1>2, SubSeqProperties
<1> DEFINE u == SubSeq(d, 1, n)
<1> DEFINE v == SubSeq(b, 1, n)
<1>5. u \in Seq(Nat) /\ Len(u) = n /\ \A i \in 1 .. n : u[i] = d[i]
    BY <1>1, <1>3
<1>6. v \in Seq(Nat) /\ Len(v) = n /\ \A i \in 1 .. n : v[i] = b[i]
    BY <1>1, <1>4
<1> HIDE DEF u, v
<1>7. u = v
    BY <1>5, <1>6, SeqEqual
<1>8. n = Len(b) => v = b
    BY SubSeqFull DEF v
<1> QED BY <1>5, <1>7, <1>8 DEF u, v

\* The fields of the receiver that a byte changes.
LEMMA ParserEdits ==
    ASSUME NEW p \in ParserT
    PROVE  /\ \A v \in 0 .. 3 : LET q == [p EXCEPT !.state = v] IN
                q \in ParserT /\ q.state = v /\ q.cmd = p.cmd /\ q.len = p.len /\ q.stored = p.stored /\ q.data = p.data
           /\ \A v \in Nat : LET q == [p EXCEPT !.cmd = v] IN
                q \in ParserT /\ q.state = p.state /\ q.cmd = v /\ q.len = p.len /\ q.stored = p.stored /\ q.data = p.data
           /\ \A v \in Nat : LET q == [p EXCEPT !.len = v] IN
                q \in ParserT /\ q.state = p.state /\ q.cmd = p.cmd /\ q.len = v /\ q.stored = p.stored /\ q.data = p.data
           /\ \A v \in Nat : LET q == [p EXCEPT !.stored = v] IN
                q \in ParserT /\ q.state = p.state /\ q.cmd = p.cmd /\ q.len = p.len /\ q.stored = v /\ q.data = p.data
<1>1. \A v \in 0 .. 3 : LET q == [p EXCEPT !.state = v] IN
                q \in ParserT /\ q.state = v /\ q.cmd = p.cmd /\ q.len = p.len /\ q.stored = p.stored /\ q.data = p.data
    BY DEF ParserT
<1>2. \A v \in Nat : LET q == [p EXCEPT !.cmd = v] IN
                q \in ParserT /\ q.state = p.state /\ q.cmd = v /\ q.len = p.len /\ q.stored = p.stored /\ q.data = p.data
    BY DEF ParserT
<1>3. \A v \in Nat : LET q == [p EXCEPT !.len = v] IN
                q \in ParserT /\ q.state = p.state /\ q.cmd = p.cmd /\ q.len = v /\ q.stored = p.stored /\ q.data = p.data
    BY DEF ParserT
<1>4. \A v \in Nat : LET q == [p EXCEPT !.stored = v] IN
                q \in ParserT /\ q.state = p.state /\ q.cmd = p.cmd /\ q.len = p.len /\ q.stored = v /\ q.data = p.data
    BY DEF ParserT
<1> QED BY <1>1, <1>2, <1>3, <1>4

Complete(p, k) ==
  /\ p \in ParserT /\ p.cmd = k.cmd /\ p.stored = Len(k.bytes) /\ Len(k.bytes) <= BufferLen
  /\ \A i \in 1 .. Len(k.bytes) : p.data[i] = k.bytes[i]

\* A packet that is complete is published, delivered or dropped.
LEMMA Executes ==
    ASSUME NEW k \in PacketT, NEW p, Complete(p, k), vdp_protocol_exec(p)
    PROVE  Effect(k)
<1>1. /\ k.cmd \in Nat /\ k.bytes \in Seq(Nat) /\ k = [cmd |-> k.cmd, bytes |-> k.bytes]
      /\ k.cmd \in {KEY, KEYSTATE, GRAPHICS} => k \in Events
    BY Packets
<1>2. Len(k.bytes) \in Nat /\ p.data \in BufferT /\ p.data \in [1 .. BufferLen -> Nat]
  <2>1. p.data \in BufferT
      BY DEF Complete, ParserT
  <2> QED BY <1>1, <2>1, LenProperties DEF BufferT
<1>3. SubSeq(p.data, 1, Len(k.bytes)) = k.bytes
  <2>1. Len(k.bytes) \in 0 .. Len(k.bytes)
      BY <1>2
  <2> QED BY <1>1, <1>2, <2>1, HeldBytes DEF Complete
<1>4. NoEffect \/ Publishes(p) \/ (IsDelivered(p) /\ delivered' = [cmd |-> p.cmd, bytes |-> HandsOn(p)]
                                   /\ UNCHANGED <<system, vdpFlags>>)
    BY DEF vdp_protocol_exec, NoEffect
<1>5. CASE Publishes(p)
  <2> DEFINE s == SubSeq(p.data, 1, Takes[p.cmd])
  <2>1. p.cmd \in DOMAIN Takes /\ p.cmd = k.cmd
      BY <1>5 DEF Publishes, Complete
  <2>2. s \in Seq(Nat)
    <3>1. Takes[p.cmd] \in 1 .. 10
        BY <2>1, TakesAre
    <3>2. Takes[p.cmd] \in Int /\ 1 \in Int
        BY <3>1
    <3>3. \A i \in 1 .. Takes[p.cmd] : p.data[i] \in Nat
      <4> TAKE i \in 1 .. Takes[p.cmd]
      <4>1. i \in 1 .. BufferLen
          BY <3>1 DEF BufferLen
      <4> QED BY <1>2, <4>1
    <3> QED BY <3>2, <3>3, SubSeqProperties
  <2>3. Len(k.bytes) = Takes[k.cmd] => s = k.bytes
      BY <1>3, <2>1
  <2>4. system' = [system EXCEPT ![p.cmd] = s] /\ vdpFlags' = vdpFlags \cup ({p.cmd} \ {0}) /\ UNCHANGED delivered
      BY <1>5 DEF Publishes
  <2>5. Len(k.bytes) <= BufferLen
      BY DEF Complete
  <2> HIDE DEF s
  <2> QED BY <2>1, <2>2, <2>3, <2>4, <2>5, Zenon DEF Effect
<1>6. CASE IsDelivered(p) /\ delivered' = [cmd |-> p.cmd, bytes |-> HandsOn(p)] /\ UNCHANGED <<system, vdpFlags>>
  <2>1. k \in Events
      BY <1>1, <1>6 DEF IsDelivered, Complete
  <2>2. delivered'.cmd = k.cmd /\ delivered'.bytes = HandsOn(p) /\ p.cmd = k.cmd /\ p.stored = Len(k.bytes)
      BY <1>6 DEF Complete
  <2>3. k.cmd # KEYSTATE => HandsOn(p) = k.bytes
      BY <1>3, <2>2, Zenon DEF HandsOn
  <2>4. ASSUME k.cmd = KEYSTATE
        PROVE  /\ Len(HandsOn(p)) = SettingsLen
               /\ \A i \in 1 .. SettingsLen : IF i <= Len(k.bytes) THEN HandsOn(p)[i] = k.bytes[i] ELSE HandsOn(p)[i] \in LeftBehind(i)
    <3>1. HandsOn(p) = SubSeq(p.data, 1, SettingsLen)
        BY <2>2, <2>4 DEF HandsOn
    <3>2. 1 \in Int /\ SettingsLen \in Int /\ SettingsLen = 5 /\ BufferLen = 16
        BY DEF SettingsLen, BufferLen
    <3>3. \A i \in 1 .. SettingsLen : i \in 1 .. BufferLen /\ p.data[i] \in Nat /\ p.data[i] \in LeftBehind(i)
      <4>1. \A i \in 1 .. SettingsLen : i \in 1 .. BufferLen
          BY <3>2
      <4> QED BY <1>2, <4>1 DEF BufferT
    <3>4. /\ Len(SubSeq(p.data, 1, SettingsLen)) = SettingsLen
          /\ \A i \in 1 .. SettingsLen : SubSeq(p.data, 1, SettingsLen)[i] = p.data[i]
      <4>1. \A i \in 1 .. SettingsLen : p.data[i] \in Nat
          BY <3>3
      <4> DEFINE d == p.data
      <4> HIDE DEF d
      <4>2. /\ Len(SubSeq(d, 1, SettingsLen)) = IF 1 <= SettingsLen THEN SettingsLen - 1 + 1 ELSE 0
            /\ \A i \in 1 .. SettingsLen - 1 + 1 : SubSeq(d, 1, SettingsLen)[i] = d[1 + i - 1]
          BY <3>2, <4>1, SubSeqProperties DEF d
      <4>3. /\ Len(SubSeq(d, 1, SettingsLen)) = SettingsLen
            /\ \A i \in 1 .. SettingsLen : SubSeq(d, 1, SettingsLen)[i] = d[i]
          BY <3>2, <4>2
      <4> QED BY <4>3 DEF d
    <3>5. \A i \in 1 .. SettingsLen : i <= Len(k.bytes) => p.data[i] = k.bytes[i]
      <4> TAKE i \in 1 .. SettingsLen
      <4> HAVE i <= Len(k.bytes)
      <4>1. i \in 1 .. Len(k.bytes)
          BY <1>2, <3>2
      <4> QED BY <4>1 DEF Complete
    <3> HIDE DEF SettingsLen
    <3> QED BY <3>1, <3>3, <3>4, <3>5
  <2>5. IsOf(delivered, k)'
      BY <2>2, <2>3, <2>4, Zenon DEF IsOf
  <2> QED BY <1>6, <2>1, <2>5 DEF Effect
<1> QED BY <1>4, <1>5, <1>6, Zenon DEF Effect

\* The byte that the receiver takes, and what is left on the wire.
LEMMA NextOnWire ==
    ASSUME NEW k \in PacketT, OnWire(k), wire # Silent, WireT, uart0_handler
    PROVE  /\ wire.sent \in Nat /\ WireT'
           /\ IF wire.sent = Len(k.bytes) + 1 THEN wire' = Silent
              ELSE wire'.bytes = Packet(k.cmd, k.bytes) /\ wire'.sent = wire.sent + 1 /\ wire' # Silent
           /\ wire.bytes[wire.sent + 1] = IF wire.sent = 0 THEN 128 + k.cmd
                                          ELSE IF wire.sent = 1 THEN Len(k.bytes) ELSE k.bytes[wire.sent - 1]
           /\ Len(k.bytes) \in Nat /\ k.cmd \in Nat /\ \A i \in 1 .. Len(k.bytes) : k.bytes[i] \in Nat
<1>1. k.cmd \in Nat /\ k.bytes \in Seq(Nat)
    BY Packets
<1> DEFINE n == Len(k.bytes)
<1> DEFINE w == Packet(k.cmd, k.bytes)
<1>2. /\ Len(w) = n + 2 /\ n \in Nat /\ w[1] = 128 + k.cmd /\ w[2] = n
      /\ \A i \in 1 .. n : w[i + 2] = k.bytes[i] /\ k.bytes[i] \in Nat
  <2>1. Len(w) = n + 2 /\ n \in Nat
      BY ZenonT(60), <1>1, Layout
  <2>2. w[1] = 128 + k.cmd /\ w[2] = n
      BY ZenonT(60), <1>1, Layout
  <2>3. \A i \in 1 .. n : w[i + 2] = k.bytes[i] /\ k.bytes[i] \in Nat
      BY <1>1, Layout, Zenon
  <2> QED BY <2>1, <2>2, <2>3
<1>3. wire.bytes = w /\ wire.sent \in 0 .. n + 1
    BY DEF OnWire
<1>4. wire' = IF wire.sent + 1 = Len(wire.bytes) THEN Silent ELSE [wire EXCEPT !.sent = @ + 1]
    BY DEF uart0_handler
<1> HIDE DEF n, w
<1>5. wire.sent \in Nat
    BY <1>2, <1>3
<1>6. w[wire.sent + 1] = IF wire.sent = 0 THEN 128 + k.cmd ELSE IF wire.sent = 1 THEN n ELSE k.bytes[wire.sent - 1]
  <2>1. CASE wire.sent = 0
      BY <1>2, <2>1
  <2>2. CASE wire.sent = 1
      BY <1>2, <2>2
  <2>3. CASE wire.sent > 1
    <3>1. wire.sent - 1 \in 1 .. n /\ wire.sent - 1 + 2 = wire.sent + 1
        BY <1>2, <1>3, <2>3
    <3>2. w[wire.sent - 1 + 2] = k.bytes[wire.sent - 1]
        BY <1>2, <3>1
    <3> QED BY <1>5, <2>3, <3>1, <3>2
  <2> QED BY <1>5, <2>1, <2>2, <2>3
<1>7. CASE wire.sent = n + 1
  <2>1. wire' = Silent
      BY <1>2, <1>3, <1>4, <1>7
  <2>2. WireT'
      BY <2>1 DEF WireT, Silent
  <2> QED BY <1>1, <1>2, <1>3, <1>5, <1>6, <1>7, <2>1, <2>2 DEF n, w
<1>8. CASE wire.sent # n + 1
  <2>1. wire' = [wire EXCEPT !.sent = @ + 1]
      BY <1>2, <1>3, <1>4, <1>5, <1>8
  <2>2. wire' = [bytes |-> wire.bytes, sent |-> wire.sent + 1]
      BY <2>1 DEF WireT
  <2>3. WireT' /\ wire'.bytes = w /\ wire'.sent = wire.sent + 1
      BY <1>3, <2>2 DEF WireT
  <2>4. wire' # Silent
      BY <1>5, <2>3 DEF Silent
  <2> QED BY <1>1, <1>2, <1>3, <1>5, <1>6, <1>8, <2>3, <2>4 DEF n, w
<1> QED BY <1>7, <1>8

\* The state in which each byte of packet k finds the receiver.
LEMMA Receiving ==
    ASSUME NEW k \in PacketT, OnWire(k), wire # Silent, WireT, uart0_handler
    PROVE  LET byte == wire.bytes[wire.sent + 1]
           IN /\ wire.sent = 0 => parser.state = 0 /\ vdp_protocol_state0(byte)
              /\ wire.sent = 1 => parser.state = 1 /\ vdp_protocol_state1(byte)
              /\ wire.sent > 1 /\ Len(k.bytes) <= BufferLen => parser.state = 2 /\ vdp_protocol_state2(byte)
              /\ wire.sent > 1 /\ Len(k.bytes) > BufferLen => parser.state = 3 /\ vdp_protocol_state3
<1> DEFINE byte == wire.bytes[wire.sent + 1]
<1>1. \/ parser.state = 0 /\ vdp_protocol_state0(byte)
      \/ parser.state = 1 /\ vdp_protocol_state1(byte)
      \/ parser.state = 2 /\ vdp_protocol_state2(byte)
      \/ parser.state = 3 /\ vdp_protocol_state3
    BY DEF uart0_handler
<1>2. /\ wire.sent = 0 => parser.state = 0
      /\ wire.sent = 1 => parser.state = 1
      /\ wire.sent > 1 => parser.state = (IF Len(k.bytes) > BufferLen THEN 3 ELSE 2)
    BY DEF OnWire
<1>3. wire.sent \in Nat /\ Len(k.bytes) \in Nat /\ BufferLen \in Nat
    BY NextOnWire DEF BufferLen
<1>4. Len(k.bytes) <= BufferLen => ~(Len(k.bytes) > BufferLen)
    BY <1>3
<1> HIDE DEF byte
<1>5. /\ wire.sent = 0 => parser.state = 0 /\ vdp_protocol_state0(byte)
      /\ wire.sent = 1 => parser.state = 1 /\ vdp_protocol_state1(byte)
      /\ wire.sent > 1 /\ Len(k.bytes) <= BufferLen => parser.state = 2 /\ vdp_protocol_state2(byte)
      /\ wire.sent > 1 /\ Len(k.bytes) > BufferLen => parser.state = 3 /\ vdp_protocol_state3
    BY <1>1, <1>2, <1>4
<1> QED BY <1>5 DEF byte

\* The byte of the header and the length behind it.
LEMMA ReceivesHeader ==
    ASSUME NEW k \in PacketT, parser \in ParserT, OnWire(k), wire # Silent, WireT, uart0_handler, wire.sent \in {0, 1}
    PROVE  Took(k)
<1> DEFINE byte == wire.bytes[wire.sent + 1]
<1> DEFINE n == Len(k.bytes)
<1>1. /\ wire.sent \in Nat /\ WireT' /\ n \in Nat /\ k.cmd \in Nat
      /\ IF wire.sent = n + 1 THEN wire' = Silent
         ELSE wire'.bytes = Packet(k.cmd, k.bytes) /\ wire'.sent = wire.sent + 1 /\ wire' # Silent
      /\ byte = IF wire.sent = 0 THEN 128 + k.cmd ELSE IF wire.sent = 1 THEN n ELSE k.bytes[wire.sent - 1]
    BY NextOnWire
<1>2. /\ wire.sent = 0 => vdp_protocol_state0(byte)
      /\ wire.sent = 1 => parser.state = 1 /\ vdp_protocol_state1(byte)
    BY Receiving
<1>3. BufferLen \in Nat /\ 0 < BufferLen /\ 0 \in Nat /\ 0 \in 0 .. 3 /\ 1 \in 0 .. 3
    BY DEF BufferLen
<1>4. /\ wire.sent = 1 => parser.cmd = k.cmd /\ parser.stored = 0
    BY <1>2 DEF OnWire
<1> HIDE DEF byte, n
<1>5. CASE wire.sent = 0
  <2> DEFINE x == [parser EXCEPT !.cmd = k.cmd]
  <2> DEFINE y == [x EXCEPT !.stored = 0]
  <2> DEFINE z == [y EXCEPT !.state = 1]
  <2>1. byte \in Nat /\ byte - 128 = k.cmd /\ ~(byte < 128)
      BY <1>1, <1>5
  <2>2. parser' = z /\ NoEffect
      BY <1>2, <1>5, <2>1 DEF vdp_protocol_state0
  <2>3. x \in ParserT /\ x.cmd = k.cmd
      BY <1>1, ParserEdits, Zenon
  <2> HIDE DEF x
  <2>4. y \in ParserT /\ y.cmd = k.cmd /\ y.stored = 0
      BY ZenonT(60), <1>3, <2>3, ParserEdits
  <2> HIDE DEF y
  <2>5. z \in ParserT /\ z.cmd = k.cmd /\ z.stored = 0 /\ z.state = 1
      BY ZenonT(60), <1>3, <2>4, ParserEdits
  <2> HIDE DEF z
  <2>6. wire'.bytes = Packet(k.cmd, k.bytes) /\ wire'.sent = 1 /\ wire' # Silent
      BY <1>1, <1>5
  <2>7. 1 \in 0 .. n + 1
      BY <1>1
  <2>8. OnWire(k)'
      BY <2>2, <2>5, <2>6, <2>7 DEF OnWire, n
  <2> QED BY <1>1, <2>2, <2>5, <2>6, <2>8 DEF Took
<1>6. CASE wire.sent = 1
  <2>1. byte = n /\ vdp_protocol_state1(n) /\ parser.state = 1
      BY <1>1, <1>2, <1>6
  <2>2. CASE n = 0
    <3>1. parser' = [parser EXCEPT !.len = 0, !.state = 0] /\ vdp_protocol_exec(parser)
        BY <1>3, <2>1, <2>2 DEF vdp_protocol_state1
    <3> DEFINE x == [parser EXCEPT !.len = 0]
    <3> DEFINE y == [x EXCEPT !.state = 0]
    <3>2. parser' = y
        BY <3>1
    <3>3. x \in ParserT
        BY <1>3, ParserEdits, Zenon
    <3> HIDE DEF x
    <3>4. y \in ParserT /\ y.state = 0
        BY <1>3, <3>3, ParserEdits, Zenon
    <3> HIDE DEF y
    <3>5. Complete(parser, k)
        BY <1>3, <1>4, <1>6, <2>2 DEF Complete, n
    <3>6. wire' = Silent
        BY <1>1, <1>6, <2>2
    <3>7. Effect(k)
        BY <3>1, <3>5, Executes
    <3> QED BY <1>1, <3>2, <3>4, <3>6, <3>7 DEF Took
  <2>3. CASE n # 0
    <3>1. PICK s \in 0 .. 3 : s = (IF n > BufferLen THEN 3 ELSE 2) /\ parser' = [parser EXCEPT !.len = n, !.state = s] /\ NoEffect
      <4>1. CASE n > BufferLen
        <5>1. parser' = [parser EXCEPT !.len = n, !.state = 3] /\ NoEffect
            BY <2>1, <4>1 DEF vdp_protocol_state1, Drops
        <5>2. 3 \in 0 .. 3 /\ 3 = (IF n > BufferLen THEN 3 ELSE 2)
            BY <4>1
        <5> QED BY <5>1, <5>2, Zenon
      <4>2. CASE ~(n > BufferLen)
        <5>1. parser' = [parser EXCEPT !.len = n, !.state = 2] /\ NoEffect
            BY <2>1, <2>3, <4>2 DEF vdp_protocol_state1
        <5>2. 2 \in 0 .. 3 /\ 2 = (IF n > BufferLen THEN 3 ELSE 2)
            BY <4>2
        <5> QED BY <5>1, <5>2, Zenon
      <4> QED BY <4>1, <4>2
    <3> DEFINE x == [parser EXCEPT !.len = n]
    <3> DEFINE y == [x EXCEPT !.state = s]
    <3>2. parser' = y
        BY <3>1
    <3>3. x \in ParserT /\ x.len = n /\ x.cmd = k.cmd /\ x.stored = 0
        BY ZenonT(60), <1>1, <1>4, <1>6, ParserEdits
    <3> HIDE DEF x
    <3>4. y \in ParserT /\ y.state = s /\ y.len = n /\ y.cmd = k.cmd /\ y.stored = 0
        BY ZenonT(60), <3>3, ParserEdits
    <3> HIDE DEF y
    <3>5. wire'.bytes = Packet(k.cmd, k.bytes) /\ wire'.sent = 2 /\ wire' # Silent
        BY <1>1, <1>6, <2>3
    <3>6. 2 \in 0 .. n + 1 /\ n = n + 2 - 2
        BY <1>1, <2>3
    <3>7. \A i \in 1 .. 0 : parser'.data[i] = k.bytes[i]
        OBVIOUS
    <3>8. OnWire(k)'
      <4>1. /\ parser'.state = (IF n > BufferLen THEN 3 ELSE 2) /\ parser'.len = n + 2 - wire'.sent
            /\ parser'.stored = 0 /\ parser'.cmd = k.cmd /\ wire'.sent \in 0 .. n + 1
          BY <3>1, <3>2, <3>4, <3>5, <3>6
      <4>2. wire'.sent # 0 /\ wire'.sent # 1 /\ wire'.sent - 2 = 0
          BY <3>5
      <4> QED BY <3>5, <3>7, <4>1, <4>2 DEF OnWire, n
    <3> QED BY <1>1, <3>1, <3>2, <3>4, <3>5, <3>8 DEF Took
  <2> QED BY <2>2, <2>3
<1> QED BY <1>5, <1>6

\* A byte of a packet that is too long.
LEMMA ReceivesDropped ==
    ASSUME NEW k \in PacketT, parser \in ParserT, OnWire(k), wire # Silent, WireT, uart0_handler,
           wire.sent > 1, Len(k.bytes) > BufferLen
    PROVE  Took(k)
<1> DEFINE n == Len(k.bytes)
<1>1. /\ wire.sent \in Nat /\ WireT' /\ n \in Nat
      /\ IF wire.sent = n + 1 THEN wire' = Silent
         ELSE wire'.bytes = Packet(k.cmd, k.bytes) /\ wire'.sent = wire.sent + 1 /\ wire' # Silent
    BY NextOnWire
<1>2. vdp_protocol_state3
    BY Receiving
<1>3. parser.cmd = k.cmd /\ parser.len = n + 2 - wire.sent /\ wire.sent \in 0 .. n + 1
    BY <1>1 DEF OnWire
<1>4. n > BufferLen /\ parser.len \in Nat /\ parser.len - 1 \in Nat
    BY SMTT(30), <1>1, <1>3 DEF n
<1> HIDE DEF n
<1>5. PICK s \in 0 .. 3 : s = (IF parser.len = 1 THEN 0 ELSE 3) /\ parser' = [parser EXCEPT !.len = @ - 1, !.state = s] /\ NoEffect
  <2>1. parser' = [parser EXCEPT !.len = @ - 1, !.state = IF parser.len = 1 THEN 0 ELSE 3] /\ NoEffect
      BY <1>2 DEF vdp_protocol_state3
  <2>2. (IF parser.len = 1 THEN 0 ELSE 3) \in 0 .. 3
      OBVIOUS
  <2> QED BY <2>1, <2>2, Zenon
<1> DEFINE m == parser.len - 1
<1> DEFINE x == [parser EXCEPT !.len = m]
<1> DEFINE y == [x EXCEPT !.state = s]
<1>6. parser' = y
    BY <1>5
<1>7. m = n + 1 - wire.sent /\ m \in Nat
    BY <1>1, <1>3, <1>4
<1> HIDE DEF m
<1>8. x \in ParserT /\ x.len = m /\ x.cmd = k.cmd
    BY ZenonT(60), <1>3, <1>7, ParserEdits
<1> HIDE DEF x
<1>9. y \in ParserT /\ y.state = s /\ y.len = m /\ y.cmd = k.cmd
    BY <1>8, ParserEdits
<1> HIDE DEF y
<1>10. CASE wire.sent = n + 1
  <2>1. wire' = Silent /\ parser.len = 1 /\ s = 0
      BY <1>1, <1>3, <1>5, <1>10
  <2> QED BY <1>1, <1>5, <1>6, <1>9, <2>1 DEF Took, Effect
<1>11. CASE wire.sent # n + 1
  <2>1. /\ wire'.bytes = Packet(k.cmd, k.bytes) /\ wire'.sent = wire.sent + 1 /\ wire' # Silent
        /\ wire.sent + 1 \in 0 .. n + 1 /\ m = n + 2 - (wire.sent + 1) /\ s = 3
      BY <1>1, <1>3, <1>5, <1>7, <1>11
  <2>2. /\ parser'.state = (IF n > BufferLen THEN 3 ELSE 2) /\ parser'.len = n + 2 - wire'.sent
        /\ parser'.state = 3 /\ parser'.cmd = k.cmd /\ wire'.sent \in 0 .. n + 1
      BY <1>4, <1>6, <1>9, <2>1
  <2>3. wire'.sent # 0 /\ wire'.sent # 1
      BY <1>1, <2>1
  <2>4. ~(n <= BufferLen)
    <3>1. BufferLen \in Nat
        BY DEF BufferLen
    <3> QED BY <1>1, <1>4, <3>1
  <2>5. OnWire(k)'
      BY <2>1, <2>2, <2>3, <2>4 DEF OnWire, n
  <2> QED BY <1>1, <1>5, <1>6, <1>9, <2>1, <2>5 DEF Took
<1> QED BY <1>10, <1>11

\* A byte is stored in the buffer, and counted.
LEMMA StoresByte ==
    ASSUME NEW p \in ParserT, NEW i \in 1 .. BufferLen, NEW v \in Nat, v \in LeftBehind(i)
    PROVE  /\ [p EXCEPT !.data[i] = v] \in ParserT /\ [p EXCEPT !.data[i] = v].cmd = p.cmd /\ [p EXCEPT !.data[i] = v].state = p.state
           /\ [p EXCEPT !.data[i] = v].data = [p.data EXCEPT ![i] = v]
<1>1. p.data \in BufferT
    BY DEF ParserT
<1>2. [p.data EXCEPT ![i] = v] \in BufferT
    BY <1>1 DEF BufferT
<1> HIDE DEF BufferT
<1> QED BY <1>1, <1>2 DEF ParserT

\* The number of bytes that are stored.
LEMMA CountsByte ==
    ASSUME NEW p \in ParserT, NEW v \in Nat
    PROVE  /\ [p EXCEPT !.stored = v] \in ParserT /\ [p EXCEPT !.stored = v].cmd = p.cmd /\ [p EXCEPT !.stored = v].state = p.state
           /\ [p EXCEPT !.stored = v].stored = v /\ [p EXCEPT !.stored = v].data = p.data
BY DEF ParserT

\* A byte of a packet that fits the buffer.
LEMMA ReceivesBody ==
    ASSUME NEW k \in PacketT, parser \in ParserT, OnWire(k), wire # Silent, WireT, uart0_handler,
           wire.sent > 1, Len(k.bytes) <= BufferLen
    PROVE  Took(k)
<1> DEFINE n == Len(k.bytes)
<1> DEFINE byte == wire.bytes[wire.sent + 1]
<1>1. /\ wire.sent \in Nat /\ WireT' /\ n \in Nat /\ byte = k.bytes[wire.sent - 1]
      /\ IF wire.sent = n + 1 THEN wire' = Silent
         ELSE wire'.bytes = Packet(k.cmd, k.bytes) /\ wire'.sent = wire.sent + 1 /\ wire' # Silent
      /\ \A i \in 1 .. n : k.bytes[i] \in Nat
  <2>1. /\ wire.sent \in Nat /\ WireT' /\ n \in Nat /\ \A i \in 1 .. n : k.bytes[i] \in Nat
      BY NextOnWire
  <2>2. byte = IF wire.sent = 0 THEN 128 + k.cmd ELSE IF wire.sent = 1 THEN n ELSE k.bytes[wire.sent - 1]
      BY NextOnWire
  <2>3. wire.sent # 0 /\ wire.sent # 1
      BY <2>1
  <2>4. IF wire.sent = n + 1 THEN wire' = Silent
        ELSE wire'.bytes = Packet(k.cmd, k.bytes) /\ wire'.sent = wire.sent + 1 /\ wire' # Silent
      BY NextOnWire
  <2> HIDE DEF byte
  <2> QED BY <2>1, <2>2, <2>3, <2>4, Zenon
<1>2. vdp_protocol_state2(byte)
    BY Receiving
<1>3. /\ wire.sent \in 0 .. n + 1 /\ parser.cmd = k.cmd /\ parser.len = n + 2 - wire.sent
      /\ parser.state = 2 /\ parser.stored = wire.sent - 2 /\ n <= BufferLen
      /\ \A i \in 1 .. parser.stored : parser.data[i] = k.bytes[i]
  <2>1. BufferLen \in Nat
      BY DEF BufferLen
  <2>2. ~(n > BufferLen) /\ n <= BufferLen
      BY <1>1, <2>1
  <2>3. wire.sent > 0 /\ wire.sent # 1
      BY <1>1
  <2> QED BY <2>2, <2>3 DEF OnWire
<1> DEFINE at == parser.stored + 1
<1> DEFINE left == parser.len - 1
<1> DEFINE x == [parser EXCEPT !.data[at] = byte]
<1> DEFINE y == [x EXCEPT !.stored = at]
<1> DEFINE z == [y EXCEPT !.len = left]
<1> DEFINE w == [z EXCEPT !.state = 0]
<1>4. IF z.len > 0 THEN parser' = z /\ NoEffect ELSE parser' = w /\ vdp_protocol_exec(z)
    BY <1>2 DEF vdp_protocol_state2
<1> HIDE DEF n, byte
<1>5. at = wire.sent - 1 /\ at \in 1 .. n /\ at \in 1 .. BufferLen /\ at \in Nat
  <2>1. BufferLen \in Nat
      BY DEF BufferLen
  <2>2. at = wire.sent - 1 /\ at \in Nat
      BY SMTT(30), <1>1, <1>3
  <2>3. 1 <= at /\ at <= n /\ at <= BufferLen
      BY SMTT(30), <1>1, <1>3, <2>1
  <2> HIDE DEF at
  <2> QED BY <1>1, <2>1, <2>2, <2>3
<1>6. left = n + 1 - wire.sent /\ left \in Nat /\ parser.stored \in Nat
    BY SMTT(30), <1>1, <1>3
<1>7. byte \in Nat /\ byte = k.bytes[at]
    BY <1>1, <1>5
<1>8. \A i \in 1 .. at : i = at \/ i \in 1 .. parser.stored
    BY <1>6
<1>9. 0 \in 0 .. 3
    OBVIOUS
<1> HIDE DEF at, left
<1>10. x \in ParserT /\ x.cmd = parser.cmd /\ x.state = parser.state /\ x.data = [parser.data EXCEPT ![at] = byte]
  <2>1. byte \in Nat /\ at \in 1 .. BufferLen
      BY <1>5, <1>7
  <2>2. byte \in LeftBehind(at)
    <3>1. k.bytes[at] \in LeftBehind(at)
        BY <1>3, <1>5, Leaves DEF n
    <3> QED BY <1>7, <3>1
  <2> QED BY <2>1, <2>2, StoresByte, Zenon
<1> HIDE DEF x
<1>11. y \in ParserT /\ y.cmd = x.cmd /\ y.state = x.state /\ y.stored = at /\ y.data = x.data
    BY SMTT(30), <1>5, <1>10, CountsByte, Zenon
<1> HIDE DEF y
<1>12. z \in ParserT /\ z.cmd = k.cmd /\ z.state = y.state /\ z.stored = at /\ z.len = left /\ z.data = x.data
  <2>1. z \in ParserT /\ z.cmd = y.cmd /\ z.state = y.state /\ z.stored = y.stored /\ z.len = left /\ z.data = y.data
      BY ZenonT(60), <1>6, <1>11, ParserEdits
  <2> QED BY <1>3, <1>10, <1>11, <2>1
<1> HIDE DEF z
<1>13. z.state = 2
    BY <1>3, <1>10, <1>11, <1>12
<1>14. w \in ParserT /\ w.state = 0
    BY <1>9, <1>12, ParserEdits, Zenon
<1> HIDE DEF w
<1>15. \A i \in 1 .. at : z.data[i] = k.bytes[i]
  <2> TAKE i \in 1 .. at
  <2>1. parser.data \in [1 .. BufferLen -> Nat]
      BY DEF ParserT, BufferT
  <2>2. CASE i = at
      BY <1>5, <1>7, <1>10, <1>12, <2>1, <2>2
  <2>3. CASE i # at
    <3>1. i \in 1 .. parser.stored
        BY <1>8, <2>3
    <3>2. z.data[i] = parser.data[i]
      <4>1. i \in 1 .. BufferLen
        <5>1. BufferLen \in Nat /\ at <= BufferLen /\ i \in Nat /\ 1 <= i /\ i <= at
            BY SMTT(30), <1>5 DEF BufferLen
        <5> QED BY <1>5, <5>1
      <4> QED BY <1>10, <1>12, <2>1, <2>3, <4>1
    <3> QED BY <1>3, <3>1, <3>2
  <2> QED BY <2>2, <2>3
<1>16. CASE wire.sent = n + 1
  <2>1. wire' = Silent /\ left = 0 /\ at = n
      BY <1>1, <1>5, <1>6, <1>16
  <2>2. ~(z.len > 0)
      BY <1>12, <2>1
  <2>3. parser' = w /\ vdp_protocol_exec(z)
      BY <1>4, <2>2
  <2>4. Complete(z, k)
      BY <1>3, <1>12, <1>15, <2>1 DEF Complete, n
  <2>5. Effect(k)
      BY <2>3, <2>4, Executes
  <2> QED BY <1>1, <1>14, <2>1, <2>3, <2>5 DEF Took
<1>17. CASE wire.sent # n + 1
  <2>1. /\ wire'.bytes = Packet(k.cmd, k.bytes) /\ wire'.sent = wire.sent + 1 /\ wire' # Silent
        /\ wire.sent + 1 \in 0 .. n + 1 /\ left = n + 2 - (wire.sent + 1) /\ left > 0
      BY SMTT(30), <1>1, <1>3, <1>6, <1>17
  <2>2. parser' = z /\ NoEffect
      BY <1>4, <1>12, <2>1
  <2>3. ~(n > BufferLen)
    <3>1. BufferLen \in Nat
        BY DEF BufferLen
    <3> QED BY <1>1, <1>3, <3>1
  <2>4. /\ parser'.state = (IF n > BufferLen THEN 3 ELSE 2) /\ parser'.len = n + 2 - wire'.sent
        /\ parser'.cmd = k.cmd /\ wire'.sent \in 0 .. n + 1 /\ parser'.stored = wire'.sent - 2
    <3>1. parser'.state = 2
        BY <1>13, <2>2
    <3>2. parser'.stored = wire.sent + 1 - 2
        BY <1>1, <1>5, <1>12, <2>2
    <3>3. parser'.cmd = k.cmd /\ parser'.len = n + 2 - (wire.sent + 1)
        BY <1>12, <2>1, <2>2
    <3>4. wire'.sent = wire.sent + 1 /\ wire.sent + 1 \in 0 .. n + 1 /\ wire.sent \in Nat /\ n \in Nat
        BY <1>1, <2>1
    <3>5. (IF n > BufferLen THEN 3 ELSE 2) = 2
        BY <2>3
    <3>6. parser'.len = n + 2 - wire'.sent /\ parser'.stored = wire'.sent - 2
        BY <3>2, <3>3, <3>4
    <3> QED BY <3>1, <3>3, <3>4, <3>5, <3>6, Zenon
  <2>5. wire'.sent # 0 /\ wire'.sent # 1
      BY <1>1, <2>1
  <2>6. \A i \in 1 .. parser'.stored : parser'.data[i] = k.bytes[i]
      BY <1>12, <1>15, <2>2
  <2>7. OnWire(k)'
      BY <2>1, <2>4, <2>5, <2>6 DEF OnWire, n
  <2> QED BY <1>1, <1>12, <2>1, <2>2, <2>7 DEF Took
<1> QED BY <1>16, <1>17

\* Every byte keeps the receiver in step with the packet on the wire.
LEMMA Receives ==
    ASSUME NEW k \in PacketT, parser \in ParserT, OnWire(k), wire # Silent, WireT, uart0_handler
    PROVE  Took(k)
<1>1. wire.sent \in Nat /\ Len(k.bytes) \in Nat /\ BufferLen \in Nat
    BY NextOnWire DEF BufferLen
<1>2. wire.sent \in {0, 1} \/ wire.sent > 1
    BY <1>1
<1>3. Len(k.bytes) <= BufferLen \/ Len(k.bytes) > BufferLen
    BY <1>1
<1> QED BY <1>2, <1>3, ReceivesHeader, ReceivesDropped, ReceivesBody

\* A packet stays as it is on the wire while neither end moves.
LEMMA OnWireStays ==
    ASSUME NEW k, UNCHANGED <<parser, wire>>, OnWire(k) PROVE OnWire(k)'
BY DEF OnWire

\* The VDP begins to send a packet.
LEMMA OnWireStarts ==
    ASSUME NEW k \in PacketT, parser.state = 0, parser' = parser,
           wire' = [bytes |-> Packet(k.cmd, k.bytes), sent |-> 0]
    PROVE  OnWire(k)' /\ wire' # Silent /\ WireT'
<1>1. k.cmd \in Nat /\ k.bytes \in Seq(Nat)
    BY Packets
<1>2. Len(Packet(k.cmd, k.bytes)) = Len(k.bytes) + 2 /\ Len(k.bytes) \in Nat
  <2> DEFINE c == k.cmd
  <2> DEFINE b == k.bytes
  <2>1. Len(Packet(k.cmd, k.bytes)) = Len(k.bytes) + 2
    <3>1. c \in Nat /\ b \in Seq(Nat)
        BY <1>1
    <3> HIDE DEF c, b
    <3>2. Len(Packet(c, b)) = Len(b) + 2
        BY <3>1, Layout
    <3> QED BY <3>2 DEF c, b
  <2>2. Len(k.bytes) \in Nat
      BY <1>1, LenProperties
  <2> QED BY <2>1, <2>2
<1>3. Packet(k.cmd, k.bytes) # << >>
  <2>1. Len(<< >>) = 0
      OBVIOUS
  <2>2. Len(k.bytes) + 2 # 0
      BY <1>2
  <2> QED BY <1>2, <2>1, <2>2, Zenon
<1>4. wire'.bytes = Packet(k.cmd, k.bytes) /\ wire'.sent = 0 /\ 0 \in 0 .. Len(k.bytes) + 1
    BY <1>2
<1>5. wire' # Silent
  <2>1. Silent.bytes = << >>
      BY DEF Silent
  <2> QED BY <1>3, <1>4, <2>1, Zenon
<1>6. WireT'
    BY <1>4 DEF WireT
<1>7. OnWire(k)'
    BY <1>4 DEF OnWire
<1> QED BY <1>5, <1>6, <1>7

\* A packet of the VDP's own changes no answer and raises no flag that is waited for.
LEMMA EventTaken ==
    ASSUME NEW k \in Events, Took(k), NEW c \in Asks, system \in [DOMAIN Takes -> Seq(Nat)]
    PROVE  system'[c] = system[c] /\ (c \in vdpFlags' <=> c \in vdpFlags)
<1>1. NoEffect \/ Effect(k)
    BY DEF Took
<1>2. CASE NoEffect
    BY <1>2 DEF NoEffect
<1>3. CASE k \in Events /\ IsOf(delivered, k)' /\ UNCHANGED <<system, vdpFlags>>
    BY <1>3
<1>4. CASE /\ k.cmd \in DOMAIN Takes /\ Len(k.bytes) <= BufferLen
           /\ vdpFlags' = vdpFlags \cup ({k.cmd} \ {0})
           /\ \E s \in Seq(Nat) : system' = [system EXCEPT ![k.cmd] = s]
  <2>1. k.cmd # c
    <3>1. k.cmd \in Asks => Len(k.bytes) > BufferLen
        BY VdpLinkAssumption
    <3>2. k.bytes \in Seq(Nat)
        BY VdpLinkAssumption
    <3>3. Len(k.bytes) \in Nat /\ BufferLen \in Nat
        BY <3>2, LenProperties DEF BufferLen
    <3>4. ~(Len(k.bytes) > BufferLen)
        BY <1>4, <3>3
    <3> QED BY <3>1, <3>4
  <2> QED BY <1>4, <2>1
<1> QED BY <1>1, <1>2, <1>3, <1>4 DEF Effect

\* An answer arrives whole, or is dropped.
LEMMA AnswerTaken ==
    ASSUME NEW r \in RequestT, Took(AnswerTo(r)), system \in [DOMAIN Takes -> Seq(Nat)]
    PROVE  \/ wire' # Silent /\ OnWire(AnswerTo(r))' /\ UNCHANGED <<system, vdpFlags>>
           \/ wire' = Silent /\ UNCHANGED vdpFlags
           \/ wire' = Silent /\ system'[r.cmd] = Filled(Takes[r.cmd], r.id)
<1>1. CASE wire' # Silent /\ OnWire(AnswerTo(r))' /\ NoEffect
    BY <1>1 DEF NoEffect
<1>2. CASE wire' = Silent /\ Effect(AnswerTo(r))
  <2> DEFINE k == AnswerTo(r)
  <2>1. k.cmd = r.cmd /\ k.bytes = Filled(Takes[r.cmd], r.id) /\ Len(k.bytes) = Takes[r.cmd]
      BY Answers
  <2> HIDE DEF k
  <2>2. ASSUME NEW s, k.cmd \in DOMAIN Takes, system' = [system EXCEPT ![k.cmd] = s],
               Len(k.bytes) = Takes[k.cmd] => s = k.bytes
        PROVE  system'[r.cmd] = Filled(Takes[r.cmd], r.id)
    <3>1. s = k.bytes
        BY <2>1, <2>2, Zenon
    <3>2. system'[r.cmd] = s
        BY <2>1, <2>2
    <3> QED BY <2>1, <3>1, <3>2, Zenon
  <2>3. Effect(k)
      BY <1>2 DEF k
  <2>4. vdpFlags' = vdpFlags \/ system'[r.cmd] = Filled(Takes[r.cmd], r.id)
    <3>1. CASE \E s \in Seq(Nat) : system' = [system EXCEPT ![k.cmd] = s] /\ (Len(k.bytes) = Takes[k.cmd] => s = k.bytes)
      <4>1. PICK s \in Seq(Nat) : system' = [system EXCEPT ![k.cmd] = s] /\ (Len(k.bytes) = Takes[k.cmd] => s = k.bytes)
          BY <3>1
      <4>2. k.cmd \in DOMAIN Takes
        <5>1. r.cmd \in Asks
            BY Numbered
        <5> QED BY <2>1, <5>1, VdpLinkAssumption
      <4>3. system'[r.cmd] = Filled(Takes[r.cmd], r.id)
          BY <2>2, <4>1, <4>2, Zenon
      <4> QED BY <4>3
    <3>2. CASE vdpFlags' = vdpFlags
        BY <3>2
    <3> QED BY <2>3, <3>1, <3>2, Zenon DEF Effect, NoEffect
  <2>5. \/ wire' = Silent /\ UNCHANGED vdpFlags
        \/ wire' = Silent /\ system'[r.cmd] = Filled(Takes[r.cmd], r.id)
      BY <1>2, <2>4
  <2> QED BY <2>5, Zenon
<1> QED BY <1>1, <1>2 DEF Took

\* What the foreground asks for is one of its requests.
LEMMA Requests ==
    ASSUME LinkTypes, asking.at # "none"
    PROVE  /\ Asked \in RequestT /\ asking.cmd \in Asks /\ asking.id \in Nat /\ asking.cmd \in DOMAIN Takes
           /\ Answer \in Seq(Nat) /\ Asked.cmd = asking.cmd /\ Answer = Filled(Takes[Asked.cmd], Asked.id)
<1>1. asking.cmd \in Asks /\ asking.id \in Nat /\ asking.id \in 0 .. MaxAsks
    BY VdpLinkAssumption DEF LinkTypes
<1>2. asking.cmd \in DOMAIN Takes
    BY <1>1, VdpLinkAssumption
<1>3. Takes[asking.cmd] \in Nat
  <2>1. Takes[asking.cmd] \in 1 .. 10
      BY <1>2, TakesAre
  <2> QED BY <2>1
<1>4. Answer \in Seq(Nat)
    BY <1>1, <1>3, FilledIs DEF Answer
<1> QED BY <1>1, <1>2, <1>4 DEF Asked, RequestT, Answer

\* What a byte leaves of the types and of the packet on the wire.
LEMMA UartTypes ==
    ASSUME LinkInv, uart0_handler PROVE LinkTypes' /\ StepInv'
<1>1. wire # Silent /\ UartStays
    BY DEF uart0_handler, UartStays
<1>2. parser \in ParserT /\ WireT
    BY DEF LinkInv, LinkTypes, WireT
<1>3. PICK k \in PacketT : OnWire(k)
    BY <1>1 DEF LinkInv, StepInv
<1>4. Took(k)
    BY <1>1, <1>2, <1>3, Receives
<1>5. system' \in [DOMAIN Takes -> Seq(Nat)]
  <2>1. system \in [DOMAIN Takes -> Seq(Nat)]
      BY DEF LinkInv, LinkTypes
  <2>2. \/ system' = system
        \/ \E s \in Seq(Nat) : system' = [system EXCEPT ![k.cmd] = s]
      BY <1>4 DEF Took, Effect, NoEffect
  <2> QED BY <2>1, <2>2
<1>6. LinkTypes'
  <2>1. parser' \in ParserT /\ wire' = [bytes |-> wire'.bytes, sent |-> wire'.sent]
      BY <1>4 DEF Took, WireT
  <2> QED BY <1>1, <1>5, <2>1 DEF LinkInv, LinkTypes, UartStays
<1>7. delivered'.bytes = << >> \/ \E e \in Events : IsOf(delivered, e)'
  <2>1. delivered.bytes = << >> \/ \E e \in Events : IsOf(delivered, e)
      BY DEF LinkInv, StepInv
  <2>2. CASE delivered' = delivered
      BY <2>1, <2>2 DEF IsOf
  <2>3. CASE k \in Events /\ IsOf(delivered, k)'
      BY <2>3
  <2> QED BY <1>4, <2>2, <2>3 DEF Took, Effect, NoEffect
<1>8. StepInv'
    BY <1>4, <1>7 DEF Took, StepInv
<1> QED BY <1>6, <1>8

\* While only packets of the VDP's own are sent, that stays so.
LEMMA UartEvents ==
    ASSUME LinkInv, uart0_handler, EventsOnly
    PROVE  EventsOnly' /\ \A c \in Asks : system'[c] = system[c] /\ (c \in vdpFlags' <=> c \in vdpFlags)
<1>1. wire # Silent
    BY DEF uart0_handler
<1>2. parser \in ParserT /\ WireT /\ system \in [DOMAIN Takes -> Seq(Nat)]
    BY DEF LinkInv, LinkTypes, WireT
<1>3. PICK k \in Events : OnWire(k)
    BY <1>1 DEF EventsOnly
<1>4. k \in PacketT
    BY DEF PacketT
<1>5. Took(k)
    BY <1>1, <1>2, <1>3, <1>4, Receives
<1>6. EventsOnly'
    BY <1>5 DEF Took, EventsOnly
<1> QED BY <1>2, <1>5, <1>6, EventTaken

\* A byte arrives while nobody, or somebody, waits for an answer.
LEMMA UartKeeps ==
    ASSUME LinkInv, uart0_handler PROVE LinkInv'
<1>1. LinkTypes' /\ StepInv'
    BY UartTypes
<1>2. UartStays /\ wire # Silent /\ LinkTypes
    BY DEF uart0_handler, UartStays, LinkInv
<1>3. ASSUME ~late', AskInv PROVE AskInv'
  <2>1. asking' = asking /\ owed' = owed
      BY <1>2 DEF UartStays
  <2>2. Asked' = Asked /\ Answer' = Answer
      BY <2>1 DEF Asked, Answer
  <2>3. asking.at # "none" => asking.cmd \in Asks
      BY <1>2 DEF LinkTypes
  <2>4. EventsOnly => /\ EventsOnly'
                      /\ \A c \in Asks : system'[c] = system[c] /\ (c \in vdpFlags' <=> c \in vdpFlags)
      BY UartEvents
  <2>5. asking.at # "wait" => NothingOwed'
      BY <1>3, <2>1, <2>4 DEF AskInv, NothingOwed
  <2>6. asking.at = "send" => asking.cmd \notin vdpFlags'
      BY <1>3, <2>3, <2>4 DEF AskInv, NothingOwed
  <2>7. asking.at \in {"read", "rest"} => system'[asking.cmd] = Answer
      BY <1>3, <2>3, <2>4 DEF AskInv, NothingOwed
  <2>8. asking.at = "wait" =>
          \/ owed = <<Asked>> /\ EventsOnly' /\ asking.cmd \notin vdpFlags'
          \/ owed = << >> /\ AnswerComes' /\ asking.cmd \notin vdpFlags'
          \/ NothingOwed' /\ (asking.cmd \in vdpFlags' => system'[asking.cmd] = Answer)
    <3> SUFFICES ASSUME asking.at = "wait"
                 PROVE  \/ owed = <<Asked>> /\ EventsOnly' /\ asking.cmd \notin vdpFlags'
                        \/ owed = << >> /\ AnswerComes' /\ asking.cmd \notin vdpFlags'
                        \/ NothingOwed' /\ (asking.cmd \in vdpFlags' => system'[asking.cmd] = Answer)
        OBVIOUS
    <3>1. asking.cmd \in Asks
        BY <2>3
    <3>2. CASE owed = <<Asked>> /\ EventsOnly /\ asking.cmd \notin vdpFlags
        BY <2>4, <3>1, <3>2
    <3>3. CASE NothingOwed /\ (asking.cmd \in vdpFlags => system[asking.cmd] = Answer)
        BY <2>1, <2>4, <3>1, <3>3 DEF NothingOwed
    <3>4. CASE owed = << >> /\ AnswerComes /\ asking.cmd \notin vdpFlags
      <4>1. PICK r \in RequestT : r = Asked /\ OnWire(AnswerTo(r))
          BY <3>4 DEF AnswerComes
      <4>2. AnswerTo(r) \in PacketT /\ parser \in ParserT /\ WireT /\ system \in [DOMAIN Takes -> Seq(Nat)]
          BY <1>2, Answers DEF LinkTypes, WireT
      <4>3. Took(AnswerTo(r))
          BY <1>2, <4>1, <4>2, Receives
      <4>4. r.cmd = asking.cmd /\ Filled(Takes[r.cmd], r.id) = Answer
        <5>1. Asked.cmd = asking.cmd /\ Answer = Filled(Takes[Asked.cmd], Asked.id)
            BY <1>2, Requests
        <5> QED BY <4>1, <5>1
      <4>5. CASE wire' # Silent /\ OnWire(AnswerTo(r))' /\ UNCHANGED <<system, vdpFlags>>
          BY <2>2, <3>4, <4>1, <4>5 DEF AnswerComes
      <4>6. CASE wire' = Silent /\ UNCHANGED vdpFlags
          BY <2>1, <3>4, <4>6 DEF NothingOwed, EventsOnly
      <4>7. CASE wire' = Silent /\ system'[r.cmd] = Filled(Takes[r.cmd], r.id)
          BY <2>1, <3>4, <4>4, <4>7 DEF NothingOwed, EventsOnly
      <4> QED BY <4>2, <4>3, <4>5, <4>6, <4>7, AnswerTaken
    <3> QED BY <1>3, <3>2, <3>3, <3>4 DEF AskInv
  <2> QED BY <1>3, <2>1, <2>2, <2>5, <2>6, <2>7, <2>8 DEF AskInv
<1>4. late' = late
    BY <1>2 DEF UartStays
<1> QED BY <1>1, <1>3, <1>4 DEF LinkInv

\* The VDP sends an answer it owes.
LEMMA AnswerKeeps ==
    ASSUME LinkInv, VdpAnswers PROVE LinkInv'
<1>1. wire = Silent /\ owed # << >> /\ VdpStays /\ owed' = Tail(owed) /\ LinkTypes /\ StepInv
    BY DEF VdpAnswers, Quiet, LinkInv
<1>2. Head(owed) \in RequestT /\ owed' \in Seq(RequestT)
  <2>1. owed \in Seq(RequestT)
      BY <1>1 DEF LinkTypes
  <2> QED BY <1>1, <2>1, HeadTailProperties
<1> PICK r \in RequestT : r = Head(owed)
    BY <1>2
<1>3. wire' = [bytes |-> Packet(r.cmd, Filled(Takes[r.cmd], r.id)), sent |-> 0]
    BY DEF VdpAnswers
<1>4. /\ AnswerTo(r) \in PacketT /\ AnswerTo(r).cmd = r.cmd /\ AnswerTo(r).bytes = Filled(Takes[r.cmd], r.id)
    BY <1>2, Answers
<1>5. parser.state = 0 /\ parser' = parser
    BY <1>1 DEF StepInv, VdpStays
<1>6. OnWire(AnswerTo(r))' /\ wire' # Silent /\ WireT'
  <2>1. PICK k \in PacketT : k = AnswerTo(r)
      BY <1>4
  <2>2. wire' = [bytes |-> Packet(k.cmd, k.bytes), sent |-> 0]
      BY <1>3, <1>4, <2>1, Zenon
  <2>3. OnWire(k)' /\ wire' # Silent /\ WireT'
      BY <1>5, <2>2, OnWireStarts
  <2> QED BY <2>1, <2>3
<1>7. LinkTypes'
    BY <1>1, <1>2, <1>6 DEF LinkTypes, VdpStays, WireT
<1>8. StepInv'
    BY <1>1, <1>4, <1>6 DEF StepInv, VdpStays
<1>9. ASSUME AskInv PROVE AskInv'
  <2>1. owed # << >> /\ ~NothingOwed
      BY <1>1 DEF NothingOwed
  <2>2. asking.at = "wait" /\ owed = <<Asked>> /\ asking.cmd \notin vdpFlags
      BY <1>9, <2>1 DEF AskInv
  <2>3. r = Asked /\ owed' = << >>
      BY <1>1, <2>2 
  <2>4. asking' = asking /\ vdpFlags' = vdpFlags
      BY <1>1 DEF VdpStays
  <2>5. Asked' = Asked
      BY <2>4 DEF Asked
  <2>6. AnswerComes'
      BY <1>2, <1>6, <2>3, <2>5 DEF AnswerComes
  <2> QED BY <2>2, <2>3, <2>4, <2>6 DEF AskInv
<1>10. late' = late
    BY <1>1 DEF VdpStays
<1> QED BY <1>7, <1>8, <1>9, <1>10 DEF LinkInv

\* The VDP sends a packet of its own.
LEMMA EventKeeps ==
    ASSUME LinkInv, VdpSpeaks PROVE LinkInv'
<1>1. wire = Silent /\ VdpStays /\ owed' = owed /\ LinkTypes /\ StepInv
    BY DEF VdpSpeaks, Quiet, LinkInv
<1>2. PICK e \in Events : wire' = [bytes |-> Packet(e.cmd, e.bytes), sent |-> 0]
    BY DEF VdpSpeaks
<1>3. e \in PacketT
    BY DEF PacketT
<1>4. parser.state = 0 /\ parser' = parser
    BY <1>1 DEF StepInv, VdpStays
<1>5. OnWire(e)' /\ wire' # Silent /\ WireT'
    BY <1>2, <1>3, <1>4, OnWireStarts
<1>6. LinkTypes'
    BY <1>1, <1>5 DEF LinkTypes, VdpStays, WireT
<1>7. StepInv'
    BY <1>1, <1>3, <1>5 DEF StepInv, VdpStays
<1>8. ASSUME AskInv PROVE AskInv'
  <2>1. EventsOnly'
      BY <1>5 DEF EventsOnly
  <2>2. asking' = asking /\ vdpFlags' = vdpFlags /\ system' = system
      BY <1>1 DEF VdpStays
  <2>3. Asked' = Asked /\ Answer' = Answer
      BY <2>2 DEF Asked, Answer
  <2>4. ~AnswerComes
      BY <1>1 DEF AnswerComes
  <2>5. NothingOwed => NothingOwed'
      BY <1>1, <2>1 DEF NothingOwed
  <2> QED BY <1>1, <1>8, <2>1, <2>2, <2>3, <2>4, <2>5 DEF AskInv
<1>9. late' = late
    BY <1>1 DEF VdpStays
<1> QED BY <1>6, <1>7, <1>8, <1>9 DEF LinkInv

ForegroundStays == UNCHANGED <<parser, system, delivered, wire>>
\* The foreground leaves the link alone.
LEMMA ForegroundKeeps ==
    ASSUME LinkInv, ForegroundStays
    PROVE  StepInv' /\ (EventsOnly => EventsOnly') /\ parser' \in ParserT /\ WireT' /\ system' \in [DOMAIN Takes -> Seq(Nat)]
<1>1. parser' = parser /\ system' = system /\ delivered' = delivered /\ wire' = wire
    BY DEF ForegroundStays
<1>2. \A k : OnWire(k) => OnWire(k)'
    BY <1>1, OnWireStays
<1>3. StepInv'
    BY <1>1, <1>2 DEF LinkInv, StepInv
<1>4. EventsOnly => EventsOnly'
    BY <1>1, <1>2 DEF EventsOnly
<1> QED BY <1>1, <1>3, <1>4 DEF LinkInv, LinkTypes, WireT

\* Its own record keeps its form.
AskingT == /\ asking.at \in Askings
           /\ asking = [at |-> asking.at, cmd |-> asking.cmd, id |-> asking.id, copy |-> asking.copy, seen |-> asking.seen]
           /\ asking.at # "none" => asking.cmd \in Asks /\ asking.id \in 0 .. MaxAsks

\* The steps of the foreground, by what they make of its record.
LEMMA AskingEdits ==
    ASSUME AskingT
    PROVE  /\ \A at \in {"send", "wait", "read"} : asking.at # "none" /\ asking' = [asking EXCEPT !.at = at] =>
                AskingT' /\ asking'.at = at /\ asking'.cmd = asking.cmd /\ asking'.id = asking.id
           /\ \A at \in {"rest", "done"} : \A seen :
                asking.at # "none" /\ asking' = [asking EXCEPT !.at = at, !.seen = seen] =>
                AskingT' /\ asking'.at = at /\ asking'.cmd = asking.cmd /\ asking'.id = asking.id /\ asking'.seen = seen
           /\ \A cmd \in Asks : \A id \in 0 .. MaxAsks : \A copy :
                asking' = [at |-> "clear", cmd |-> cmd, id |-> id, copy |-> copy, seen |-> << >>] =>
                AskingT' /\ asking'.at = "clear"
           /\ asking' = Nobody => AskingT' /\ asking'.at = "none"
<1>1. ASSUME NEW at \in {"send", "wait", "read"}, asking.at # "none", asking' = [asking EXCEPT !.at = at]
      PROVE  AskingT' /\ asking'.at = at /\ asking'.cmd = asking.cmd /\ asking'.id = asking.id
    BY <1>1 DEF AskingT, Askings
<1>2. ASSUME NEW at \in {"rest", "done"}, NEW seen, asking.at # "none", asking' = [asking EXCEPT !.at = at, !.seen = seen]
      PROVE  AskingT' /\ asking'.at = at /\ asking'.cmd = asking.cmd /\ asking'.id = asking.id /\ asking'.seen = seen
  <2>1. asking' = [at |-> at, cmd |-> asking.cmd, id |-> asking.id, copy |-> asking.copy, seen |-> seen]
      BY <1>2 DEF AskingT
  <2> QED BY <1>2, <2>1 DEF AskingT, Askings
<1>3. ASSUME NEW cmd \in Asks, NEW id \in 0 .. MaxAsks, NEW copy,
             asking' = [at |-> "clear", cmd |-> cmd, id |-> id, copy |-> copy, seen |-> << >>]
      PROVE  AskingT' /\ asking'.at = "clear"
    BY <1>3 DEF AskingT, Askings
<1>4. asking' = Nobody => AskingT' /\ asking'.at = "none"
    BY DEF AskingT, Askings, Nobody
<1> QED BY <1>1, <1>2, <1>3, <1>4, Zenon

\* A request is prepared: the flags are read, and written without its own.
LEMMA ReadsFlagsKeeps ==
    ASSUME LinkInv, ReadsFlags PROVE LinkInv'
<1>1. /\ asking.at = "none" /\ asks < MaxAsks /\ asks' = asks + 1 /\ late' = late /\ owed' = owed
      /\ ForegroundStays /\ LinkTypes /\ AskingT
    BY DEF ReadsFlags, Asking, ForegroundOnly, ForegroundStays, LinkInv, LinkTypes, AskingT
<1>2. PICK cmd \in Asks : asking' = [Nobody EXCEPT !.at = "clear", !.cmd = cmd, !.id = asks + 1, !.copy = vdpFlags]
    BY DEF ReadsFlags
<1>3. asking' = [at |-> "clear", cmd |-> cmd, id |-> asks + 1, copy |-> vdpFlags, seen |-> << >>]
    BY <1>2, Zenon DEF Nobody
<1>4. asks + 1 \in 0 .. MaxAsks
    BY <1>1, VdpLinkAssumption DEF LinkTypes
<1>5. AskingT' /\ asking'.at = "clear"
    BY <1>1, <1>3, <1>4, AskingEdits, Zenon
<1>6. LinkTypes'
    BY <1>1, <1>4, <1>5, ForegroundKeeps DEF LinkTypes, AskingT, WireT
<1>7. AskInv => AskInv'
    BY <1>1, <1>5, ForegroundKeeps DEF AskInv, NothingOwed
<1> QED BY <1>1, <1>6, <1>7, ForegroundKeeps DEF LinkInv

\* The flag of the request is down before it is sent.
LEMMA WritesFlagsKeeps ==
    ASSUME LinkInv, WritesFlags PROVE LinkInv'
<1>1. /\ asking.at = "clear" /\ asks' = asks /\ late' = late /\ owed' = owed
      /\ ForegroundStays /\ LinkTypes /\ AskingT
      /\ asking' = [asking EXCEPT !.at = "send"] /\ vdpFlags' = asking.copy \ {asking.cmd}
    BY DEF WritesFlags, Asking, ForegroundOnly, ForegroundStays, LinkInv, LinkTypes, AskingT, ClearsFlag
<1>2. AskingT' /\ asking'.at = "send" /\ asking'.cmd = asking.cmd
    BY <1>1, AskingEdits
<1>3. LinkTypes'
    BY <1>1, <1>2, ForegroundKeeps DEF LinkTypes, AskingT, WireT
<1>4. AskInv => AskInv'
    BY <1>1, <1>2, ForegroundKeeps DEF AskInv, NothingOwed
<1> QED BY <1>1, <1>3, <1>4, ForegroundKeeps DEF LinkInv

\* The request is sent to the mainboard, or to another display.
LEMMA SendsKeeps ==
    ASSUME LinkInv, Sends PROVE LinkInv'
<1>1. /\ asking.at = "send" /\ asks' = asks /\ late' = late /\ vdpFlags' = vdpFlags
      /\ owed' = (IF backend = 0 THEN Append(owed, Asked) ELSE owed)
      /\ ForegroundStays /\ LinkTypes /\ AskingT /\ asking' = [asking EXCEPT !.at = "wait"]
    BY DEF Sends, Asking, ForegroundOnly, ForegroundStays, LinkInv, LinkTypes, AskingT, Asked
<1>2. AskingT' /\ asking'.at = "wait" /\ asking'.cmd = asking.cmd /\ asking'.id = asking.id
    BY <1>1, AskingEdits
<1>3. Asked \in RequestT
    BY <1>1, Requests
<1>4. owed' \in Seq(RequestT)
  <2>1. owed \in Seq(RequestT)
      BY <1>1 DEF LinkTypes
  <2>2. Append(owed, Asked) \in Seq(RequestT)
      BY <1>3, <2>1, AppendProperties
  <2> QED BY <1>1, <2>1, <2>2
<1>5. LinkTypes'
    BY <1>1, <1>2, <1>4, ForegroundKeeps DEF LinkTypes, AskingT, WireT
<1>6. ASSUME AskInv PROVE AskInv'
  <2>1. owed = << >> /\ EventsOnly /\ asking.cmd \notin vdpFlags
      BY <1>1, <1>6 DEF AskInv, NothingOwed
  <2>2. EventsOnly'
      BY <1>1, <2>1, ForegroundKeeps
  <2>3. Asked' = Asked
      BY <1>2 DEF Asked
  <2>4. owed' = <<Asked>> \/ owed' = << >>
      BY <1>1, <2>1
  <2> QED BY <1>1, <1>2, <2>1, <2>2, <2>3, <2>4 DEF AskInv, NothingOwed
<1> QED BY <1>1, <1>5, <1>6, ForegroundKeeps DEF LinkInv

\* The wait ends with the flag or in vain.
LEMMA WaitKeeps ==
    ASSUME LinkInv, wait_VDP PROVE LinkInv'
<1>1. /\ asking.at = "wait" /\ asks' = asks /\ owed' = owed /\ vdpFlags' = vdpFlags /\ late' \in BOOLEAN
      /\ ~late' => ~late /\ asking.cmd \in vdpFlags
      /\ ForegroundStays /\ LinkTypes /\ AskingT /\ asking' = [asking EXCEPT !.at = "read"]
    BY DEF wait_VDP, Asking, ForegroundOnly, ForegroundStays, LinkInv, LinkTypes, AskingT
<1>2. AskingT' /\ asking'.at = "read" /\ asking'.cmd = asking.cmd /\ asking'.id = asking.id
    BY <1>1, AskingEdits
<1>3. LinkTypes'
    BY <1>1, <1>2, ForegroundKeeps DEF LinkTypes, AskingT, WireT
<1>4. ASSUME ~late' PROVE AskInv'
  <2>1. NothingOwed /\ system[asking.cmd] = Answer
      BY <1>1, <1>4 DEF AskInv, LinkInv
  <2>2. NothingOwed'
      BY <1>1, <2>1, ForegroundKeeps DEF NothingOwed
  <2>3. Answer' = Answer /\ system' = system
      BY <1>1, <1>2 DEF Answer, ForegroundStays
  <2> QED BY <1>2, <2>1, <2>2, <2>3 DEF AskInv
<1> QED BY <1>3, <1>4, <1>1, ForegroundKeeps DEF LinkInv

\* The answer is read in two parts.
LEMMA ReadsFirstKeeps ==
    ASSUME LinkInv, ReadsFirst PROVE LinkInv'
<1> DEFINE seen == SubSeq(system[asking.cmd], 1, Half(system[asking.cmd]))
<1>1. /\ asking.at = "read" /\ asks' = asks /\ owed' = owed /\ late' = late
      /\ ForegroundStays /\ LinkTypes /\ AskingT /\ asking' = [asking EXCEPT !.at = "rest", !.seen = seen]
    BY DEF ReadsFirst, Asking, ForegroundOnly, ForegroundStays, LinkInv, LinkTypes, AskingT
<1> HIDE DEF seen
<1>2. AskingT' /\ asking'.at = "rest" /\ asking'.cmd = asking.cmd /\ asking'.id = asking.id /\ asking'.seen = seen
    BY <1>1, AskingEdits
<1>3. LinkTypes'
    BY <1>1, <1>2, ForegroundKeeps DEF LinkTypes, AskingT, WireT
<1>4. ASSUME AskInv PROVE AskInv'
  <2>1. NothingOwed /\ system[asking.cmd] = Answer
      BY <1>1, <1>4 DEF AskInv
  <2>2. NothingOwed'
      BY <1>1, <2>1, ForegroundKeeps DEF NothingOwed
  <2>3. Answer' = Answer /\ system' = system
      BY <1>1, <1>2 DEF Answer, ForegroundStays
  <2>4. seen = SubSeq(Answer, 1, Half(Answer))
      BY <2>1, Zenon DEF seen
  <2>5. asking'.seen = SubSeq(Answer', 1, Half(Answer'))
      BY <1>2, <2>3, <2>4, Zenon
  <2>6. (Half(Answer))' = Half(Answer')
      BY DEF Half
  <2>7. asking'.seen = SubSeq(Answer', 1, (Half(Answer))')
      BY <2>5, <2>6, Zenon
  <2> QED BY <1>2, <2>1, <2>2, <2>3, <2>7 DEF AskInv
<1> QED BY <1>1, <1>3, <1>4, ForegroundKeeps DEF LinkInv

\* Two halves make the whole.
LEMMA Halves ==
    ASSUME NEW s \in Seq(Nat)
    PROVE  SubSeq(s, 1, Half(s)) \o SubSeq(s, Half(s) + 1, Len(s)) = s
<1> DEFINE n == Len(s)
<1> DEFINE h == (n + 1) \div 2
<1>1. n \in Nat
    BY LenProperties
<1> HIDE DEF n
<1>2. h \in Int /\ 0 <= h /\ h <= n
    BY <1>1
<1> HIDE DEF h
<1>3. Half(s) = h
    BY DEF Half, h, n
<1>4. CASE n = 0
  <2>1. h = 0
      BY <1>2, <1>4
  <2>2. s = << >>
      BY <1>4, EmptySeq DEF n
  <2>3. SubSeq(s, 1, 0) = << >> /\ SubSeq(s, 1, n) = << >>
      BY <1>4, SubSeqEmpty
  <2>4. << >> \o << >> = << >>
      OBVIOUS
  <2> QED BY <1>3, <1>4, <2>1, <2>2, <2>3, <2>4 DEF n
<1>5. CASE n # 0
  <2>1. 1 \in Int /\ n \in Int /\ h \in Int
      BY <1>1, <1>2
  <2> DEFINE a == SubSeq(s, 1, h)
  <2> DEFINE b == SubSeq(s, h + 1, n)
  <2>2. \A i \in 1 .. n : s[i] \in Nat
      BY ElementOfSeq DEF n
  <2>3. a \in Seq(Nat) /\ Len(a) = h /\ \A i \in 1 .. h : a[i] = s[i]
    <3>1. \A i \in 1 .. h : s[i] \in Nat
        BY <1>1, <1>2, <2>2
    <3>2. /\ a \in Seq(Nat) /\ Len(a) = (IF 1 <= h THEN h - 1 + 1 ELSE 0)
          /\ \A i \in 1 .. h - 1 + 1 : a[i] = s[1 + i - 1]
        BY <2>1, <3>1, SubSeqProperties
    <3> HIDE DEF a
    <3> QED BY <1>2, <3>2
  <2>4. b \in Seq(Nat) /\ Len(b) = n - h /\ \A i \in 1 .. n - h : b[i] = s[h + i]
    <3>1. \A i \in h + 1 .. n : s[i] \in Nat
        BY <1>1, <1>2, <2>2
    <3>2. h + 1 \in Int
        BY <1>2
    <3>3. /\ b \in Seq(Nat) /\ Len(b) = (IF h + 1 <= n THEN n - (h + 1) + 1 ELSE 0)
          /\ \A i \in 1 .. n - (h + 1) + 1 : b[i] = s[h + 1 + i - 1]
        BY SMTT(30), <2>1, <3>1, <3>2, SubSeqProperties
    <3> HIDE DEF b
    <3> QED BY <1>1, <1>2, <3>3
  <2> HIDE DEF a, b
  <2> DEFINE c == a \o b
  <2>5. /\ c \in Seq(Nat) /\ Len(c) = Len(a) + Len(b)
        /\ \A i \in 1 .. Len(a) + Len(b) : c[i] = IF i <= Len(a) THEN a[i] ELSE b[i - Len(a)]
      BY <2>3, <2>4, ConcatProperties
  <2> HIDE DEF c
  <2>6. c \in Seq(Nat) /\ Len(c) = n /\ \A i \in 1 .. n : c[i] = IF i <= h THEN a[i] ELSE b[i - h]
    <3>1. Len(a) = h /\ Len(a) + Len(b) = n
        BY <1>1, <1>2, <2>3, <2>4
    <3> QED BY <2>5, <3>1
  <2>7. \A i \in 1 .. n : c[i] = s[i]
    <3> TAKE i \in 1 .. n
    <3>1. CASE i <= h
      <4>1. i \in 1 .. h
          BY <1>1, <1>2, <3>1
      <4> QED BY <2>3, <2>6, <3>1, <4>1
    <3>2. CASE ~(i <= h)
      <4>1. i - h \in 1 .. n - h /\ h + (i - h) = i
          BY <1>1, <1>2, <3>2
      <4>2. b[i - h] = s[h + (i - h)]
          BY <2>4, <4>1
      <4> QED BY <2>6, <3>2, <4>1, <4>2
    <3> QED BY <3>1, <3>2
  <2>8. c = s
    <3>1. Len(c) = Len(s) /\ \A i \in 1 .. Len(c) : c[i] = s[i]
        BY <2>6, <2>7 DEF n
    <3> QED BY <2>6, <3>1, SeqEqual
  <2> QED BY <1>3, <2>8 DEF c, a, b, n
<1> QED BY <1>4, <1>5

\* The second part completes the answer.
LEMMA ReadsRestKeeps ==
    ASSUME LinkInv, ReadsRest PROVE LinkInv'
<1> DEFINE bytes == system[asking.cmd]
<1> DEFINE seen == asking.seen \o SubSeq(bytes, Half(bytes) + 1, Len(bytes))
<1>1. /\ asking.at = "rest" /\ asks' = asks /\ owed' = owed /\ late' = late
      /\ ForegroundStays /\ LinkTypes /\ AskingT
    BY DEF ReadsRest, Asking, ForegroundOnly, ForegroundStays, LinkInv, LinkTypes, AskingT
<1>2. asking' = [asking EXCEPT !.at = "done", !.seen = seen]
  <2>1. asking' = [asking EXCEPT !.at = "done", !.seen = @ \o SubSeq(bytes, Half(bytes) + 1, Len(bytes))]
      BY DEF ReadsRest
  <2> DEFINE t == SubSeq(bytes, Half(bytes) + 1, Len(bytes))
  <2>2. asking' = [asking EXCEPT !.at = "done", !.seen = @ \o t]
      BY <2>1
  <2> HIDE DEF t
  <2>3. asking' = [asking EXCEPT !.at = "done", !.seen = asking.seen \o t]
      BY <1>1, <2>2 DEF AskingT
  <2> QED BY <2>3 DEF t
<1> HIDE DEF seen, bytes
<1>3. AskingT' /\ asking'.at = "done" /\ asking'.cmd = asking.cmd /\ asking'.id = asking.id /\ asking'.seen = seen
    BY <1>1, <1>2, AskingEdits
<1>4. LinkTypes'
    BY <1>1, <1>3, ForegroundKeeps DEF LinkTypes, AskingT, WireT
<1>5. ASSUME AskInv PROVE AskInv'
  <2>1. NothingOwed /\ bytes = Answer /\ asking.seen = SubSeq(Answer, 1, Half(Answer))
      BY <1>1, <1>5 DEF AskInv, bytes
  <2>2. NothingOwed'
      BY <1>1, <2>1, ForegroundKeeps DEF NothingOwed
  <2>3. Answer' = Answer
      BY <1>3 DEF Answer
  <2>4. Answer \in Seq(Nat)
      BY <1>1, Requests
  <2>5. SubSeq(Answer, 1, Half(Answer)) \o SubSeq(Answer, Half(Answer) + 1, Len(Answer)) = Answer
      BY <2>4, Halves
  <2>6. seen = Answer
      BY <2>1, <2>5, Zenon DEF seen
  <2> QED BY <1>3, <2>2, <2>3, <2>6 DEF AskInv
<1> QED BY <1>1, <1>4, <1>5, ForegroundKeeps DEF LinkInv

\* The caller has its answer, or the route changes between requests.
LEMMA RestsKeep ==
    ASSUME LinkInv, Done \/ Routes PROVE LinkInv'
<1>1. /\ asks' = asks /\ owed' = owed /\ late' = late /\ ForegroundStays /\ LinkTypes /\ AskingT
      /\ asking.at # "wait"
      /\ asking' = Nobody \/ (asking' = asking /\ asking.at = "none")
  <2>1. LinkTypes /\ AskingT
      BY DEF LinkInv, LinkTypes, AskingT
  <2>2. CASE Done
      BY <2>1, <2>2 DEF Done, Asking, ForegroundOnly, ForegroundStays
  <2>3. CASE Routes
      BY <2>1, <2>3 DEF Routes, Asking, ForegroundOnly, ForegroundStays
  <2> QED BY <2>2, <2>3
<1>2. AskingT' /\ asking'.at = "none"
    BY <1>1, AskingEdits DEF AskingT
<1>3. LinkTypes'
    BY <1>1, <1>2, ForegroundKeeps DEF LinkTypes, AskingT, WireT
<1>4. AskInv => AskInv'
    BY <1>1, <1>2, ForegroundKeeps DEF AskInv, NothingOwed
<1> QED BY <1>1, <1>3, <1>4, ForegroundKeeps DEF LinkInv

\* Nothing changes.
LEMMA LinkStutters ==
    ASSUME LinkInv, UNCHANGED vdpVars PROVE LinkInv'
<1>1. /\ ForegroundStays /\ asks' = asks /\ owed' = owed /\ late' = late /\ asking' = asking
      /\ vdpFlags' = vdpFlags /\ system' = system /\ parser' = parser /\ wire' = wire
    BY DEF vdpVars, ForegroundStays
<1>2. LinkTypes'
    BY <1>1 DEF LinkInv, LinkTypes
<1>3. ASSUME AskInv PROVE AskInv'
  <2>1. Asked' = Asked /\ Answer' = Answer
      BY <1>1 DEF Asked, Answer
  <2>2. EventsOnly => EventsOnly'
      BY <1>1, ForegroundKeeps
  <2>3. AnswerComes => AnswerComes'
    <3>1. \A k : OnWire(k) => OnWire(k)'
        BY <1>1, OnWireStays
    <3> QED BY <1>1, <2>1, <3>1 DEF AnswerComes
  <2>4. NothingOwed => NothingOwed'
      BY <1>1, <2>2 DEF NothingOwed
  <2> QED BY <1>1, <1>3, <2>1, <2>2, <2>3, <2>4 DEF AskInv
<1> QED BY <1>1, <1>2, <1>3, ForegroundKeeps DEF LinkInv

\* The invariant holds at reset.
LEMMA LinkInvInit == VdpLinkInit => LinkInv
<1> SUFFICES ASSUME VdpLinkInit PROVE LinkInv
    OBVIOUS
<1>1. wire = Silent /\ owed = << >> /\ asking = Nobody /\ asks = 0 /\ late = FALSE
    BY DEF VdpLinkInit
<1>2. parser \in ParserT /\ parser.state = 0
  <2>1. Filled(BufferLen, 0) \in [1 .. BufferLen -> Nat]
      BY DEF Filled
  <2>2. ASSUME NEW i \in 1 .. BufferLen PROVE Filled(BufferLen, 0)[i] \in LeftBehind(i)
    <3>1. Filled(BufferLen, 0)[i] = 0 /\ 0 \in 0 .. MaxAsks
        BY VdpLinkAssumption DEF Filled
    <3> QED BY <3>1 DEF LeftBehind
  <2>3. Filled(BufferLen, 0) \in BufferT
      BY <2>1, <2>2 DEF BufferT
  <2> QED BY <2>3 DEF VdpLinkInit, ParserT
<1>3. system \in [DOMAIN Takes -> Seq(Nat)]
  <2>1. ASSUME NEW c \in DOMAIN Takes PROVE Filled(Takes[c], 0) \in Seq(Nat)
    <3>1. Takes[c] \in Nat
      <4>1. Takes[c] \in 1 .. 10
          BY TakesAre
      <4> QED BY <4>1
    <3> QED BY <3>1, FilledIs
  <2>2. system = [c \in DOMAIN Takes |-> Filled(Takes[c], 0)]
      BY DEF VdpLinkInit
  <2> QED BY <2>1, <2>2
<1>4. LinkTypes
  <2>1. owed \in Seq(RequestT) /\ asks \in 0 .. MaxAsks /\ late \in BOOLEAN
    <3>1. owed \in Seq(RequestT)
        BY <1>1, EmptySeq
    <3>2. asks \in 0 .. MaxAsks
        BY <1>1, VdpLinkAssumption
    <3>3. late \in BOOLEAN
        BY <1>1
    <3> QED BY <3>1, <3>2, <3>3
  <2>2. wire = [bytes |-> wire.bytes, sent |-> wire.sent]
      BY <1>1 DEF Silent
  <2>3. /\ asking.at = "none"
        /\ asking = [at |-> asking.at, cmd |-> asking.cmd, id |-> asking.id, copy |-> asking.copy, seen |-> asking.seen]
      BY <1>1 DEF Nobody
  <2> QED BY <1>2, <1>3, <2>1, <2>2, <2>3 DEF LinkTypes, Askings
<1>5. StepInv
    BY <1>1, <1>2 DEF StepInv, VdpLinkInit
<1>6. AskInv
    BY <1>1 DEF AskInv, NothingOwed, EventsOnly, Nobody
<1> QED BY <1>4, <1>5, <1>6 DEF LinkInv

\* Every step keeps the invariant.
LEMMA LinkInvNext == LinkInv /\ [VdpLinkNext]_vdpVars => LinkInv'
<1> SUFFICES ASSUME LinkInv, [VdpLinkNext]_vdpVars PROVE LinkInv'
    OBVIOUS
<1>1. CASE uart0_handler
    BY <1>1, UartKeeps
<1>2. CASE VdpAnswers
    BY <1>2, AnswerKeeps
<1>3. CASE VdpSpeaks
    BY <1>3, EventKeeps
<1>4. CASE ReadsFlags
    BY <1>4, ReadsFlagsKeeps
<1>5. CASE WritesFlags
    BY <1>5, WritesFlagsKeeps
<1>6. CASE Sends
    BY <1>6, SendsKeeps
<1>7. CASE wait_VDP
    BY <1>7, WaitKeeps
<1>8. CASE ReadsFirst
    BY <1>8, ReadsFirstKeeps
<1>9. CASE ReadsRest
    BY <1>9, ReadsRestKeeps
<1>10. CASE Done \/ Routes
    BY <1>10, RestsKeep
<1>11. CASE UNCHANGED vdpVars
    BY <1>11, LinkStutters
<1> QED BY <1>1, <1>2, <1>3, <1>4, <1>5, <1>6, <1>7, <1>8, <1>9, <1>10, <1>11 DEF VdpLinkNext

\* The state of the mainboard link, at every step: what the receiver has of the
\* packet on the wire, and, as long as no wait was in vain, what is owed for the
\* request in progress.
THEOREM LinkInvariant == VdpLinkSpec => []LinkInv
<1>1. VdpLinkInit => LinkInv
    BY LinkInvInit
<1>2. LinkInv /\ [VdpLinkNext]_vdpVars => LinkInv'
    BY LinkInvNext
<1> QED BY <1>1, <1>2, PTL DEF VdpLinkSpec

\* What the receiver holds is what was sent.
LEMMA HoldsWhatWasSent ==
    ASSUME NEW k \in PacketT, OnWire(k), parser \in ParserT, wire.sent > 1
    PROVE  IF Len(k.bytes) > BufferLen
           THEN parser.state = 3 /\ parser.len = Len(wire.bytes) - wire.sent
           ELSE /\ parser.state = 2 /\ parser.stored = wire.sent - 2 /\ parser.len = Len(wire.bytes) - wire.sent
                /\ First(parser.stored) = SubSeq(wire.bytes, 3, wire.sent)
<1> DEFINE n == Len(k.bytes)
<1>1. k.cmd \in Nat /\ k.bytes \in Seq(Nat)
    BY Packets
<1> DEFINE w == wire.bytes
<1>2. /\ w \in Seq(Nat) /\ Len(w) = n + 2 /\ n \in Nat
      /\ \A i \in 1 .. n : w[i + 2] = k.bytes[i] /\ k.bytes[i] \in Nat
  <2> DEFINE c == k.cmd
  <2> DEFINE b == k.bytes
  <2>1. c \in Nat /\ b \in Seq(Nat) /\ w = Packet(c, b)
      BY <1>1 DEF OnWire
  <2> HIDE DEF b, c
  <2>2. /\ Packet(c, b) \in Seq(Nat) /\ Len(Packet(c, b)) = Len(b) + 2 /\ Len(b) \in Nat
        /\ \A i \in 1 .. Len(b) : Packet(c, b)[i + 2] = b[i] /\ b[i] \in Nat
      BY ZenonT(60), <2>1, Layout
  <2> QED BY <2>1, <2>2 DEF b
<1>3. /\ wire.sent \in 0 .. n + 1 /\ parser.state = (IF n > BufferLen THEN 3 ELSE 2)
      /\ parser.len = n + 2 - wire.sent
      /\ n <= BufferLen => \A i \in 1 .. parser.stored : parser.data[i] = k.bytes[i]
  <2>1. wire.sent \in 0 .. n + 1
      BY DEF OnWire
  <2> QED BY <2>1 DEF OnWire
<1>4. parser.len = Len(w) - wire.sent /\ wire.sent \in Nat
    BY <1>2, <1>3
<1>5. CASE n > BufferLen
    BY <1>3, <1>4, <1>5
<1>6. CASE ~(n > BufferLen)
  <2>1. BufferLen \in Nat
      BY DEF BufferLen
  <2>2. n <= BufferLen /\ parser.state = 2
      BY <1>2, <1>3, <1>6, <2>1
  <2>3. parser.stored = wire.sent - 2
    <3>1. wire.sent > 0 /\ wire.sent # 1
        BY <1>4
    <3> QED BY <2>2, <3>1 DEF OnWire
  <2> DEFINE m == wire.sent - 2
  <2>4. m \in Nat /\ m <= n /\ m <= BufferLen /\ m \in 0 .. n
    <3>1. m \in Nat /\ m <= n
      <4> DEFINE e == wire.sent
      <4>1. e \in Nat /\ e > 1 /\ e <= n + 1 /\ n \in Nat
          BY <1>2, <1>3, <1>4
      <4> HIDE DEF e, n
      <4>2. e - 2 \in Nat /\ e - 2 <= n
          BY <4>1
      <4> QED BY <4>2 DEF e
    <3> HIDE DEF m, n
    <3> QED BY <1>2, <2>1, <2>2, <3>1
  <2>5. parser.data \in [1 .. BufferLen -> Nat]
      BY DEF ParserT, BufferT
  <2>6. \A i \in 1 .. m : parser.data[i] = k.bytes[i]
      BY <1>3, <2>2, <2>3
  <2> DEFINE d == parser.data
  <2> DEFINE b == k.bytes
  <2>7. SubSeq(d, 1, m) = SubSeq(b, 1, m)
    <3> HIDE DEF m, d
    <3> QED BY <1>1, <2>4, <2>5, <2>6, HeldBytes DEF d
  <2> DEFINE u == SubSeq(b, 1, m)
  <2> DEFINE v == SubSeq(w, 3, wire.sent)
  <2>8. u \in Seq(Nat) /\ Len(u) = m /\ \A i \in 1 .. m : u[i] = b[i]
    <3>1. \A i \in 1 .. m : b[i] \in Nat
        BY <1>2, <2>4
    <3> HIDE DEF m, b
    <3>2. /\ u \in Seq(Nat) /\ Len(u) = (IF 1 <= m THEN m - 1 + 1 ELSE 0)
          /\ \A i \in 1 .. m - 1 + 1 : u[i] = b[1 + i - 1]
        BY <2>4, <3>1, SubSeqProperties
    <3> HIDE DEF u
    <3> QED BY <2>4, <3>2
  <2>9. v \in Seq(Nat) /\ Len(v) = m /\ \A i \in 1 .. m : v[i] = w[i + 2]
    <3> DEFINE e == wire.sent
    <3>1. \A i \in 3 .. e : w[i] \in Nat
      <4> TAKE i \in 3 .. e
      <4>1. i \in 1 .. Len(w)
          BY <1>2, <1>3, <1>4
      <4> HIDE DEF w
      <4> QED BY <1>2, <4>1, ElementOfSeq
    <3>2. e \in Int /\ e > 1 /\ m = e - 2
        BY <1>4
    <3> HIDE DEF e, m, w
    <3>3. /\ SubSeq(w, 3, e) \in Seq(Nat) /\ Len(SubSeq(w, 3, e)) = (IF 3 <= e THEN e - 3 + 1 ELSE 0)
          /\ \A i \in 1 .. e - 3 + 1 : SubSeq(w, 3, e)[i] = w[3 + i - 1]
        BY <3>1, <3>2, SubSeqProperties
    <3>4. v = SubSeq(w, 3, e)
        BY DEF e
    <3> HIDE DEF v
    <3>5. v \in Seq(Nat) /\ Len(v) = m
        BY <3>2, <3>3, <3>4
    <3>6. \A i \in 1 .. m : v[i] = w[i + 2]
      <4> TAKE i \in 1 .. m
      <4>1. i \in 1 .. e - 3 + 1 /\ 3 + i - 1 = i + 2
          BY <3>2
      <4> QED BY <3>3, <3>4, <4>1
    <3> QED BY <3>5, <3>6
  <2>10. u = v
    <3>1. \A i \in 1 .. m : w[i + 2] = b[i]
        BY <1>2, <2>4
    <3> HIDE DEF u, v, m, w, b
    <3>2. Len(u) = Len(v) /\ \A i \in 1 .. Len(u) : u[i] = v[i]
        BY <2>8, <2>9, <3>1
    <3> QED BY <2>8, <2>9, <3>2, SeqEqual
  <2>11. First(parser.stored) = v
    <3>1. First(parser.stored) = SubSeq(d, 1, m)
        BY <2>3, Zenon DEF First
    <3> QED BY <2>7, <2>10, <3>1, Zenon
  <2> QED BY <1>4, <1>6, <2>2, <2>3, <2>11
<1> QED BY <1>5, <1>6

\* For every set of packets that are asked for or sent, every number of
\* requests and changes of route: the receiver is in step with the mainboard,
\* hands on whole packets, settings that are too short with the bytes of older
\* packets behind them, and an answer that came in time is read whole
\* (vdp_protocol.asm, wait_VDP and its callers).
THEOREM LinkIsSound == VdpLinkSpec => []MainboardLinkIsSound
<1>1. LinkInv => MainboardLinkIsSound
  <2> SUFFICES ASSUME LinkInv PROVE MainboardLinkIsSound
      OBVIOUS
  <2>1. AnswersAreMine
      BY DEF LinkInv, AskInv, AnswersAreMine, Asking, Answer
  <2>2. delivered.bytes = << >> \/ \E e \in Events : IsOf(delivered, e)
      BY DEF LinkInv, StepInv
  <2>3. CASE wire = Silent
    <3>1. parser.state = 0 /\ wire.sent = 0
        BY <2>3 DEF LinkInv, StepInv, Silent
    <3> QED BY <2>1, <2>2, <3>1 DEF MainboardLinkIsSound, ReceiverIsInStep
  <2>4. CASE wire # Silent
    <3>1. PICK k \in PacketT : OnWire(k)
        BY <2>4 DEF LinkInv, StepInv
    <3>2. parser \in ParserT
        BY DEF LinkInv, LinkTypes
    <3>3. wire.sent \in Nat
      <4>1. k.bytes \in Seq(Nat)
          BY Packets
      <4>2. Len(k.bytes) \in Nat
          BY <4>1, LenProperties
      <4>3. wire.sent \in 0 .. Len(k.bytes) + 1
          BY <3>1 DEF OnWire
      <4> QED BY <4>2, <4>3
    <3>4. CASE wire.sent \in {0, 1}
      <4>1. parser.state = wire.sent
          BY <3>1, <3>4 DEF OnWire
      <4> QED BY <2>1, <2>2, <3>4, <4>1 DEF MainboardLinkIsSound, ReceiverIsInStep
    <3>5. CASE wire.sent > 1
      <4>1. CASE Len(k.bytes) > BufferLen
        <5>1. parser.state = 3 /\ parser.len = Len(wire.bytes) - wire.sent
            BY <3>1, <3>2, <3>5, <4>1, HoldsWhatWasSent
        <5> QED BY <2>1, <2>2, <3>3, <3>5, <5>1 DEF MainboardLinkIsSound, ReceiverIsInStep
      <4>2. CASE ~(Len(k.bytes) > BufferLen)
        <5>1. /\ parser.state = 2 /\ parser.stored = wire.sent - 2 /\ parser.len = Len(wire.bytes) - wire.sent
              /\ First(parser.stored) = SubSeq(wire.bytes, 3, wire.sent)
            BY <3>1, <3>2, <3>5, <4>2, HoldsWhatWasSent
        <5> QED BY <2>1, <2>2, <3>3, <3>5, <5>1 DEF MainboardLinkIsSound, ReceiverIsInStep
      <4> QED BY <4>1, <4>2
    <3>6. wire.sent \in {0, 1} \/ wire.sent > 1
        BY <3>3
    <3> QED BY <3>4, <3>5, <3>6
  <2> QED BY <2>3, <2>4
<1> QED BY <1>1, LinkInvariant, PTL

-----------------------------------------------------------------------------
(* The calls of programs.  The one fact about the tables of handlers that  *)
(* the proofs use is HandlersAssumption, which TLC evaluates.              *)

\* A sequence of anything.
IsSeq(s) == \E S : s \in Seq(S)

ProgramT == [mode : {"ADL", "Z80"}, seg : Nat, mb : Nat]

\* MB below program i: that of the one that started it.
Below(i) == IF i = 1 THEN 0 ELSE programs[i - 1].seg

\* Each program but the last is in a call, and the last one may be.
ProgramsInv ==
    /\ programs \in Seq(ProgramT) /\ IsSeq(calls)
    /\ Len(calls) <= Len(programs) /\ Len(programs) <= Len(calls) + 1
    /\ \A i \in 1 .. Len(programs) :
         /\ programs[i].mb = Below(i)
         /\ IF programs[i].mode = "ADL" THEN programs[i].seg = 0 ELSE programs[i].seg \in Segments
    /\ mbase = Below(Len(programs) + 1)

\* A program in Z80 mode comes back to a RET.
RoutineInv ==
    /\ (\E i \in 1 .. Len(programs) : programs[i].mode = "Z80") => callSM[2] = "RET"
    /\ ~lost

\* What the calls in progress were given, and will answer.
CallInv ==
    \A i \in 1 .. Len(calls) :
        /\ IsMeant(calls[i], programs[i]) /\ calls[i].fn # "getfunction"
        /\ IsResult(calls[i].fn, [r \in DOMAIN calls[i].out |-> Result(calls[i].fn, calls[i].out[r])])
AnswerInv ==
    answer # NotCalled =>
        /\ IsResult(answer.fn, answer.out)
        /\ answer.fn = "getfunction" /\ answer.by = "Z80" => answer.out["HL"] = "0"
ApiInv == ProgramsInv /\ RoutineInv /\ CallInv /\ AnswerInv

\* Pushing and popping.
LEMMA SeqPushed ==
    ASSUME NEW s, NEW e, IsSeq(s)
    PROVE  /\ IsSeq(Append(s, e)) /\ Len(s) \in Nat
           /\ DOMAIN s = 1 .. Len(s)
           /\ Len(Append(s, e)) = Len(s) + 1 /\ Append(s, e)[Len(s) + 1] = e
           /\ \A i \in 1 .. Len(s) : Append(s, e)[i] = s[i]
<1>1. PICK S : s \in Seq(S)
    BY DEF IsSeq
<1>2. s \in Seq(S \cup {e})
    BY <1>1
<1>3. Append(s, e) \in Seq(S \cup {e})
    BY <1>2, AppendProperties
<1> QED BY <1>2, <1>3, AppendProperties, LenProperties DEF IsSeq

\* The last element goes.
LEMMA SeqPopped ==
    ASSUME NEW s, IsSeq(s), Len(s) # 0
    PROVE  LET t == SubSeq(s, 1, Len(s) - 1)
           IN /\ IsSeq(t) /\ Len(t) = Len(s) - 1 /\ Len(t) \in Nat
              /\ \A i \in 1 .. Len(t) : t[i] = s[i]
<1>1. PICK S : s \in Seq(S)
    BY DEF IsSeq
<1>2. Len(s) \in Nat \ {0} /\ s = [i \in 1 .. Len(s) |-> s[i]] /\ \A i \in 1 .. Len(s) : s[i] \in S
    BY <1>1, LenProperties, ElementOfSeq
<1>3. SubSeq(s, 1, Len(s) - 1) \in Seq(S) /\ Len(SubSeq(s, 1, Len(s) - 1)) = Len(s) - 1
    BY <1>1, <1>2, SubSeqProperties
<1>4. \A i \in 1 .. Len(s) - 1 : SubSeq(s, 1, Len(s) - 1)[i] = s[i]
    BY <1>1, <1>2, SubSeqProperties
<1> QED BY <1>2, <1>3, <1>4 DEF IsSeq

\* A handler that suits its function pushes what the program means.
LEMMA PushesMeant ==
    ASSUME NEW h, NEW p \in ProgramT, NEW regs, NEW c, Suits(h), mbase = p.seg,
           p.mode = "ADL" <=> p.seg = 0,
           NEW k \in DOMAIN Prototypes[h.fn].params
    PROVE  Pushed(h, h.args[k], regs, c) \in
             Meant(p, Prototypes[h.fn].params[k], Register(h.args[k], regs), c)
<1> DEFINE r == h.args[k]
           t == Prototypes[h.fn].params[k]
           v == Register(r, regs)
<1>1. Widens(h, r, t) /\ (h.near \cup h.opt \cup h.typed \cup h.asked \cup h.fix) \cap Pads = {}
    BY Zenon DEF Suits
<1>2. r \in Pads => r \notin Wide /\ v = Reg(0, r)
    BY DEF Register, Pads, Wide
<1> HIDE DEF r, t
<1>3. Pushed(h, r, regs, c) =
        IF r \in h.asked THEN (IF c = "0" THEN v ELSE Reg(mbase, v.w))
        ELSE IF mbase = 0 THEN v
        ELSE IF r \in h.near \/ (r \in h.opt /\ v.w # "0") \/ (r \in h.typed /\ c # "1") THEN Reg(mbase, v.w)
        ELSE IF r \in h.fix THEN (IF v.u = 0 THEN Reg(mbase, v.w) ELSE v) ELSE v
    BY Zenon DEF Pushed, TakesMb, SET_24, FIX_HLU24
<1> HIDE DEF v
<1> DEFINE q == Pushed(h, r, regs, c)
<1>q. SUFFICES q \in Meant(p, t, v, c)
    BY DEF r, t, v
<1> HIDE DEF q
<1>4. CASE t = "pad"
  <2>1. r \in Pads /\ r \notin h.near \cup h.opt \cup h.typed \cup h.asked \cup h.fix
      BY <1>1, <1>4 DEF Widens
  <2>2. q = v
      BY <1>3, <2>1 DEF q
  <2> QED BY <1>2, <1>4, <2>1, <2>2 DEF Meant
<1>5. CASE t = "callback"
    BY <1>1, <1>3, <1>5 DEF Widens, Meant, q, Reg
<1>6. CASE t \in {"byte", "number", "full"}
    BY <1>1, <1>3, <1>6 DEF Widens, Meant, q, Reg
<1>7. CASE t \notin {"pad", "callback", "byte", "number", "full"} /\ p.mode = "ADL"
    BY <1>1, <1>3, <1>7 DEF Widens, Meant, q, Reg
<1>8. CASE t \notin {"pad", "callback", "byte", "number", "full"} /\ p.mode # "ADL"
    BY <1>1, <1>3, <1>8 DEF Widens, Meant, q, Reg
<1> QED BY <1>4, <1>5, <1>6, <1>7, <1>8

\* The programs stay well kept when one starts.
LEMMA ProgramStarts ==
    ASSUME ApiInv, NEW mode \in {"ADL", "Z80"}, NEW seg \in Nat, CommandLine, Enters(mode, seg),
           IF mode = "ADL" THEN seg = 0 ELSE seg \in Segments,
           mbase' = seg
    PROVE  /\ ProgramsInv' /\ CallInv' /\ AnswerInv' /\ lost' = lost
           /\ Len(programs') = Len(programs) + 1 /\ programs'[Len(programs) + 1].mode = mode
           /\ \A i \in 1 .. Len(programs) : programs'[i] = programs[i]
<1> DEFINE e == [mode |-> mode, seg |-> seg, mb |-> mbase]
           n == Len(programs)
<1>1. programs \in Seq(ProgramT) /\ IsSeq(calls) /\ n \in Nat /\ Len(calls) \in Nat
    BY SeqPushed, LenProperties DEF ApiInv, ProgramsInv
<1>2. programs' = Append(programs, e) /\ calls' = calls /\ lost' = lost /\ answer' = NotCalled
    BY DEF Enters
<1>3. \A i \in 1 .. n : programs[i] \in ProgramT
    BY <1>1, ElementOfSeq
<1>4. mbase \in Nat
    BY <1>1, <1>3 DEF ApiInv, ProgramsInv, Below, ProgramT
<1>5. e \in ProgramT /\ e.mode = mode /\ e.seg = seg /\ e.mb = mbase
    BY <1>4 DEF ProgramT
<1> HIDE DEF e
<1>6. /\ programs' \in Seq(ProgramT) /\ Len(programs') = n + 1 /\ programs'[n + 1] = e
      /\ \A i \in 1 .. n : programs'[i] = programs[i]
    BY <1>1, <1>2, <1>5, AppendProperties
<1>7. Len(calls) = n
    BY <1>1 DEF CommandLine, ApiInv, ProgramsInv
<1>8. \A i \in 1 .. n + 1 : Below(i)' = Below(i)
    BY <1>1, <1>6 DEF Below
<1>9. ProgramsInv'
  <2>1. ASSUME NEW i \in 1 .. n + 1
        PROVE  /\ programs'[i].mb = Below(i)'
               /\ IF programs'[i].mode = "ADL" THEN programs'[i].seg = 0 ELSE programs'[i].seg \in Segments
    <3>1. CASE i = n + 1
        BY <1>5, <1>6, <1>8, <3>1 DEF ApiInv, ProgramsInv
    <3>2. CASE i \in 1 .. n
        BY <1>6, <1>8, <3>2 DEF ApiInv, ProgramsInv
    <3> QED BY <1>1, <3>1, <3>2
  <2>2. mbase' = Below(Len(programs) + 1)'
      BY <1>1, <1>5, <1>6 DEF Below
  <2> QED BY <1>1, <1>2, <1>6, <1>7, <2>1, <2>2 DEF ProgramsInv
<1>10. CallInv'
  <2>1. \A i \in 1 .. Len(calls) : programs'[i] = programs[i]
      BY <1>6, <1>7
  <2> QED BY <1>2, <2>1 DEF ApiInv, CallInv
<1>11. AnswerInv'
    BY <1>2 DEF AnswerInv
<1> QED BY <1>2, <1>5, <1>6, <1>9, <1>10, <1>11

\* A call is made, its parameters in the registers that the handler pushes.
LEMMA CallMade ==
    ASSUME ApiInv, NEW h \in Handlers, NEW regs, NEW c, h.fn \notin {"none", "getfunction"},
           Calls(h, regs, c)
    PROVE  ApiInv'
<1> DEFINE params == Prototypes[h.fn].params
           e == [fn |-> h.fn, c |-> c, out |-> h.out,
                 meant |-> [i \in DOMAIN h.args |-> Register(h.args[i], regs)],
                 args |-> [i \in DOMAIN h.args |-> Pushed(h, h.args[i], regs, c)]]
           n == Len(calls)
<1>1. programs \in Seq(ProgramT) /\ IsSeq(calls) /\ n \in Nat /\ Len(programs) = n + 1
    BY SeqPushed, LenProperties DEF ApiInv, ProgramsInv, Calls, Runs
<1>2. /\ calls' = Append(calls, e) /\ programs' = programs /\ mbase' = mbase
      /\ callSM' = callSM /\ lost' = lost /\ answer' = NotCalled
    BY DEF Calls
<1>3. Suits(h)
    BY HandlersAssumption
<1>4. programs[n + 1] \in ProgramT /\ mbase = programs[n + 1].seg
    BY <1>1, ElementOfSeq DEF ApiInv, ProgramsInv, Below
<1>5. programs[n + 1].mode = "ADL" <=> programs[n + 1].seg = 0
    BY <1>1, MosApiAssumption DEF ApiInv, ProgramsInv
<1>6. IsMeant(e, programs[n + 1])
  <2>1. DOMAIN e.args = DOMAIN params /\ DOMAIN h.args = DOMAIN params
      BY <1>3 DEF Suits
  <2>2. ASSUME NEW k \in DOMAIN params
        PROVE  e.args[k] \in Meant(programs[n + 1], params[k], e.meant[k], e.c)
    <3>1. e.args[k] = Pushed(h, h.args[k], regs, c) /\ e.meant[k] = Register(h.args[k], regs) /\ e.c = c
        BY <2>1, <2>2
    <3> HIDE DEF e
    <3>2. Pushed(h, h.args[k], regs, c) \in Meant(programs[n + 1], params[k], Register(h.args[k], regs), c)
        BY <1>3, <1>4, <1>5, <2>2, PushesMeant
    <3> QED BY <3>1, <3>2
  <2> QED BY <2>1, <2>2 DEF IsMeant
<1>7. e.fn = h.fn /\ e.out = h.out
    OBVIOUS
<1>8. IsResult(e.fn, [r \in DOMAIN e.out |-> Result(e.fn, e.out[r])])
    BY <1>3, <1>7 DEF Suits
<1> HIDE DEF e
<1>9. /\ IsSeq(calls') /\ Len(calls') = n + 1 /\ calls'[n + 1] = e
      /\ \A i \in 1 .. n : calls'[i] = calls[i]
    BY <1>1, <1>2, SeqPushed
<1>10. ProgramsInv'
    BY <1>1, <1>2, <1>9 DEF ApiInv, ProgramsInv, Below
<1>11. CallInv'
  <2>1. ASSUME NEW i \in 1 .. n + 1
        PROVE  /\ IsMeant(calls'[i], programs[i]) /\ calls'[i].fn # "getfunction"
               /\ IsResult(calls'[i].fn, [r \in DOMAIN calls'[i].out |-> Result(calls'[i].fn, calls'[i].out[r])])
    <3>1. CASE i = n + 1
        BY <1>6, <1>7, <1>8, <1>9, <3>1
    <3>2. CASE i \in 1 .. n
        BY <1>9, <3>2 DEF ApiInv, CallInv
    <3> QED BY <1>1, <3>1, <3>2
  <2> QED BY <1>2, <1>9, <2>1 DEF CallInv
<1>12. RoutineInv' /\ AnswerInv'
    BY <1>2 DEF ApiInv, RoutineInv, AnswerInv
<1> QED BY <1>10, <1>11, <1>12 DEF ApiInv

\* Each number calls a handler of the tables, or none.
LEMMA NumberIsHandled ==
    ASSUME NEW n \in 0 .. 255
    PROVE  mos_api(n) \in Handlers \/ mos_api(n).fn = "none"
<1> DEFINE block == IF n < 128 THEN mos_api_block1 ELSE mos_api_block2
<1>1. mos_api_not_implemented.fn = "none"
    BY DEF mos_api_not_implemented, Api
<1>2. CASE mos_api(n) = mos_api_not_implemented
    BY <1>1, <1>2
<1>3. CASE (n % 128) + 1 \in DOMAIN block /\ mos_api(n) = block[(n % 128) + 1]
  <2>1. CASE n < 128
      BY <1>3, <2>1 DEF Handlers
  <2>2. CASE ~(n < 128)
      BY <1>3, <2>2 DEF Handlers
  <2> QED BY <2>1, <2>2
<1> QED BY <1>2, <1>3, Zenon DEF mos_api, SWITCH_A

\* A call that MOS answers at once.
LEMMA AnsweredAtOnce ==
    ASSUME ApiInv, NEW fn, NEW out, Runs, AnswersIn(fn, out), calls' = calls,
           IsResult(fn, out), fn = "getfunction" => mbase = 0 \/ out["HL"] = "0"
    PROVE  ApiInv'
<1>1. programs \in Seq(ProgramT) /\ Len(programs) = Len(calls) + 1 /\ Len(calls) \in Nat
    BY SeqPushed, LenProperties DEF ApiInv, ProgramsInv, Runs
<1>2. answer' = [fn |-> fn, by |-> Top.mode, out |-> out]
    BY DEF AnswersIn
<1>3. programs' = programs /\ mbase' = mbase /\ callSM' = callSM /\ lost' = lost
    BY DEF AnswersIn
<1>4. Top.mode = "Z80" => mbase # 0
    BY <1>1, MosApiAssumption DEF ApiInv, ProgramsInv, Below, Top
<1>5. answer'.fn = fn /\ answer'.out = out /\ (answer'.by = "Z80" => Top.mode = "Z80")
    BY <1>2
<1>6. AnswerInv'
    BY <1>4, <1>5 DEF AnswerInv
<1>7. ProgramsInv' /\ RoutineInv' /\ CallInv'
    BY <1>3 DEF ApiInv, ProgramsInv, RoutineInv, CallInv, Below
<1> QED BY <1>6, <1>7 DEF ApiInv

\* What mos_getfunction says to a program in Z80 mode.
LEMMA GetsFunction ==
    ASSUME NEW c, NEW b
    PROVE  IsResult("getfunction", GetFunction(c, b)) /\ (mbase = 0 \/ GetFunction(c, b)["HL"] = "0")
BY DEF IsResult, GetFunction

\* C returns.
LEMMA CallReturns == ApiInv /\ Returns => ApiInv'
<1> SUFFICES ASSUME ApiInv, Returns PROVE ApiInv'
    OBVIOUS
<1> DEFINE back == calls[Len(calls)]
           out == [r \in DOMAIN back.out |-> Result(back.fn, back.out[r])]
<1>1. /\ programs # << >> /\ Len(calls) = Len(programs) /\ AnswersIn(back.fn, out)
      /\ calls' = SubSeq(calls, 1, Len(calls) - 1)
    BY DEF Returns
<1>2. programs \in Seq(ProgramT) /\ IsSeq(calls) /\ Len(programs) \in Nat \ {0}
    BY <1>1, EmptySeq, LenProperties DEF ApiInv, ProgramsInv
<1>3. /\ IsSeq(calls') /\ Len(calls') = Len(calls) - 1
      /\ \A i \in 1 .. Len(calls) - 1 : calls'[i] = calls[i]
    BY <1>1, <1>2, SeqPopped
<1>4. programs' = programs /\ mbase' = mbase /\ callSM' = callSM /\ lost' = lost
    BY <1>1 DEF AnswersIn
<1>5. IsResult(back.fn, out) /\ back.fn # "getfunction"
    BY <1>1, <1>2 DEF ApiInv, CallInv
<1>6. answer'.fn = back.fn /\ answer'.out = out
    BY <1>1 DEF AnswersIn
<1>7. AnswerInv'
    BY <1>5, <1>6 DEF AnswerInv
<1> HIDE DEF back, out
<1>8. ProgramsInv'
  <2>1. /\ \A i \in 1 .. Len(programs) :
              /\ programs[i].mb = Below(i)
              /\ IF programs[i].mode = "ADL" THEN programs[i].seg = 0 ELSE programs[i].seg \in Segments
        /\ mbase = Below(Len(programs) + 1)
      BY DEF ApiInv, ProgramsInv
  <2>2. \A i : Below(i)' = Below(i)
      BY <1>4 DEF Below
  <2>3. Len(calls') <= Len(programs) /\ Len(programs) <= Len(calls') + 1
      BY <1>1, <1>2, <1>3
  <2> QED BY <1>2, <1>3, <1>4, <2>1, <2>2, <2>3 DEF ProgramsInv
<1>9. CallInv'
  <2>1. ASSUME NEW i \in 1 .. Len(calls')
        PROVE  i \in 1 .. Len(calls) /\ calls'[i] = calls[i] /\ programs'[i] = programs[i]
      BY <1>1, <1>2, <1>3, <1>4
  <2> QED BY <2>1 DEF ApiInv, CallInv
<1>10. RoutineInv'
    BY <1>4 DEF ApiInv, RoutineInv
<1> QED BY <1>7, <1>8, <1>9, <1>10 DEF ApiInv

\* A program returns.
LEMMA ProgramReturns == ApiInv /\ execSM => ApiInv'
<1> SUFFICES ASSUME ApiInv, execSM PROVE ApiInv'
    OBVIOUS
<1> DEFINE n == Len(calls)
<1>1. programs \in Seq(ProgramT) /\ IsSeq(calls) /\ n \in Nat /\ Len(programs) = n + 1
    BY SeqPushed, LenProperties DEF ApiInv, ProgramsInv, execSM, Runs
<1>2. /\ programs' = SubSeq(programs, 1, n) /\ mbase' = programs[n + 1].mb /\ calls' = calls
      /\ lost' = (lost \/ (programs[n + 1].mode = "Z80" /\ callSM[2] # "RET"))
      /\ callSM' = callSM /\ answer' = NotCalled
    BY <1>1 DEF execSM, Top
<1>3. programs' \in Seq(ProgramT) /\ Len(programs') = n /\ \A i \in 1 .. n : programs'[i] = programs[i]
    BY <1>1, <1>2, SubSeqProperties
<1>4. ~lost'
  <2>1. n + 1 \in 1 .. Len(programs)
      BY <1>1
  <2>2. programs[n + 1].mode = "Z80" => callSM[2] = "RET"
      BY <2>1, Zenon DEF ApiInv, RoutineInv
  <2> QED BY <1>2, <2>2, Zenon DEF ApiInv, RoutineInv
<1>5. ProgramsInv'
  <2>1. \A i \in 1 .. n + 1 : Below(i)' = Below(i)
      BY <1>1, <1>3 DEF Below
  <2>2. \A i \in 1 .. n :
          /\ programs'[i].mb = Below(i)'
          /\ IF programs'[i].mode = "ADL" THEN programs'[i].seg = 0 ELSE programs'[i].seg \in Segments
      BY <1>1, <1>3, <2>1 DEF ApiInv, ProgramsInv
  <2>3. mbase' = Below(n + 1)
      BY <1>1, <1>2 DEF ApiInv, ProgramsInv
  <2>4. mbase' = Below(Len(programs) + 1)'
      BY <1>1, <1>3, <2>1, <2>3
  <2> QED BY <1>1, <1>2, <1>3, <2>2, <2>4 DEF ProgramsInv
<1>6. RoutineInv'
    BY <1>1, <1>2, <1>3, <1>4 DEF ApiInv, RoutineInv
<1>7. CallInv'
    BY <1>2, <1>3 DEF ApiInv, CallInv
<1>8. AnswerInv'
    BY <1>2 DEF AnswerInv
<1> QED BY <1>5, <1>6, <1>7, <1>8 DEF ApiInv

\* A program in ADL mode keeps the byte that is there.
LEMMA Starts24 == ApiInv /\ exec24 => ApiInv'
<1> SUFFICES ASSUME ApiInv, exec24 PROVE ApiInv'
    OBVIOUS
<1>1. Len(programs) \in Nat
    BY LenProperties DEF ApiInv, ProgramsInv
<1>2. CommandLine /\ Enters("ADL", 0) /\ mbase' = 0 /\ callSM'[2] = callSM[2]
    BY DEF exec24
<1>3. /\ ProgramsInv' /\ CallInv' /\ AnswerInv' /\ lost' = lost
      /\ Len(programs') = Len(programs) + 1 /\ programs'[Len(programs) + 1].mode = "ADL"
      /\ \A i \in 1 .. Len(programs) : programs'[i] = programs[i]
    BY <1>2, ProgramStarts
<1>4. RoutineInv'
    BY <1>1, <1>2, <1>3 DEF ApiInv, RoutineInv
<1> QED BY <1>3, <1>4 DEF ApiInv

\* In Z80 mode it runs under MB, and leaves the RET behind.
LEMMA Starts16 ==
    ASSUME ApiInv, NEW seg \in Segments, exec16(seg)
    PROVE  ApiInv'
<1>1. CommandLine /\ Enters("Z80", seg) /\ mbase' = seg /\ callSM'[2] = "RET" /\ seg \in Nat
    BY MosApiAssumption DEF exec16
<1>2. ProgramsInv' /\ CallInv' /\ AnswerInv' /\ lost' = lost
    BY <1>1, ProgramStarts
<1>3. RoutineInv'
    BY <1>1, <1>2 DEF ApiInv, RoutineInv
<1> QED BY <1>2, <1>3 DEF ApiInv

\* No program runs at the prompt.
LEMMA ApiInvInit == MosApiInit => ApiInv
<1> SUFFICES ASSUME MosApiInit PROVE ApiInv
    OBVIOUS
<1>1. programs = << >> /\ calls = << >> /\ mbase = 0 /\ answer = NotCalled /\ ~lost
    BY DEF MosApiInit
<1>2. programs \in Seq(ProgramT) /\ IsSeq(calls) /\ Len(programs) = 0 /\ Len(calls) = 0
    BY <1>1, EmptySeq DEF IsSeq
<1> QED BY <1>1, <1>2 DEF ApiInv, ProgramsInv, RoutineInv, CallInv, AnswerInv, Below

\* Each step keeps the invariant.
LEMMA ApiInvNext == ApiInv /\ [MosApiNext]_apiVars => ApiInv'
<1> SUFFICES ASSUME ApiInv, [MosApiNext]_apiVars PROVE ApiInv'
    OBVIOUS
<1>1. CASE exec24
    BY <1>1, Starts24
<1>2. ASSUME NEW seg \in Segments, exec16(seg) PROVE ApiInv'
    BY <1>2, Starts16
<1>3. CASE execSM
    BY <1>3, ProgramReturns
<1>4. ASSUME NEW n \in 0 .. 255, rst_08(n) PROVE ApiInv'
  <2> DEFINE h == mos_api(n)
  <2>1. h \in Handlers \/ h.fn = "none"
      BY NumberIsHandled
  <2> HIDE DEF h
  <2>2. CASE h.fn = "none"
    <3>1. AnswersAtOnce(h, h.out)
        BY <1>4, <2>2 DEF rst_08, h
    <3>2. IsResult("none", h.out)
        BY DEF IsResult
    <3> QED BY <2>2, <3>1, <3>2, AnsweredAtOnce DEF AnswersAtOnce
  <2>3. CASE h.fn = "getfunction"
    <3>1. PICK c \in {"0", "1"}, b \in {"function", "reserved", "beyond"} : AnswersAtOnce(h, GetFunction(c, b))
        BY <1>4, <2>3 DEF rst_08, h
    <3> QED BY <2>3, <3>1, GetsFunction, AnsweredAtOnce DEF AnswersAtOnce
  <2>4. CASE h.fn \notin {"none", "getfunction"}
    <3>1. PICK regs \in RegisterFiles(h.opt), c \in Cs(h) : Calls(h, regs, c)
        BY <1>4, <2>4 DEF rst_08, h
    <3> QED BY <2>1, <2>4, <3>1, CallMade
  <2> QED BY <2>2, <2>3, <2>4
<1>5. CASE rst_10
  <2>1. rst_10_handler \in Handlers /\ rst_10_handler.fn = "EMOS_vdu_PUTCH"
      BY DEF Handlers, rst_10_handler, Api
  <2> QED BY <1>5, <2>1, CallMade DEF rst_10
<1>6. CASE rst_18
  <2>1. /\ rst_18_handler \in Handlers /\ rst_18_handler.fn = "EMOS_vdu_WRITE"
        /\ rst_18_handler_1 \in Handlers /\ rst_18_handler_1.fn = "up to a delimiter"
      BY DEF Handlers, rst_18_handler, rst_18_handler_1, Api
  <2>2. PICK regs \in RegisterFiles({"BC"}) :
           Calls(IF regs["BC"].w = "0" THEN rst_18_handler_1 ELSE rst_18_handler, regs, "any")
      BY <1>6 DEF rst_18
  <2> QED BY <2>1, <2>2, CallMade
<1>7. CASE Returns
    BY <1>7, CallReturns
<1>8. CASE UNCHANGED apiVars
    BY <1>8 DEF apiVars, ApiInv, ProgramsInv, RoutineInv, CallInv, AnswerInv, Below
<1> QED BY <1>1, <1>2, <1>3, <1>4, <1>5, <1>6, <1>7, <1>8 DEF MosApiNext

\* What holds of the programs and of the calls in progress, whichever programs run
\* one another: MB is that of each one's own segment (misc.asm, mos_api.asm).
THEOREM ApiInvariant == MosApiSpec => []ApiInv
<1>1. MosApiSpec => MosApiInit /\ [][MosApiNext]_apiVars
    BY DEF MosApiSpec
<1> QED BY <1>1, ApiInvInit, ApiInvNext, PTL

\* For every set of segments and any number of programs that run one another:
\* each runs under the MB of its own mode and segment again when the one it
\* started returns, and a Z80 program returns to a RET, though every start
\* rewrites the one routine that they all return through (exec16, exec24).
THEOREM ProgramsAlwaysResume == MosApiSpec => []ProgramsResume
<1>1. ApiInv => ProgramsResume
  <2> SUFFICES ASSUME ApiInv PROVE ProgramsResume
      OBVIOUS
  <2>1. programs \in Seq(ProgramT) /\ Len(programs) \in Nat /\ DOMAIN programs = 1 .. Len(programs)
      BY LenProperties DEF ApiInv, ProgramsInv
  <2>2. programs = << >> <=> Len(programs) = 0
      BY <2>1, EmptySeq
  <2>3. mbase = IF programs = << >> \/ Top.mode = "ADL" THEN 0 ELSE Top.seg
      BY <2>1, <2>2 DEF ApiInv, ProgramsInv, Below, Top
  <2> QED BY <2>1, <2>3 DEF ApiInv, RoutineInv, ProgramsResume
<1> QED BY <1>1, ApiInvariant, PTL

\* For every set of segments, every upper bytes of the registers and any number
\* of programs, and the handlers as TLC finds them to be (HandlersAssumption):
\* C is given what the calling program means, and answers it, but for the two
\* answers that are lost (mos_api.asm, the macros of misc.asm).
THEOREM CallsAlwaysMeanTheSame == MosApiSpec => []CallsMeanTheSame
<1>1. ApiInv => CallsMeanTheSame
  <2> SUFFICES ASSUME ApiInv PROVE CallsMeanTheSame
      OBVIOUS
  <2>1. DOMAIN calls = 1 .. Len(calls)
      BY SeqPushed DEF ApiInv, ProgramsInv
  <2> QED BY <2>1 DEF ApiInv, CallInv, AnswerInv, CallsMeanTheSame
<1> QED BY <1>1, ApiInvariant, PTL
=============================================================================

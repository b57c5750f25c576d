------------------------------- MODULE SdDriver -------------------------------
(***************************************************************************)
(* The SD card driver (sd.asm over spi.asm, called by diskio.c): the       *)
(* power-up dialogue and the transfer of blocks one at a time, each of     *)
(* their waits bounded by a count or by timer 0.  A step is a command, a   *)
(* token or a block with the card's answer.  The card is external: it may  *)
(* not answer, refuse, be busy with a block for longer than the driver     *)
(* waits, fail to keep it, or be taken out and put back.                   *)
(***************************************************************************)
EXTENDS Integers, Sequences

CONSTANTS
  Sectors,     \* 0 .. n
  Data,        \* what a block holds
  IdleTries,   \* how often CMD0 is sent (10)
  OpTries,     \* how often ACMD41 is sent (100)
  MaxCount,    \* bound: blocks in a call
  MaxFaults,   \* bound: times the card misbehaves or is taken out
  MaxTransfers \* bound: calls

ASSUME SdAssumption ==
  /\ Sectors \subseteq Nat /\ \A s, t \in Sectors : s .. t \subseteq Sectors
  /\ IdleTries \in Nat \ {0} /\ OpTries \in Nat \ {0}
  /\ MaxCount \in Nat /\ MaxFaults \in Nat /\ MaxTransfers \in Nat

NoBlock == [sector |-> -1, data |-> "none"]
Spoilt == "spoilt"

VARIABLES
  card,     \* [mode, busy]: "off" until CMD0, "idle" until ACMD41, "ready"; the block being programmed
  disk,     \* what the card holds
  call,     \* the call of diskio.c in progress: where it is, the next sector and how many
            \* are left, the caller's buffer, whether the card took the command
  result,   \* what the last call returned
  told,     \* for each sector the data last reported written, for the property
  spoilt,   \* the sectors the card failed to keep after it accepted them
  cardFaults, transfers

sdVars == <<card, disk, call, result, told, spoilt, cardFaults, transfers>>

NoCall == [kind |-> "none", at |-> "none", sector |-> 0, count |-> 0, buf |-> << >>, first |-> 0, took |-> FALSE, tries |-> 0]

-----------------------------------------------------------------------------
(* The card.                                                               *)

Busy == card.busy # NoBlock
\* The card listens when it has been woken up and holds no block of ours back.
Listens == card.mode = "ready" /\ ~Busy
Misbehaves == cardFaults < MaxFaults /\ cardFaults' = cardFaults + 1
Behaves == UNCHANGED cardFaults

\* The card does not go along: because of its state, or by misbehaving.
Refuses(state) == (state /\ Behaves) \/ Misbehaves

CardFinishes ==
  /\ Busy
  /\ card' = [card EXCEPT !.busy = NoBlock]
  /\ \/ /\ Behaves /\ spoilt' = spoilt \ {card.busy.sector}
        /\ disk' = [disk EXCEPT ![card.busy.sector] = card.busy.data]
     \/ /\ Misbehaves /\ spoilt' = spoilt \cup {card.busy.sector}
        /\ disk' = [disk EXCEPT ![card.busy.sector] = Spoilt]
  /\ UNCHANGED <<call, result, told, transfers>>

\* Taken out and put back: a block that was being programmed is spoilt.
CardIsTakenOut ==
  /\ card.mode # "off" /\ Misbehaves
  /\ card' = [mode |-> "off", busy |-> NoBlock]
  /\ IF Busy THEN disk' = [disk EXCEPT ![card.busy.sector] = Spoilt] /\ spoilt' = spoilt \cup {card.busy.sector}
     ELSE UNCHANGED <<disk, spoilt>>
  /\ UNCHANGED <<call, result, told, transfers>>

-----------------------------------------------------------------------------
(* Calls and their end.                                                    *)

Starts(new) ==
  /\ call = NoCall /\ transfers < MaxTransfers /\ transfers' = transfers + 1
  /\ call' = new
  /\ UNCHANGED <<card, disk, result, told, spoilt, cardFaults>>

disk_initialize == Starts([NoCall EXCEPT !.kind = "init", !.at = "idle", !.tries = IdleTries])

SD_readBlocks == \E s \in Sectors, n \in 0 .. MaxCount :
  /\ s + n - 1 \in Sectors \cup {s - 1}
  /\ Starts([NoCall EXCEPT !.kind = "read", !.at = "command", !.sector = s, !.first = s, !.count = n])

SD_writeBlocks == \E s \in Sectors, n \in 0 .. MaxCount : \E blocks \in [1 .. n -> Data] :
  /\ s + n - 1 \in Sectors \cup {s - 1}
  /\ Starts([NoCall EXCEPT !.kind = "write", !.at = "command", !.sector = s, !.first = s, !.count = n, !.buf = blocks])

At(kind, at) == call.kind = kind /\ call.at = at
Ends(answer) == call' = NoCall /\ result' = answer
\* $err_exit and $out_error.
Fails == Ends("error") /\ UNCHANGED told
Goes(at) == call' = [call EXCEPT !.at = at] /\ UNCHANGED <<result, told>>
CardStays == UNCHANGED <<card, disk, spoilt>>

-----------------------------------------------------------------------------
(* SD_init.                                                                *)

\* One attempt less, or the end of them.
TriesAgain ==
  IF call.tries = 1 THEN Fails
  ELSE call' = [call EXCEPT !.tries = @ - 1] /\ UNCHANGED <<result, told>>

SD_goIdleState ==
  /\ At("init", "idle") /\ UNCHANGED <<disk, spoilt, transfers>>
  /\ \/ ~Busy /\ card' = [card EXCEPT !.mode = "idle"] /\ Behaves /\ Goes("ifcond")
     \/ Refuses(Busy) /\ UNCHANGED card /\ TriesAgain

\* CMD8: an answer that is not 01 and AA ends it.
SD_sendIfCond ==
  /\ At("init", "ifcond") /\ CardStays /\ UNCHANGED transfers
  /\ \/ card.mode # "off" /\ Behaves
        /\ call' = [call EXCEPT !.at = "opcond", !.tries = OpTries] /\ UNCHANGED <<result, told>>
     \/ Refuses(card.mode = "off") /\ Fails

\* CMD55 and ACMD41; the card may take its time, which is no fault.
SD_sendOpCond ==
  /\ At("init", "opcond") /\ UNCHANGED <<disk, spoilt, transfers>>
  /\ \/ card.mode # "off" /\ card' = [card EXCEPT !.mode = "ready"] /\ Behaves /\ Goes("ocr")
     \/ UNCHANGED card /\ Behaves /\ TriesAgain

SD_readOCR ==
  /\ At("init", "ocr") /\ CardStays /\ UNCHANGED transfers
  /\ \/ card.mode = "ready" /\ Behaves /\ Ends("ok") /\ UNCHANGED told
     \/ Refuses(card.mode = "off") /\ Fails

-----------------------------------------------------------------------------
(* A block.                                                                *)

\* SD_sendIOCmd: a card that is busy holds its output low, which reads as the
\* answer 00 to a command it has not taken.
SD_sendIOCmd ==
  /\ call.at = "command" /\ call.count > 0 /\ CardStays /\ UNCHANGED transfers
  /\ \/ /\ Listens \/ Busy
        /\ Behaves
        /\ call' = [call EXCEPT !.at = IF call.kind = "read" THEN "token" ELSE "data", !.took = Listens]
        /\ UNCHANGED <<result, told>>
     \/ Refuses(card.mode # "ready" /\ ~Busy) /\ Fails

\* A seeded fault: the sector stays.
NextBlockSameSector == [call EXCEPT !.at = "command", !.count = @ - 1]
\* SD_updateIOVars.
NextBlock == [call EXCEPT !.at = "command", !.sector = @ + 1, !.count = @ - 1]

\* SD_readSingleBlock after the command: the start token and the block, or
\* another token, or none in 100 ms.
SD_readSingleBlock ==
  /\ At("read", "token") /\ CardStays /\ UNCHANGED transfers
  /\ \/ /\ call.took /\ Listens /\ Behaves
        /\ call' = [NextBlock EXCEPT !.buf = Append(@, disk[call.sector])]
        /\ UNCHANGED <<result, told>>
     \/ Refuses(~(call.took /\ Listens)) /\ Fails

\* SD_writeSingleBlock after the command: the block and the card's response in
\* 250 ms; any but "accepted" ends the call.
DataResponse ==
  /\ At("write", "data") /\ UNCHANGED <<disk, spoilt, transfers>>
  /\ \/ /\ call.took /\ Listens /\ Behaves
        /\ card' = [card EXCEPT !.busy = [sector |-> call.sector, data |-> call.buf[call.sector - call.first + 1]]]
        /\ call' = [call EXCEPT !.at = "busy"] /\ UNCHANGED result
        /\ told' = [told EXCEPT ![call.sector] = "none"]
     \/ Refuses(~(call.took /\ Listens)) /\ UNCHANGED card /\ Fails

\* A seeded fault: the wait goes on until the card is done.
WaitsForever == ~Busy
\* The card is done, or 250 ms are over: the token stays "accepted" either way.
WaitEnds == ~Busy \/ Busy
BusyEnds ==
  /\ At("write", "busy") /\ WaitEnds /\ CardStays /\ Behaves /\ UNCHANGED <<result, told, transfers>>
  /\ call' = NextBlock

WrittenBlocks == {s \in Sectors : s >= call.first /\ s < call.sector}
BlocksDone ==
  /\ call.at = "command" /\ call.count = 0 /\ CardStays /\ Behaves /\ UNCHANGED transfers
  /\ Ends("ok")
  /\ told' = IF call.kind = "write"
             THEN [s \in Sectors |-> IF s \in WrittenBlocks THEN call.buf[s - call.first + 1] ELSE told[s]]
             ELSE told

-----------------------------------------------------------------------------
SdDriverInit ==
  /\ card = [mode |-> "off", busy |-> NoBlock]
  /\ disk \in [Sectors -> Data]
  /\ call = NoCall /\ result = "none" /\ told = [s \in Sectors |-> "none"]
  /\ spoilt = {} /\ cardFaults = 0 /\ transfers = 0

DriverSteps ==
  \/ SD_goIdleState \/ SD_sendIfCond \/ SD_sendOpCond \/ SD_readOCR
  \/ SD_sendIOCmd \/ SD_readSingleBlock \/ DataResponse \/ BusyEnds \/ BlocksDone
SdDriverNext ==
  \/ disk_initialize \/ SD_readBlocks \/ SD_writeBlocks
  \/ DriverSteps \/ CardFinishes \/ CardIsTakenOut

\* Only the driver's own steps are fair: the card need not do anything.
SdDriverFairness == WF_sdVars(DriverSteps)

SdDriverSpec == SdDriverInit /\ [][SdDriverNext]_sdVars /\ SdDriverFairness

-----------------------------------------------------------------------------
(* Properties.                                                             *)

\* A transfer is of the blocks it was asked for: what a read has delivered is
\* what the card holds at the sectors in turn, and what a write reported is on
\* the card, or is the block that the card is still programming after the
\* driver gave up waiting, unless the card failed to keep a block it accepted.
TransfersAreFaithful ==
  /\ call.kind = "read" => call.buf = [i \in 1 .. call.sector - call.first |-> disk[call.first + i - 1]]
  /\ \A s \in Sectors : told[s] # "none" =>
       \/ disk[s] = told[s] \/ card.busy = [sector |-> s, data |-> told[s]] \/ s \in spoilt

\* Every call returns, whatever the card does: no wait of the driver is without
\* a count or a timer.
TransfersEnd == (call # NoCall) ~> (call = NoCall)
=============================================================================

------------------------------ MODULE MCDevices ------------------------------
(***************************************************************************)
(* The serial lines for TLC: UART0 to the mainboard VDP, UART1 with the    *)
(* remote console and the mode requests, and I2C; and the calls of         *)
(* programs, which share no state with them.  No call on one line waits    *)
(* within a call on another, so a behaviour is one of a single part;       *)
(* component says of which.                                                *)
(***************************************************************************)
EXTENDS VdpLink, I2cMaster, ConsoleMode, MosApi

VARIABLE component    \* "vdp", "i2c", "console" or "api"

\* What the VDP sends: a key, a completion, a key that is too long for one, a
\* packet longer than the buffer, one that does not fit what its handler
\* copies, graphics replies of the right and of the wrong length, the settings
\* of the keyboard and a short packet of that kind, an empty packet and an
\* unknown one.  The long ones are filled with bytes that look like headers.
MCEvents ==
  {[cmd |-> KEY, bytes |-> <<65, 200>>], [cmd |-> KEY, bytes |-> <<65, 0, 22, 1>>],
   [cmd |-> KEY, bytes |-> <<80, 51, 68, 82, 129, 1, 1, 1, 1, 1>>],
   [cmd |-> 2, bytes |-> Filled(18, 135)], [cmd |-> 9, bytes |-> Filled(10, 140)],
   [cmd |-> GRAPHICS, bytes |-> GraphicsReply \o <<1, 1, 1, 0>> \o Filled(8, 129)],
   [cmd |-> GRAPHICS, bytes |-> GraphicsReply \o <<1, 1, 1, 0>>],
   [cmd |-> KEYSTATE, bytes |-> Filled(5, 130)], [cmd |-> KEYSTATE, bytes |-> <<131, 132>>],
   [cmd |-> 0, bytes |-> << >>], [cmd |-> 10, bytes |-> <<128>>]}

allVars == <<component, vdpVars, i2cVars, vars, apiVars>>

MCInit ==
  /\ component \in {"vdp", "i2c", "console", "api"}
  /\ VdpLinkInit /\ I2cInit /\ Init /\ MosApiInit

Of(part) == component = part /\ UNCHANGED component
MCNext ==
  \/ Of("vdp") /\ VdpLinkNext /\ UNCHANGED <<i2cVars, vars, apiVars>>
  \/ Of("i2c") /\ I2cNext /\ UNCHANGED <<vdpVars, vars, apiVars>>
  \/ Of("console") /\ Next /\ UNCHANGED <<vdpVars, i2cVars, apiVars>>
  \/ Of("api") /\ MosApiNext /\ UNCHANGED <<vdpVars, i2cVars, vars>>
  \/ component \notin {"console", "api"} /\ UNCHANGED allVars     \* all its calls are made

\* The fairness of ConsoleMode, for the behaviours that are its own.
ConsoleFairness ==
  /\ WF_vars(Of("console") /\ Foreground) /\ WF_vars(Of("console") /\ GivesUp)
  /\ WF_vars(Of("console") /\ Deliver) /\ WF_vars(Of("console") /\ BoardAnswers)
  /\ WF_vars(Of("console") /\ PeerReceives)
  /\ SF_vars(Of("console") /\ RequestLegacy) /\ SF_vars(Of("console") /\ SelectRemote)

MCSpec == MCInit /\ [][MCNext]_allVars /\ ConsoleFairness
=============================================================================

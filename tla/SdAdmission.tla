----------------------------- MODULE SdAdmission -----------------------------
(***************************************************************************)
(* How the peer on the UART gets a file job run on this machine: the       *)
(* admission exchange at the empty command line (emos_admission.c), the    *)
(* mailbox of the SD link (emos_sdlink.c), the finite job that serves the  *)
(* peer's requests (projects/sdjob/src/job.c), and the programs beside     *)
(* which all this lives (emos.c, mos.c, mos_editor.c).                     *)
(*                                                                         *)
(* The interrupt handler may deliver a packet, and a key may come, between *)
(* any two steps of the foreground.  Packets are lost or late, in order.   *)
(***************************************************************************)
EXTENDS Integers, Sequences

CONSTANTS
  SeqTop,    \* the last sequence number (UINT32_MAX)
  GenMod,    \* the generations (2^32)
  MaxJobs,   \* bound: jobs the peer offers
  MaxLinks,  \* bound: incarnations of the peer
  MaxWire    \* bound: packets on the way to this machine

ASSUME AdmissionAssumption == SeqTop \in Nat /\ GenMod \in Nat \ {0}

VARIABLES
  adm,     \* emos_admission.c's statics; rx is the received reply, or None
  lnk,     \* emos_sdlink.c's: active, application_owned and the mailbox
  job,     \* the statics of the job program
  prog,    \* what the foreground does: "prompt", "line", "app", "job", "ending"
  key,     \* keycount # observed
  env,     \* the mode, and whether the keyboard link is healthy
  peer,    \* external: its incarnation, offer, acknowledgements and request
  wire     \* packets on the way to this machine

admVars == <<adm, lnk, job, prog, key, env, peer, wire>>

None == [kind |-> 0]
Id(a) == [link |-> a.link, gen |-> a.gen, job |-> a.job, grant |-> a.grant]
Waits == {"HELLO_WAIT", "POLL_WAIT", "DECIDE_WAIT"}
Ack(op, seq, id, res, more) == [kind |-> 5, op |-> op, seq |-> seq, id |-> id, res |-> res, more |-> more]
Request == [kind |-> 3]

-----------------------------------------------------------------------------
(* The peer.  It takes a control record and may answer; both may be lost.  *)

Knows(id) == id \in peer.acked /\ id.link = peer.link

\* All it may answer: [p: the peer afterwards, m: its packets].
Answers(op, seq, id) ==
  LET fresh == peer.jobs + 1
  IN CASE op = "HELLO" ->
            {[p |-> [peer EXCEPT !.offer = 0],
              m |-> <<Ack(op, seq, [id EXCEPT !.link = peer.link], 0, c)>>] :
               c \in {{"sd"}, {"sd", "excom", "app"}}}
       [] op = "POLL" /\ id.link = peer.link ->
            {[p |-> peer, m |-> <<Ack(op, seq, id, 1, {})>>]}
              \cup (IF peer.jobs < MaxJobs
                    THEN {[p |-> [peer EXCEPT !.jobs = fresh, !.offer = fresh],
                           m |-> <<Ack(op, seq, [id EXCEPT !.job = fresh], 0, {})>>]}
                    ELSE {})
       [] op = "DECIDE" /\ id.link = peer.link /\ id.job = peer.offer ->
            {[p |-> [peer EXCEPT !.acked = {id}], m |-> <<Ack(op, seq, id, 0, {})>>],
             [p |-> [peer EXCEPT !.offer = 0], m |-> <<Ack(op, seq, id, 9, {})>>]}
       [] op = "CLOSE" -> {[p |-> [peer EXCEPT !.offer = 0, !.req = FALSE], m |-> <<Ack(op, seq, id, 0, {})>>]}
       [] op = "READY" /\ Knows(id) ->
            {[p |-> [peer EXCEPT !.req = TRUE], m |-> <<Ack(op, seq, id, 0, {}), Request>>]}
       [] op = "STATUS" /\ Knows(id) ->
            {[p |-> peer, m |-> <<Ack(op, seq, id, 0, e)>>] : e \in {{}, {"end"}}}
       [] op = "FINISH" /\ Knows(id) ->
            {[p |-> [peer EXCEPT !.done = @ \cup {id.job}, !.req = FALSE], m |-> <<Ack(op, seq, id, 0, {})>>]}
       [] op = "JOB" /\ Knows(id) -> {[p |-> peer, m |-> <<Ack(op, seq, id, 0, {})>>]}
       [] OTHER -> {[p |-> peer, m |-> <<Ack(op, seq, id, 3, {})>>]}

\* After the peer was sent a record, which it may not have received.
PeerSent(op, seq, id) ==
  \/ UNCHANGED <<peer, wire>>
  \/ \E a \in Answers(op, seq, id) :
       /\ peer' = a.p
       /\ Len(wire \o a.m) <= MaxWire /\ wire' = wire \o a.m

PeerRestarts ==
  /\ peer.link < MaxLinks
  /\ peer' = [peer EXCEPT !.link = @ + 1, !.offer = 0, !.req = FALSE]
  /\ UNCHANGED <<adm, lnk, job, prog, key, env, wire>>

Lost == wire # << >> /\ wire' = Tail(wire) /\ UNCHANGED <<adm, lnk, job, prog, key, env, peer>>

-----------------------------------------------------------------------------
(* emos_admission.c.                                                       *)

clear_wait(a) == [a EXCEPT !.waiting = FALSE, !.rx = None]
\* The next generation; when they are used up there is no more admission.
Older(a) == [a EXCEPT !.gen = (@ + 1) % GenMod, !.exhausted = @ \/ a.gen + 1 = GenMod]

emos_admission_reset(a) ==
  Older([clear_wait(a) EXCEPT !.st = "OFF", !.caps = {}, !.link = 0, !.job = 0, !.grant = <<0, 0>>, !.terminal = 0])
Left(a) ==
  Older([clear_wait(a) EXCEPT !.st = IF a.caps # {} THEN "IDLE" ELSE "OFF", !.job = 0, !.grant = <<0, 0>>])

\* What a failed record leaves: no number left, or the UART refused it.
Unsent(a) == {[a EXCEPT !.exhausted = TRUE]}
Refused(a) == IF a.seq = SeqTop THEN Unsent(a) ELSE {emos_admission_reset([a EXCEPT !.seq = @ + 1])}
Sent(a, op) == [a EXCEPT !.seq = @ + 1, !.op = op, !.waiting = TRUE, !.rx = None]

\* Sends a record as a; it leaves then, or what refused holds of if it fails.
send_control(a, op, then, refused) ==
  \/ a.seq < SeqTop /\ adm' = then /\ PeerSent(op, a.seq + 1, Id(a))
  \/ adm' \in refused /\ UNCHANGED <<peer, wire>>

\* A pending DECIDE is withdrawn by a CLOSE.
emos_admission_leave ==
  IF adm.st = "DECIDE_WAIT"
  THEN send_control(adm, "CLOSE", Left(Sent(adm, "CLOSE")), {Left(a) : a \in Refused(adm)})
  ELSE adm' = Left(adm) /\ UNCHANGED <<peer, wire>>

emos_admission_core == prog \in {"prompt", "line"}
Able == env.mode # "ExExt" /\ ~adm.exhausted /\ env.healthy

\* The editor polls this while the line is empty.
Idling == prog = "prompt" /\ adm.judged = None /\ adm.st # "CLAIMED"

Unable ==
  /\ Idling /\ ~Able /\ (adm.st # "OFF" \/ adm.caps # {})
  /\ adm' = emos_admission_reset(adm)
  /\ UNCHANGED <<lnk, job, prog, key, env, peer, wire>>

ModeSeen ==
  /\ Idling /\ Able /\ ~key /\ adm.seen # env.mode
  /\ adm' = [Left(adm) EXCEPT !.seen = env.mode]
  /\ UNCHANGED <<lnk, job, prog, key, env, peer, wire>>

Polling ==
  Idling /\ Able /\ ~key /\ adm.seen = env.mode /\ (env.mode = "Legacy" \/ "excom" \in adm.caps)

\* The reply has the number of the record sent; its identity is checked here.
Named(m) ==
  \/ adm.st = "HELLO_WAIT"
  \/ m.id = Id(adm)
  \/ adm.st = "POLL_WAIT" /\ [m.id EXCEPT !.job = 0] = Id(adm)

Reply ==
  /\ Polling /\ adm.st \in Waits /\ adm.rx # None
  /\ adm' = IF Named(adm.rx) THEN [adm EXCEPT !.waiting = FALSE, !.judged = adm.rx, !.rx = None]
            ELSE [adm EXCEPT !.rx = None]
  /\ UNCHANGED <<lnk, job, prog, key, env, peer, wire>>

\* The reply is judged; a key that came meanwhile is looked at once more,
\* with interrupts off, before a job is reserved or claimed.
Judging(st) == prog = "prompt" /\ adm.judged # None /\ adm.st = st
Settled == [adm EXCEPT !.judged = None]

JudgeHello ==
  /\ Judging("HELLO_WAIT")
  /\ adm' = IF adm.judged.res # 0 THEN emos_admission_reset(Settled)
            ELSE [Settled EXCEPT !.link = adm.judged.id.link, !.caps = adm.judged.more, !.st = "IDLE"]
  /\ UNCHANGED <<lnk, job, prog, key, env, peer, wire>>

JudgePoll ==
  /\ Judging("POLL_WAIT")
  /\ LET n == adm.grants + 1
         reserved == [Settled EXCEPT !.job = adm.judged.id.job, !.grants = n, !.grant = <<n, adm.gen>>,
                                     !.st = "DECIDE_WAIT"]
     IN CASE adm.judged.res = 0 /\ key  -> adm' = Left(Settled) /\ UNCHANGED <<peer, wire>>
          [] adm.judged.res = 0 /\ ~key -> send_control(reserved, "DECIDE", Sent(reserved, "DECIDE"), Refused(reserved))
          [] adm.judged.res = 1 -> adm' = [Settled EXCEPT !.st = "IDLE"] /\ UNCHANGED <<peer, wire>>
          [] OTHER -> adm' = emos_admission_reset(Settled) /\ UNCHANGED <<peer, wire>>
  /\ UNCHANGED <<lnk, job, prog, key, env>>

\* A seeded fault: the peer's refusal is not looked at.
JudgeDecideBlindly ==
  /\ Judging("DECIDE_WAIT") /\ ~key
  /\ adm' = [Settled EXCEPT !.st = "CLAIMED"]
  /\ UNCHANGED <<lnk, job, prog, key, env, peer, wire>>

\* A seeded fault: the key is not looked at again.
JudgeDecideAtOnce ==
  /\ Judging("DECIDE_WAIT")
  /\ adm' = IF adm.judged.res # 0 THEN emos_admission_reset(Settled) ELSE [Settled EXCEPT !.st = "CLAIMED"]
  /\ UNCHANGED <<lnk, job, prog, key, env, peer, wire>>

JudgeDecide ==
  /\ Judging("DECIDE_WAIT")
  /\ IF adm.judged.res # 0 THEN adm' = emos_admission_reset(Settled) /\ UNCHANGED <<peer, wire>>
     ELSE IF key
     THEN \* emos_admission_leave of a state that is still DECIDE_WAIT
          send_control(Settled, "CLOSE", Left(Sent(Settled, "CLOSE")), {Left(a) : a \in Refused(Settled)})
     ELSE adm' = [Settled EXCEPT !.st = "CLAIMED"] /\ UNCHANGED <<peer, wire>>
  /\ UNCHANGED <<lnk, job, prog, key, env>>

\* 24 ticks, or 262144 looks, without a reply.
NoReply ==
  /\ Polling /\ adm.st \in Waits /\ adm.rx = None
  /\ adm' = emos_admission_reset(adm)
  /\ UNCHANGED <<lnk, job, prog, key, env, peer, wire>>

NextPoll ==
  /\ Polling
  /\ \/ adm.st = "OFF" /\ env.mode = "Legacy"
        /\ LET a == [adm EXCEPT !.st = "HELLO_WAIT"] IN send_control(a, "HELLO", Sent(a, "HELLO"), Refused(a))
     \/ adm.st = "IDLE"
        /\ LET a == [adm EXCEPT !.st = "POLL_WAIT"] IN send_control(a, "POLL", Sent(a, "POLL"), Refused(a))
  /\ UNCHANGED <<lnk, job, prog, key, env>>

-----------------------------------------------------------------------------
(* emos_sdlink.c.                                                          *)

Closed == [lnk EXCEPT !.active = FALSE, !.owner = 0, !.box = << >>, !.dropped = FALSE]

\* The interrupt handler.
emos_admission_packet(m) ==
  /\ adm' = IF adm.waiting /\ adm.rx = None /\ m.op = adm.op /\ m.seq = adm.seq
            THEN [adm EXCEPT !.rx = m] ELSE adm
  /\ UNCHANGED lnk

Slots == IF lnk.owner = 2 THEN 2 ELSE 1

emos_sdlink_packet ==
  /\ wire # << >> /\ wire' = Tail(wire)
  /\ LET m == Head(wire)
     IN IF lnk.owner = 0 /\ m.kind = 5 THEN emos_admission_packet(m)
        ELSE /\ lnk' = IF ~lnk.active THEN lnk
                       ELSE IF Len(lnk.box) < Slots THEN [lnk EXCEPT !.box = Append(@, m)]
                       ELSE [lnk EXCEPT !.dropped = TRUE]
             /\ UNCHANGED adm
  /\ UNCHANGED <<job, prog, key, env, peer>>

LinkUp == env.mode # "ExExt" /\ env.healthy
Allowed(op) ==
  /\ LinkUp
  /\ \/ env.mode = "Legacy"
     \/ {"sd", "excom"} \subseteq adm.caps /\ (op = 5 \/ (lnk.owner = 2 /\ op \notin {0, 4}))
     \/ {"sd", "app"} \subseteq adm.caps /\ (op = 4 \/ (lnk.owner = 1 /\ op \in 1 .. 3))

\* A fault of the keyboard link closes the SD link in the interrupt handler.
Fault ==
  /\ env.healthy /\ env' = [env EXCEPT !.healthy = FALSE]
  /\ lnk' = Closed
  /\ UNCHANGED <<adm, job, prog, key, peer, wire>>

-----------------------------------------------------------------------------
(* The prompt and the programs.                                            *)

KeyComes == prog = "prompt" /\ ~key /\ key' = TRUE /\ UNCHANGED <<adm, lnk, job, prog, env, peer, wire>>

\* The editor leaves admission before it looks at the key.
TakesKey ==
  /\ prog = "prompt" /\ key /\ adm.judged = None /\ adm.st # "CLAIMED"
  /\ emos_admission_leave
  /\ key' = FALSE /\ prog' = "line"
  /\ UNCHANGED <<lnk, job, env>>

\* The line is a mode or keyboard command, or empty again.
LineDone ==
  /\ prog = "line" /\ prog' = "prompt"
  /\ env' \in [mode : {"Legacy", "ExCom", "ExExt"}, healthy : {TRUE, env.healthy}]
  /\ UNCHANGED <<adm, lnk, job, key, peer, wire>>

emos_application_enter ==
  /\ prog = "line" /\ prog' = "app"
  /\ adm' = Left(adm) /\ lnk' = Closed
  /\ UNCHANGED <<job, key, env, peer, wire>>

emos_application_leave ==
  /\ prog = "app" /\ prog' = "prompt"
  /\ adm' = Left(adm) /\ lnk' = Closed
  /\ UNCHANGED <<job, key, env, peer, wire>>

\* The application's calls: 0 listen, 3 close, 4 lease; reading takes one.
AppCalls ==
  /\ prog = "app"
  /\ \/ Allowed(0) /\ lnk.owner = 0 /\ lnk' = [Closed EXCEPT !.active = TRUE] /\ UNCHANGED adm
     \/ Allowed(3) /\ lnk' = Closed /\ UNCHANGED adm
     \/ Allowed(4) /\ ~lnk.active /\ lnk' = [Closed EXCEPT !.active = TRUE, !.owner = 1] /\ adm' = Left(adm)
     \/ Allowed(1) /\ lnk.active /\ lnk.box # << >> /\ lnk' = [lnk EXCEPT !.box = Tail(@)] /\ UNCHANGED adm
  /\ UNCHANGED <<job, prog, key, env, peer, wire>>

-----------------------------------------------------------------------------
(* The claimed job.                                                        *)

NewJob == [pc |-> "bind", op |-> "", seq |-> 0, id |-> Id(adm), pending |-> FALSE, live |-> FALSE, failed |-> FALSE,
           stage |-> FALSE, ending |-> FALSE]

\* The editor has given its storage back; the job is loaded, if it is there.
emos_admission_dispatch ==
  /\ prog = "prompt" /\ adm.st = "CLAIMED"
  /\ adm' = [adm EXCEPT !.st = "RUNNING", !.terminal = 0]
  /\ \/ prog' = "job" /\ job' = NewJob /\ lnk' = Closed
     \/ prog' = "ending" /\ job' = [NewJob EXCEPT !.failed = TRUE] /\ UNCHANGED lnk
  /\ UNCHANGED <<key, env, peer, wire>>

JobAt(pc) == prog = "job" /\ job.pc = pc
Going(pc) == job' = [job EXCEPT !.pc = pc]
Failing(pc) == job' = [job EXCEPT !.pc = pc, !.failed = TRUE]

\* Operation 5 hands out the identity of the grant.
Bind ==
  /\ JobAt("bind")
  /\ IF Allowed(5) /\ ~lnk.active /\ adm.st = "RUNNING" /\ adm.terminal = 0
     THEN /\ lnk' = [Closed EXCEPT !.active = TRUE, !.owner = 2]
          /\ job' = [job EXCEPT !.pc = "JOB", !.id = Id(adm), !.seq = adm.seq]
     ELSE Failing("exit") /\ UNCHANGED lnk
  /\ UNCHANGED <<adm, prog, key, env, peer, wire>>

\* Where the program goes when a control exchange fails.
Instead(op) == IF op = "FINISH" THEN "terminal" ELSE "FINISH"

\* control: the record is sent, if there are numbers left and the link is up.
ControlSends(op) ==
  IF job.seq < SeqTop - 1 /\ Allowed(2) /\ lnk.active
  THEN \/ job' = [job EXCEPT !.pc = "await", !.op = op, !.seq = @ + 1] /\ PeerSent(op, job.seq + 1, job.id)
       \/ Failing(Instead(op)) /\ UNCHANGED <<peer, wire>>
  ELSE Failing(Instead(op)) /\ UNCHANGED <<peer, wire>>

\* sdjob_run: its exchanges in order, and STATUS from service_progress.
Control ==
  /\ \/ \E op \in {"JOB", "READY"} : JobAt(op) /\ ControlSends(op)
     \/ JobAt("loop") /\ ~job.pending /\ ~job.ending /\ ControlSends("STATUS")
     \/ JobAt("FINISH") /\ ControlSends("FINISH")
  /\ UNCHANGED <<adm, lnk, prog, key, env>>

Answered(m) == m.kind = 5 /\ m.op = job.op /\ m.seq = job.seq /\ m.id = job.id

\* What the program does with the answer.
Continued(m) ==
  IF m.res # 0 THEN [job EXCEPT !.pc = Instead(job.op), !.failed = TRUE]
  ELSE CASE job.op = "JOB" -> [job EXCEPT !.pc = "READY"]
         [] job.op = "READY" -> [job EXCEPT !.pc = "loop", !.live = TRUE]
         [] job.op = "STATUS" -> [job EXCEPT !.pc = "loop", !.ending = "end" \in m.more]
         [] job.op = "FINISH" -> [job EXCEPT !.pc = "terminal"]

\* A request that comes first is kept for later, one.
Await ==
  /\ JobAt("await")
  /\ IF ~(Allowed(1) /\ lnk.active) THEN Failing(Instead(job.op)) /\ UNCHANGED lnk
     ELSE /\ lnk.box # << >>
          /\ lnk' = [lnk EXCEPT !.box = Tail(@)]
          /\ LET m == Head(lnk.box)
             IN IF Answered(m) THEN job' = Continued(m)
                ELSE IF m.kind = 3 /\ job.live /\ ~job.pending THEN job' = [job EXCEPT !.pending = TRUE]
                ELSE Failing(Instead(job.op))
  /\ UNCHANGED <<adm, prog, key, env, peer, wire>>

\* 24 ticks, or a million looks, without an answer.
NoAnswer == JobAt("await") /\ lnk.box = << >> /\ Failing(Instead(job.op)) /\ UNCHANGED <<adm, lnk, prog, key, env, peer, wire>>

\* A request is served and answered; the peer may go on to the next.  A
\* stage opened by BEGIN is closed by ACTIVATE or CANCEL.
Served ==
  /\ JobAt("loop") /\ ~job.failed /\ ~job.ending
  /\ \/ job.pending /\ UNCHANGED lnk
     \/ /\ ~job.pending /\ Allowed(1) /\ lnk.active /\ lnk.box # << >> /\ Head(lnk.box).kind = 3
        /\ lnk' = [lnk EXCEPT !.box = Tail(@)]
  /\ \E stage \in BOOLEAN : job' = [job EXCEPT !.pending = FALSE, !.stage = stage]
  /\ \/ UNCHANGED <<peer, wire>>
     \/ /\ peer.req /\ Len(wire) < MaxWire
        /\ \E more \in BOOLEAN :
             /\ peer' = [peer EXCEPT !.req = more]
             /\ wire' = IF more THEN Append(wire, Request) ELSE wire
  /\ UNCHANGED <<adm, prog, key, env>>

\* Escape, the time limit, a link that is gone or a packet that is no request.
JobFails ==
  /\ JobAt("loop") /\ Failing("FINISH")
  /\ UNCHANGED <<adm, lnk, prog, key, env, peer, wire>>

LoopEnds ==
  /\ JobAt("loop") /\ job.ending
  /\ job' = [job EXCEPT !.pc = "FINISH", !.failed = @ \/ job.stage]
  /\ UNCHANGED <<adm, lnk, prog, key, env, peer, wire>>

\* Operation 6 tells the resident part how it went, 3 closes the link.
Terminal ==
  /\ JobAt("terminal")
  /\ IF Allowed(6) /\ lnk.owner = 2 /\ adm.st = "RUNNING" /\ adm.terminal = 0 /\ job.seq >= adm.seq /\ job.seq < SeqTop
     THEN /\ adm' = [adm EXCEPT !.seq = job.seq, !.terminal = IF job.failed THEN 2 ELSE 1]
          /\ Going("close")
     ELSE Failing("close") /\ UNCHANGED adm
  /\ UNCHANGED <<lnk, prog, key, env, peer, wire>>
Close ==
  /\ JobAt("close")
  /\ IF Allowed(3) THEN lnk' = Closed /\ Going("exit") ELSE Failing("exit") /\ UNCHANGED lnk
  /\ UNCHANGED <<adm, prog, key, env, peer, wire>>
Exit ==
  /\ JobAt("exit") /\ prog' = "ending" /\ lnk' = Closed
  /\ UNCHANGED <<adm, job, key, env, peer, wire>>

\* dispatch, after the run: only a job whose end was reported is a success.
Result == IF job.failed \/ adm.terminal # 1 THEN "error" ELSE "OK"
\* After a success in ExCom the incarnation is kept, else it is given up.
Retired(a, ok) == IF ok /\ env.mode = "ExCom" THEN Left(a) ELSE emos_admission_reset(a)
EndDispatch ==
  /\ prog = "ending" /\ prog' = "prompt" /\ key' = FALSE
  /\ send_control(adm, "CLOSE", Retired(Sent(adm, "CLOSE"), Result = "OK"), {Retired(a, FALSE) : a \in Refused(adm)})
  /\ UNCHANGED <<lnk, job, env>>

-----------------------------------------------------------------------------
(* The specification.                                                      *)

AdmInit ==
  /\ adm = [st |-> "OFF", caps |-> {}, link |-> 0, gen |-> 1, job |-> 0, grant |-> <<0, 0>>, grants |-> 0, seq |-> 0,
            op |-> "", waiting |-> FALSE, rx |-> None, judged |-> None, exhausted |-> FALSE, terminal |-> 0,
            seen |-> "Legacy"]
  /\ lnk = [active |-> FALSE, owner |-> 0, box |-> << >>, dropped |-> FALSE]
  /\ job = [NewJob EXCEPT !.pc = "exit"]
  /\ prog = "prompt" /\ key = FALSE /\ env = [mode |-> "Legacy", healthy |-> TRUE]
  /\ peer = [link |-> 1, offer |-> 0, jobs |-> 0, acked |-> {}, done |-> {}, req |-> FALSE]
  /\ wire = << >>

Foreground ==
  \/ Unable \/ ModeSeen \/ Reply \/ JudgeHello \/ JudgePoll \/ JudgeDecide \/ NoReply \/ NextPoll
  \/ TakesKey \/ LineDone \/ emos_application_leave
  \/ emos_admission_dispatch \/ Bind \/ Control \/ Await \/ NoAnswer \/ JobFails \/ LoopEnds
  \/ Terminal \/ Close \/ Exit \/ EndDispatch

AdmNext ==
  \/ Foreground \/ Served \/ emos_application_enter \/ AppCalls
  \/ emos_sdlink_packet \/ KeyComes \/ Fault
  \/ PeerRestarts \/ Lost

\* The processor goes on, and the job's time limit and Escape end its loop.
AdmSpec == AdmInit /\ [][AdmNext]_admVars /\ WF_admVars(Foreground) /\ WF_admVars(JobFails)

-----------------------------------------------------------------------------
(* Properties.                                                             *)

\* A job is claimed or run only under the identity, of this incarnation and
\* generation, that the peer has acknowledged in a DECIDE; delayed replies to
\* what was withdrawn never claim one ("DECIDE is only a reservation",
\* emos_admission.c:77).  Its success is reported only if the peer has
\* acknowledged that it finished.
ClaimsAreGranted ==
  /\ adm.st \in {"CLAIMED", "RUNNING"} => Id(adm) \in peer.acked
  /\ prog = "ending" /\ Result = "OK" => adm.job \in peer.done /\ ~job.stage

\* The link of a program ends with it: at the command line nobody owns the
\* link, and a claimed job's link is never an application's (emos_sdlink_reset
\* in emos_application_enter and _leave).
LinkEndsWithItsProgram ==
  /\ prog \in {"prompt", "line", "ending"} => ~lnk.active
  /\ lnk.owner = 2 => prog = "job" /\ adm.st = "RUNNING"
  /\ lnk.owner = 1 => prog = "app"

\* While a finite job is sound no packet of the peer finds the mailbox full
\* ("a single mailbox silently loses that legitimate pair", emos_sdlink.c:16).
NothingIsDropped == prog = "job" /\ ~job.failed => ~lnk.dropped

\* What a program is granted is what the peer acknowledged, links end with
\* their program, and a finite job misses no packet.
GrantsAndLinks == ClaimsAreGranted /\ LinkEndsWithItsProgram /\ NothingIsDropped

\* A key that has come wins over a job that is about to be claimed
\* ("Key arriving during CRC/reply handling must win", emos_admission.c:159).
KeyWins == [][adm'.st = "CLAIMED" => adm.st = "CLAIMED" \/ ~key]_admVars

\* However the peer behaves, the command line comes back after a job.
PromptComesBack == prog \in {"job", "ending"} ~> prog = "prompt"
=============================================================================

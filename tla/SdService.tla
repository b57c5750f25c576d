------------------------------ MODULE SdService ------------------------------
(***************************************************************************)
(* The file engine of the SD service (projects/sdserve/src/service.c): an  *)
(* upload is staged beside its target, and its journal lets a client clean *)
(* up after an interruption.  A request is a list of FatFs calls; each may *)
(* fail, and the power may go before, in or after one.                     *)
(*                                                                         *)
(* A name on the card leads to a chain of clusters.  FatFs enters the new  *)
(* name of a rename before it removes the old one: if the two entries are  *)
(* not in one sector, a power cut or a failed transfer between them leaves *)
(* both on one chain.  A recovery that then unlinks one of the names frees *)
(* the clusters of the other (dangling).                                   *)
(***************************************************************************)
EXTENDS Integers, Sequences

CONSTANTS
  Size,         \* blocks of an upload
  MaxUploads,   \* bound: uploads begun
  MaxFaults     \* bound: failed calls, bad blocks and power cuts

ASSUME SdServiceAssumption ==
  Size \in Nat \ {0} /\ MaxUploads \in Nat /\ MaxFaults \in Nat

VARIABLES
  entry,   \* [Names -> Chains \cup {0}]: target, part, meta and backup
  chain,   \* [Chains -> contents]
  svc,     \* active, finished, offset, fast_mode and whether it runs
  work,    \* the request being served: the FatFs calls left and what follows
  cached,  \* the reply to the last request, kept for a repeated one
  told,    \* the last upload whose activation the client was told of
  faults,
  dangling \* history: the clusters of a file were freed through its other name

sdVars == <<entry, chain, svc, work, cached, told, faults, dangling>>

Names == {"target", "part", "meta", "backup"}
Chains == 1 .. 5

\* of: the upload the contents belong to, 0 for the file there was at first;
\* n: blocks written; kept: the length in the directory.
Contents(of, n) == [of |-> of, n |-> n, kept |-> n, bad |-> FALSE, freed |-> FALSE, fast |-> FALSE]
Unused == CHOOSE c \in Chains : \A a \in Names : entry[a] # c
There(a) == entry[a] # 0
At(a) == chain[entry[a]]

-----------------------------------------------------------------------------
(* The FatFs calls.                                                        *)

\* A call on a; to: the new name; of: the upload it makes or expects.
Call(do, a) == [do |-> do, a |-> a, to |-> "", of |-> 0]
Rename(a, b) == [do |-> "rename", a |-> a, to |-> b, of |-> 0]
CallOf(do, a, up) == [do |-> do, a |-> a, to |-> "", of |-> up]

\* A freed chain may still hold the data, or not.
Matches(c, of) == c.n = Size /\ c.of = of /\ ~c.bad

CanSucceed(call) ==
  /\ call.do = "create" => ~There(call.a)
  /\ call.do \in {"rename", "digest", "size", "read", "write", "sync"} => There(call.a)
  /\ call.do = "rename" => ~There(call.to)
  /\ call.do = "digest" => Matches(At(call.a), call.of)
  /\ call.do = "size" => At(call.a).kept = Size

\* What the card holds after a call.
Entered(call) ==
  IF call.do = "create" THEN [entry EXCEPT ![call.a] = Unused]
  ELSE IF call.do = "rename" THEN [entry EXCEPT ![call.a] = 0, ![call.to] = entry[call.a]]
  ELSE IF call.do = "unlink" THEN [entry EXCEPT ![call.a] = 0] ELSE entry
Stored(call, bad) ==
  IF call.do = "create" THEN [chain EXCEPT ![Unused] = [Contents(call.of, 0) EXCEPT !.fast = svc.fast]]
  ELSE IF call.do = "write"
  THEN [chain EXCEPT ![entry[call.a]].n = @ + 1, ![entry[call.a]].bad = @ \/ bad]
  ELSE IF call.do = "sync" THEN [chain EXCEPT ![entry[call.a]].kept = chain[entry[call.a]].n]
  ELSE IF call.do = "unlink" /\ There(call.a) THEN [chain EXCEPT ![entry[call.a]].freed = TRUE] ELSE chain
\* The new name is there and the old one too.
Aliased(call) == [entry EXCEPT ![call.to] = entry[call.a]]
\* After a step on the card: a name is left that leads to freed clusters.
Dangles == dangling' = (dangling \/ \E a \in Names : There(a)' /\ At(a)'.freed)

-----------------------------------------------------------------------------
(* The requests.                                                           *)

Idle == svc.on /\ work = << >>
Valid == There("meta") => At("meta").kept = 1 /\ At("meta").fast = svc.fast

\* Serves a request by its calls: then, svc is ok, or bad if a call fails.
Serve(op, calls, ok, bad) ==
  /\ work' = [op |-> op, calls |-> calls, ok |-> ok, bad |-> bad]
  /\ UNCHANGED <<entry, chain, svc, cached, told, faults, dangling>>
Refuse(op, res) ==
  /\ cached' = [op |-> op, res |-> res, up |-> svc.up]
  /\ UNCHANGED <<entry, chain, svc, work, told, faults, dangling>>

Quiet == [svc EXCEPT !.active = FALSE, !.finished = FALSE]
\* A seeded fault: nothing is read again.
NoDigest(name, of) == << >>
Digest(name, of) == IF svc.fast THEN << >> ELSE <<CallOf("digest", name, of)>>

Begin == Idle /\ ~svc.active /\
  IF There("part") \/ There("meta") \/ There("backup") THEN Refuse("BEGIN", "RECOVERY_REQUIRED")
  ELSE /\ svc.up < MaxUploads
       /\ LET up == svc.up + 1
          IN Serve("BEGIN",
                   <<CallOf("create", "meta", up), Call("write", "meta"), Call("sync", "meta"),
                     CallOf("create", "part", up)>>,
                   [svc EXCEPT !.active = TRUE, !.finished = FALSE, !.offset = 0, !.up = up],
                   [svc EXCEPT !.up = up])

Write ==
  /\ Idle /\ svc.active /\ ~svc.finished /\ svc.offset < Size
  /\ Serve("WRITE", <<Call("write", "part")>>, [svc EXCEPT !.offset = @ + 1], Quiet)

Finish == Idle /\ svc.active /\ ~svc.finished /\
  IF svc.offset < Size THEN Refuse("FINISH", "INTEGRITY")
  ELSE Serve("FINISH", <<Call("sync", "part")>> \o Digest("part", svc.up),
             [svc EXCEPT !.finished = TRUE], Quiet)

\* A seeded fault: the old file goes before the new one has its name.
Removed == <<Call("unlink", "target")>>
SetAside == IF There("target") THEN <<Rename("target", "backup")>> ELSE << >>

Activate == Idle /\ svc.active /\ svc.finished /\
  IF ~There("part") \/ ~There("meta") \/ There("backup") \/ ~Valid
  THEN /\ svc' = Quiet
       /\ cached' = [op |-> "ACTIVATE", res |-> "RECOVERY_REQUIRED", up |-> svc.up]
       /\ UNCHANGED <<entry, chain, work, told, faults, dangling>>
  ELSE Serve("ACTIVATE",
             SetAside \o <<Rename("part", "target")>> \o Digest("target", svc.up)
               \o <<Call("unlink", "meta")>>,
             Quiet, Quiet)

Cancel ==
  /\ Idle /\ svc.active
  /\ Serve("CANCEL",
           (IF svc.finished THEN << >> ELSE <<Call("sync", "part")>>)
             \o <<Call("unlink", "part"), Call("unlink", "meta")>>,
           Quiet, Quiet)

\* 1: put the backup back.
Restore == Idle /\ ~svc.active /\
  IF ~Valid \/ There("target") \/ ~There("backup") THEN Refuse("RECOVER", "RECOVERY_REQUIRED")
  ELSE Serve("RECOVER", <<Rename("backup", "target")>>, svc, svc)

\* 2: give the staged upload up; if it seems to be in place, check that.
InPlace == There("target") /\ There("meta") /\ ~There("part")
Discard == Idle /\ ~svc.active /\
  IF ~Valid \/ (~There("target") /\ (There("backup") \/ ~There("meta")))
  THEN Refuse("RECOVER", "RECOVERY_REQUIRED")
  ELSE Serve("RECOVER",
             (IF ~InPlace THEN << >>
              ELSE IF svc.fast THEN <<Call("size", "target")>>
              ELSE <<CallOf("digest", "target", At("meta").of)>>)
               \o <<Call("unlink", "part"), Call("unlink", "meta")>>,
             svc, svc)

\* 3: the backup is no longer needed.
DropBackup == Idle /\ ~svc.active /\
  IF ~Valid \/ ~There("target") \/ There("part") \/ There("meta") THEN Refuse("RECOVER", "RECOVERY_REQUIRED")
  ELSE Serve("RECOVER", <<Call("read", "target"), Call("unlink", "backup")>>, svc, svc)

-----------------------------------------------------------------------------
(* Serving a request, call after call.                                     *)

\* The reply may be lost; the client then repeats the request.
Heard(reply) ==
  told' \in {told, IF reply.op = "ACTIVATE" /\ reply.res = "OK" THEN reply.up ELSE told}

Succeeds == work # << >> /\ work.calls # << >> /\
  LET call == work.calls[1]
  IN /\ CanSucceed(call)
     /\ \E bad \in (IF call.do = "write" /\ call.a = "part" /\ faults < MaxFaults THEN BOOLEAN ELSE {FALSE}) :
          /\ entry' = Entered(call) /\ chain' = Stored(call, bad)
          /\ faults' = IF bad THEN faults + 1 ELSE faults
     /\ Dangles
     /\ work' = [work EXCEPT !.calls = Tail(@)]
     /\ UNCHANGED <<svc, cached, told>>

\* A call that cannot succeed, or one the disk fails, done or not.
Fails == work # << >> /\ work.calls # << >> /\
  LET call  == work.calls[1]
      ended == [op |-> work.op, res |-> "ERROR", up |-> work.bad.up]
  IN /\ \/ /\ ~CanSucceed(call) \/ (There(call.a) /\ At(call.a).freed)
           /\ UNCHANGED <<entry, chain, faults>>
        \/ /\ faults < MaxFaults /\ faults' = faults + 1
           /\ \/ UNCHANGED <<entry, chain>>
              \/ CanSucceed(call) /\ entry' = Entered(call) /\ chain' = Stored(call, FALSE)
              \/ CanSucceed(call) /\ call.do = "rename" /\ entry' = Aliased(call) /\ UNCHANGED chain
     /\ Dangles
     /\ work' = << >> /\ svc' = work.bad /\ cached' = ended
     /\ UNCHANGED told

Replies == work # << >> /\ work.calls = << >> /\
  /\ work' = << >> /\ svc' = work.ok
  /\ cached' = [op |-> work.op, res |-> "OK", up |-> work.ok.up]
  /\ Heard(cached')
  /\ UNCHANGED <<entry, chain, faults, dangling>>

\* The same record again: the reply is repeated, nothing else.
Repeated == Idle /\ Heard(cached) /\ UNCHANGED <<entry, chain, svc, work, cached, faults, dangling>>

Off == [Quiet EXCEPT !.on = FALSE]

\* Escape, or the job ends: the stage is closed, the journal kept.
service_stop ==
  /\ Idle
  /\ svc' = Off
  /\ chain' = IF svc.active /\ ~svc.finished THEN Stored(Call("sync", "part"), FALSE) ELSE chain
  /\ UNCHANGED <<entry, work, cached, told, faults, dangling>>

service_init ==
  /\ ~svc.on
  /\ \E fast \in BOOLEAN : svc' = [svc EXCEPT !.on = TRUE, !.fast = fast]
  /\ cached' = [op |-> "HELLO", res |-> "OK", up |-> svc.up]
  /\ UNCHANGED <<entry, chain, work, told, faults, dangling>>

\* What was not synced has no length, or no entry; a rename may be half done.
PowerCut ==
  /\ svc.on /\ faults < MaxFaults /\ faults' = faults + 1
  /\ LET call  == IF work = << >> \/ work.calls = << >> THEN Call("", "target") ELSE work.calls[1]
         doing == IF CanSucceed(call) THEN call ELSE Call("", "target")
     IN /\ \E e \in {entry, Entered(doing)}
               \cup (IF doing.do = "rename" THEN {Aliased(doing)} ELSE {}) :
             \E c \in {chain, Stored(doing, FALSE)} :
               \E gone \in SUBSET {a \in Names : e[a] # 0 /\ c[e[a]].kept = 0} :
                 /\ (c # chain => e = Entered(doing)) /\ (doing.do = "unlink" /\ c # chain => e # entry)
                 /\ entry' = [a \in Names |-> IF a \in gone THEN 0 ELSE e[a]]
                 /\ chain' = [x \in Chains |-> [c[x] EXCEPT !.n = c[x].kept]]
        /\ svc' = [Off EXCEPT !.up = IF work = << >> THEN @ ELSE work.bad.up]
  /\ Dangles
  /\ work' = << >>
  /\ UNCHANGED <<cached, told>>

SdInit ==
  /\ entry = [a \in Names |-> IF a = "target" THEN 1 ELSE 0]
  /\ chain = [c \in Chains |-> Contents(0, IF c = 1 THEN Size ELSE 0)]
  /\ svc = [on |-> FALSE, active |-> FALSE, finished |-> FALSE, offset |-> 0, up |-> 0, fast |-> FALSE]
  /\ work = << >> /\ told = 0 /\ faults = 0 /\ dangling = FALSE
  /\ cached = [op |-> "HELLO", res |-> "OK", up |-> 0]

SdNext ==
  \/ Begin \/ Write \/ Finish \/ Activate \/ Cancel \/ Restore \/ Discard \/ DropBackup
  \/ Succeeds \/ Fails \/ Replies \/ Repeated
  \/ service_stop \/ service_init \/ PowerCut

SdSpec == SdInit /\ [][SdNext]_sdVars

-----------------------------------------------------------------------------
(* Properties.                                                             *)

\* A complete file; only the checked mode promises that it is the right one.
Intact(a) == There(a) /\ ~At(a).freed /\ At(a).kept = Size /\ At(a).of >= told

\* However requests, failures and power cuts fall, inside a rename too, the target
\* or its backup is a complete file, not older than the last one the client was told
\* is in place (SD_ACTIVATE, SD_RECOVER): "recoverable, NOT power-atomic", service.c:7.
\* Only a recovery that frees the clusters of a file with two names can lose it.
OldOrNewSurvives == dangling \/ Intact("target") \/ Intact("backup")

\* In the checked mode the client is told of an activation only if the target
\* is complete and holds what was sent (SD_FINISH and SD_ACTIVATE reread it).
ToldIsTrue ==
  [][told' # told /\ ~svc.fast /\ ~dangling =>
       There("target") /\ ~At("target").freed /\ Matches(At("target"), told')]_sdVars
=============================================================================

------------------------------ MODULE MCSdLink ------------------------------
(***************************************************************************)
(* The three parts of the SD link for TLC: the service with its journal,   *)
(* the admission of jobs with the link they run over, and the transfer of  *)
(* a file by an application.  They meet only in the answers each of them   *)
(* may get, so a behaviour is one of a single part; component says which.  *)
(***************************************************************************)
EXTENDS SdService, SdAdmission, FileTransfer

VARIABLE component   \* "service", "admission" or "transfer"

\* Any few blocks, with two files of a length and one that starts another.
MCFiles == {<< >>, <<"x">>, <<"x", "y">>, <<"y", "x">>}

MCInit ==
  /\ component \in {"service", "admission", "transfer"}
  /\ SdInit /\ AdmInit /\ TransferInit
  /\ component # "transfer" => source = << >> /\ dest = Absent

MCNext ==
  /\ UNCHANGED component
  /\ \/ component = "service" /\ SdNext /\ UNCHANGED admVars /\ UNCHANGED transferVars
     \/ component = "admission" /\ AdmNext /\ UNCHANGED sdVars /\ UNCHANGED transferVars
     \/ component = "transfer" /\ TransferNext /\ UNCHANGED sdVars /\ UNCHANGED admVars

MCSpec == MCInit /\ [][MCNext]_<<component, sdVars, admVars, transferVars>>
=============================================================================

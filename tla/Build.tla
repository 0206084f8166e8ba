------------------------------- MODULE Build -------------------------------
(***************************************************************************)
(* What a user may expect of a compiler that is run again and again while  *)
(* the source is edited: an executable is that of the source of some run,  *)
(* and a run reports success only if the executable is that of the source  *)
(* this run has read.                                                      *)
(***************************************************************************)
EXTENDS Naturals

VARIABLES
  source,      \* its version, 0 when there is none
  taken,       \* the version the present run, or the last one, works on
  executable,  \* the version it was made from, 0 when there is none
  result       \* "none", "running", "failure" or "success"

buildVars == <<source, taken, executable, result>>

Init ==
  /\ source = 0
  /\ taken = 0
  /\ executable = 0
  /\ result = "none"

\* The user writes or removes the source, whenever it pleases him.
Write ==
  /\ source' \in Nat
  /\ UNCHANGED <<taken, executable, result>>

Refuse ==
  /\ result # "running"
  /\ result' = "failure"
  /\ UNCHANGED <<source, taken, executable>>

Take ==
  /\ result # "running"
  /\ source # 0
  /\ taken' = source
  /\ result' = "running"
  /\ UNCHANGED <<source, executable>>

Produce ==
  /\ result = "running"
  /\ executable' \in {taken, 0}
  /\ UNCHANGED <<source, taken, result>>

Finish ==
  /\ result = "running"
  /\ \/ result' = "failure" /\ executable' \in {executable, 0}
     \/ result' = "success" /\ executable = taken /\ UNCHANGED executable
  /\ UNCHANGED <<source, taken>>

Next == Write \/ Refuse \/ Take \/ Produce \/ Finish

Spec == Init /\ [][Next]_buildVars
=============================================================================

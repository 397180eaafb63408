------------------------------ MODULE Service ------------------------------
(***************************************************************************)
(* The courier process: Startup brings it up, on whatever file it finds;   *)
(* while it serves, threads answer for the recovery backups and the event  *)
(* loop for the direct pushes; it may die at any moment, and is started    *)
(* again (Restart=always in deploy/courier.service).                       *)
(***************************************************************************)
EXTENDS Recovery, DirectPush

vars == <<startupVars, recoveryVars, pushVars>>

ServiceTypeOK == StartupTypeOK /\ RecoveryTypeOK /\ PushTypeOK

ServiceInit == StartupInit /\ RecoveryInit /\ PushInit

Starts == Boot /\ UNCHANGED <<recoveryVars, pushVars>>

Dies == Crash /\ PushCrash /\ UNCHANGED recoveryVars

Recovers == RecoveryNext /\ UNCHANGED pushVars

Sends == PushNext /\ UNCHANGED recoveryVars

Tick ==
  /\ clock < MaxTime /\ InTime
  /\ clock' = clock + 1
  /\ UNCHANGED <<stage, database, request, edits, recoveryVars, pushVars>>

ServiceNext == Starts \/ Dies \/ Recovers \/ Sends \/ Tick

ServiceSpec == ServiceInit /\ [][ServiceNext]_vars /\ WF_vars(Starts)

-----------------------------------------------------------------------------
\* Every part keeps its types; the file keeps its challenges, and is current when
\* courier serves.
ServiceInv == ServiceTypeOK /\ ConservesChallenges /\ ServesCurrentSchema
=============================================================================

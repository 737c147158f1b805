----------------------------- MODULE Operations -----------------------------
(***************************************************************************)
(* The two services beside the core, which share nothing with each other:  *)
(* the chaos service and the honeypot with the audit log that it feeds.    *)
(***************************************************************************)
EXTENDS Chaos, IntrusionLog

operationsVars == <<chaosVars, logVars>>

\* The values both services can hold (ActiveScenario, IntrusionEvent).
OperationsTypeOK == ChaosTypeOK /\ LogTypeOK

OperationsInit == ChaosInit /\ LogInit

OperationsNext == (ChaosStep /\ UNCHANGED logVars) \/ (LogStep /\ UNCHANGED chaosVars)

OperationsSpec == OperationsInit /\ [][OperationsNext]_operationsVars

\* tokio runs every task that is ready: a woken expiry task and a call that waits for
\* the table's lock.
FairOperationsSpec ==
  /\ OperationsSpec
  /\ \A k \in 1..MaxScenarios :
       WF_operationsVars(k \in DOMAIN task /\ Expire(k) /\ UNCHANGED logVars)

-----------------------------------------------------------------------------
\* No scenario stays active for ever, unless its task woke up before it was inserted
\* (inject_scenario spawns the task first): once no more are injected, none but those
\* are left.
ScenariosEnd == <>[](ListScenarios \subseteq early)
=============================================================================

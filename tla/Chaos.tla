------------------------------- MODULE Chaos -------------------------------
(***************************************************************************)
(* The chaos service (chaos/src/chaos_service.rs): scenarios are injected, *)
(* stay active for their duration, expire by a task of their own or are    *)
(* stopped.  The task is spawned before the scenario is in the table, and  *)
(* both take the table's write lock for one step.                          *)
(*                                                                         *)
(* A scenario is its type; the parameters other than the duration decide   *)
(* nothing.                                                                *)
(***************************************************************************)
EXTENDS Integers, FiniteSets

CONSTANTS
  Injectors,    \* concurrent calls of inject_scenario
  Types,        \* the scenario types that callers ask for
  KnownTypes,   \* those that parse_scenario knows
  Tokens,       \* what callers send as x-chaos-token
  ExpectedToken,\* CHAOS_AUTH_TOKEN, or NoAuth
  NoAuth,       \* CHAOS_AUTH_TOKEN is not set
  MaxScenarios  \* bound on the scenarios

ASSUME ChaosAssumption == KnownTypes \subseteq Types /\ MaxScenarios \in Nat

VARIABLES
  next_id,   \* the counter of the ids
  active,    \* active_scenarios: the ids in the table, each with its expiry task
  task,      \* task[k]: the task spawned k-th, its id and what became of it
  inject,    \* inject[i]: the call i between the spawn and the insertion, or NotBusy
  early,     \* history: the ids whose task expired before they were in the table
  dropped    \* history: the ids whose call was cancelled before they were in the table

chaosVars == <<next_id, active, task, inject, early, dropped>>

NotBusy == [id |-> <<"none", 0>>, task |-> 0]

\* Scenarios of the known types only, each numbered once.
Ids == KnownTypes \X (0..MaxScenarios)

\* Every entry and every call in progress has a task, and ids are of known types
\* (inject_scenario, parse_scenario).
ChaosTypeOK ==
  /\ next_id \in 0..MaxScenarios
  /\ \A e \in active : e.id \in Ids /\ e.task \in DOMAIN task
  /\ \A k \in DOMAIN task :
       /\ task[k].id \in Ids
       /\ task[k].state \in {"asleep", "expired", "aborted"}
       /\ task[k].short \in BOOLEAN
  /\ \A i \in Injectors : inject[i] = NotBusy \/ inject[i].task \in DOMAIN task

ChaosInit ==
  /\ next_id = 0
  /\ active = {}
  /\ task = [k \in {} |-> NotBusy]
  /\ inject = [i \in Injectors |-> NotBusy]
  /\ early = {}
  /\ dropped = {}

\* authorize: open without a configured token, else the token must match.
Authorize(provided) == ExpectedToken = NoAuth \/ provided = ExpectedToken

\* Variant: an unknown type becomes some scenario.
ParseScenarioLeniently(type) == type \in Types

\* parse_scenario succeeds.
ParseScenario(type) == type \in KnownTypes

\* Variant: calls that run at the same time get one id, as a timestamp would give them.
ScenarioIdByTime(type) ==
  <<type, IF \E i \in Injectors : inject[i] # NotBusy THEN next_id - 1 ELSE next_id>>

\* The id of the next scenario of a type.
ScenarioId(type) == <<type, next_id>>

\* inject_scenario up to the spawn of the expiry task; a call that is not authorized
\* or asks for an unknown type changes nothing.
Inject(i, type, provided, short) ==
  /\ inject[i] = NotBusy
  /\ next_id < MaxScenarios
  /\ Authorize(provided)
  /\ ParseScenario(type)
  /\ LET id == ScenarioId(type)
         k  == Cardinality(DOMAIN task) + 1
     IN  /\ task' = [x \in DOMAIN task \cup {k} |->
                       IF x = k THEN [id |-> id, state |-> "asleep", short |-> short]
                       ELSE task[x]]
         /\ inject' = [inject EXCEPT ![i] = [id |-> id, task |-> k]]
  /\ next_id' = next_id + 1
  /\ UNCHANGED <<active, early, dropped>>

Without(id) == {e \in active : e.id # id}

\* The scenario is put into the table.
Insert(i) ==
  /\ inject[i] # NotBusy
  /\ active' = Without(inject[i].id) \cup {inject[i]}
  /\ inject' = [inject EXCEPT ![i] = NotBusy]
  /\ UNCHANGED <<next_id, task, early, dropped>>

\* The caller hangs up while the handler waits for the table's lock: the handler is
\* dropped, the task that it spawned is not.
Hangup(i) ==
  /\ inject[i] # NotBusy
  /\ inject' = [inject EXCEPT ![i] = NotBusy]
  /\ dropped' = dropped \cup {inject[i].id}
  /\ UNCHANGED <<next_id, active, task, early>>

Inserting(k) == \E i \in Injectors : inject[i].task = k

\* A task wakes up and removes its id.  Only a task with a short duration can do so
\* while its scenario is still to be inserted.
Expire(k) ==
  /\ task[k].state = "asleep"
  /\ task[k].short \/ ~ Inserting(k)
  /\ task' = [task EXCEPT ![k].state = "expired"]
  /\ active' = Without(task[k].id)
  /\ early' = IF Inserting(k) THEN early \cup {task[k].id} ELSE early
  /\ UNCHANGED <<next_id, inject, dropped>>

\* Variant: stopping a scenario leaves its entry in the table to the task.
StopKeepingEntry(id, provided) ==
  /\ Authorize(provided)
  /\ \E e \in active :
       /\ e.id = id
       /\ task[e.task].state = "asleep"
       /\ task' = [task EXCEPT ![e.task].state = "aborted"]
  /\ UNCHANGED <<next_id, active, inject, early, dropped>>

\* stop_scenario: an id that is not in the table is not found.
StopScenario(id, provided) ==
  /\ Authorize(provided)
  /\ \E e \in active :
       /\ e.id = id
       /\ active' = active \ {e}
       /\ task' = [task EXCEPT ![e.task].state = IF @ = "asleep" THEN "aborted" ELSE @]
  /\ UNCHANGED <<next_id, inject, early, dropped>>

\* list_scenarios.
ListScenarios == {e.id : e \in active}

ChaosStep ==
  \/ \E i \in Injectors, type \in Types, provided \in Tokens, short \in BOOLEAN :
       Inject(i, type, provided, short)
  \/ \E i \in Injectors : Insert(i) \/ Hangup(i)
  \/ \E k \in DOMAIN task : Expire(k)
  \/ \E id \in ListScenarios, provided \in Tokens : StopScenario(id, provided)

-----------------------------------------------------------------------------
\* Scenarios and expiry tasks belong together.  Every scenario in the table has its own
\* task, still to wake up, so it ends by itself or when it is stopped; only one whose
\* task woke up before the insertion stays for good.  And no task outlives its
\* scenario's entry, except one that never got an entry for its caller hung up: what a
\* task removes is the scenario that it was spawned for, or nothing (inject_scenario,
\* stop_scenario).
ScenariosOwnTheirTasks ==
  /\ \A e \in active :
       task[e.task].id = e.id /\ (task[e.task].state = "asleep" \/ e.id \in early)
  /\ \A k \in DOMAIN task : task[k].state = "asleep" =>
       \/ Inserting(k) \/ task[k].id \in dropped
       \/ \E e \in active : e.task = k
=============================================================================

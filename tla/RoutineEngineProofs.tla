------------------------- MODULE RoutineEngineProofs -------------------------
(* Type correctness of the routine engine, exactness of its counter and the   *)
(* separation of crash recovery from the runs of the current process, for any *)
(* routines, any limits and any number of runs, retries and crashes.          *)
EXTENDS RoutineEngine, FiniteSetTheorems, TLAPS

\* The type invariant in two parts, because the counter's type depends on its value.
RowsOK ==
  /\ kind \in [Routines -> Kinds]
  /\ row \in [Routines -> [due : BOOLEAN, cooling : BOOLEAN]]
  /\ cache \in [Routines -> BOOLEAN]
  /\ record \in [Ids -> [routine : Routines, status : Running \cup {"done"}]]
  /\ job \in [Ids -> {"none", "active", "ended", "lost"}]
  /\ waiting \in [Routines -> 0..MaxWaiting]
  /\ ticker \subseteq [routine : Routines, cooling : BOOLEAN]
  /\ matched \subseteq Routines
  /\ caller \in [Callers -> [pc : {"idle", "read", "checked"}, routine : Routines]]
  /\ leaked \in 0..MaxLeaks
  /\ crashes \in 0..MaxCrashes

Stages == {"none", "spawned", "recorded", "finishing", "completed"} \cup Counted

TasksOK == task \in [Ids -> [pc : Stages, again : BOOLEAN]]

\* A run that a crash orphaned has no task: its identifier is not free, and the task
\* that had it died with its process.
OrphansLeft == \A i \in Ids : record[i].status = "orphaned" => task[i].pc = "none"

IInv == RowsOK /\ TasksOK /\ CounterExact /\ OrphansLeft

LEMMA IInvTypes == IInv => TypeOK
  <1> SUFFICES ASSUME IInv PROVE TypeOK
    OBVIOUS
  <1>1. IsFiniteSet(Busy)
    BY RoutineAssumption, FS_Subset DEF Busy
  <1>2. Cardinality(Busy) \in Nat
    BY <1>1, FS_CardinalityType
  <1>3. running \in Nat
    BY <1>2 DEF IInv, CounterExact, RowsOK
  <1> QED
    BY <1>3 DEF IInv, TypeOK, RowsOK, TasksOK, Stages

LEMMA InitIInv == Init => IInv
  <1> SUFFICES ASSUME Init PROVE IInv
    OBVIOUS
  <1> USE RoutineAssumption
  <1>1. RowsOK
    BY DEF Init, RowsOK, Record, Running, Linked, Call
  <1>2. TasksOK
    BY DEF Init, TasksOK, NoTask, Stages
  <1>3. CounterExact
    <2>1. Busy = {}
      BY DEF Init, NoTask, Counted, Busy
    <2> QED
      BY <2>1, FS_EmptySet DEF Init, CounterExact
  <1>4. OrphansLeft
    BY DEF Init, OrphansLeft, NoTask
  <1> QED
    BY <1>1, <1>2, <1>3, <1>4 DEF IInv

-----------------------------------------------------------------------------
(* How a step may move the counter and the tasks it counts *)

LEMMA CounterStays ==
  ASSUME CounterExact, UNCHANGED counter,
         \A i \in Ids : task'[i].pc \in Counted <=> task[i].pc \in Counted
  PROVE  CounterExact'
  <1>1. Busy' = Busy
    BY DEF Busy
  <1> QED
    BY <1>1 DEF CounterExact, counter

LEMMA CounterRises ==
  ASSUME TasksOK, CounterExact, running' = running + 1, leaked \in Nat, leaked' = leaked,
         NEW i \in Ids, task[i].pc \notin Counted,
         NEW pc \in Counted, Goto(i, pc)
  PROVE  CounterExact'
  <1>1. Busy' = Busy \cup {i}
    BY DEF Goto, Busy, TasksOK
  <1>2. IsFiniteSet(Busy) /\ i \notin Busy
    BY RoutineAssumption, FS_Subset DEF Busy
  <1>3. Cardinality(Busy \cup {i}) = Cardinality(Busy) + 1
    BY <1>2, FS_AddElement
  <1>4. Cardinality(Busy) \in Nat
    BY <1>2, FS_CardinalityType
  <1> QED
    BY <1>1, <1>3, <1>4 DEF CounterExact

LEMMA CounterFalls ==
  ASSUME TasksOK, CounterExact, NEW i \in Ids, task[i].pc \in Counted,
         NEW again \in BOOLEAN, Returns(i, again),
         leaked \in Nat
  PROVE  CounterExact'
  <1>1. Busy' = Busy \ {i}
    BY DEF Returns, Busy, TasksOK, Counted
  <1>2. IsFiniteSet(Busy) /\ i \in Busy
    BY RoutineAssumption, FS_Subset DEF Busy
  <1>3. Cardinality(Busy \ {i}) = Cardinality(Busy) - 1
    BY <1>2, FS_RemoveElement
  <1>4. Cardinality(Busy) \in Nat
    BY <1>2, FS_CardinalityType
  <1> QED
    BY <1>1, <1>3, <1>4 DEF CounterExact, Returns

\* A panic takes a task out of the count and leaves the counter where it is.
LEMMA CounterLeaks ==
  ASSUME TasksOK, CounterExact, NEW i \in Ids, Panics(i), leaked \in Nat
  PROVE  CounterExact'
  <1>1. Busy' = Busy \ {i}
    BY DEF Panics, Busy, TasksOK, Counted, NoTask
  <1>2. IsFiniteSet(Busy) /\ i \in Busy
    BY RoutineAssumption, FS_Subset DEF Busy, Panics
  <1>3. Cardinality(Busy \ {i}) = Cardinality(Busy) - 1
    BY <1>2, FS_RemoveElement
  <1>4. Cardinality(Busy) \in Nat
    BY <1>2, FS_CardinalityType
  <1> QED
    BY <1>1, <1>3, <1>4 DEF CounterExact, Panics

LEMMA FireIInv ==
  ASSUME IInv, NEW r \in Routines,
         NEW status \in {"done", "unlinked"}, NEW pc \in {"spawned", "recorded"},
         Fire(r, status, pc), UNCHANGED counter
  PROVE  /\ record' \in [Ids -> [routine : Routines, status : Running \cup {"done"}]]
         /\ TasksOK' /\ CounterExact' /\ OrphansLeft'
  <1>1. PICK i \in Ids :
          /\ Free(i)
          /\ record' = [record EXCEPT ![i] = Record(r, status)]
          /\ task' = [task EXCEPT ![i] = [pc |-> pc, again |-> FALSE]]
    BY DEF Fire
  <1>2. record' \in [Ids -> [routine : Routines, status : Running \cup {"done"}]]
    BY <1>1 DEF IInv, RowsOK, Record, Running
  <1>4. TasksOK'
    BY <1>1 DEF IInv, TasksOK, Stages
  <1>5. CounterExact'
    BY <1>1, CounterStays DEF IInv, TasksOK, Free, Counted
  <1>6. OrphansLeft'
    BY <1>1 DEF IInv, OrphansLeft, RowsOK, TasksOK, Record
  <1> QED
    BY <1>2, <1>4, <1>5, <1>6

\* A step of a task that leaves the counter alone and moves within, or outside, the
\* stages that are counted.
LEMMA GotoIInv ==
  ASSUME IInv, NEW i \in Ids, task[i].pc # "none", NEW pc \in Stages, Goto(i, pc),
         UNCHANGED counter, pc \in Counted <=> task[i].pc \in Counted,
         record'[i].status # "orphaned",
         \A k \in Ids \ {i} : record'[k] = record[k]
  PROVE  TasksOK' /\ CounterExact' /\ OrphansLeft'
  <1>1. TasksOK'
    BY DEF IInv, TasksOK, Goto
  <1>2. CounterExact'
    BY CounterStays DEF IInv, TasksOK, Goto
  <1>3. OrphansLeft'
    BY DEF IInv, OrphansLeft, TasksOK, Goto
  <1> QED
    BY <1>1, <1>2, <1>3

\* A step that touches neither tasks nor counter and orphans nothing.
LEMMA QuietIInv ==
  ASSUME IInv, RowsOK', UNCHANGED <<task, counter>>,
         \A i \in Ids : record'[i].status = "orphaned" => record[i].status = "orphaned"
  PROVE  IInv'
  BY DEF IInv, TasksOK, CounterExact, OrphansLeft, Busy, counter

-----------------------------------------------------------------------------
(* One lemma for each group of actions *)

\* A trigger that fires a run, or not, and moves on.
LEMMA TriggerFires ==
  ASSUME IInv, NEW r \in Routines,
         SpawnFire(r) \/ RecordAndSpawn(r) \/ UNCHANGED <<record, task>>,
         UNCHANGED <<kind, row, job, cache, counter, crashes>>,
         waiting' \in [Routines -> 0..MaxWaiting],
         ticker' \subseteq [routine : Routines, cooling : BOOLEAN],
         matched' \subseteq Routines,
         caller' \in [Callers -> [pc : {"idle", "read", "checked"}, routine : Routines]]
  PROVE  IInv'
  <1>1. CASE UNCHANGED <<record, task>>
    <2>1. RowsOK'
      BY <1>1 DEF IInv, RowsOK, counter
    <2> QED
      BY <1>1, <2>1, QuietIInv
  <1>2. CASE SpawnFire(r) \/ RecordAndSpawn(r)
    <2>1. /\ record' \in [Ids -> [routine : Routines, status : Running \cup {"done"}]]
          /\ TasksOK' /\ CounterExact' /\ OrphansLeft'
      BY <1>2, FireIInv DEF SpawnFire, RecordAndSpawn
    <2> QED
      BY <2>1 DEF IInv, RowsOK, counter
  <1> QED
    BY <1>1, <1>2

LEMMA TickerIInv == ASSUME IInv, TickerNext PROVE IInv'
  <1>1. CASE TickerLists
    <2>1. RowsOK'
      BY <1>1 DEF TickerLists, IInv, RowsOK, rows, counter
    <2> QED
      BY <1>1, <2>1, QuietIInv DEF TickerLists, rows
  <1>2. ASSUME NEW t \in ticker, TickerFires(t) PROVE IInv'
    <2>1. t.routine \in Routines /\ RowsOK
      BY DEF IInv, RowsOK
    <2>2. /\ SpawnFire(t.routine) \/ UNCHANGED <<record, task>>
          /\ ticker' \subseteq ticker
          /\ UNCHANGED <<kind, row, job, cache, counter, waiting, matched, caller, crashes>>
      BY <1>2 DEF TickerFires
    <2> QED
      BY <2>1, <2>2, TriggerFires DEF RowsOK
  <1> QED
    BY <1>1, <1>2 DEF TickerNext

LEMMA TriggerIInv == ASSUME IInv, NEW r \in Routines, TriggerNext(r) PROVE IInv'
  <1>1. RowsOK
    BY DEF IInv
  <1>2. CASE EventMatches(r)
    <2>1. RowsOK'
      BY <1>1, <1>2 DEF EventMatches, RowsOK, rows, counter
    <2> QED
      BY <1>2, <2>1, QuietIInv DEF EventMatches, rows
  <1>3. CASE EventFires(r)
    BY <1>1, <1>3, TriggerFires DEF EventFires, RowsOK
  <1>4. CASE RetryFires(r)
    <2>1. waiting[r] - 1 \in 0..MaxWaiting
      BY <1>1, <1>4, RoutineAssumption DEF RetryFires, RowsOK
    <2>2. waiting' \in [Routines -> 0..MaxWaiting]
      BY <1>1, <1>4, <2>1 DEF RetryFires, RowsOK
    <2> QED
      BY <1>1, <1>4, <2>2, TriggerFires DEF RetryFires, RowsOK, triggers
  <1>5. ASSUME NEW c \in Callers, FireManual(c, r) \/ FireWebhook(c, r) PROVE IInv'
    <2>1. caller' = [caller EXCEPT ![c] = Call("checked", r)]
            \/ caller' = [caller EXCEPT ![c] = Call("read", r)]
      BY <1>5 DEF FireManual, FireWebhook, Goes
    <2>2. caller' \in [Callers -> [pc : {"idle", "read", "checked"}, routine : Routines]]
      BY <1>1, <2>1 DEF RowsOK, Call
    <2>3. RowsOK'
      BY <1>1, <1>5, <2>2 DEF FireManual, FireWebhook, RowsOK, rows, counter
    <2> QED
      BY <1>5, <2>3, QuietIInv DEF FireManual, FireWebhook, rows
  <1> QED
    BY <1>2, <1>3, <1>4, <1>5 DEF TriggerNext

LEMMA CallIInv == ASSUME IInv, NEW c \in Callers, CallNext(c) PROVE IInv'
  <1> DEFINE r == caller[c].routine
  <1>1. RowsOK /\ r \in Routines
    BY DEF IInv, RowsOK
  <1>2. caller' \in [Callers -> [pc : {"idle", "read", "checked"}, routine : Routines]]
    BY <1>1 DEF CallNext, WebhookChecks, CallFires, Goes, Call, RowsOK
  <1>3. CASE WebhookChecks(c)
    <2>1. RowsOK'
      BY <1>1, <1>2, <1>3 DEF WebhookChecks, RowsOK, rows, counter
    <2> QED
      BY <1>3, <2>1, QuietIInv DEF WebhookChecks, rows
  <1>4. CASE CallFires(c)
    BY <1>1, <1>2, <1>4, TriggerFires DEF CallFires, RowsOK
  <1> QED
    BY <1>3, <1>4 DEF CallNext

LEMMA ReturnsIInv ==
  ASSUME IInv, NEW i \in Ids, task[i].pc \in Counted, NEW again \in BOOLEAN, Returns(i, again)
  PROVE  IInv'
  <1>1. RowsOK'
    BY DEF Returns, IInv, RowsOK, rows, triggers
  <1>2. TasksOK'
    BY DEF Returns, IInv, TasksOK, Stages
  <1>3. CounterExact'
    <2>1. leaked \in Nat
      BY DEF IInv, RowsOK
    <2> QED
      BY <2>1, CounterFalls DEF IInv
  <1>4. OrphansLeft'
    BY DEF Returns, IInv, OrphansLeft, TasksOK, rows, Counted
  <1> QED
    BY <1>1, <1>2, <1>3, <1>4 DEF IInv

LEMMA TaskIInv == ASSUME IInv, NEW i \in Ids, TaskNext(i) PROVE IInv'
  <1> USE DEF Record, Running, Linked, triggers
  <1>0. task[i].pc # "none" => record[i].status # "orphaned"
    BY DEF IInv, OrphansLeft
  <1>1. CASE Executes(i)
    <2>1. RowsOK'
      BY <1>1 DEF Executes, IInv, RowsOK, rows
    <2>2. TasksOK'
      BY <1>1 DEF Executes, IInv, TasksOK, Goto, Stages, Counted
    <2>3. CounterExact'
      <3>1. leaked \in Nat
        BY DEF IInv, RowsOK
      <3> QED
        BY <1>1, <3>1, CounterRises DEF Executes, IInv, Counted
    <2>4. OrphansLeft'
      BY <1>0, <1>1 DEF Executes, IInv, OrphansLeft, TasksOK, Goto, rows
    <2> QED
      BY <2>1, <2>2, <2>3, <2>4 DEF IInv
  <1>2. CASE Dispatches(i)
    <2>1. RowsOK'
      BY <1>2 DEF Dispatches, IInv, RowsOK, counter
    <2>2. TasksOK' /\ CounterExact' /\ OrphansLeft'
      BY <1>0, <1>2, GotoIInv DEF Dispatches, Stages, Counted
    <2> QED
      BY <2>1, <2>2 DEF IInv
  <1>3. CASE Links(i)
    <2>1. RowsOK'
      BY <1>3 DEF Links, IInv, RowsOK, counter
    <2>2. record'[i].status # "orphaned" /\ \A k \in Ids \ {i} : record'[k] = record[k]
      BY <1>0, <1>3 DEF Links, IInv, RowsOK, counter
    <2>3. TasksOK' /\ CounterExact' /\ OrphansLeft'
      BY <1>3, <2>2, GotoIInv DEF Links, Stages, Counted
    <2> QED
      BY <2>1, <2>3 DEF IInv
  <1>4. CASE LightReturns(i) \/ JobNotWatched(i) \/ WatcherReturns(i)
    <2>1. task[i].pc \in Counted /\ \E again \in BOOLEAN : Returns(i, again)
      BY <1>4 DEF LightReturns, JobNotWatched, WatcherReturns, Counted
    <2> QED
      BY <2>1, ReturnsIInv
  <1>5. ASSUME NEW ok \in BOOLEAN, Records(i, ok) PROVE IInv'
    <2>1. RowsOK'
      <3>1. record' \in [Ids -> [routine : Routines, status : Running \cup {"done"}]]
        BY <1>5 DEF Records, IInv, RowsOK
      <3> QED
        BY <1>5, <3>1 DEF Records, IInv, RowsOK, counter
    <2>2. CASE Goto(i, "none")
      <3>1. TasksOK'
        BY <2>2 DEF IInv, TasksOK, Goto, Stages
      <3>2. CounterExact'
        BY <1>5, <2>2, CounterStays DEF Records, IInv, TasksOK, Goto, Counted
      <3>3. OrphansLeft'
        BY <1>5, <2>2 DEF Records, IInv, OrphansLeft, RowsOK, TasksOK, Goto
      <3> QED
        BY <2>1, <3>1, <3>2, <3>3 DEF IInv
    <2>3. CASE Goto(i, "recorded")
      <3>1. record'[i].status # "orphaned" /\ \A k \in Ids \ {i} : record'[k] = record[k]
        BY <1>0, <1>5 DEF Records, IInv, RowsOK, counter
      <3>2. TasksOK' /\ CounterExact' /\ OrphansLeft'
        BY <1>5, <2>3, <3>1, GotoIInv DEF Records, Stages, Counted
      <3> QED
        BY <2>1, <3>2 DEF IInv
    <2> QED
      BY <1>5, <2>2, <2>3 DEF Records
  <1>6. ASSUME NEW ok \in BOOLEAN, CompletesRecord(i, ok) PROVE IInv'
    <2>1. RowsOK'
      <3>1. record' \in [Ids -> [routine : Routines, status : Running \cup {"done"}]]
        BY <1>6 DEF CompletesRecord, IInv, RowsOK
      <3>2. job' \in [Ids -> {"none", "active", "ended", "lost"}]
        BY <1>6 DEF CompletesRecord, IInv, RowsOK
      <3> QED
        BY <1>6, <3>1, <3>2 DEF CompletesRecord, IInv, RowsOK, counter
    <2>2. record'[i].status # "orphaned" /\ \A k \in Ids \ {i} : record'[k] = record[k]
      BY <1>0, <1>6 DEF CompletesRecord, IInv, RowsOK, counter
    <2>3. TasksOK' /\ CounterExact' /\ OrphansLeft'
      BY <1>6, <2>2, GotoIInv DEF CompletesRecord, Stages, Counted
    <2> QED
      BY <2>1, <2>3 DEF IInv
  <1>7. ASSUME NEW ok \in BOOLEAN, UpdatesRuntime(i, ok) PROVE IInv'
    <2>1. RowsOK'
      <3>0. Routine(i) \in Routines
        BY DEF IInv, RowsOK, Routine
      <3>1. row' \in [Routines -> [due : BOOLEAN, cooling : BOOLEAN]]
        BY <1>7, <3>0 DEF UpdatesRuntime, IInv, RowsOK, RuntimeAfter
      <3>2. waiting' \in [Routines -> 0..MaxWaiting]
        <4>1. waiting[Routine(i)] \in 0..MaxWaiting
          BY <3>0 DEF IInv, RowsOK
        <4>2. waiting[Routine(i)] < MaxWaiting => waiting[Routine(i)] + 1 \in 0..MaxWaiting
          BY <4>1, RoutineAssumption
        <4> QED
          BY <1>7, <3>0, <4>1, <4>2 DEF UpdatesRuntime, IInv, RowsOK
      <3> QED
        BY <1>7, <3>1, <3>2 DEF UpdatesRuntime, IInv, RowsOK, counter
    <2>2. TasksOK'
      BY <1>7 DEF UpdatesRuntime, IInv, TasksOK, NoTask, Stages
    <2>3. CounterExact'
      BY <1>7, CounterStays DEF UpdatesRuntime, IInv, TasksOK, NoTask, Counted
    <2>4. OrphansLeft'
      BY <1>7 DEF UpdatesRuntime, IInv, OrphansLeft, TasksOK, NoTask
    <2> QED
      BY <2>1, <2>2, <2>3, <2>4 DEF IInv
  <1> QED
    BY <1>1, <1>2, <1>3, <1>4, <1>5, <1>6, <1>7 DEF TaskNext

LEMMA PanicIInv == ASSUME IInv, NEW i \in Ids, Panics(i) PROVE IInv'
  <1>1. leaked \in 0..MaxLeaks /\ leaked + 1 \in 0..MaxLeaks
    BY RoutineAssumption DEF Panics, IInv, RowsOK
  <1>2. RowsOK'
    BY <1>1 DEF Panics, IInv, RowsOK, rows, triggers
  <1>3. TasksOK'
    BY DEF Panics, IInv, TasksOK, NoTask, Stages
  <1>4. CounterExact'
    BY <1>1, CounterLeaks DEF IInv
  <1>5. OrphansLeft'
    BY DEF Panics, IInv, OrphansLeft, TasksOK, NoTask, rows
  <1> QED
    BY <1>2, <1>3, <1>4, <1>5 DEF IInv

LEMMA RecoveryIInv == ASSUME IInv, NEW i \in Ids, Sync(i) \/ Sweep(i) PROVE IInv'
  <1>1. Finalizes(i)
    BY DEF Sync, Sweep
  <1>2. RowsOK'
    BY <1>1 DEF Finalizes, IInv, RowsOK, Record, Routine, RuntimeAfter, counter, triggers
  <1>3. \A k \in Ids : record'[k].status = "orphaned" => record[k].status = "orphaned"
    BY <1>1 DEF Finalizes, IInv, RowsOK, Record
  <1> QED
    BY <1>1, <1>2, <1>3, QuietIInv DEF Finalizes

LEMMA WorldIInv == ASSUME IInv, WorldNext PROVE IInv'
  <1>1. ASSUME NEW i \in Ids, JobEnds(i) PROVE IInv'
    <2>1. RowsOK'
      BY <1>1 DEF JobEnds, IInv, RowsOK, counter, triggers
    <2> QED
      BY <1>1, <2>1, QuietIInv DEF JobEnds
  <1>3. ASSUME NEW r \in Routines, BecomesDue(r) PROVE IInv'
    <2>1. row' \in [Routines -> [due : BOOLEAN, cooling : BOOLEAN]]
      BY <1>3 DEF BecomesDue, IInv, RowsOK
    <2>2. RowsOK'
      BY <1>3, <2>1 DEF BecomesDue, IInv, RowsOK, counter, triggers
    <2> QED
      BY <1>3, <2>2, QuietIInv DEF BecomesDue
  <1>4. ASSUME NEW r \in Routines, CooldownEnds(r) PROVE IInv'
    <2>1. /\ row' \in [Routines -> [due : BOOLEAN, cooling : BOOLEAN]]
          /\ cache' \in [Routines -> BOOLEAN]
      BY <1>4 DEF CooldownEnds, IInv, RowsOK
    <2>2. RowsOK'
      BY <1>4, <2>1 DEF CooldownEnds, IInv, RowsOK, counter, triggers
    <2> QED
      BY <1>4, <2>2, QuietIInv DEF CooldownEnds
  <1> QED
    BY <1>1, <1>3, <1>4 DEF WorldNext

LEMMA CrashIInv == ASSUME IInv, Crash PROVE IInv'
  <1>1. RowsOK'
    BY RoutineAssumption DEF Crash, IInv, RowsOK, Record, Routine, Running, Linked, Call
  <1>2. TasksOK'
    BY DEF Crash, TasksOK, NoTask, Stages
  <1>3. CounterExact'
    <2>1. Busy' = {}
      BY DEF Crash, NoTask, Counted, Busy
    <2> QED
      BY <2>1, FS_EmptySet DEF Crash, CounterExact
  <1>4. OrphansLeft'
    BY DEF Crash, OrphansLeft, NoTask
  <1> QED
    BY <1>1, <1>2, <1>3, <1>4 DEF IInv

LEMMA NextIInv == IInv /\ [Next]_vars => IInv'
  <1> SUFFICES ASSUME IInv, [Next]_vars PROVE IInv'
    OBVIOUS
  <1>1. CASE RefreshEventCache
    <2>1. RowsOK'
      BY <1>1 DEF RefreshEventCache, IInv, RowsOK, rows, counter, triggers
    <2> QED
      BY <1>1, <2>1, QuietIInv DEF RefreshEventCache, rows
  <1>2. CASE UNCHANGED vars
    BY <1>2 DEF vars, rows, counter, triggers, IInv, RowsOK, TasksOK, CounterExact, Busy, OrphansLeft
  <1> QED
    BY <1>1, <1>2, TickerIInv, TriggerIInv, CallIInv, TaskIInv, PanicIInv, RecoveryIInv, WorldIInv,
       CrashIInv
    DEF Next

LEMMA IInvHolds == Spec => []IInv
  BY InitIInv, NextIInv, PTL DEF Spec

-----------------------------------------------------------------------------
\* The routine engine is type correct; in particular the counter never wraps below
\* zero and no more retries wait than the bound allows (execute_routine).
THEOREM TypeCorrect == Spec => []TypeOK
  BY IInvHolds, IInvTypes, PTL

\* running_count is the number of runs being executed and of those that panicked since
\* the process started: no failure, timeout, retry or restart changes it otherwise.
THEOREM CounterIsExact == Spec => []CounterExact
  <1>1. IInv => CounterExact
    BY DEF IInv
  <1> QED
    BY IInvHolds, <1>1, PTL

\* sync_dispatched_runs finishes no run that a task of the current process is at: what
\* it asks for, a start before boot, is enough for that.
THEOREM SyncKeepsAway == Spec => SyncNeverRaces
  <1>1. IInv /\ [Next]_vars => [\A i \in Ids : Sync(i) => task[i].pc = "none"]_vars
    BY DEF IInv, OrphansLeft, Sync
  <1> QED
    BY IInvHolds, <1>1, PTL DEF Spec, SyncNeverRaces

=============================================================================

------------------------------ MODULE GateRouter ------------------------------
(***************************************************************************)
(* The life of a paused tool call: the router (src/bridge/router.rs)       *)
(* between the pending-gate store, the engine threads and the user.        *)
(*                                                                         *)
(* A thread pauses, the handler that awaits its outcome stores a gate, an  *)
(* answer takes the gate, runs the pending action and resumes the thread.  *)
(* An OAuth callback and the gateway's auth endpoints work on the same     *)
(* gates at the same time; the process may die anywhere and restarts with  *)
(* init_engine.  The agent goes on to the next message after its soft      *)
(* timeout, so an answer, an orphan check and the handlers that await      *)
(* outcomes overlap; one answer and one orphan check at a time.            *)
(*                                                                         *)
(* A key stands for a thread and its user.  The state of PendingGateStore  *)
(* is part of this module's state and its actions are steps of the ones    *)
(* here; the runs themselves are those of ExecutionLoop, reduced to how    *)
(* they end.                                                               *)
(***************************************************************************)
EXTENDS PendingGateStore, ThreadTypes

CONSTANT FileErrors   \* bound: failing file operations

ASSUME RouterAssumption == FileErrors \in Nat

VARIABLES
  owned,     \* the threads of the owner's project, which init_engine recovers
  thread,    \* stored state of each thread
  live,      \* its task: "run", "paused" (ended at a gate, outcome not yet
             \* delivered) or "none"
  watcher,   \* the handler awaiting the outcome: "await", "saving" its gate,
             \* or "none"
  leases,    \* threads with leases; the LeaseManager is not persistent
  info,      \* what a gate is for: its kind and its resume_output
  resolver,  \* the handler of an answer
  callback,  \* resolve_engine_auth_callback or clear_engine_pending_auth
  orphan,    \* fail_orphaned_waiting_thread_if_needed
  ghost      \* history: how often a gate's action was run for it, file errors so far,
             \* and whether a thread was saved on an outdated reading

router == <<owned, thread, live, watcher, leases, info, resolver, callback, orphan, ghost>>
rvars == <<vars, router>>

NoGate == [kind |-> "none", output |-> "none"]
IdleResolver == [pc |-> "idle", req |-> None, answer |-> "none"]
IdleCallback == [pc |-> "idle", req |-> None, gone |-> None]
IdleOrphan == [pc |-> "idle", key |-> None]

RInit ==
  /\ Init
  /\ owned \in SUBSET Keys
  /\ thread = [k \in Keys |-> "Created"]
  /\ live = [k \in Keys |-> "none"]
  /\ watcher = [k \in Keys |-> "none"]
  /\ leases = {}
  /\ info = [r \in Requests |-> NoGate]
  /\ resolver = IdleResolver
  /\ callback = IdleCallback
  /\ orphan = IdleOrphan
  /\ ghost = [ran |-> [r \in Requests |-> 0], errors |-> 0, stale |-> FALSE]

-----------------------------------------------------------------------------
(* Threads *)

Op(o, r) == [op |-> o, req |-> r]

\* A handler that inserted gate r waits for it to be on file.
Storing(r) == IF Op("save", r) \in io' THEN "saving" ELSE "none"

SpawnThread(k) ==
  /\ up
  /\ thread[k] = "Created"
  /\ thread' = [thread EXCEPT ![k] = "Running"]
  /\ live' = [live EXCEPT ![k] = "run"]
  /\ watcher' = [watcher EXCEPT ![k] = "await"]
  /\ leases' = leases \cup {k}
  /\ UNCHANGED <<vars, info, resolver, callback, orphan, ghost>>

TaskEnds(k) ==
  /\ up
  /\ live[k] = "run"
  /\ live' = [live EXCEPT ![k] = "none"]
  /\ \E s \in {"Done", "Failed"} : thread' = [thread EXCEPT ![k] = s]
  /\ watcher' = [watcher EXCEPT ![k] = "none"]
  /\ UNCHANGED <<vars, leases, info, resolver, callback, orphan, ghost>>

\* The handler finds "authentication_required" in the text of a completed
\* thread and stores a gate for it; a refused insertion is only logged.
TaskEndsAskingAuth(k, r) ==
  /\ live[k] = "run"
  /\ watcher[k] = "await"
  /\ KeyOf[r] = k
  /\ Insert(r) \/ InsertRefused(r)
  /\ live' = [live EXCEPT ![k] = "none"]
  /\ thread' = [thread EXCEPT ![k] = "Done"]
  /\ info' = [info EXCEPT ![r] = [kind |-> "fallback", output |-> "none"]]
  /\ watcher' = [watcher EXCEPT ![k] = Storing(r)]
  /\ UNCHANGED <<leases, resolver, callback, orphan, ghost>>

\* Without a handler that awaits it the outcome stays in `completed`.
TaskPauses(k) ==
  /\ up
  /\ live[k] = "run"
  /\ live' = [live EXCEPT ![k] = IF watcher[k] = "await" THEN "paused" ELSE "none"]
  /\ thread' = [thread EXCEPT ![k] = "Waiting"]
  /\ UNCHANGED <<vars, watcher, leases, info, resolver, callback, orphan, ghost>>

\* await_thread_outcome, GatePaused.  The run loop drops resume_output, so the
\* gate has none even if its action has been run (an auth gate raised by the
\* action's own result).  A refused insertion is only logged.
StoreGate(k, r) ==
  /\ live[k] = "paused"
  /\ KeyOf[r] = k
  /\ Insert(r) \/ InsertRefused(r)
  /\ live' = [live EXCEPT ![k] = "none"]
  /\ watcher' = [watcher EXCEPT ![k] = Storing(r)]
  /\ \E kind \in {"approval", "auth"} :
       info' = [info EXCEPT ![r] = [kind |-> kind, output |-> "none"]]
  /\ UNCHANGED <<thread, leases, resolver, callback, orphan, ghost>>

\* The handler returns when its insertion is on file (or failed to get there).
StoredGate(k) ==
  /\ watcher[k] = "saving"
  /\ \A o \in io : ~(o.op = "save" /\ KeyOf[o.req] = k)
  /\ watcher' = [watcher EXCEPT ![k] = "none"]
  /\ UNCHANGED <<vars, thread, live, leases, info, resolver, callback, orphan, ghost>>

\* The agent aborts a handler that outlives its hard timeout.
HandlerAborted(k) ==
  /\ up
  /\ watcher[k] # "none"
  /\ watcher' = [watcher EXCEPT ![k] = "none"]
  /\ live' = [live EXCEPT ![k] = IF @ = "paused" THEN "none" ELSE @]
  /\ UNCHANGED <<vars, thread, leases, info, resolver, callback, orphan, ghost>>

\* ThreadManager::resume_thread: refused for a running thread and for one that
\* is not waiting.  It loads the thread, then saves and starts what it loaded.
CanResume(k) == live[k] # "run" /\ thread[k] = "Waiting"

\* The thread waits and nothing else is at work on it: no task whose outcome is
\* still to be delivered, no gate that can be answered, no answer that has taken
\* its gate and not yet come to the resume.
Untouched(k) ==
  /\ thread[k] = "Waiting"
  /\ live[k] = "none"
  /\ byKey[k] \in expired \cup {None}
  /\ ~(resolver.pc = "taken" /\ KeyOf[resolver.req] = k)

\* Neither resume_thread nor orphan detection checks again when it saves.
SavesWhatItLoaded(k) == ghost' = [ghost EXCEPT !.stale = @ \/ ~Untouched(k)]

Resumed(k, w) ==
  /\ SavesWhatItLoaded(k)
  /\ thread' = [thread EXCEPT ![k] = "Running"]
  /\ live' = [live EXCEPT ![k] = "run"]
  /\ watcher' = [watcher EXCEPT ![k] = w]

-----------------------------------------------------------------------------
(* resolve_gate *)

Answers(kind) == IF kind = "approval" THEN {"approve", "deny"} ELSE {"credential", "cancel"}

\* An external gate is answered like one for a credential.
\* handle_approval, handle_exec_approval and an answer to an auth prompt find
\* an unexpired gate of the right kind, then resolve_gate takes it.
Answer(k, r, c) ==
  /\ resolver.pc = "idle"
  /\ TakeVerified(r, k, c)
  /\ \E a \in Answers(info[r].kind) : resolver' = [pc |-> "taken", req |-> r, answer |-> a]
  /\ UNCHANGED <<thread, live, watcher, leases, info, callback, orphan, ghost>>

\* The gate expires between the lookup and take_verified.
AnswerExpired(k, r, c) ==
  /\ TakeExpired(r, k, c)
  /\ UNCHANGED router

\* take_verified returns when the removal is on file, or has failed.
Taken(answers) ==
  /\ up
  /\ resolver.pc = "taken"
  /\ resolver.answer \in answers
  /\ Op("remove", resolver.req) \notin io

RunsAction ==
  /\ Taken({"approve", "credential"})
  /\ info[resolver.req].kind # "fallback"
  /\ info[resolver.req].output = "none"

\* A fallback gate: with the credential stored the user's message is handled
\* again from the start, in a new thread.
RetryMessage ==
  /\ Taken({"credential"})
  /\ info[resolver.req].kind = "fallback"
  /\ resolver' = IdleResolver
  /\ UNCHANGED <<vars, thread, live, watcher, leases, info, callback, orphan, ghost>>

\* stop_thread on a thread that waits finds no running task; the error is
\* logged.
Cancel ==
  /\ Taken({"cancel"})
  /\ resolver' = IdleResolver
  /\ UNCHANGED <<vars, thread, live, watcher, leases, info, callback, orphan, ghost>>

\* execute_pending_gate_action
ActionRuns ==
  /\ RunsAction
  /\ KeyOf[resolver.req] \in leases
  /\ ghost' = [ghost EXCEPT !.ran[resolver.req] = @ + 1]
  /\ resolver' = [resolver EXCEPT !.pc = "resume"]
  /\ UNCHANGED <<vars, thread, live, watcher, leases, info, callback, orphan>>

\* No thread, no lease, a failing action, or a credential that cannot be
\* stored: the error goes to the user, the gate is gone.
ActionFails ==
  /\ RunsAction
  /\ resolver' = IdleResolver
  /\ UNCHANGED <<vars, thread, live, watcher, leases, info, callback, orphan, ghost>>

\* The action meets another gate, before it is run or (authentication) with
\* its output.  An insertion that is refused is an error for the user.
ActionPauses(r) ==
  LET k == KeyOf[resolver.req] IN
  /\ RunsAction
  /\ k \in leases
  /\ KeyOf[r] = k
  /\ Insert(r) \/ InsertRefused(r)
  /\ \E kind \in {"approval", "auth"}, output \in {"none", "kept"} :
       /\ output = "kept" => kind = "auth"
       /\ info' = [info EXCEPT ![r] = [kind |-> kind, output |-> output]]
       /\ ghost' = [ghost EXCEPT !.ran[resolver.req] = IF output = "kept" THEN @ + 1 ELSE @]
  /\ watcher' = [watcher EXCEPT ![k] = Storing(r)]
  /\ resolver' = IdleResolver
  /\ UNCHANGED <<thread, live, leases, callback, orphan>>

\* A denial, and a credential for a gate that keeps the output, go straight to
\* the resume.
GoResume ==
  /\ \/ Taken({"deny"})
     \/ Taken({"credential"}) /\ info[resolver.req].output = "kept"
  /\ resolver' = [resolver EXCEPT !.pc = "resume"]
  /\ UNCHANGED <<vars, thread, live, watcher, leases, info, callback, orphan, ghost>>

ResumeLoads ==
  /\ up
  /\ resolver.pc = "resume"
  /\ resolver' = IF CanResume(KeyOf[resolver.req])
                   THEN [resolver EXCEPT !.pc = "start"]
                   ELSE IdleResolver
  /\ UNCHANGED <<vars, thread, live, watcher, leases, info, callback, orphan, ghost>>

Resume ==
  /\ up
  /\ resolver.pc = "start"
  /\ Resumed(KeyOf[resolver.req], "await")
  /\ resolver' = IdleResolver
  /\ UNCHANGED <<vars, leases, info, callback, orphan>>

\* The agent aborts an answer that outlives its hard timeout: its gate is gone
\* and its action may have been run.
AnswerAborted ==
  /\ up
  /\ resolver.pc # "idle"
  /\ resolver' = IdleResolver
  /\ UNCHANGED <<vars, thread, live, watcher, leases, info, callback, orphan, ghost>>

-----------------------------------------------------------------------------
(* The other users of the gates *)

Pending(r) == byKey[KeyOf[r]] = r /\ r \notin expired

\* resolve_engine_auth_callback leaves alone a gate without resume_output;
\* clear_engine_pending_auth discards any auth gate.
CallbackLists(r) ==
  /\ up
  /\ callback.pc = "idle"
  /\ Pending(r)
  /\ info[r].kind \in {"auth", "fallback"}
  /\ \E pc \in {"resume", "clear"} :
       /\ pc = "resume" => info[r].output = "kept"
       /\ callback' = [pc |-> pc, req |-> r, gone |-> None]
  /\ UNCHANGED <<vars, thread, live, watcher, leases, info, resolver, orphan, ghost>>

\* discard is by key: what it removes need not be the gate that was listed.
CallbackDiscards ==
  LET k == KeyOf[callback.req] IN
  /\ callback.pc \in {"resume", "clear"}
  /\ callback.gone = None
  /\ \/ /\ Discard(k)
        /\ callback' = [callback EXCEPT !.gone = byKey[k]]
     \/ /\ up
        /\ byKey[k] = None
        /\ callback' = IdleCallback
        /\ UNCHANGED vars
  /\ UNCHANGED <<thread, live, watcher, leases, info, resolver, orphan, ghost>>

CallbackLoads ==
  /\ up
  /\ callback.pc \in {"resume", "clear"}
  /\ callback.gone # None
  /\ Op("remove", callback.gone) \notin io
  /\ callback' = IF callback.pc = "resume" /\ CanResume(KeyOf[callback.req])
                   THEN [callback EXCEPT !.pc = "start"]
                   ELSE IdleCallback
  /\ UNCHANGED <<vars, thread, live, watcher, leases, info, resolver, orphan, ghost>>

\* The callback resumes the thread and returns; no handler awaits the outcome.
CallbackResumes ==
  LET k == KeyOf[callback.req] IN
  /\ up
  /\ callback.pc = "start"
  /\ Resumed(k, watcher[k])
  /\ callback' = IdleCallback
  /\ UNCHANGED <<vars, leases, info, resolver, orphan>>

\* clear_engine_conversation
Clear(k) ==
  /\ Discard(k)
  /\ UNCHANGED router

\* fail_orphaned_waiting_thread_if_needed peeks at the gates, then loads the
\* thread, then saves what it loaded as failed.
OrphanPeek(k) ==
  /\ up
  /\ orphan.pc = "idle"
  /\ byKey[k] \in expired \cup {None}
  /\ orphan' = [pc |-> "peeked", key |-> k]
  /\ UNCHANGED <<vars, thread, live, watcher, leases, info, resolver, callback, ghost>>

OrphanLoads ==
  /\ up
  /\ orphan.pc = "peeked"
  /\ orphan' = IF thread[orphan.key] = "Waiting" THEN [orphan EXCEPT !.pc = "loaded"] ELSE IdleOrphan
  /\ UNCHANGED <<vars, thread, live, watcher, leases, info, resolver, callback, ghost>>

OrphanFails ==
  /\ up
  /\ orphan.pc = "loaded"
  /\ SavesWhatItLoaded(orphan.key)
  /\ thread' = [thread EXCEPT ![orphan.key] = "Failed"]
  /\ orphan' = IdleOrphan
  /\ UNCHANGED <<vars, live, watcher, leases, info, resolver, callback>>

-----------------------------------------------------------------------------
(* Files, time, death and restart *)

RFileOp(o) == FileOp(o) /\ UNCHANGED router

\* discard returns the error, so the callback gives up.
RFileOpFails(o) ==
  /\ ghost.errors < FileErrors
  /\ FileOpFails(o)
  /\ ghost' = [ghost EXCEPT !.errors = @ + 1]
  /\ callback' = IF o = Op("remove", callback.gone) THEN IdleCallback ELSE callback
  /\ UNCHANGED <<thread, live, watcher, leases, info, resolver, orphan>>

RExpire(r) == Expire(r) /\ UNCHANGED router

\* Mutant of RCrash: leases outlive the process.
RCrashKeepsLeases ==
  /\ Crash
  /\ live' = [k \in Keys |-> "none"]
  /\ watcher' = [k \in Keys |-> "none"]
  /\ resolver' = IdleResolver
  /\ callback' = IdleCallback
  /\ orphan' = IdleOrphan
  /\ UNCHANGED <<thread, leases, info, ghost>>

RCrash ==
  /\ Crash
  /\ live' = [k \in Keys |-> "none"]
  /\ watcher' = [k \in Keys |-> "none"]
  /\ resolver' = IdleResolver
  /\ callback' = IdleCallback
  /\ orphan' = IdleOrphan
  /\ leases' = {}
  /\ UNCHANGED <<thread, info, ghost>>

\* recover_project_threads, for the owner's project only.
RecoveredThreads ==
  [k \in Keys |-> IF k \in owned THEN Recovered(thread[k], FALSE) ELSE thread[k]]

\* Mutant of KeptGates: restored gates are not reconciled with the threads.
AllGates == Restorable

\* reconcile_pending_gate_state discards the gates of threads that do not wait ...
KeptGates == {r \in Restorable : RecoveredThreads[KeyOf[r]] = "Waiting"}

\* ... and fails the waiting threads, of every project, without a restored gate.
RRestart ==
  /\ ~up
  /\ up' = TRUE
  /\ byKey' = [k \in Keys |-> IF file[k] \in KeptGates THEN file[k] ELSE None]
  /\ byRequestId' = [r \in Requests |-> IF r \in KeptGates THEN KeyOf[r] ELSE None]
  /\ file' = [k \in Keys |-> IF file[k] \in Restorable \ KeptGates THEN None ELSE file[k]]
  /\ thread' = [k \in Keys |->
                  IF RecoveredThreads[k] = "Waiting" /\ ~\E r \in Restorable : KeyOf[r] = k
                    THEN "Failed"
                    ELSE RecoveredThreads[k]]
  /\ UNCHANGED <<json, io, created, expired, taken, live, watcher, leases, info, resolver, callback,
                 orphan, ghost>>

-----------------------------------------------------------------------------

RNext ==
  /\ UNCHANGED owned
  /\ \/ \E k \in Keys :
          \/ SpawnThread(k) \/ TaskEnds(k) \/ TaskPauses(k) \/ StoredGate(k)
          \/ HandlerAborted(k) \/ Clear(k) \/ OrphanPeek(k)
     \/ \E k \in Keys, r \in Requests : TaskEndsAskingAuth(k, r) \/ StoreGate(k, r)
     \/ \E k \in Keys, r \in Requests, c \in Channels : Answer(k, r, c) \/ AnswerExpired(k, r, c)
     \/ Cancel \/ RetryMessage \/ ActionRuns \/ ActionFails \/ GoResume \/ ResumeLoads \/ Resume
     \/ AnswerAborted
     \/ \E r \in Requests : ActionPauses(r) \/ CallbackLists(r) \/ RExpire(r)
     \/ CallbackDiscards \/ CallbackLoads \/ CallbackResumes \/ OrphanLoads \/ OrphanFails
     \/ \E o \in Ops : RFileOp(o) \/ RFileOpFails(o)
     \/ RCrash
     \/ RRestart

RSpec == RInit /\ [][RNext]_rvars

-----------------------------------------------------------------------------

RTypeOK ==
  /\ TypeOK
  /\ owned \subseteq Keys
  /\ thread \in [Keys -> ThreadState]
  /\ live \in [Keys -> {"none", "run", "paused"}]
  /\ watcher \in [Keys -> {"none", "await", "saving"}]
  /\ leases \subseteq Keys
  /\ info \in [Requests -> [kind : {"none", "approval", "auth", "fallback"}, output : {"none", "kept"}]]
  /\ resolver \in [pc : {"idle", "taken", "resume", "start"}, req : Requests \cup {None},
                   answer : {"none", "approve", "deny", "credential", "cancel"}]
  /\ callback \in [pc : {"idle", "resume", "clear", "start"}, req : Requests \cup {None},
                   gone : Requests \cup {None}]
  /\ orphan \in [pc : {"idle", "peeked", "loaded"}, key : Keys \cup {None}]
  /\ ghost \in [ran : [Requests -> Nat], errors : 0..FileErrors, stale : BOOLEAN]

\* The action of a gate is run at most once for it, across crashes and
\* restarts: take_verified gives the gate to one answer, and where the gate
\* is back after a restart (its removal failed, or reached the file before its
\* insertion) its thread has no lease left to run the action with.
ActionRunsOnce == \A r \in Requests : ghost.ran[r] <= 1

\* A gate that can be answered belongs to a thread that waits (unless it only
\* asks for a credential after the fact), so that resume_thread will not refuse
\* the answer once the action has been run.  Only a save that overtook another
\* user of the thread can break this: a resume, or an orphan check, that writes
\* a thread it loaded before the thread was resumed, failed or met its next gate.
\* Expiry, refused insertions, aborted handlers, files written late or not at
\* all, and the reconciliation of gates and threads after a death cannot.
GateHasWaitingThread ==
  up /\ ~ghost.stale =>
    \A r \in Requests : Pending(r) /\ info[r].kind # "fallback" => thread[KeyOf[r]] = "Waiting"

=============================================================================

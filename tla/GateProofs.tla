------------------------------ MODULE GateProofs ------------------------------
(* The pending gate store and the router that uses it, for every set of         *)
(* requests, threads and channels.  Of the store: type correctness, consistent  *)
(* indices and at-most-once resolution.  Of the router: type correctness, that  *)
(* the action of a gate runs at most once, and, while messages are handled one  *)
(* after the other, that a gate which can be answered has a waiting thread.     *)
EXTENDS GateRouter, TLAPS

\* TypeOK says that only created gates expire or are handed out, which needs to
\* know that only created gates are stored, in memory, on file or in a file
\* operation under way: otherwise take_verified could hand out a gate nobody
\* inserted.
Stored ==
  /\ \A k \in Keys : byKey[k] # None => byKey[k] \in created
  /\ \A k \in Keys : file[k] # None => file[k] \in created /\ KeyOf[file[k]] = k
  /\ \A o \in io : o.req \in created

TypeInv == TypeOK /\ Stored

LEMMA InitTypeInv == Init => TypeInv
  BY GateAssumption DEF Init, TypeInv, TypeOK, Stored, Empty, Json

LEMMA NextTypeInv == TypeInv /\ [Next]_vars => TypeInv'
  <1> SUFFICES ASSUME TypeInv, [Next]_vars PROVE TypeInv'
    OBVIOUS
  <1> USE GateAssumption DEF TypeInv, TypeOK, Stored, Ops, Json
  <1>1. ASSUME NEW r \in Requests, Insert(r) PROVE TypeInv'
    BY <1>1 DEF Insert, Add
  <1>2. ASSUME NEW r \in Requests, InsertRefused(r) PROVE TypeInv'
    BY <1>2 DEF InsertRefused
  <1>3. ASSUME NEW r \in Requests, Expire(r) PROVE TypeInv'
    BY <1>3 DEF Expire
  <1>4. ASSUME NEW r \in Requests, NEW k \in Keys, NEW c \in Channels, TakeVerified(r, k, c)
        PROVE TypeInv'
    BY <1>4 DEF TakeVerified, Presented, Drop
  <1>5. ASSUME NEW r \in Requests, NEW k \in Keys, NEW c \in Channels, TakeExpired(r, k, c)
        PROVE TypeInv'
    BY <1>5 DEF TakeExpired, Presented, Drop
  <1>6. ASSUME NEW k \in Keys, Discard(k) PROVE TypeInv'
    BY <1>6 DEF Discard, Drop
  <1>7. CASE ExpireStale
    BY <1>7 DEF ExpireStale, Drop
  <1>8. ASSUME NEW o \in Ops, FileOp(o) PROVE TypeInv'
    BY <1>8 DEF FileOp, Written
  <1>9. ASSUME NEW o \in Ops, FileOpFails(o) PROVE TypeInv'
    BY <1>9 DEF FileOpFails, Empty
  <1>10. CASE Crash
    <2>1. file' \in [Keys -> Requests \cup {None}] /\ json' \in Json
      BY <1>10 DEF Crash, Empty
    <2>2. \A k \in Keys : file'[k] # None => file'[k] \in created /\ KeyOf[file'[k]] = k
      BY <1>10 DEF Crash, Empty
    <2> QED
      BY <1>10, <2>1, <2>2 DEF Crash, Empty
  <1>11. CASE Restart
    BY <1>11 DEF Restart, Restorable
  <1>12. CASE UNCHANGED vars
    BY <1>12 DEF vars
  <1> QED
    BY <1>1, <1>2, <1>3, <1>4, <1>5, <1>6, <1>7, <1>8, <1>9, <1>10, <1>11, <1>12 DEF Next

\* The pending gate store is type correct in every reachable state.
THEOREM TypeCorrect == Spec => []TypeOK
  <1>1. TypeInv => TypeOK
    BY DEF TypeInv
  <1> QED
    BY InitTypeInv, NextTypeInv, <1>1, PTL DEF Spec

-----------------------------------------------------------------------------
(* The inductive invariant behind IndexInv and ResolvedOnce.  Restart       *)
(* rebuilds the memory from a file that may still hold resolved gates, so   *)
(* ResolvedOnce needs the fact that a dead process has handed out nothing;  *)
(* insert needs the fact that a fresh request is stored nowhere.            *)

OwnKey == \A k \in Keys : byKey[k] # None => KeyOf[byKey[k]] = k

DownInv == ~up => taken = {}

IInv == TypeInv /\ OwnKey /\ DownInv /\ IndexInv /\ ResolvedOnce

LEMMA InitIInv == Init => IInv
  BY InitTypeInv, GateAssumption
  DEF Init, IInv, OwnKey, DownInv, IndexInv, ResolvedOnce, Empty

\* Removing a set of stored requests from both indices keeps them inverse.
LEMMA DropIInv ==
  ASSUME IInv, NEW R \in SUBSET Requests, Drop(R)
  PROVE  /\ OwnKey'
         /\ IndexInv'
         /\ \A r \in Requests : r \in R \/ byRequestId[r] = None =>
               byRequestId'[r] = None /\ \A k \in Keys : byKey'[k] # r
  BY GateAssumption
  DEF IInv, TypeInv, TypeOK, OwnKey, IndexInv, Drop

LEMMA NextIInv == IInv /\ [Next]_vars => IInv'
  <1> SUFFICES ASSUME IInv, [Next]_vars PROVE IInv'
    OBVIOUS
  <1>0. TypeInv'
    BY NextTypeInv DEF IInv
  <1> USE GateAssumption DEF IInv, TypeInv, TypeOK, Stored
  <1>1. ASSUME NEW r \in Requests, Insert(r) PROVE IInv'
    <2>1. OwnKey' /\ DownInv'
      BY <1>1 DEF Insert, Add, OwnKey, DownInv
    <2>2. IndexInv'
      BY <1>1 DEF Insert, Add, IndexInv
    <2>3. ResolvedOnce'
      BY <1>1 DEF Insert, Add, ResolvedOnce
    <2> QED
      BY <1>0, <2>1, <2>2, <2>3
  <1>2. ASSUME NEW r \in Requests, InsertRefused(r) PROVE IInv'
    BY <1>0, <1>2 DEF InsertRefused, OwnKey, DownInv, IndexInv, ResolvedOnce
  <1>3. ASSUME NEW r \in Requests, Expire(r) PROVE IInv'
    BY <1>0, <1>3 DEF Expire, OwnKey, DownInv, IndexInv, ResolvedOnce
  <1>4. ASSUME NEW r \in Requests, NEW k \in Keys, NEW c \in Channels, TakeVerified(r, k, c)
        PROVE IInv'
    <2>1. Drop({r})
      BY <1>4 DEF TakeVerified
    <2>2. ResolvedOnce'
      BY <1>4, <2>1, DropIInv DEF TakeVerified, ResolvedOnce
    <2> QED
      BY <1>0, <1>4, <2>1, <2>2, DropIInv DEF TakeVerified, DownInv
  <1>5. ASSUME NEW r \in Requests, NEW k \in Keys, NEW c \in Channels, TakeExpired(r, k, c)
        PROVE IInv'
    <2>1. Drop({r})
      BY <1>5 DEF TakeExpired
    <2>2. ResolvedOnce'
      BY <1>5, <2>1, DropIInv DEF TakeExpired, ResolvedOnce
    <2> QED
      BY <1>0, <1>5, <2>1, <2>2, DropIInv DEF TakeExpired, DownInv
  <1>6. ASSUME NEW k \in Keys, Discard(k) PROVE IInv'
    <2>1. Drop({byKey[k]}) /\ {byKey[k]} \in SUBSET Requests
      BY <1>6 DEF Discard
    <2>2. ResolvedOnce'
      BY <1>6, <2>1, DropIInv DEF Discard, ResolvedOnce
    <2> QED
      BY <1>0, <1>6, <2>1, <2>2, DropIInv DEF Discard, DownInv
  <1>7. CASE ExpireStale
    <2> DEFINE stale == {byKey[k] : k \in Keys} \cap expired
    <2>1. Drop(stale) /\ stale \in SUBSET Requests
      BY <1>7 DEF ExpireStale
    <2>2. ResolvedOnce'
      BY <1>7, <2>1, DropIInv DEF ExpireStale, ResolvedOnce
    <2> QED
      BY <1>0, <1>7, <2>1, <2>2, DropIInv DEF ExpireStale, DownInv
  <1>8. ASSUME NEW o \in Ops, FileOp(o) PROVE IInv'
    BY <1>0, <1>8 DEF FileOp, OwnKey, DownInv, IndexInv, ResolvedOnce
  <1>9. ASSUME NEW o \in Ops, FileOpFails(o) PROVE IInv'
    BY <1>0, <1>9 DEF FileOpFails, OwnKey, DownInv, IndexInv, ResolvedOnce
  <1>10. CASE Crash
    BY <1>0, <1>10 DEF Crash, Empty, OwnKey, DownInv, IndexInv, ResolvedOnce
  <1>11. CASE Restart
    <2>1. OwnKey' /\ DownInv'
      BY <1>11 DEF Restart, Restorable, OwnKey, DownInv
    <2>2. IndexInv'
      BY <1>11 DEF Restart, Restorable, IndexInv
    <2>3. ResolvedOnce'
      BY <1>11 DEF Restart, DownInv, ResolvedOnce
    <2> QED
      BY <1>0, <2>1, <2>2, <2>3
  <1>12. CASE UNCHANGED vars
    BY <1>0, <1>12 DEF vars, OwnKey, DownInv, IndexInv, ResolvedOnce
  <1> QED
    BY <1>1, <1>2, <1>3, <1>4, <1>5, <1>6, <1>7, <1>8, <1>9, <1>10, <1>11, <1>12 DEF Next

\* by_key and by_request_id are inverse to each other in every reachable
\* state, whatever interleaving of store operations, file operations, deaths
\* and restarts led there.
THEOREM IndexConsistent == Spec => []IndexInv
  <1>1. IInv => IndexInv
    BY DEF IInv
  <1> QED
    BY InitIInv, NextIInv, <1>1, PTL DEF Spec

\* A gate handed out by take_verified never becomes pending again in the same
\* process lifetime.
THEOREM ResolvedAtMostOnce == Spec => []ResolvedOnce
  <1>1. IInv => ResolvedOnce
    BY DEF IInv
  <1> QED
    BY InitIInv, NextIInv, <1>1, PTL DEF Spec

-----------------------------------------------------------------------------
(* The router *)

ThreadsOK ==
  /\ owned \subseteq Keys
  /\ thread \in [Keys -> ThreadState]
  /\ live \in [Keys -> {"none", "run", "paused"}]
  /\ watcher \in [Keys -> {"none", "await", "saving"}]
  /\ leases \subseteq Keys
GatesOK ==
  /\ info \in [Requests -> [kind : {"none", "approval", "auth", "fallback"}, output : {"none", "kept"}]]
  /\ ghost \in [ran : [Requests -> Nat], errors : 0..FileErrors, stale : BOOLEAN]

\* A handler that is under way knows its gate or its thread.
CallersOK ==
  /\ resolver \in [pc : {"idle", "taken", "resume", "start"}, req : Requests \cup {None},
                   answer : {"none", "approve", "deny", "credential", "cancel"}]
  /\ callback \in [pc : {"idle", "resume", "clear", "start"}, req : Requests \cup {None},
                   gone : Requests \cup {None}]
  /\ orphan \in [pc : {"idle", "peeked", "loaded"}, key : Keys \cup {None}]
  /\ resolver.pc # "idle" => resolver.req \in created
  /\ callback.pc # "idle" => callback.req \in created
  /\ orphan.pc # "idle" => orphan.key \in Keys

RTypeInv == IInv /\ ThreadsOK /\ GatesOK /\ CallersOK

\* A thread that runs, holds a lease or has met a gate was spawned, and is not
\* spawned again.
Begun ==
  /\ \A k \in Keys : live[k] # "none" \/ k \in leases => thread[k] # "Created"
  /\ \A r \in created : thread[KeyOf[r]] # "Created"

\* A dead process holds no lease and handles no answer.
Dead == ~up => leases = {} /\ resolver.pc = "idle"

\* The gate in the hands of an answer is not in the store.
InHand == resolver.pc = "taken" => \A k \in Keys : byKey[k] # resolver.req

\* A gate whose action was run is gone for good, unless its thread has lost its leases.
Spent(r) ==
  ghost.ran[r] # 0 =>
    /\ ghost.ran[r] = 1
    /\ r \in created
    /\ KeyOf[r] \in leases =>
         /\ \A k \in Keys : byKey[k] # r
         /\ ~(resolver.pc = "taken" /\ resolver.req = r)

OnceInv == Begun /\ Dead /\ InHand /\ \A r \in Requests : Spent(r)

\* The task of a thread and the stored thread agree.
TasksAgree ==
  \A k \in Keys : /\ live[k] = "run" => thread[k] = "Running"
                  /\ live[k] = "paused" => thread[k] = "Waiting"

\* An answer that has taken a gate and may yet raise the next one has its thread waiting.
AnswersWait ==
  resolver.pc = "taken" /\ info[resolver.req].kind # "fallback" =>
    thread[KeyOf[resolver.req]] = "Waiting"

GatesWait ==
  \A r \in Requests : Pending(r) /\ info[r].kind # "fallback" => thread[KeyOf[r]] = "Waiting"

Down ==
  ~up => /\ resolver.pc = "idle"
         /\ \A k \in Keys : byKey[k] = None /\ live[k] = "none"

Waits == TasksAgree /\ AnswersWait /\ GatesWait

WaitInv == Down /\ (~ghost.stale => Waits)

-----------------------------------------------------------------------------
(* What the router does to the store *)

\* The operations of the store that the router uses while the process is up, with what
\* the clock, the files and a death do.
StoreUse ==
  \/ \E r \in Requests : Insert(r) \/ InsertRefused(r) \/ Expire(r)
  \/ \E r \in Requests, k \in Keys, c \in Channels :
       TakeVerified(r, k, c) \/ TakeExpired(r, k, c)
  \/ \E k \in Keys : Discard(k)
  \/ \E o \in Ops : FileOp(o) \/ FileOpFails(o)
  \/ Crash

\* A step of the router is one of these or leaves the store alone, except the restart,
\* which also reconciles the restored gates with the threads.
LEMMA StoreStep == ASSUME RTypeInv, RNext PROVE [StoreUse]_vars \/ RRestart
  <1> USE GateAssumption
  <1>1. ASSUME NEW k \in Keys, NEW r \in Requests, TaskEndsAskingAuth(k, r) \/ StoreGate(k, r)
        PROVE  StoreUse
    BY <1>1 DEF TaskEndsAskingAuth, StoreGate, StoreUse
  <1>2. ASSUME NEW k \in Keys, NEW r \in Requests, NEW c \in Channels,
               Answer(k, r, c) \/ AnswerExpired(k, r, c)
        PROVE  StoreUse
    BY <1>2 DEF Answer, AnswerExpired, StoreUse
  <1>3. ASSUME NEW k \in Keys, Clear(k) PROVE StoreUse
    BY <1>3 DEF Clear, StoreUse
  <1>4. ASSUME NEW r \in Requests, ActionPauses(r) \/ RExpire(r) PROVE StoreUse
    BY <1>4 DEF ActionPauses, RExpire, StoreUse
  <1>5. ASSUME NEW o \in Ops, RFileOp(o) \/ RFileOpFails(o) PROVE StoreUse
    BY <1>5 DEF RFileOp, RFileOpFails, StoreUse
  <1>6. CASE RCrash
    BY <1>6 DEF RCrash, StoreUse
  <1>7. CASE CallbackDiscards
    <2>1. callback.req \in Requests
      BY <1>7 DEF CallbackDiscards, RTypeInv, CallersOK, IInv, TypeInv, TypeOK
    <2>2. KeyOf[callback.req] \in Keys
      BY <2>1
    <2> QED
      BY <1>7, <2>2 DEF CallbackDiscards, StoreUse
  <1>8. CASE \E k \in Keys : SpawnThread(k) \/ TaskEnds(k) \/ TaskPauses(k) \/ StoredGate(k)
                             \/ HandlerAborted(k) \/ OrphanPeek(k)
    BY <1>8 DEF SpawnThread, TaskEnds, TaskPauses, StoredGate, HandlerAborted, OrphanPeek
  <1>9. CASE Cancel \/ AnswerAborted \/ RetryMessage \/ ActionRuns \/ ActionFails
            \/ GoResume \/ ResumeLoads \/ Resume
    BY <1>9 DEF Cancel, AnswerAborted, RetryMessage, ActionRuns, ActionFails, GoResume, ResumeLoads, Resume
  <1>10. CASE CallbackLoads \/ CallbackResumes \/ OrphanLoads \/ OrphanFails
              \/ \E r \in Requests : CallbackLists(r)
    BY <1>10 DEF CallbackLoads, CallbackResumes, OrphanLoads, OrphanFails, CallbackLists
  <1> QED
    BY <1>1, <1>2, <1>3, <1>4, <1>5, <1>6, <1>7, <1>8, <1>9, <1>10 DEF RNext

LEMMA StoreUseNext == StoreUse => Next
  BY DEF StoreUse, Next

LEMMA RestartIInv == ASSUME IInv, RRestart PROVE IInv'
  <1> USE GateAssumption DEF IInv, TypeInv, TypeOK, Stored
  <1>1. KeptGates \subseteq Restorable /\ Restorable \subseteq Requests
    BY DEF KeptGates, Restorable
  <1>2. TypeOK'
    BY <1>1 DEF RRestart, Json
  <1>3. \A k \in Keys : /\ byKey'[k] # None => byKey'[k] \in Requests /\ byKey'[k] = file[k]
                        /\ file'[k] # None => file'[k] = file[k]
    BY <1>1 DEF RRestart
  <1>4. Stored'
    BY <1>3 DEF RRestart
  <1>5. OwnKey' /\ DownInv'
    BY <1>3 DEF RRestart, OwnKey, DownInv
  <1>6. ASSUME NEW r \in Requests, NEW k \in Keys PROVE byRequestId'[r] = k <=> byKey'[k] = r
    <2>1. r \in KeptGates => file[KeyOf[r]] = r
      BY <1>1 DEF Restorable
    <2>2. byRequestId'[r] = (IF r \in KeptGates THEN KeyOf[r] ELSE None)
      BY DEF RRestart
    <2>3. byKey'[k] = (IF file[k] \in KeptGates THEN file[k] ELSE None)
      BY DEF RRestart
    <2> QED
      BY <2>1, <2>2, <2>3
  <1>7. IndexInv'
    BY <1>6 DEF IndexInv
  <1>8. ResolvedOnce'
    BY DEF RRestart, DownInv, ResolvedOnce
  <1> QED
    BY <1>2, <1>4, <1>5, <1>7, <1>8

\* So the store keeps its promises under the router.
LEMMA RouterIInv == ASSUME RTypeInv, [RNext]_rvars PROVE IInv'
  <1>1. CASE RNext
    BY <1>1, StoreStep, StoreUseNext, NextIInv, RestartIInv DEF RTypeInv
  <1>2. CASE UNCHANGED rvars
    BY <1>2, NextIInv DEF RTypeInv, rvars
  <1> QED
    BY <1>1, <1>2

LEMMA CreatedGrows == ASSUME RTypeInv, [RNext]_rvars PROVE created \subseteq created'
  <1>1. CASE [StoreUse]_vars
    BY <1>1 DEF StoreUse, Insert, InsertRefused, Expire, TakeVerified, TakeExpired, Discard, FileOp,
                FileOpFails, Crash, vars
  <1>2. CASE RRestart
    BY <1>2 DEF RRestart
  <1>3. CASE UNCHANGED rvars
    BY <1>3 DEF rvars, vars
  <1> QED
    BY <1>1, <1>2, <1>3, StoreStep

-----------------------------------------------------------------------------
(* Types of the router *)

LEMMA RInitTypeInv == RInit => RTypeInv
  <1> SUFFICES ASSUME RInit PROVE RTypeInv
    OBVIOUS
  <1>1. IInv
    BY InitIInv DEF RInit
  <1>2. ThreadsOK /\ GatesOK
    BY RouterAssumption DEF RInit, ThreadsOK, GatesOK, NoGate, ThreadState
  <1>3. CallersOK
    BY DEF RInit, CallersOK, IdleResolver, IdleCallback, IdleOrphan
  <1> QED
    BY <1>1, <1>2, <1>3 DEF RTypeInv

LEMMA RecoveredType ==
  ASSUME NEW s \in ThreadState PROVE Recovered(s, FALSE) \in ThreadState
  BY DEF Recovered, IsTerminal, Transition, CanTransition, ThreadState

LEMMA ThreadsType == ASSUME RTypeInv, RNext PROVE ThreadsOK'
  <1> USE GateAssumption DEF ThreadState
  <1>0. /\ ThreadsOK /\ UNCHANGED owned
        /\ resolver.pc # "idle" => resolver.req \in Requests
        /\ callback.pc # "idle" => callback.req \in Requests
        /\ orphan.pc # "idle" => orphan.key \in Keys
    BY DEF RTypeInv, CallersOK, IInv, TypeInv, TypeOK, RNext
  <1>1. ASSUME NEW k \in Keys, SpawnThread(k) \/ TaskEnds(k) \/ TaskPauses(k) PROVE ThreadsOK'
    BY <1>0, <1>1 DEF SpawnThread, TaskEnds, TaskPauses, ThreadsOK
  <1>2. ASSUME NEW k \in Keys, StoredGate(k) \/ HandlerAborted(k) PROVE ThreadsOK'
    BY <1>0, <1>2 DEF StoredGate, HandlerAborted, ThreadsOK
  <1>3. ASSUME NEW k \in Keys, NEW r \in Requests, TaskEndsAskingAuth(k, r) \/ StoreGate(k, r)
        PROVE  ThreadsOK'
    BY <1>0, <1>3 DEF TaskEndsAskingAuth, StoreGate, Storing, ThreadsOK
  <1>4. ASSUME NEW r \in Requests, ActionPauses(r) PROVE ThreadsOK'
    BY <1>0, <1>4 DEF ActionPauses, RunsAction, Taken, Storing, ThreadsOK
  <1>5. CASE Resume
    BY <1>0, <1>5 DEF Resume, Resumed, ThreadsOK
  <1>6. CASE CallbackResumes
    BY <1>0, <1>6 DEF CallbackResumes, Resumed, ThreadsOK
  <1>7. CASE OrphanFails
    BY <1>0, <1>7 DEF OrphanFails, ThreadsOK
  <1>8. CASE RCrash
    BY <1>0, <1>8 DEF RCrash, ThreadsOK
  <1>9. CASE RRestart
    <2>1. \A k \in Keys : Recovered(thread[k], FALSE) \in ThreadState
      BY <1>0, RecoveredType DEF ThreadsOK
    <2>2. \A k \in Keys : RecoveredThreads[k] \in ThreadState
      BY <1>0, <2>1 DEF RecoveredThreads, ThreadsOK
    <2>3. thread' \in [Keys -> ThreadState]
      BY <1>9, <2>2 DEF RRestart
    <2> QED
      BY <1>0, <1>9, <2>3 DEF RRestart, ThreadsOK
  <1>10. CASE UNCHANGED <<thread, live, watcher, leases>>
    BY <1>0, <1>10 DEF ThreadsOK
  <1>11. ASSUME NEW k \in Keys, Clear(k) \/ OrphanPeek(k) PROVE ThreadsOK'
    BY <1>10, <1>11 DEF Clear, OrphanPeek, router
  <1>12. ASSUME NEW k \in Keys, NEW r \in Requests, NEW c \in Channels,
                Answer(k, r, c) \/ AnswerExpired(k, r, c)
         PROVE  ThreadsOK'
    BY <1>10, <1>12 DEF Answer, AnswerExpired, router
  <1>13. CASE Cancel \/ AnswerAborted \/ RetryMessage \/ ActionRuns \/ ActionFails \/ GoResume \/ ResumeLoads
    BY <1>10, <1>13 DEF Cancel, AnswerAborted, RetryMessage, ActionRuns, ActionFails, GoResume, ResumeLoads
  <1>14. ASSUME NEW r \in Requests, CallbackLists(r) \/ RExpire(r) PROVE ThreadsOK'
    BY <1>10, <1>14 DEF CallbackLists, RExpire, router
  <1>15. CASE CallbackDiscards \/ CallbackLoads \/ OrphanLoads
    BY <1>10, <1>15 DEF CallbackDiscards, CallbackLoads, OrphanLoads
  <1>16. ASSUME NEW o \in Ops, RFileOp(o) \/ RFileOpFails(o) PROVE ThreadsOK'
    BY <1>10, <1>16 DEF RFileOp, RFileOpFails, router
  <1> QED
    BY <1>1, <1>2, <1>3, <1>4, <1>5, <1>6, <1>7, <1>8, <1>9, <1>11, <1>12, <1>13, <1>14, <1>15,
       <1>16 DEF RNext

LEMMA GatesType == ASSUME RTypeInv, RNext PROVE GatesOK'
  <1> USE GateAssumption, RouterAssumption
  <1>0. /\ GatesOK
        /\ resolver.pc # "idle" => resolver.req \in Requests
    BY DEF RTypeInv, CallersOK, IInv, TypeInv, TypeOK
  <1>1. ASSUME NEW k \in Keys, NEW r \in Requests, TaskEndsAskingAuth(k, r) \/ StoreGate(k, r)
        PROVE  GatesOK'
    BY <1>0, <1>1 DEF TaskEndsAskingAuth, StoreGate, GatesOK
  <1>2. ASSUME NEW r \in Requests, ActionPauses(r) PROVE GatesOK'
    <2>1. resolver.req \in Requests
      BY <1>0, <1>2 DEF ActionPauses, RunsAction, Taken
    <2>2. PICK output \in {"none", "kept"} :
            ghost' = [ghost EXCEPT !.ran[resolver.req] = IF output = "kept" THEN @ + 1 ELSE @]
      BY <1>2 DEF ActionPauses
    <2>3. ghost'.ran \in [Requests -> Nat] /\ ghost' = [ghost EXCEPT !.ran = ghost'.ran]
      BY <1>0, <2>1, <2>2 DEF GatesOK
    <2>4. ghost' \in [ran : [Requests -> Nat], errors : 0..FileErrors, stale : BOOLEAN]
      BY <1>0, <2>3 DEF GatesOK
    <2>5. PICK kind \in {"approval", "auth"}, out \in {"none", "kept"} :
            info' = [info EXCEPT ![r] = [kind |-> kind, output |-> out]]
      BY <1>2 DEF ActionPauses
    <2> QED
      BY <1>0, <2>4, <2>5 DEF GatesOK
  <1>3. CASE ActionRuns
    <2>1. resolver.req \in Requests
      BY <1>0, <1>3 DEF ActionRuns, RunsAction, Taken
    <2> QED
      BY <1>0, <1>3, <2>1 DEF ActionRuns, GatesOK
  <1>4. ASSUME NEW o \in Ops, RFileOpFails(o) PROVE GatesOK'
    BY <1>0, <1>4 DEF RFileOpFails, GatesOK
  <1>5. CASE UNCHANGED <<info, ghost>>
    BY <1>0, <1>5 DEF GatesOK
  <1>6. ASSUME NEW k \in Keys, SpawnThread(k) \/ TaskEnds(k) \/ TaskPauses(k) \/ StoredGate(k)
                               \/ HandlerAborted(k) \/ Clear(k) \/ OrphanPeek(k)
        PROVE  GatesOK'
    BY <1>5, <1>6 DEF SpawnThread, TaskEnds, TaskPauses, StoredGate, HandlerAborted, Clear,
                      OrphanPeek, router
  <1>7. ASSUME NEW k \in Keys, NEW r \in Requests, NEW c \in Channels,
               Answer(k, r, c) \/ AnswerExpired(k, r, c)
        PROVE  GatesOK'
    BY <1>5, <1>7 DEF Answer, AnswerExpired, router
  <1>8. CASE Cancel \/ AnswerAborted \/ RetryMessage \/ ActionFails \/ GoResume \/ ResumeLoads
    BY <1>5, <1>8 DEF Cancel, AnswerAborted, RetryMessage, ActionFails, GoResume, ResumeLoads
  <1>13. CASE Resume \/ CallbackResumes \/ OrphanFails
    <2>1. PICK k : SavesWhatItLoaded(k)
      BY <1>13 DEF Resume, CallbackResumes, OrphanFails, Resumed
    <2>2. (ghost.stale \/ ~Untouched(k)) \in BOOLEAN
      BY <1>0 DEF GatesOK
    <2>3. ghost' \in [ran : [Requests -> Nat], errors : 0..FileErrors, stale : BOOLEAN]
      BY <1>0, <2>1, <2>2 DEF GatesOK, SavesWhatItLoaded
    <2> QED
      BY <1>0, <1>13, <2>3 DEF GatesOK, Resume, CallbackResumes, OrphanFails
  <1>9. ASSUME NEW r \in Requests, CallbackLists(r) \/ RExpire(r) PROVE GatesOK'
    BY <1>5, <1>9 DEF CallbackLists, RExpire, router
  <1>10. CASE CallbackDiscards \/ CallbackLoads \/ OrphanLoads
    BY <1>5, <1>10 DEF CallbackDiscards, CallbackLoads, OrphanLoads
  <1>11. ASSUME NEW o \in Ops, RFileOp(o) PROVE GatesOK'
    BY <1>5, <1>11 DEF RFileOp, router
  <1>12. CASE RCrash \/ RRestart
    BY <1>5, <1>12 DEF RCrash, RRestart
  <1> QED
    BY <1>1, <1>2, <1>3, <1>4, <1>6, <1>7, <1>8, <1>9, <1>10, <1>11, <1>12, <1>13 DEF RNext

LEMMA CallersType == ASSUME RTypeInv, RNext PROVE CallersOK'
  <1> USE GateAssumption
  <1>0. /\ CallersOK /\ created \subseteq created'
        /\ created \subseteq Requests /\ byKey \in [Keys -> Requests \cup {None}]
        /\ \A k \in Keys : byKey[k] # None => byKey[k] \in created
    BY CreatedGrows DEF RTypeInv, IInv, TypeInv, TypeOK, Stored
  <1> USE <1>0 DEF CallersOK, IdleResolver, IdleCallback, IdleOrphan
  <1>1. CASE UNCHANGED <<resolver, callback, orphan>>
    BY <1>1
  <1>2. ASSUME NEW k \in Keys, SpawnThread(k) \/ TaskEnds(k) \/ TaskPauses(k) \/ StoredGate(k)
                               \/ HandlerAborted(k) \/ Clear(k)
        PROVE  CallersOK'
    BY <1>1, <1>2 DEF SpawnThread, TaskEnds, TaskPauses, StoredGate, HandlerAborted, Clear, router
  <1>3. ASSUME NEW k \in Keys, OrphanPeek(k) PROVE CallersOK'
    BY <1>3 DEF OrphanPeek
  <1>4. ASSUME NEW k \in Keys, NEW r \in Requests, TaskEndsAskingAuth(k, r) \/ StoreGate(k, r)
        PROVE  CallersOK'
    BY <1>1, <1>4 DEF TaskEndsAskingAuth, StoreGate
  <1>5. ASSUME NEW k \in Keys, NEW r \in Requests, NEW c \in Channels, Answer(k, r, c)
        PROVE  CallersOK'
    BY <1>5 DEF Answer, Answers, TakeVerified, Presented
  <1>6. ASSUME NEW k \in Keys, NEW r \in Requests, NEW c \in Channels, AnswerExpired(k, r, c)
        PROVE  CallersOK'
    BY <1>1, <1>6 DEF AnswerExpired, router
  <1>7. CASE Cancel \/ AnswerAborted \/ RetryMessage \/ ActionFails \/ Resume
    BY <1>7 DEF Cancel, AnswerAborted, RetryMessage, ActionFails, Resume
  <1>8. CASE ActionRuns \/ GoResume
    BY <1>8 DEF ActionRuns, GoResume, RunsAction, Taken
  <1>9. CASE ResumeLoads
    BY <1>9 DEF ResumeLoads
  <1>10. ASSUME NEW r \in Requests, ActionPauses(r) PROVE CallersOK'
    BY <1>10 DEF ActionPauses
  <1>11. ASSUME NEW r \in Requests, CallbackLists(r) PROVE CallersOK'
    BY <1>11 DEF CallbackLists, Pending
  <1>12. ASSUME NEW r \in Requests, RExpire(r) PROVE CallersOK'
    BY <1>1, <1>12 DEF RExpire, router
  <1>13. CASE CallbackDiscards
    <2>1. KeyOf[callback.req] \in Keys /\ byKey[KeyOf[callback.req]] \in Requests \cup {None}
      BY <1>13 DEF CallbackDiscards
    <2> QED
      BY <1>13, <2>1 DEF CallbackDiscards
  <1>14. CASE CallbackLoads
    BY <1>14 DEF CallbackLoads
  <1>15. CASE CallbackResumes
    BY <1>15 DEF CallbackResumes
  <1>16. CASE OrphanLoads \/ OrphanFails
    BY <1>16 DEF OrphanLoads, OrphanFails
  <1>17. ASSUME NEW o \in Ops, RFileOp(o) PROVE CallersOK'
    BY <1>1, <1>17 DEF RFileOp, router
  <1>18. ASSUME NEW o \in Ops, RFileOpFails(o) PROVE CallersOK'
    BY <1>18 DEF RFileOpFails
  <1>19. CASE RCrash
    BY <1>19 DEF RCrash
  <1>20. CASE RRestart
    BY <1>1, <1>20 DEF RRestart
  <1> QED
    BY <1>2, <1>3, <1>4, <1>5, <1>6, <1>7, <1>8, <1>9, <1>10, <1>11, <1>12, <1>13, <1>14, <1>15,
       <1>16, <1>17, <1>18, <1>19, <1>20 DEF RNext

LEMMA RNextTypeInv == RTypeInv /\ [RNext]_rvars => RTypeInv'
  <1> SUFFICES ASSUME RTypeInv, [RNext]_rvars PROVE RTypeInv'
    OBVIOUS
  <1>1. IInv'
    BY RouterIInv
  <1>2. CASE RNext
    BY <1>1, <1>2, ThreadsType, GatesType, CallersType DEF RTypeInv
  <1>3. CASE UNCHANGED rvars
    BY <1>1, <1>3 DEF rvars, vars, router, RTypeInv, ThreadsOK, GatesOK, CallersOK
  <1> QED
    BY <1>2, <1>3

\* The router is type correct in every reachable state.
THEOREM RouterTypeCorrect == RSpec => []RTypeOK
  <1>1. RTypeInv => RTypeOK
    BY DEF RTypeInv, IInv, TypeInv, ThreadsOK, GatesOK, CallersOK, RTypeOK
  <1> QED
    BY <1>1, RInitTypeInv, RNextTypeInv, PTL DEF RSpec

\* Under the router, whose restart drops and fails more than restore_from_persistence
\* does, the store keeps what was proved of it alone: its indices are inverse, and a gate
\* that take_verified handed out is not pending again in the same process lifetime.
THEOREM RouterKeepsStore == RSpec => [](IndexInv /\ ResolvedOnce)
  <1>1. RTypeInv => IndexInv /\ ResolvedOnce
    BY DEF RTypeInv, IInv
  <1> QED
    BY <1>1, RInitTypeInv, RNextTypeInv, PTL DEF RSpec

-----------------------------------------------------------------------------
(* Actions run once *)

\* The store gets back a gate only from the file: else what is new in it is new.
LEMMA NewGates ==
  ASSUME RTypeInv, [StoreUse]_vars, NEW k \in Keys
  PROVE  byKey'[k] \in {byKey[k], None} \/ byKey'[k] \in Requests \ created
  <1> USE GateAssumption DEF RTypeInv, IInv, TypeInv, TypeOK
  <1>1. ASSUME NEW r \in Requests, Insert(r) PROVE byKey'[k] = byKey[k] \/ byKey'[k] \in Requests \ created
    BY <1>1 DEF Insert, Add
  <1>2. ASSUME NEW R, Drop(R) PROVE byKey'[k] \in {byKey[k], None}
    BY <1>2 DEF Drop
  <1>3. ASSUME NEW r \in Requests, NEW l \in Keys, NEW c \in Channels,
               TakeVerified(r, l, c) \/ TakeExpired(r, l, c)
        PROVE  byKey'[k] \in {byKey[k], None}
    BY <1>2, <1>3 DEF TakeVerified, TakeExpired
  <1>4. ASSUME NEW l \in Keys, Discard(l) PROVE byKey'[k] \in {byKey[k], None}
    BY <1>2, <1>4 DEF Discard
  <1>5. CASE Crash
    BY <1>5 DEF Crash, Empty
  <1>6. CASE UNCHANGED byKey
    BY <1>6
  <1>7. ASSUME NEW r \in Requests, InsertRefused(r) \/ Expire(r) PROVE UNCHANGED byKey
    BY <1>7 DEF InsertRefused, Expire
  <1>8. ASSUME NEW o \in Ops, FileOp(o) \/ FileOpFails(o) PROVE UNCHANGED byKey
    BY <1>8 DEF FileOp, FileOpFails
  <1>9. CASE UNCHANGED vars
    BY <1>6, <1>9 DEF vars
  <1> QED
    BY <1>1, <1>3, <1>4, <1>5, <1>6, <1>7, <1>8, <1>9 DEF StoreUse

\* New gates are those of threads that run or have a lease.
LEMMA NewCreated ==
  ASSUME RTypeInv, RNext, NEW r \in created' \ created
  PROVE  KeyOf[r] \in Keys /\ (live[KeyOf[r]] # "none" \/ KeyOf[r] \in leases)
  <1> USE GateAssumption
  <1>1. ASSUME NEW q \in Requests, Insert(q) \/ InsertRefused(q) PROVE r = q
    BY <1>1 DEF Insert, InsertRefused
  <1>2. ASSUME NEW k \in Keys, NEW q \in Requests, TaskEndsAskingAuth(k, q) \/ StoreGate(k, q)
        PROVE  r \in Requests /\ live[KeyOf[r]] # "none"
    BY <1>1, <1>2 DEF TaskEndsAskingAuth, StoreGate
  <1>3. ASSUME NEW q \in Requests, ActionPauses(q) PROVE r \in Requests /\ KeyOf[r] \in leases
    BY <1>1, <1>3 DEF ActionPauses
  <1>4. ~UNCHANGED created
    OBVIOUS
  <1>5. CASE \E k \in Keys : SpawnThread(k) \/ TaskEnds(k) \/ TaskPauses(k) \/ StoredGate(k)
                             \/ HandlerAborted(k) \/ Clear(k) \/ OrphanPeek(k)
    BY <1>4, <1>5 DEF SpawnThread, TaskEnds, TaskPauses, StoredGate, HandlerAborted, OrphanPeek, vars,
                      Clear, Discard
  <1>6. CASE \E k \in Keys, q \in Requests, c \in Channels : Answer(k, q, c) \/ AnswerExpired(k, q, c)
    BY <1>4, <1>6 DEF Answer, AnswerExpired, TakeVerified, TakeExpired
  <1>7. CASE Cancel \/ AnswerAborted \/ RetryMessage \/ ActionRuns \/ ActionFails
            \/ GoResume \/ ResumeLoads \/ Resume
    BY <1>4, <1>7 DEF Cancel, AnswerAborted, RetryMessage, ActionRuns, ActionFails, GoResume,
              ResumeLoads, Resume, vars
  <1>8. CASE CallbackDiscards \/ CallbackLoads \/ CallbackResumes \/ OrphanLoads \/ OrphanFails
             \/ \E q \in Requests : CallbackLists(q) \/ RExpire(q)
    BY <1>4, <1>8 DEF CallbackDiscards, Discard, CallbackLoads, CallbackResumes, OrphanLoads,
                      OrphanFails, CallbackLists, RExpire, Expire, vars
  <1>9. CASE RCrash \/ RRestart \/ \E o \in Ops : RFileOp(o) \/ RFileOpFails(o)
    BY <1>4, <1>9 DEF RCrash, Crash, RRestart, RFileOp, RFileOpFails, FileOp, FileOpFails
  <1> QED
    BY <1>2, <1>3, <1>5, <1>6, <1>7, <1>8, <1>9 DEF RNext

LEMMA RecoveredBegun ==
  ASSUME NEW s \in ThreadState, s # "Created" PROVE Recovered(s, FALSE) # "Created"
  BY DEF Recovered, IsTerminal, Transition, CanTransition, ThreadState

\* A thread that has begun stays so; only a new thread gets leases; what runs has begun.
LEMMA ThreadSteps ==
  ASSUME RTypeInv, RNext, NEW k \in Keys
  PROVE  /\ thread[k] # "Created" => thread'[k] # "Created"
         /\ live'[k] # "none" => live[k] # "none" \/ thread'[k] # "Created"
         /\ k \in leases' => k \in leases \/ (thread[k] = "Created" /\ thread'[k] # "Created")
  <1> USE GateAssumption
  <1> DEFINE Goal == /\ thread[k] # "Created" => thread'[k] # "Created"
                     /\ live'[k] # "none" => live[k] # "none" \/ thread'[k] # "Created"
                     /\ k \in leases' => k \in leases \/ (thread[k] = "Created" /\ thread'[k] # "Created")
  <1>0. /\ thread \in [Keys -> ThreadState] /\ live \in [Keys -> {"none", "run", "paused"}]
        /\ resolver.pc # "idle" => resolver.req \in Requests
        /\ callback.pc # "idle" => callback.req \in Requests
        /\ orphan.pc # "idle" => orphan.key \in Keys
    BY DEF RTypeInv, ThreadsOK, CallersOK, IInv, TypeInv, TypeOK
  <1>1. ASSUME NEW l \in Keys, SpawnThread(l) \/ TaskEnds(l) \/ TaskPauses(l) PROVE Goal
    BY <1>0, <1>1 DEF SpawnThread, TaskEnds, TaskPauses
  <1>2. ASSUME NEW l \in Keys, NEW r \in Requests, TaskEndsAskingAuth(l, r) \/ StoreGate(l, r)
        PROVE  Goal
    BY <1>0, <1>2 DEF TaskEndsAskingAuth, StoreGate
  <1>3. CASE Resume \/ CallbackResumes
    BY <1>0, <1>3 DEF Resume, CallbackResumes, Resumed
  <1>4. CASE OrphanFails
    BY <1>0, <1>4 DEF OrphanFails
  <1>5. CASE RRestart
    <2>1. thread[k] # "Created" => RecoveredThreads[k] # "Created"
      BY <1>0, RecoveredBegun DEF RecoveredThreads
    <2> QED
      BY <1>5, <2>1 DEF RRestart
  <1>6. CASE RCrash
    BY <1>6 DEF RCrash
  <1>7. ASSUME NEW l \in Keys, HandlerAborted(l) PROVE Goal
    BY <1>0, <1>7 DEF HandlerAborted
  <1>8. CASE UNCHANGED <<thread, live, leases>>
    BY <1>8
  <1>9. CASE \E l \in Keys : StoredGate(l) \/ Clear(l) \/ OrphanPeek(l)
    BY <1>8, <1>9 DEF StoredGate, Clear, OrphanPeek, router
  <1>10. CASE \E l \in Keys, r \in Requests, c \in Channels : Answer(l, r, c) \/ AnswerExpired(l, r, c)
    BY <1>8, <1>10 DEF Answer, AnswerExpired, router
  <1>11. CASE Cancel \/ AnswerAborted \/ RetryMessage \/ ActionRuns \/ ActionFails \/ GoResume \/ ResumeLoads
    BY <1>8, <1>11 DEF Cancel, AnswerAborted, RetryMessage, ActionRuns, ActionFails, GoResume, ResumeLoads
  <1>12. CASE CallbackDiscards \/ CallbackLoads \/ OrphanLoads
              \/ \E r \in Requests : ActionPauses(r) \/ CallbackLists(r) \/ RExpire(r)
    BY <1>8, <1>12 DEF CallbackDiscards, CallbackLoads, OrphanLoads, ActionPauses, CallbackLists,
                       RExpire, router
  <1>13. CASE \E o \in Ops : RFileOp(o) \/ RFileOpFails(o)
    BY <1>8, <1>13 DEF RFileOp, RFileOpFails, router
  <1> QED
    BY <1>1, <1>2, <1>3, <1>4, <1>5, <1>6, <1>7, <1>9, <1>10, <1>11, <1>12, <1>13 DEF RNext

\* An answer gets a gate from the store, which loses it; a gate's action is run by the
\* answer that has it, once; a dying process drops both answer and leases.
AnswerStep ==
  /\ resolver'.pc = "taken" =>
       \/ resolver' = resolver
       \/ /\ \E k \in Keys : byKey[k] = resolver'.req
          /\ \A k \in Keys : byKey'[k] # resolver'.req
  /\ \A r \in Requests :
       \/ ghost'.ran[r] = ghost.ran[r]
       \/ /\ resolver.pc = "taken" /\ r = resolver.req /\ KeyOf[r] \in leases
          /\ ghost'.ran[r] = ghost.ran[r] + 1
          /\ resolver'.pc # "taken"
  /\ ~up' => \/ leases' = {} /\ resolver'.pc = "idle"
             \/ UNCHANGED <<up, leases, resolver>>

LEMMA AnswerSteps == ASSUME RTypeInv, RNext PROVE AnswerStep
  <1> USE GateAssumption DEF IdleResolver
  <1>0. /\ ghost \in [ran : [Requests -> Nat], errors : 0..FileErrors, stale : BOOLEAN] /\ up \in BOOLEAN
        /\ resolver \in [pc : {"idle", "taken", "resume", "start"}, req : Requests \cup {None},
                         answer : {"none", "approve", "deny", "credential", "cancel"}]
        /\ resolver.pc # "idle" => resolver.req \in Requests
    BY DEF RTypeInv, GatesOK, CallersOK, IInv, TypeInv, TypeOK
  <1>1. ASSUME NEW k \in Keys, NEW r \in Requests, NEW c \in Channels, Answer(k, r, c)
        PROVE  AnswerStep
    <2>1. byKey[k] = r /\ resolver'.req = r /\ Drop({r}) /\ UNCHANGED <<up, ghost>> /\ up
      BY <1>1 DEF Answer, TakeVerified, Presented
    <2>2. \A l \in Keys : byKey'[l] # r
      BY <2>1 DEF Drop
    <2> QED
      BY <2>1, <2>2 DEF AnswerStep
  <1>2. CASE ActionRuns
    <2>1. /\ resolver.pc = "taken" /\ KeyOf[resolver.req] \in leases /\ resolver.req \in Requests
          /\ resolver'.pc = "resume" /\ up /\ UNCHANGED up
      BY <1>0, <1>2 DEF ActionRuns, RunsAction, Taken, vars
    <2>2. \A r \in Requests : ghost'.ran[r] = IF r = resolver.req THEN ghost.ran[r] + 1 ELSE ghost.ran[r]
      BY <1>0, <1>2, <2>1 DEF ActionRuns
    <2> QED
      BY <2>1, <2>2 DEF AnswerStep
  <1>3. ASSUME NEW q \in Requests, ActionPauses(q) PROVE AnswerStep
    <2>1. /\ resolver.pc = "taken" /\ KeyOf[resolver.req] \in leases /\ resolver.req \in Requests
          /\ resolver'.pc = "idle" /\ up /\ UNCHANGED up
      BY <1>0, <1>3 DEF ActionPauses, RunsAction, Taken, Insert, InsertRefused
    <2>2. PICK output \in {"none", "kept"} :
            ghost' = [ghost EXCEPT !.ran[resolver.req] = IF output = "kept" THEN @ + 1 ELSE @]
      BY <1>3 DEF ActionPauses
    <2>3. \A r \in Requests :
            ghost'.ran[r] = IF r = resolver.req /\ output = "kept" THEN ghost.ran[r] + 1 ELSE ghost.ran[r]
      BY <1>0, <2>1, <2>2
    <2> QED
      BY <2>1, <2>3 DEF AnswerStep
  <1>4. ASSUME NEW o \in Ops, RFileOpFails(o) PROVE AnswerStep
    <2>1. ghost'.ran = ghost.ran /\ up /\ UNCHANGED <<up, resolver>>
      BY <1>0, <1>4 DEF RFileOpFails, FileOpFails
    <2> QED
      BY <2>1 DEF AnswerStep
  <1>5. CASE RCrash
    BY <1>5 DEF RCrash, AnswerStep
  <1>6. CASE ghost'.ran = ghost.ran /\ up' /\ (resolver'.pc # "taken" \/ UNCHANGED resolver)
    BY <1>6 DEF AnswerStep
  <1>7. CASE UNCHANGED <<ghost, up, leases, resolver>>
    BY <1>7 DEF AnswerStep
  <1>8. CASE \E k \in Keys : SpawnThread(k) \/ TaskEnds(k) \/ TaskPauses(k) \/ HandlerAborted(k)
                             \/ Clear(k) \/ OrphanPeek(k)
    BY <1>6, <1>8 DEF SpawnThread, TaskEnds, TaskPauses, HandlerAborted, Clear, Discard, OrphanPeek,
                      router, vars
  <1>9. CASE \E k \in Keys : StoredGate(k)
    BY <1>7, <1>9 DEF StoredGate, vars
  <1>10. CASE \E k \in Keys, r \in Requests : TaskEndsAskingAuth(k, r) \/ StoreGate(k, r)
    BY <1>6, <1>10 DEF TaskEndsAskingAuth, StoreGate, Insert, InsertRefused
  <1>11. CASE \E k \in Keys, r \in Requests, c \in Channels : AnswerExpired(k, r, c)
    BY <1>6, <1>11 DEF AnswerExpired, TakeExpired, router
  <1>12. CASE Cancel \/ AnswerAborted \/ RetryMessage \/ ActionFails \/ GoResume
    BY <1>0, <1>6, <1>12 DEF Cancel, AnswerAborted, RetryMessage, ActionFails, GoResume, RunsAction,
              Taken, vars
  <1>13. CASE ResumeLoads
    BY <1>0, <1>6, <1>13 DEF ResumeLoads, vars
  <1>18. CASE Resume \/ CallbackResumes \/ OrphanFails
    <2>1. ghost'.ran = ghost.ran
      BY <1>0, <1>18 DEF Resume, CallbackResumes, OrphanFails, Resumed, SavesWhatItLoaded
    <2> QED
      BY <1>6, <1>18, <2>1 DEF Resume, CallbackResumes, OrphanFails, vars
  <1>14. CASE \E r \in Requests : CallbackLists(r)
    BY <1>7, <1>14 DEF CallbackLists, vars
  <1>15. CASE \E r \in Requests : RExpire(r)
    BY <1>7, <1>15 DEF RExpire, Expire, router
  <1>16. CASE CallbackDiscards \/ CallbackLoads \/ OrphanLoads
    BY <1>6, <1>16 DEF CallbackDiscards, Discard, CallbackLoads, OrphanLoads, vars
  <1>17. CASE (\E o \in Ops : RFileOp(o)) \/ RRestart
    BY <1>6, <1>17 DEF RFileOp, FileOp, router, RRestart
  <1> QED
    BY <1>1, <1>2, <1>3, <1>4, <1>5, <1>8, <1>9, <1>10, <1>11, <1>12, <1>13, <1>14, <1>15, <1>16,
       <1>17, <1>18 DEF RNext

LEMMA RInitOnceInv == RInit => OnceInv
  BY DEF RInit, Init, OnceInv, Begun, Dead, InHand, Spent, IdleResolver

LEMMA RNextOnceInv == RTypeInv /\ OnceInv /\ [RNext]_rvars => OnceInv'
  <1> SUFFICES ASSUME RTypeInv, OnceInv, RNext PROVE OnceInv'
    BY DEF rvars, vars, router, OnceInv, Begun, Dead, InHand, Spent
  <1> USE GateAssumption
  <1>0. AnswerStep /\ RTypeInv'
    BY AnswerSteps, RNextTypeInv
  <1>1. /\ created \subseteq Requests /\ created \subseteq created' /\ created' \subseteq Requests
        /\ \A k \in Keys : byKey[k] # None => byKey[k] \in created
    BY <1>0, CreatedGrows DEF RTypeInv, IInv, TypeInv, TypeOK, Stored
  <1>2. Begun'
    <2>1. ASSUME NEW k \in Keys, live'[k] # "none" \/ k \in leases' PROVE thread'[k] # "Created"
      BY <2>1, ThreadSteps DEF OnceInv, Begun
    <2>2. ASSUME NEW r \in created' PROVE thread'[KeyOf[r]] # "Created"
      <3>1. KeyOf[r] \in Keys /\ thread[KeyOf[r]] # "Created"
        BY <1>1, <2>2, NewCreated DEF OnceInv, Begun
      <3> QED
        BY <3>1, ThreadSteps
    <2> QED
      BY <2>1, <2>2 DEF Begun
  <1>3. Dead'
    BY <1>0 DEF AnswerStep, OnceInv, Dead
  <1>4. CASE RRestart
    <2>1. leases = {} /\ leases' = {} /\ resolver.pc = "idle" /\ resolver' = resolver /\ ghost' = ghost
      BY <1>4 DEF RRestart, OnceInv, Dead
    <2> QED
      BY <1>1, <1>2, <1>3, <2>1 DEF OnceInv, InHand, Spent
  <1>5. CASE [StoreUse]_vars
    <2>1. \A k \in Keys : byKey'[k] \in {byKey[k], None} \/ byKey'[k] \notin created
      BY <1>5, NewGates
    <2>2. InHand'
      <3> SUFFICES ASSUME resolver'.pc = "taken", resolver' = resolver
                   PROVE  \A k \in Keys : byKey'[k] # resolver'.req
        BY <1>0 DEF AnswerStep, InHand
      <3>1. resolver.req \in created /\ \A k \in Keys : byKey[k] # resolver.req
        BY DEF OnceInv, InHand, RTypeInv, CallersOK
      <3> QED
        BY <1>1, <2>1, <3>1
    <2>3. ASSUME NEW r \in Requests PROVE Spent(r)'
      <3>1. Spent(r)
        BY DEF OnceInv
      <3>2. CASE ghost'.ran[r] = ghost.ran[r]
        <4> SUFFICES ASSUME ghost.ran[r] # 0, KeyOf[r] \in leases'
                     PROVE  /\ \A k \in Keys : byKey'[k] # r
                            /\ ~(resolver'.pc = "taken" /\ resolver'.req = r)
          BY <1>1, <3>1, <3>2 DEF Spent
        <4>1. ghost.ran[r] = 1 /\ r \in created /\ thread[KeyOf[r]] # "Created" /\ KeyOf[r] \in Keys
          BY <3>1 DEF Spent, OnceInv, Begun
        <4>2. KeyOf[r] \in leases
          BY <4>1, ThreadSteps
        <4>3. (\A k \in Keys : byKey[k] # r) /\ ~(resolver.pc = "taken" /\ resolver.req = r)
          BY <3>1, <4>2 DEF Spent
        <4>4. \A k \in Keys : byKey'[k] # r
          BY <2>1, <4>1, <4>3
        <4>5. ~(resolver'.pc = "taken" /\ resolver'.req = r)
          BY <1>0, <4>3 DEF AnswerStep
        <4> QED
          BY <4>4, <4>5
      <3>3. CASE ghost'.ran[r] # ghost.ran[r]
        <4>1. /\ resolver.pc = "taken" /\ r = resolver.req /\ KeyOf[r] \in leases
              /\ ghost'.ran[r] = ghost.ran[r] + 1 /\ resolver'.pc # "taken"
          BY <1>0, <3>3 DEF AnswerStep
        <4>2. ghost.ran[r] = 0
          BY <3>1, <4>1 DEF Spent
        <4>3. r \in created /\ \A k \in Keys : byKey[k] # r
          BY <4>1 DEF OnceInv, InHand, RTypeInv, CallersOK
        <4>4. \A k \in Keys : byKey'[k] # r
          BY <2>1, <4>3
        <4> QED
          BY <1>1, <4>1, <4>2, <4>3, <4>4 DEF Spent
      <3> QED
        BY <3>2, <3>3
    <2> QED
      BY <1>2, <1>3, <2>2, <2>3 DEF OnceInv
  <1> QED
    BY <1>4, <1>5, StoreStep

\* ActionRunsOnce holds in every reachable state, whether messages overlap or not: a gate
\* may come back from the file after a crash, but the leases its action needs are gone
\* and are given only to new threads.
THEOREM ActionsRunOnce == RSpec => []ActionRunsOnce
  <1>1. RTypeInv /\ OnceInv => ActionRunsOnce
    BY DEF RTypeInv, GatesOK, OnceInv, Spent, ActionRunsOnce
  <1> QED
    BY <1>1, RInitTypeInv, RNextTypeInv, RInitOnceInv, RNextOnceInv, PTL DEF RSpec

-----------------------------------------------------------------------------
(* Gates and waiting threads *)

LEMMA RInitWaitInv == RInit => WaitInv
  BY GateAssumption
  DEF RInit, Init, Empty, WaitInv, Waits, TasksAgree, AnswersWait, GatesWait, Down, Pending,
      IdleResolver

\* What the proofs below use of the types and of OnceInv.
Facts ==
  /\ byKey \in [Keys -> Requests \cup {None}]
  /\ \A k \in Keys : byKey[k] # None => byKey[k] \in created /\ KeyOf[byKey[k]] = k
  /\ created \subseteq Requests /\ up \in BOOLEAN
  /\ thread \in [Keys -> ThreadState]
  /\ live \in [Keys -> {"none", "run", "paused"}]
  /\ info \in [Requests -> [kind : {"none", "approval", "auth", "fallback"}, output : {"none", "kept"}]]
  /\ resolver \in [pc : {"idle", "taken", "resume", "start"}, req : Requests \cup {None},
                   answer : {"none", "approve", "deny", "credential", "cancel"}]
  /\ resolver.pc # "idle" => resolver.req \in created
  /\ callback.pc # "idle" => callback.req \in created
  /\ orphan.pc # "idle" => orphan.key \in Keys
  /\ \A r \in created : thread[KeyOf[r]] # "Created"
  /\ ghost \in [ran : [Requests -> Nat], errors : 0..FileErrors, stale : BOOLEAN]

LEMMA FactsHold == RTypeInv /\ OnceInv => Facts
  BY GateAssumption
  DEF RTypeInv, IInv, TypeInv, TypeOK, Stored, OwnKey, ThreadsOK, GatesOK, CallersOK, OnceInv, Begun,
      Facts

\* Threads and gates are left alone; gates may go or expire, an answer may go on and the
\* handler of an outcome may vanish.
LEMMA FewerGates ==
  ASSUME WaitInv, Facts, \A k \in Keys : byKey'[k] \in {byKey[k], None}, expired \subseteq expired',
         \A k \in Keys : live'[k] \in {live[k], "none"}, UNCHANGED <<thread, info, up>>,
         ghost'.stale = ghost.stale,
         UNCHANGED resolver \/ (up /\ resolver'.pc # "taken")
  PROVE  WaitInv'
  <1>1. Down'
    BY DEF WaitInv, Down
  <1>2. Waits => Waits'
    <2> SUFFICES ASSUME Waits PROVE Waits'
      OBVIOUS
    <2>1. TasksAgree' /\ AnswersWait'
      BY DEF Waits, TasksAgree, AnswersWait
    <2>2. ASSUME NEW r \in Requests, Pending(r)' PROVE Pending(r)
      BY <2>2, GateAssumption DEF Pending
    <2> QED
      BY <2>1, <2>2 DEF Waits, GatesWait
  <1> QED
    BY <1>1, <1>2 DEF WaitInv

LEMMA DropFewer ==
  ASSUME Facts, NEW R, Drop(R) PROVE \A k \in Keys : byKey'[k] \in {byKey[k], None}
  BY DEF Drop, Facts

LEMMA WaitQuietSteps ==
  ASSUME WaitInv, Facts
  PROVE  /\ \A k \in Keys : StoredGate(k) \/ HandlerAborted(k) \/ Clear(k) \/ OrphanPeek(k) => WaitInv'
         /\ \A k \in Keys, r \in Requests, c \in Channels : AnswerExpired(k, r, c) => WaitInv'
         /\ Cancel \/ AnswerAborted \/ RetryMessage \/ ActionRuns \/ ActionFails
            \/ GoResume \/ ResumeLoads => WaitInv'
         /\ \A r \in Requests : CallbackLists(r) \/ RExpire(r) => WaitInv'
         /\ CallbackDiscards \/ CallbackLoads \/ OrphanLoads => WaitInv'
         /\ \A o \in Ops : RFileOp(o) \/ RFileOpFails(o) => WaitInv'
  <1> USE FewerGates DEF router
  <1>1. ASSUME NEW k \in Keys, StoredGate(k) \/ OrphanPeek(k) PROVE WaitInv'
    BY <1>1 DEF StoredGate, OrphanPeek, vars
  <1>2. ASSUME NEW k \in Keys, HandlerAborted(k) PROVE WaitInv'
    BY <1>2 DEF HandlerAborted, vars, Facts
  <1>3. ASSUME NEW k \in Keys, Clear(k) PROVE WaitInv'
    BY <1>3, DropFewer DEF Clear, Discard
  <1>4. ASSUME NEW k \in Keys, NEW r \in Requests, NEW c \in Channels, AnswerExpired(k, r, c)
        PROVE  WaitInv'
    BY <1>4, DropFewer DEF AnswerExpired, TakeExpired
  <1>5. CASE Cancel \/ AnswerAborted \/ RetryMessage \/ ActionFails \/ ResumeLoads \/ GoResume
    <2>1. UNCHANGED <<vars, thread, live, info, ghost>> /\ up
      BY <1>5 DEF Cancel, AnswerAborted, RetryMessage, ActionFails, ResumeLoads, GoResume, RunsAction, Taken
    <2>2. resolver'.pc # "taken"
      BY <1>5 DEF Cancel, AnswerAborted, RetryMessage, ActionFails, ResumeLoads, GoResume, IdleResolver, Facts
    <2> QED
      BY <2>1, <2>2 DEF vars
  <1>6. CASE ActionRuns
    <2>1. resolver'.pc # "taken" /\ ghost'.stale = ghost.stale
      BY <1>6 DEF ActionRuns, Facts
    <2> QED
      BY <1>6, <2>1 DEF ActionRuns, RunsAction, Taken, vars
  <1>7. ASSUME NEW r \in Requests, CallbackLists(r) PROVE WaitInv'
    BY <1>7 DEF CallbackLists, vars
  <1>8. ASSUME NEW r \in Requests, RExpire(r) PROVE WaitInv'
    BY <1>8 DEF RExpire, Expire
  <1>9. CASE CallbackDiscards
    <2>1. UNCHANGED <<thread, live, info, resolver, ghost>>
      BY <1>9 DEF CallbackDiscards
    <2>2. UNCHANGED vars \/ Discard(KeyOf[callback.req])
      BY <1>9 DEF CallbackDiscards
    <2> QED
      BY <2>1, <2>2, DropFewer DEF Discard, vars
  <1>10. CASE CallbackLoads \/ OrphanLoads
    BY <1>10 DEF CallbackLoads, OrphanLoads, vars
  <1>11. ASSUME NEW o \in Ops, RFileOp(o) PROVE WaitInv'
    BY <1>11 DEF RFileOp, FileOp
  <1>12. ASSUME NEW o \in Ops, RFileOpFails(o) PROVE WaitInv'
    BY <1>12 DEF RFileOpFails, FileOpFails, Facts
  <1> QED
    BY <1>1, <1>2, <1>3, <1>4, <1>5, <1>6, <1>7, <1>8, <1>9, <1>10, <1>11, <1>12

\* A thread leaves Created, or the run of a running thread ends: it has no gate that could
\* resume it, and no answer is at work on it.
LEMMA WaitTaskSteps ==
  ASSUME WaitInv, Facts, NEW k \in Keys, SpawnThread(k) \/ TaskEnds(k) \/ TaskPauses(k)
  PROVE  WaitInv'
  <1> USE GateAssumption
  <1>1. /\ up /\ UNCHANGED <<byKey, expired, up, info, resolver, ghost>>
        /\ \A l \in Keys \ {k} : thread'[l] = thread[l] /\ live'[l] = live[l]
        /\ live[k] = "run" \/ thread[k] = "Created"
        /\ live'[k] = "run" => thread'[k] = "Running"
        /\ live'[k] = "paused" => thread'[k] = "Waiting"
    BY DEF SpawnThread, TaskEnds, TaskPauses, Facts, vars
  <1>2. Waits => Waits'
    <2> SUFFICES ASSUME Waits PROVE Waits'
      OBVIOUS
    <2>1. thread[k] # "Waiting"
      BY <1>1 DEF Waits, TasksAgree
    <2>2. TasksAgree'
      BY <1>1 DEF Waits, TasksAgree
    <2>3. AnswersWait'
      BY <1>1, <2>1 DEF Waits, AnswersWait, Facts
    <2>4. GatesWait'
      BY <1>1, <2>1 DEF Waits, GatesWait, Pending
    <2> QED
      BY <2>2, <2>3, <2>4 DEF Waits
  <1> QED
    BY <1>1, <1>2 DEF WaitInv, Down

\* A new gate: it only asks for a credential, or its thread waits.
LEMMA NewGateWaits ==
  ASSUME WaitInv, Facts, NEW k \in Keys, NEW r \in Requests, KeyOf[r] = k,
         Insert(r) \/ InsertRefused(r),
         \A q \in Requests \ {r} : info'[q] = info[q],
         \A l \in Keys \ {k} : thread'[l] = thread[l] /\ live'[l] = live[l],
         live'[k] \in {live[k], "none"}, live'[k] # "none" => thread'[k] = thread[k],
         thread'[k] = thread[k] \/ live[k] = "run",
         Waits => info'[r].kind = "fallback" \/ thread'[k] = "Waiting",
         UNCHANGED resolver \/ resolver'.pc # "taken",
         ghost'.stale = ghost.stale
  PROVE  WaitInv'
  <1> USE GateAssumption
  <1>1. /\ up /\ UNCHANGED <<expired, up>> /\ r \notin created
        /\ \A l \in Keys \ {k} : byKey'[l] = byKey[l]
        /\ byKey'[k] \in {byKey[k], r}
    BY DEF Insert, InsertRefused, Add, Facts
  <1>2. Waits => Waits'
    <2> SUFFICES ASSUME Waits PROVE Waits'
      OBVIOUS
    <2>0. thread[k] = "Waiting" => thread'[k] = "Waiting"
      BY DEF Waits, TasksAgree
    <2>1. TasksAgree'
      BY DEF Waits, TasksAgree
    <2>2. AnswersWait'
      BY <1>1, <2>0 DEF Waits, AnswersWait, Facts
    <2>3. GatesWait'
      <3> SUFFICES ASSUME NEW q \in Requests, Pending(q)', info'[q].kind # "fallback"
                   PROVE  thread'[KeyOf[q]] = "Waiting"
        BY DEF GatesWait
      <3>1. CASE q = r
        BY <3>1
      <3>2. CASE q # r
        <4>1. Pending(q) /\ info[q].kind # "fallback"
          BY <1>1, <3>2 DEF Pending
        <4> QED
          BY <4>1, <2>0 DEF Waits, GatesWait
      <3> QED
        BY <3>1, <3>2
    <2> QED
      BY <2>1, <2>2, <2>3 DEF Waits
  <1> QED
    BY <1>1, <1>2 DEF WaitInv, Down

LEMMA WaitGateSteps ==
  ASSUME WaitInv, Facts, NEW k \in Keys, NEW r \in Requests,
         TaskEndsAskingAuth(k, r) \/ StoreGate(k, r)
  PROVE  WaitInv'
  <1>1. /\ KeyOf[r] = k /\ (Insert(r) \/ InsertRefused(r)) /\ UNCHANGED <<resolver, ghost>>
        /\ live' = [live EXCEPT ![k] = "none"]
    BY DEF TaskEndsAskingAuth, StoreGate
  <1>2. live'[k] = "none" /\ \A l \in Keys \ {k} : live'[l] = live[l]
    BY <1>1 DEF Facts
  <1>3. CASE TaskEndsAskingAuth(k, r)
    <2>1. /\ \A q \in Requests \ {r} : info'[q] = info[q]
          /\ info'[r].kind = "fallback" /\ live[k] = "run"
          /\ \A l \in Keys \ {k} : thread'[l] = thread[l]
      BY <1>3 DEF TaskEndsAskingAuth, Facts
    <2> QED
      BY <1>1, <1>2, <2>1, NewGateWaits
  <1>4. CASE StoreGate(k, r)
    <2>1. /\ \A q \in Requests \ {r} : info'[q] = info[q]
          /\ thread' = thread /\ live[k] = "paused"
      BY <1>4 DEF StoreGate, Facts
    <2>2. Waits => thread'[k] = "Waiting"
      BY <2>1 DEF Waits, TasksAgree
    <2> QED
      BY <1>1, <1>2, <2>1, <2>2, NewGateWaits
  <1> QED
    BY <1>3, <1>4

\* The action of a gate meets the next one while its thread still waits.
LEMMA WaitActionPauses ==
  ASSUME WaitInv, Facts, NEW r \in Requests, ActionPauses(r) PROVE WaitInv'
  <1> DEFINE k == KeyOf[resolver.req]
  <1>1. /\ KeyOf[r] = k /\ (Insert(r) \/ InsertRefused(r)) /\ UNCHANGED <<thread, live>>
        /\ resolver' = IdleResolver
        /\ resolver.pc = "taken" /\ info[resolver.req].kind # "fallback"
    BY DEF ActionPauses, RunsAction, Taken
  <1>2. k \in Keys
    BY <1>1, GateAssumption DEF Facts
  <1>3. \A q \in Requests \ {r} : info'[q] = info[q]
    BY DEF ActionPauses, Facts
  <1>4. ghost'.stale = ghost.stale
    BY DEF ActionPauses, Facts
  <1>5. Waits => thread'[k] = "Waiting"
    BY <1>1 DEF Waits, AnswersWait
  <1>6. resolver'.pc # "taken"
    BY <1>1 DEF IdleResolver
  <1> HIDE DEF k
  <1>7. live'[k] = live[k] /\ thread'[k] = thread[k]
    BY <1>1
  <1> QED
    BY <1>1, <1>2, <1>3, <1>4, <1>5, <1>6, <1>7, NewGateWaits

\* The gate that an answer takes was one that could be answered.
LEMMA WaitAnswer ==
  ASSUME WaitInv, Facts, NEW k \in Keys, NEW r \in Requests, NEW c \in Channels, Answer(k, r, c)
  PROVE  WaitInv'
  <1> USE GateAssumption
  <1>1. /\ byKey[k] = r /\ r \notin expired /\ Drop({r}) /\ up
        /\ UNCHANGED <<thread, live, info, ghost, expired, up>>
        /\ resolver'.pc = "taken" /\ resolver'.req = r
    BY DEF Answer, TakeVerified, Presented
  <1>2. KeyOf[r] = k /\ \A l \in Keys : byKey'[l] \in {byKey[l], None}
    BY <1>1, DropFewer DEF Facts
  <1>3. Waits => Waits'
    <2> SUFFICES ASSUME Waits PROVE Waits'
      OBVIOUS
    <2>1. info[r].kind # "fallback" => thread[k] = "Waiting"
      BY <1>1, <1>2 DEF Waits, GatesWait, Pending
    <2>2. TasksAgree' /\ AnswersWait'
      BY <1>1, <1>2, <2>1 DEF Waits, TasksAgree, AnswersWait
    <2>3. GatesWait'
      BY <1>1, <1>2 DEF Waits, GatesWait, Pending
    <2> QED
      BY <2>2, <2>3 DEF Waits
  <1> QED
    BY <1>1, <1>3 DEF WaitInv, Down

\* A resume and a failed orphan write a thread that nothing else is at work on, or are
\* recorded as stale.
LEMMA WaitSaves ==
  ASSUME WaitInv, Facts, NEW k \in Keys, SavesWhatItLoaded(k), up, UNCHANGED <<vars, info>>,
         \A l \in Keys \ {k} : thread'[l] = thread[l] /\ live'[l] = live[l],
         \/ thread'[k] = "Running" /\ live'[k] = "run"
         \/ thread'[k] = "Failed" /\ live'[k] = live[k],
         UNCHANGED resolver \/ resolver'.pc # "taken"
  PROVE  WaitInv'
  <1> USE GateAssumption
  <1>1. UNCHANGED <<byKey, expired, up>>
    BY DEF vars
  <1>2. ASSUME ~ghost'.stale PROVE Waits'
    <2>1. Untouched(k) /\ Waits
      BY <1>2 DEF SavesWhatItLoaded, Facts, WaitInv
    <2>2. TasksAgree'
      BY <2>1 DEF Waits, TasksAgree, Untouched
    <2>3. AnswersWait'
      BY <2>1 DEF Waits, AnswersWait, Untouched, Facts
    <2>4. GatesWait'
      <3> SUFFICES ASSUME NEW q \in Requests, Pending(q)', info'[q].kind # "fallback"
                   PROVE  thread'[KeyOf[q]] = "Waiting"
        BY DEF GatesWait
      <3>1. Pending(q) /\ thread[KeyOf[q]] = "Waiting"
        BY <1>1, <2>1 DEF Pending, Waits, GatesWait
      <3>2. KeyOf[q] # k
        BY <2>1, <3>1 DEF Pending, Untouched
      <3> QED
        BY <3>1, <3>2
    <2> QED
      BY <2>2, <2>3, <2>4 DEF Waits
  <1> QED
    BY <1>1, <1>2 DEF WaitInv, Down

LEMMA WaitSavingSteps ==
  ASSUME WaitInv, Facts, Resume \/ CallbackResumes \/ OrphanFails PROVE WaitInv'
  <1> USE GateAssumption
  <1>1. CASE Resume
    <2> DEFINE k == KeyOf[resolver.req]
    <2>1. k \in Keys /\ SavesWhatItLoaded(k) /\ up /\ UNCHANGED <<vars, info>>
      BY <1>1 DEF Resume, Resumed, Facts
    <2>2. /\ thread' = [thread EXCEPT ![k] = "Running"] /\ live' = [live EXCEPT ![k] = "run"]
          /\ resolver'.pc # "taken"
      BY <1>1 DEF Resume, Resumed, IdleResolver
    <2> HIDE DEF k
    <2> QED
      BY <2>1, <2>2, WaitSaves DEF Facts
  <1>2. CASE CallbackResumes
    <2> DEFINE k == KeyOf[callback.req]
    <2>1. k \in Keys /\ SavesWhatItLoaded(k) /\ up /\ UNCHANGED <<vars, info>>
      BY <1>2 DEF CallbackResumes, Resumed, Facts
    <2>2. /\ thread' = [thread EXCEPT ![k] = "Running"] /\ live' = [live EXCEPT ![k] = "run"]
          /\ UNCHANGED resolver
      BY <1>2 DEF CallbackResumes, Resumed
    <2> HIDE DEF k
    <2> QED
      BY <2>1, <2>2, WaitSaves DEF Facts
  <1>3. CASE OrphanFails
    <2> DEFINE k == orphan.key
    <2>1. k \in Keys /\ SavesWhatItLoaded(k) /\ up /\ UNCHANGED <<vars, info>>
      BY <1>3 DEF OrphanFails, Facts
    <2>2. thread' = [thread EXCEPT ![k] = "Failed"] /\ UNCHANGED <<live, resolver>>
      BY <1>3 DEF OrphanFails
    <2> HIDE DEF k
    <2> QED
      BY <2>1, <2>2, WaitSaves DEF Facts
  <1> QED
    BY <1>1, <1>2, <1>3

LEMMA WaitCrash ==
  ASSUME Facts, RCrash PROVE WaitInv'
  BY GateAssumption
  DEF Facts, RCrash, Crash, Empty, WaitInv, Waits, TasksAgree, AnswersWait, GatesWait, Pending, Down,
      IdleResolver

\* The restart keeps the gates of waiting threads only, and lets these threads wait.
LEMMA WaitRestart ==
  ASSUME WaitInv, Facts, RRestart PROVE WaitInv'
  <1> USE GateAssumption
  <1>1. resolver.pc = "idle" /\ \A k \in Keys : live[k] = "none"
    BY DEF RRestart, WaitInv, Down
  <1>2. UNCHANGED <<expired, live, info, resolver, ghost>> /\ up'
    BY DEF RRestart
  <1>3. TasksAgree' /\ AnswersWait' /\ Down'
    BY <1>1, <1>2 DEF TasksAgree, AnswersWait, Down
  <1>4. ASSUME NEW r \in Requests, Pending(r)' PROVE thread'[KeyOf[r]] = "Waiting"
    <2>1. byKey'[KeyOf[r]] = r
      BY <1>4 DEF Pending
    <2>2. r \in KeptGates
      BY <2>1 DEF RRestart
    <2>3. r \in Restorable /\ RecoveredThreads[KeyOf[r]] = "Waiting"
      BY <2>2 DEF KeptGates
    <2> QED
      BY <2>3 DEF RRestart
  <1> QED
    BY <1>3, <1>4 DEF WaitInv, Waits, GatesWait

LEMMA RNextWaitInv == RTypeInv /\ OnceInv /\ WaitInv /\ [RNext]_rvars => WaitInv'
  <1> SUFFICES ASSUME RTypeInv, OnceInv, WaitInv, [RNext]_rvars PROVE WaitInv'
    OBVIOUS
  <1>0. Facts
    BY FactsHold
  <1>1. CASE UNCHANGED rvars
    BY <1>0, <1>1, FewerGates DEF rvars, vars, router
  <1>2. CASE RNext
    BY <1>0, <1>2, WaitQuietSteps, WaitTaskSteps, WaitGateSteps, WaitActionPauses, WaitAnswer,
       WaitSavingSteps, WaitCrash, WaitRestart DEF RNext
  <1> QED
    BY <1>1, <1>2

\* GateHasWaitingThread holds in every reachable state, whether messages overlap or not and
\* whatever the OAuth callback, the gateway's auth endpoints, aborted handlers, failing
\* files, expiry, crashes and restarts do: as long as no resume and no orphan check has
\* written a thread that something else was at work on, resume_thread does not refuse the
\* answer to a gate.
THEOREM GatesHaveWaitingThreads == RSpec => []GateHasWaitingThread
  <1>1. WaitInv => GateHasWaitingThread
    BY DEF WaitInv, Waits, GatesWait, GateHasWaitingThread
  <1> QED
    BY <1>1, RNextWaitInv, RInitTypeInv, RNextTypeInv, RInitOnceInv, RNextOnceInv, RInitWaitInv, PTL
    DEF RSpec

=============================================================================

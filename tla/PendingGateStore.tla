-------------------------- MODULE PendingGateStore --------------------------
(***************************************************************************)
(* The store of pending execution gates (src/gate/store.rs) over its       *)
(* JSON-file backend (src/gate/persistence.rs).                            *)
(*                                                                         *)
(* Every mutation of the two in-memory indices happens under one mutex and *)
(* is one atomic step here.  The file is written AFTER the mutex is        *)
(* released, so each mutation leaves an I/O operation in `io` that a       *)
(* different interleaving may run later, in another order, or never (the   *)
(* process dies first).  One file operation holds the exclusive file lock  *)
(* and contains no await point, so it is one step too; a death in the      *)
(* middle of write_state (truncate, then write) is a step of its own.      *)
(*                                                                         *)
(* A gate is its request id.  The key (user, thread) and the source        *)
(* channel of a request never change, so they are constants.               *)
(***************************************************************************)
EXTENDS Naturals, FiniteSets

CONSTANTS
  Requests,   \* request ids (fresh UUIDs)
  Keys,       \* (user_id, thread_id) pairs
  Channels,   \* channel names a response can come from
  Trusted,    \* TRUSTED_GATE_CHANNELS
  KeyOf,      \* [Requests -> Keys], PendingGate::key
  ChannelOf,  \* [Requests -> Channels], source_channel
  None        \* absence of a request or of a key

ASSUME GateAssumption ==
  /\ KeyOf \in [Requests -> Keys]
  /\ ChannelOf \in [Requests -> Channels]
  /\ Trusted \subseteq Channels
  /\ None \notin Requests
  /\ None \notin Keys

VARIABLES
  byKey,        \* StoreInner.by_key
  byRequestId,  \* StoreInner.by_request_id
  file,         \* pending-gates.json: the gate stored under each key
  json,         \* whether the file parses
  io,           \* file operations whose memory half is done
  created,      \* requests that exist
  expired,      \* requests whose expires_at has passed
  up,           \* the process runs
  taken         \* requests take_verified handed out in this process lifetime

vars == <<byKey, byRequestId, file, json, io, created, expired, up, taken>>

Ops == [op : {"save", "remove"}, req : Requests]

\* An empty file parses as no gates; a prefix of a JSON document does not parse.
Json == {"valid", "corrupt"}

Empty == [k \in Keys |-> None]

Init ==
  /\ byKey = Empty
  /\ byRequestId = [r \in Requests |-> None]
  /\ file = Empty
  /\ json = "valid"
  /\ io = {}
  /\ created = {}
  /\ expired = {}
  /\ up = TRUE
  /\ taken = {}

-----------------------------------------------------------------------------
(* In-memory halves: one lock acquisition each. *)

\* by_key.insert and by_request_id.insert.
Add(r) ==
  /\ byKey' = [byKey EXCEPT ![KeyOf[r]] = r]
  /\ byRequestId' = [byRequestId EXCEPT ![r] = KeyOf[r]]

\* Mutant of Drop: the reverse index is forgotten.
DropKeyOnly(R) ==
  /\ byKey' = [k \in Keys |-> IF byKey[k] \in R THEN None ELSE byKey[k]]
  /\ UNCHANGED byRequestId

\* by_key.remove and by_request_id.remove, for every request of R.
Drop(R) ==
  /\ byKey' = [k \in Keys |-> IF byKey[k] \in R THEN None ELSE byKey[k]]
  /\ byRequestId' = [r \in Requests |-> IF r \in R THEN None ELSE byRequestId[r]]

Insert(r) ==
  /\ up
  /\ r \notin created
  /\ byKey[KeyOf[r]] = None
  /\ created' = created \cup {r}
  /\ Add(r)
  /\ io' = io \cup {[op |-> "save", req |-> r]}
  /\ UNCHANGED <<file, json, expired, up, taken>>

\* AlreadyExists: the new gate is refused and stored nowhere.
InsertRefused(r) ==
  /\ up
  /\ r \notin created
  /\ byKey[KeyOf[r]] # None
  /\ created' = created \cup {r}
  /\ UNCHANGED <<byKey, byRequestId, file, json, io, expired, up, taken>>

Authorized(r, c) == c = ChannelOf[r] \/ c \in Trusted

\* The checks of take_verified that pass before expiry is looked at: the key
\* holds a gate, its request id is the one presented, the channel may answer.
Presented(r, k, c) ==
  /\ byKey[k] = r
  /\ Authorized(r, c)

\* Mutant of TakeVerified: the gate is read, not removed.
TakeByGet(r, k, c) ==
  /\ up
  /\ Presented(r, k, c)
  /\ r \notin expired
  /\ taken' = taken \cup {r}
  /\ io' = io \cup {[op |-> "remove", req |-> r]}
  /\ UNCHANGED <<byKey, byRequestId, file, json, created, expired, up>>

TakeVerified(r, k, c) ==
  /\ up
  /\ Presented(r, k, c)
  /\ r \notin expired
  /\ Drop({r})
  /\ taken' = taken \cup {r}
  /\ io' = io \cup {[op |-> "remove", req |-> r]}
  /\ UNCHANGED <<file, json, created, expired, up>>

\* The expired branch drops the gate from memory only: the early return
\* skips the removal from the file.
TakeExpired(r, k, c) ==
  /\ up
  /\ Presented(r, k, c)
  /\ r \in expired
  /\ Drop({r})
  /\ UNCHANGED <<file, json, io, created, expired, up, taken>>

Discard(k) ==
  /\ up
  /\ byKey[k] # None
  /\ Drop({byKey[k]})
  /\ io' = io \cup {[op |-> "remove", req |-> byKey[k]]}
  /\ UNCHANGED <<file, json, created, expired, up, taken>>

ExpireStale ==
  LET stale == {byKey[k] : k \in Keys} \cap expired IN
  /\ up
  /\ stale # {}
  /\ Drop(stale)
  /\ io' = io \cup {[op |-> "remove", req |-> r] : r \in stale}
  /\ UNCHANGED <<file, json, created, expired, up, taken>>

-----------------------------------------------------------------------------
(* File halves. *)

\* Mutant of Written: remove leaves a tombstone that is not a gate.
WrittenTombstone(o) ==
  [file EXCEPT ![KeyOf[o.req]] = IF o.op = "save" THEN o.req ELSE KeyOf[o.req]]

\* What FileGatePersistence::save / ::remove leave in the file.  Both retain
\* the entries of the other keys only.
Written(o) ==
  [file EXCEPT ![KeyOf[o.req]] = IF o.op = "save" THEN o.req ELSE None]

FileOp(o) ==
  /\ up
  /\ o \in io
  /\ json = "valid"
  /\ file' = Written(o)
  /\ io' = io \ {o}
  /\ UNCHANGED <<byKey, byRequestId, json, created, expired, up, taken>>

\* An I/O error.  Before the truncation (or on a file that does not parse)
\* nothing changes; after it the file is empty or holds a prefix.  insert and
\* discard return the error, take_verified and expire_stale log it; none of
\* them undoes the memory half.
FileOpFails(o) ==
  /\ up
  /\ o \in io
  /\ io' = io \ {o}
  /\ \/ UNCHANGED <<file, json>>
     \/ json = "valid" /\ file' = Empty /\ json' \in Json
  /\ UNCHANGED <<byKey, byRequestId, created, expired, up, taken>>

-----------------------------------------------------------------------------
(* Clock, death and restart. *)

Expire(r) ==
  /\ r \in created \ expired
  /\ expired' = expired \cup {r}
  /\ UNCHANGED <<byKey, byRequestId, file, json, io, created, up, taken>>

\* The process dies, possibly inside write_state.
Crash ==
  /\ up
  /\ up' = FALSE
  /\ byKey' = Empty
  /\ byRequestId' = [r \in Requests |-> None]
  /\ io' = {}
  /\ taken' = {}
  /\ \/ UNCHANGED <<file, json>>
     \/ io # {} /\ json = "valid" /\ file' = Empty /\ json' \in Json
  /\ UNCHANGED <<created, expired>>

\* restore_from_persistence: every unexpired entry, or none when load_all
\* fails on a file that does not parse.
Restorable == {r \in Requests : json = "valid" /\ file[KeyOf[r]] = r /\ r \notin expired}

Restart ==
  /\ ~up
  /\ up' = TRUE
  /\ byKey' = [k \in Keys |-> IF file[k] \in Restorable THEN file[k] ELSE None]
  /\ byRequestId' = [r \in Requests |-> IF r \in Restorable THEN KeyOf[r] ELSE None]
  /\ UNCHANGED <<file, json, io, created, expired, taken>>

Next ==
  \/ \E r \in Requests : Insert(r) \/ InsertRefused(r) \/ Expire(r)
  \/ \E r \in Requests, k \in Keys, c \in Channels :
       TakeVerified(r, k, c) \/ TakeExpired(r, k, c)
  \/ \E k \in Keys : Discard(k)
  \/ ExpireStale
  \/ \E o \in Ops : FileOp(o) \/ FileOpFails(o)
  \/ Crash
  \/ Restart

Spec == Init /\ [][Next]_vars

-----------------------------------------------------------------------------

TypeOK ==
  /\ byKey \in [Keys -> Requests \cup {None}]
  /\ byRequestId \in [Requests -> Keys \cup {None}]
  /\ file \in [Keys -> Requests \cup {None}]
  /\ json \in Json
  /\ io \subseteq Ops
  /\ created \subseteq Requests
  /\ expired \subseteq created
  /\ up \in BOOLEAN
  /\ taken \subseteq created

\* The two indices of StoreInner are inverse to each other, although insert,
\* take_verified, discard, expire_stale and restore_from_persistence each
\* update them separately: a request is listed under a key exactly when that
\* key holds it, and that key is its own.
IndexInv ==
  \A r \in Requests, k \in Keys :
    byRequestId[r] = k <=> byKey[k] = r

\* A gate that take_verified handed out for resolution is not pending again
\* in this process lifetime, whatever inserts, discards and late file
\* operations follow: the pending tool call is resumed at most once.
ResolvedOnce ==
  \A r \in taken : byRequestId[r] = None /\ \A k \in Keys : byKey[k] # r

=============================================================================

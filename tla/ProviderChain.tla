---------------------------- MODULE ProviderChain ----------------------------
(***************************************************************************)
(* The chain of decorators every LLM call goes through (src/llm/mod.rs,    *)
(* build_provider_chain): the turn-budget timeout around the circuit       *)
(* breaker around failover around one retry loop per backend.              *)
(*                                                                         *)
(* Calls of different threads, routines and sub-agents run concurrently    *)
(* and share the breaker (one mutex) and the cooldowns of the backends     *)
(* (two relaxed atomics each, so every update of one is a step; the loads  *)
(* of one selection are taken together).  The timeout drops a call at an   *)
(* await, and whatever the call had still to record is never recorded.     *)
(*                                                                         *)
(* Tool calls, which are modelled, bypass the response cache and the smart *)
(* router.  Instants are ages that stop growing once they no longer        *)
(* matter; failure_count stops at its threshold for the same reason.       *)
(***************************************************************************)
EXTENDS Naturals

CONSTANTS
  Calls,          \* concurrent callers
  NumProviders,   \* backends, in order of preference
  MaxRetries,     \* RetryConfig.max_retries
  Threshold,      \* CircuitBreakerConfig.failure_threshold
  Recovery,       \* recovery_timeout, in ticks
  Needed,         \* half_open_successes_needed
  CoolThreshold,  \* CooldownConfig.failure_threshold
  Cooldown        \* cooldown_duration, in ticks

ASSUME ChainAssumption ==
  /\ NumProviders \in Nat \ {0}
  /\ MaxRetries \in Nat
  /\ Threshold \in Nat
  /\ Recovery \in Nat
  /\ Needed \in Nat
  /\ CoolThreshold \in Nat
  /\ Cooldown \in Nat

Providers == 1..NumProviders

VARIABLES
  breaker,  \* BreakerState: state, consecutive_failures, half_open_successes,
            \* opened_at (whether it is set, and how long ago)
  cool,     \* ProviderCooldown of each backend: failure_count, whether it is
            \* cooling, and for how long
  call,     \* each caller: where its call is, the backend in use, the backends
            \* still to try, the retry attempt, the error to report, and
            \* (history) how often each backend was called for it
  healthy   \* the backends answer every call in time

vars == <<breaker, cool, call, healthy>>

\* A caller that has no backend call under way.
Between(pc, at, e) ==
  [pc |-> pc, at |-> at, todo |-> {}, attempt |-> 0, error |-> e,
   calls |-> [p \in Providers |-> 0]]
Idle == Between("idle", 1, "none")

NewBreaker == [state |-> "Closed", failures |-> 0, successes |-> 0, opened |-> "unset", age |-> 0]
NewCooldown == [failures |-> 0, cooling |-> "no", age |-> 0]

Init ==
  /\ breaker = NewBreaker
  /\ cool = [p \in Providers |-> NewCooldown]
  /\ call = [c \in Calls |-> Idle]
  /\ healthy = TRUE

-----------------------------------------------------------------------------
(* Circuit breaker *)

Opened(b) ==
  [state |-> "Open", failures |-> b.failures, successes |-> b.successes, opened |-> "set", age |-> 0]
Closed(b) ==
  [state |-> "Closed", failures |-> 0, successes |-> b.successes, opened |-> "unset", age |-> 0]

\* Mutant of AfterCheck: every probe starts the count of successes again.
ResetEveryProbe(b) ==
  IF b.state = "Closed" THEN b ELSE [b EXCEPT !.state = "HalfOpen", !.successes = 0]

\* check_allowed on a breaker that allows the call.
AfterCheck(b) ==
  IF b.state # "Open" THEN b
  ELSE IF b.opened = "set" THEN [b EXCEPT !.state = "HalfOpen", !.successes = 0]
  ELSE [b EXCEPT !.state = "Closed"]

\* record_success.  The code calls the last case a bug that cannot happen, and
\* recovers from it.
AfterSuccess(b) ==
  CASE b.state = "Closed"   -> [b EXCEPT !.failures = 0]
    [] b.state = "HalfOpen" -> LET n == [b EXCEPT !.successes = @ + 1] IN
                               IF n.successes >= Needed THEN Closed(n) ELSE n
    [] b.state = "Open"     -> Closed(b)

\* Mutant of AfterFailure: the circuit opens one failure late.
OpensLate(b) ==
  CASE b.state = "Closed"   -> LET n == [b EXCEPT !.failures = @ + 1] IN
                               IF n.failures > Threshold THEN Opened(n) ELSE n
    [] b.state = "HalfOpen" -> [Opened(b) EXCEPT !.successes = 0]
    [] b.state = "Open"     -> b

\* record_failure of an error that is_transient.
AfterFailure(b) ==
  CASE b.state = "Closed"   -> LET n == [b EXCEPT !.failures = @ + 1] IN
                               IF n.failures >= Threshold THEN Opened(n) ELSE n
    [] b.state = "HalfOpen" -> [Opened(b) EXCEPT !.successes = 0]
    [] b.state = "Open"     -> b

-----------------------------------------------------------------------------
(* One call *)

At(c, pc) == call[c].pc = pc

\* The requests made for a call, with one more to backend p.
OneMore(c, p) == [call[c].calls EXCEPT ![p] = call[c].calls[p] + 1]
Goto(c, pc) == call' = [call EXCEPT ![c].pc = pc]

\* Failover is over; the breaker is still to be told.
Report(c, pc, e) == call' = [call EXCEPT ![c] = Between(pc, 1, e)]

\* A call the breaker refuses returns its error at once and changes nothing.
CheckAllowed(c) ==
  /\ At(c, "idle")
  /\ breaker.state = "Open" /\ breaker.opened = "set" => breaker.age >= Recovery
  /\ breaker' = AfterCheck(breaker)
  /\ Goto(c, "select")
  /\ UNCHANGED <<cool, healthy>>

InCooldown(p) == cool[p].cooling = "yes" /\ cool[p].age < Cooldown

\* Mutant of TryFrom: the backend stays on the list.
TryForEver(c, rest) ==
  \E p \in rest :
    /\ \A q \in rest : p <= q
    /\ call' = [call EXCEPT ![c] = [pc |-> "call", at |-> p, todo |-> rest, attempt |-> 0,
                                    error |-> "none", calls |-> OneMore(c, p)]]

\* The next backend of `rest` is called, in the order of preference.
TryFrom(c, rest) ==
  \E p \in rest :
    /\ \A q \in rest : p <= q
    /\ call' = [call EXCEPT ![c] = [pc |-> "call", at |-> p, todo |-> rest \ {p}, attempt |-> 0,
                                    error |-> "none", calls |-> OneMore(c, p)]]

\* try_providers: the backends that are not cooling, or else one that has been
\* cooling for longest.
Select(c) ==
  LET available == {p \in Providers : ~InCooldown(p)} IN
  /\ At(c, "select")
  /\ \/ available # {} /\ TryFrom(c, available)
     \/ /\ available = {}
        /\ \E p \in Providers :
             /\ \A q \in Providers : cool[q].age <= cool[p].age
             /\ TryFrom(c, {p})
  /\ UNCHANGED <<breaker, cool, healthy>>

Succeeds(c) ==
  /\ At(c, "call")
  /\ call' = [call EXCEPT ![c] = Between("reset", call[c].at, "none")]
  /\ UNCHANGED <<breaker, cool, healthy>>

\* An error that is not retryable ends retry and failover.  "expired" (a
\* session) still counts against the breaker, "client" errors do not.
FailsForGood(c, e) ==
  /\ At(c, "call")
  /\ ~healthy
  /\ Report(c, "fail", e)
  /\ UNCHANGED <<breaker, cool, healthy>>

Again(c) ==
  call' = [call EXCEPT ![c] = [pc |-> "call", at |-> call[c].at, todo |-> call[c].todo,
                               attempt |-> call[c].attempt + 1, error |-> "none",
                               calls |-> OneMore(c, call[c].at)]]

\* Mutant of Retries: one attempt too many.
RetriesOnceMore(c) ==
  /\ At(c, "call")
  /\ ~healthy
  /\ call[c].attempt <= MaxRetries
  /\ Again(c)
  /\ UNCHANGED <<breaker, cool, healthy>>

\* A retryable error with attempts left: back off and call again.
Retries(c) ==
  /\ At(c, "call")
  /\ ~healthy
  /\ call[c].attempt < MaxRetries
  /\ Again(c)
  /\ UNCHANGED <<breaker, cool, healthy>>

GivesUp(c) ==
  /\ At(c, "call")
  /\ ~healthy
  /\ call[c].attempt >= MaxRetries
  /\ Goto(c, "count")
  /\ UNCHANGED <<breaker, cool, healthy>>

\* After a failed backend: the next one, or the error of the last.
NextProvider(c) ==
  IF call[c].todo # {}
    THEN TryFrom(c, call[c].todo)
    ELSE Report(c, "fail", "retryable")

CountFailure(c) ==
  LET p == call[c].at
      n == cool[p].failures + 1 IN
  /\ At(c, "count")
  /\ cool' = [cool EXCEPT ![p].failures = IF n > CoolThreshold THEN @ ELSE n]
  /\ IF n >= CoolThreshold THEN Goto(c, "activate") ELSE NextProvider(c)
  /\ UNCHANGED <<breaker, healthy>>

ActivateCooldown(c) ==
  /\ At(c, "activate")
  /\ cool' = [cool EXCEPT ![call[c].at].cooling = "yes", ![call[c].at].age = 0]
  /\ NextProvider(c)
  /\ UNCHANGED <<breaker, healthy>>

ResetCount(c) ==
  /\ At(c, "reset")
  /\ cool' = [cool EXCEPT ![call[c].at].failures = 0]
  /\ Goto(c, "clear")
  /\ UNCHANGED <<breaker, healthy>>

ClearCooldown(c) ==
  /\ At(c, "clear")
  /\ cool' = [cool EXCEPT ![call[c].at].cooling = "no", ![call[c].at].age = 0]
  /\ Report(c, "succeed", "none")
  /\ UNCHANGED <<breaker, healthy>>

RecordSuccess(c) ==
  /\ At(c, "succeed")
  /\ breaker' = AfterSuccess(breaker)
  /\ call' = [call EXCEPT ![c] = Idle]
  /\ UNCHANGED <<cool, healthy>>

RecordFailure(c) ==
  /\ At(c, "fail")
  /\ breaker' = IF call[c].error = "client" THEN breaker ELSE AfterFailure(breaker)
  /\ call' = [call EXCEPT ![c] = Idle]
  /\ UNCHANGED <<cool, healthy>>

\* The turn budget is over while the call waits for a backend, for its backoff
\* or for the breaker's mutex: the call is dropped.
TimesOut(c) ==
  /\ call[c].pc \in {"call", "succeed", "fail"}
  /\ ~healthy
  /\ call' = [call EXCEPT ![c] = Idle]
  /\ UNCHANGED <<breaker, cool, healthy>>

-----------------------------------------------------------------------------
(* Time and the backends *)

Older(age, limit) == IF age < limit THEN age + 1 ELSE age

Tick ==
  /\ breaker' = [breaker EXCEPT !.age = IF breaker.opened = "set" THEN Older(@, Recovery) ELSE @]
  /\ cool' = [p \in Providers |->
                IF cool[p].cooling = "yes" THEN [cool[p] EXCEPT !.age = Older(@, Cooldown)] ELSE cool[p]]
  /\ UNCHANGED <<call, healthy>>

BackendsChange ==
  /\ healthy' = ~healthy
  /\ UNCHANGED <<breaker, cool, call>>

Step(c) ==
  \/ Select(c) \/ Succeeds(c) \/ Retries(c) \/ GivesUp(c)
  \/ \E e \in {"expired", "client"} : FailsForGood(c, e)
  \/ CountFailure(c) \/ ActivateCooldown(c) \/ ResetCount(c) \/ ClearCooldown(c)
  \/ RecordSuccess(c) \/ RecordFailure(c) \/ TimesOut(c)

Next ==
  \/ \E c \in Calls : CheckAllowed(c) \/ Step(c)
  \/ Tick
  \/ BackendsChange

Spec == Init /\ [][Next]_vars

\* A backend call ends (every HTTP request has a timeout), time passes, and the
\* agent goes on asking, as its heartbeat and its users do.
FairSpec ==
  /\ Spec
  /\ \A c \in Calls : WF_vars(Step(c)) /\ WF_vars(CheckAllowed(c))
  /\ WF_vars(Tick)

-----------------------------------------------------------------------------

TypeOK ==
  /\ breaker \in [state : {"Closed", "Open", "HalfOpen"}, failures : Nat, successes : Nat,
                  opened : {"set", "unset"}, age : 0..Recovery]
  /\ cool \in [Providers -> [failures : 0..CoolThreshold, cooling : {"yes", "no"}, age : 0..Cooldown]]
  /\ call \in [Calls -> [pc : {"idle", "select", "call", "count", "activate", "reset", "clear",
                               "succeed", "fail"},
                         at : Providers, todo : SUBSET Providers, attempt : 0..MaxRetries,
                         error : {"none", "retryable", "expired", "client"},
                         calls : [Providers -> Nat]]]
  /\ healthy \in BOOLEAN

\* However retry and failover nest, and whatever the cooldowns do meanwhile, one
\* call makes at most max_retries + 1 requests to each backend.
CallsBounded == \A c \in Calls, p \in Providers : call[c].calls[p] <= MaxRetries + 1

\* A closed circuit is one failure short of its threshold at most, and an open
\* one knows since when it is open: no order in which late results of
\* concurrent calls reach the breaker leaves it letting calls through a failed
\* backend, or rejecting them without a recovery time.
BreakerConsistent ==
  /\ breaker.state = "Closed" => breaker.failures = 0 \/ breaker.failures < Threshold
  /\ breaker.state = "Open" => breaker.opened = "set"

\* Once the backends are well again the circuit closes for good and no backend
\* is in cooldown any more, whatever late failures, dropped calls and races of
\* resets with cooldowns went before.
Recovers ==
  <>[]healthy => <>[](breaker.state = "Closed" /\ \A p \in Providers : ~InCooldown(p))

=============================================================================

------------------------- MODULE ProviderChainProofs -------------------------
(* Type correctness, the bound on backend calls and the consistency of the   *)
(* circuit breaker, for every number of callers and backends and every       *)
(* configuration of retries, thresholds and timeouts.                        *)
EXTENDS ProviderChain, TLAPS

-----------------------------------------------------------------------------
(* The circuit breaker *)

Breakers ==
  [state : {"Closed", "Open", "HalfOpen"}, failures : Nat, successes : Nat,
   opened : {"set", "unset"}, age : 0..Recovery]

\* BreakerConsistent, as a predicate of a breaker.
Sound(b) ==
  /\ b \in Breakers
  /\ b.state = "Closed" => b.failures = 0 \/ b.failures < Threshold
  /\ b.state = "Open" => b.opened = "set"

LEMMA CheckSound == ASSUME NEW b, Sound(b) PROVE Sound(AfterCheck(b))
  BY ChainAssumption DEF Sound, Breakers, AfterCheck

LEMMA SuccessSound == ASSUME NEW b, Sound(b) PROVE Sound(AfterSuccess(b))
  <1> USE ChainAssumption DEF Sound, Breakers
  <1>1. Sound(Closed(b))
    BY DEF Closed
  <1>2. CASE b.state = "Closed"
    BY <1>2 DEF AfterSuccess
  <1>3. CASE b.state = "HalfOpen"
    <2> DEFINE n == [b EXCEPT !.successes = @ + 1]
    <2>1. Sound(n) /\ Sound(Closed(n))
      BY <1>3 DEF Closed
    <2>2. AfterSuccess(b) \in {n, Closed(n)}
      BY <1>3 DEF AfterSuccess
    <2> QED
      BY <2>1, <2>2
  <1>4. CASE b.state = "Open"
    BY <1>1, <1>4 DEF AfterSuccess
  <1> QED
    BY <1>2, <1>3, <1>4

LEMMA FailureSound == ASSUME NEW b, Sound(b) PROVE Sound(AfterFailure(b))
  <1> USE ChainAssumption DEF Sound, Breakers
  <1>1. CASE b.state = "Closed"
    <2> DEFINE n == [b EXCEPT !.failures = @ + 1]
    <2>1. n.failures < Threshold => Sound(n)
      BY <1>1
    <2>2. Sound(Opened(n))
      BY <1>1 DEF Opened
    <2>3. AfterFailure(b) = IF n.failures >= Threshold THEN Opened(n) ELSE n
      BY <1>1 DEF AfterFailure
    <2>4. n.failures \in Nat
      OBVIOUS
    <2> QED
      BY <2>1, <2>2, <2>3, <2>4
  <1>2. CASE b.state = "HalfOpen"
    BY <1>2 DEF AfterFailure, Opened
  <1>3. CASE b.state = "Open"
    BY <1>3 DEF AfterFailure
  <1> QED
    BY <1>1, <1>2, <1>3

-----------------------------------------------------------------------------
(* One call.  CallsBounded is not inductive: a call that fails over needs to  *)
(* know that the backends still to try have not been asked yet and come after *)
(* the one in use, and that a retry is an attempt counted at that one.        *)

CallRecords ==
  [pc : {"idle", "select", "call", "count", "activate", "reset", "clear", "succeed", "fail"},
   at : Providers, todo : SUBSET Providers, attempt : 0..MaxRetries,
   error : {"none", "retryable", "expired", "client"},
   calls : [Providers -> Nat]]

Trying == {"call", "count", "activate"}

InUseOK(k) ==
  /\ k.calls[k.at] = k.attempt + 1
  /\ \A q \in k.todo : k.at < q /\ k.calls[q] = 0

CallOK(k) ==
  /\ k \in CallRecords
  /\ \A p \in Providers : k.calls[p] <= MaxRetries + 1
  /\ k.pc \in Trying => InUseOK(k)
  /\ k.pc \notin Trying => \A p \in Providers : k.calls[p] = 0

LEMMA IdleOK == CallOK(Idle)
  BY ChainAssumption DEF CallOK, CallRecords, Trying, Idle, Between, Providers

Unasked(k, rest) == \A q \in rest : k.calls[q] = 0

\* Moving to the next backend keeps the account.
LEMMA TryFromOK ==
  ASSUME NEW k, CallOK(k), NEW rest \in SUBSET Providers, NEW p \in rest,
         \A q \in rest : p <= q, Unasked(k, rest)
  PROVE  CallOK([pc |-> "call", at |-> p, todo |-> rest \ {p}, attempt |-> 0, error |-> "none",
                 calls |-> [k.calls EXCEPT ![p] = k.calls[p] + 1]])
  <1> DEFINE f == [k.calls EXCEPT ![p] = k.calls[p] + 1]
             n == [pc |-> "call", at |-> p, todo |-> rest \ {p}, attempt |-> 0,
                   error |-> "none", calls |-> f]
  <1>1. p \in Providers /\ k.calls \in [Providers -> Nat] /\ MaxRetries \in Nat
    BY ChainAssumption DEF CallOK, CallRecords
  <1>2. /\ f \in [Providers -> Nat] /\ f[p] = 1
        /\ \A q \in Providers : q # p => f[q] = k.calls[q]
    BY <1>1 DEF Unasked
  <1>3. \A q \in Providers : k.calls[q] <= MaxRetries + 1
    BY DEF CallOK
  <1>4. \A q \in rest \ {p} : p < q /\ f[q] = 0
    BY <1>1, <1>2 DEF Unasked, Providers
  <1> HIDE DEF f
  <1>5. n \in CallRecords
    BY <1>1, <1>2 DEF CallRecords
  <1>6. \A q \in Providers : n.calls[q] <= MaxRetries + 1
    BY <1>1, <1>2, <1>3
  <1>7. InUseOK(n)
    BY <1>2, <1>4 DEF InUseOK
  <1>8. n.pc \in Trying
    BY DEF Trying
  <1> HIDE DEF n
  <1>9. CallOK(n)
    BY <1>5, <1>6, <1>7, <1>8 DEF CallOK
  <1> QED
    BY <1>9 DEF n, f

\* ... and so does another attempt at the backend in use.
LEMMA AgainOK ==
  ASSUME NEW k, CallOK(k), k.pc \in Trying, k.attempt < MaxRetries
  PROVE  CallOK([pc |-> "call", at |-> k.at, todo |-> k.todo, attempt |-> k.attempt + 1,
                 error |-> "none", calls |-> [k.calls EXCEPT ![k.at] = k.calls[k.at] + 1]])
  <1> DEFINE f == [k.calls EXCEPT ![k.at] = k.calls[k.at] + 1]
             n == [pc |-> "call", at |-> k.at, todo |-> k.todo, attempt |-> k.attempt + 1,
                   error |-> "none", calls |-> f]
  <1>1. /\ k.at \in Providers /\ k.calls \in [Providers -> Nat] /\ k.todo \in SUBSET Providers
        /\ k.attempt \in 0..MaxRetries /\ MaxRetries \in Nat /\ InUseOK(k)
    BY ChainAssumption DEF CallOK, CallRecords
  <1>2. /\ f \in [Providers -> Nat] /\ f[k.at] = k.attempt + 2
        /\ \A q \in Providers : q # k.at => f[q] = k.calls[q]
    BY <1>1 DEF InUseOK
  <1>3. \A q \in Providers : k.calls[q] <= MaxRetries + 1
    BY DEF CallOK
  <1>4. \A q \in k.todo : k.at < q /\ f[q] = 0
    BY <1>1, <1>2 DEF InUseOK, Providers
  <1> HIDE DEF f
  <1>5. n \in CallRecords
    BY <1>1, <1>2 DEF CallRecords
  <1>6. \A q \in Providers : n.calls[q] <= MaxRetries + 1
    BY <1>1, <1>2, <1>3
  <1>7. InUseOK(n)
    BY <1>1, <1>2, <1>4 DEF InUseOK
  <1>8. n.pc \in Trying
    BY DEF Trying
  <1> HIDE DEF n
  <1>9. CallOK(n)
    BY <1>5, <1>6, <1>7, <1>8 DEF CallOK
  <1> QED
    BY <1>9 DEF n, f

-----------------------------------------------------------------------------
(* The invariant *)

Cooldowns == [failures : 0..CoolThreshold, cooling : {"yes", "no"}, age : 0..Cooldown]

CoolInv == cool \in [Providers -> Cooldowns]

CallInv ==
  /\ call \in [Calls -> CallRecords]
  /\ \A c \in Calls : CallOK(call[c])

IInv == Sound(breaker) /\ CoolInv /\ CallInv /\ healthy \in BOOLEAN

LEMMA OneCall ==
  ASSUME CallInv, NEW c \in Calls, NEW n, CallOK(n), call' = [call EXCEPT ![c] = n]
  PROVE  CallInv'
  <1>1. n \in CallRecords
    BY DEF CallOK
  <1>2. call' \in [Calls -> CallRecords]
    BY <1>1 DEF CallInv
  <1>3. \A d \in Calls : call'[d] = IF d = c THEN n ELSE call[d]
    BY DEF CallInv
  <1>4. \A d \in Calls : CallOK(call'[d])
    BY <1>3 DEF CallInv
  <1> QED
    BY <1>2, <1>4 DEF CallInv, CallOK, CallRecords

\* The next three lemmas are the ways in which the steps move a call on.
LEMMA GotoInv ==
  ASSUME CallInv, NEW c \in Calls, NEW pc, Goto(c, pc),
         \/ call[c].pc \in Trying /\ pc \in Trying
         \/ call[c].pc \notin Trying /\ pc \in {"select", "clear"}
  PROVE  CallInv'
  <1> DEFINE n == [call[c] EXCEPT !.pc = pc]
  <1>1. call[c] \in CallRecords /\ CallOK(call[c])
    BY DEF CallInv
  <1>2. call' = [call EXCEPT ![c] = n]
    BY DEF Goto, CallInv
  <1>3. n \in CallRecords /\ n.at = call[c].at /\ n.todo = call[c].todo
        /\ n.attempt = call[c].attempt /\ n.calls = call[c].calls /\ n.pc = pc
    BY <1>1 DEF CallRecords, Trying
  <1> HIDE DEF n
  <1>4. CallOK(n)
    BY <1>1, <1>3 DEF CallOK, InUseOK, Trying
  <1> QED
    BY <1>2, <1>4, OneCall

LEMMA BetweenInv ==
  ASSUME CallInv, NEW c \in Calls, NEW pc \in {"idle", "reset", "succeed", "fail"},
         NEW p \in Providers, NEW e \in {"none", "retryable", "expired", "client"},
         call' = [call EXCEPT ![c] = Between(pc, p, e)]
  PROVE  CallInv'
  <1>1. CallOK(Between(pc, p, e))
    BY ChainAssumption DEF Between, CallOK, CallRecords, Trying
  <1> QED
    BY <1>1, OneCall

LEMMA ReportInv ==
  ASSUME CallInv, NEW c \in Calls, NEW pc \in {"succeed", "fail"},
         NEW e \in {"none", "retryable", "expired", "client"}, Report(c, pc, e)
  PROVE  CallInv'
  <1>1. 1 \in Providers
    BY ChainAssumption DEF Providers
  <1> QED
    BY <1>1, BetweenInv DEF Report

LEMMA TryFromInv ==
  ASSUME CallInv, NEW c \in Calls, NEW rest \in SUBSET Providers, TryFrom(c, rest),
         Unasked(call[c], rest)
  PROVE  CallInv'
  <1>1. PICK p \in rest :
          /\ \A q \in rest : p <= q
          /\ call' = [call EXCEPT ![c] = [pc |-> "call", at |-> p, todo |-> rest \ {p},
                                          attempt |-> 0, error |-> "none",
                                          calls |-> [call[c].calls EXCEPT ![p] = call[c].calls[p] + 1]]]
    BY DEF TryFrom, OneMore
  <1>2. CallOK(call[c])
    BY DEF CallInv
  <1>3. CallOK([pc |-> "call", at |-> p, todo |-> rest \ {p}, attempt |-> 0, error |-> "none",
                calls |-> [call[c].calls EXCEPT ![p] = call[c].calls[p] + 1]])
    BY <1>1, <1>2, TryFromOK
  <1> QED
    BY <1>1, <1>3, OneCall

LEMMA NextProviderInv ==
  ASSUME CallInv, NEW c \in Calls, call[c].pc \in Trying, NextProvider(c)
  PROVE  CallInv'
  <1>1. call[c].todo \in SUBSET Providers
    BY DEF CallInv, CallRecords
  <1>2. CASE call[c].todo # {}
    <2>1. Unasked(call[c], call[c].todo)
      BY DEF CallInv, CallOK, InUseOK, Unasked
    <2> QED
      BY <1>1, <1>2, <2>1, TryFromInv DEF NextProvider
  <1>3. CASE call[c].todo = {}
    BY <1>3, ReportInv DEF NextProvider
  <1> QED
    BY <1>2, <1>3

\* Every step of a call keeps the account of its requests.
LEMMA StepKeepsCalls ==
  ASSUME IInv, NEW c \in Calls, CheckAllowed(c) \/ Step(c)
  PROVE  CallInv'
  <1> USE DEF IInv, At
  <1>1. CallInv /\ call[c] \in CallRecords /\ CallOK(call[c]) /\ 1 \in Providers
    BY ChainAssumption DEF CallInv, Providers
  <1>2. CASE CheckAllowed(c)
    BY <1>1, <1>2, GotoInv DEF CheckAllowed, Trying
  <1>3. CASE Select(c)
    <2>1. PICK rest \in SUBSET Providers : TryFrom(c, rest)
      BY <1>3 DEF Select
    <2>2. Unasked(call[c], rest)
      BY <1>1, <1>3 DEF Select, CallOK, Trying, Unasked
    <2> QED
      BY <1>1, <2>1, <2>2, TryFromInv
  <1>4. CASE Succeeds(c)
    <2>1. call[c].at \in Providers
      BY <1>1 DEF CallRecords
    <2> QED
      BY <1>1, <1>4, <2>1, BetweenInv DEF Succeeds
  <1>5. CASE Retries(c)
    <2> DEFINE n == [pc |-> "call", at |-> call[c].at, todo |-> call[c].todo,
                     attempt |-> call[c].attempt + 1, error |-> "none",
                     calls |-> [call[c].calls EXCEPT ![call[c].at] = call[c].calls[call[c].at] + 1]]
    <2>1. call' = [call EXCEPT ![c] = n] /\ call[c].attempt < MaxRetries /\ call[c].pc \in Trying
      BY <1>5 DEF Retries, Again, OneMore, Trying
    <2>2. CallOK(n)
      BY <1>1, <2>1, AgainOK
    <2> HIDE DEF n
    <2> QED
      BY <1>1, <2>1, <2>2, OneCall
  <1>6. CASE GivesUp(c)
    BY <1>1, <1>6, GotoInv DEF GivesUp, Trying
  <1>7. CASE \E e \in {"expired", "client"} : FailsForGood(c, e)
    BY <1>1, <1>7, ReportInv DEF FailsForGood
  <1>8. CASE CountFailure(c)
    <2>1. call[c].pc \in Trying
      BY <1>8 DEF CountFailure, Trying
    <2>2. Goto(c, "activate") \/ NextProvider(c)
      BY <1>8 DEF CountFailure
    <2>3. ASSUME Goto(c, "activate") PROVE CallInv'
      BY <1>1, <2>1, <2>3, GotoInv DEF Trying
    <2>4. ASSUME NextProvider(c) PROVE CallInv'
      BY <1>1, <2>1, <2>4, NextProviderInv
    <2> QED
      BY <2>2, <2>3, <2>4
  <1>9. CASE ActivateCooldown(c)
    BY <1>1, <1>9, NextProviderInv DEF ActivateCooldown, Trying
  <1>10. CASE ResetCount(c)
    BY <1>1, <1>10, GotoInv DEF ResetCount, Trying
  <1>11. CASE ClearCooldown(c)
    BY <1>1, <1>11, ReportInv DEF ClearCooldown
  <1>12. CASE RecordSuccess(c) \/ RecordFailure(c) \/ TimesOut(c)
    BY <1>1, <1>12, BetweenInv DEF RecordSuccess, RecordFailure, TimesOut, Idle
  <1> QED
    BY <1>2, <1>3, <1>4, <1>5, <1>6, <1>7, <1>8, <1>9, <1>10, <1>11, <1>12 DEF Step

\* ... and leaves the breaker and the cooldowns sound.
LEMMA StepKeepsShared ==
  ASSUME IInv, NEW c \in Calls, CheckAllowed(c) \/ Step(c)
  PROVE  Sound(breaker)' /\ CoolInv' /\ healthy' \in BOOLEAN
  <1>1. call[c] \in CallRecords /\ Sound(breaker) /\ CoolInv /\ healthy \in BOOLEAN
    BY DEF IInv, CallInv
  <1>2. call[c].at \in Providers
    BY <1>1 DEF CallRecords
  <1>3. ASSUME NEW b, Sound(b), breaker' = b PROVE Sound(breaker)'
    BY <1>3
  <1>4. CASE CheckAllowed(c)
    BY <1>1, <1>3, <1>4, CheckSound DEF CheckAllowed, CoolInv
  <1>5. CASE \/ Select(c) \/ Succeeds(c) \/ Retries(c) \/ GivesUp(c) \/ TimesOut(c)
             \/ \E e \in {"expired", "client"} : FailsForGood(c, e)
    BY <1>1, <1>3, <1>5
    DEF Select, Succeeds, Retries, GivesUp, TimesOut, FailsForGood, CoolInv
  <1>6. CASE CountFailure(c)
    <2>1. CoolInv'
      BY <1>1, <1>2, <1>6, ChainAssumption DEF CountFailure, CoolInv, Cooldowns
    <2> QED
      BY <1>1, <1>3, <1>6, <2>1 DEF CountFailure
  <1>7. CASE ActivateCooldown(c) \/ ClearCooldown(c)
    <2>1. CoolInv'
      BY <1>1, <1>2, <1>7, ChainAssumption DEF ActivateCooldown, ClearCooldown, CoolInv, Cooldowns
    <2> QED
      BY <1>1, <1>3, <1>7, <2>1 DEF ActivateCooldown, ClearCooldown
  <1>8. CASE ResetCount(c)
    <2>1. CoolInv'
      BY <1>1, <1>2, <1>8, ChainAssumption DEF ResetCount, CoolInv, Cooldowns
    <2> QED
      BY <1>1, <1>3, <1>8, <2>1 DEF ResetCount
  <1>9. CASE RecordSuccess(c)
    BY <1>1, <1>3, <1>9, SuccessSound DEF RecordSuccess, CoolInv
  <1>10. CASE RecordFailure(c)
    BY <1>1, <1>3, <1>10, FailureSound DEF RecordFailure, CoolInv
  <1> QED
    BY <1>4, <1>5, <1>6, <1>7, <1>8, <1>9, <1>10 DEF Step

LEMMA TickInv == ASSUME IInv, Tick PROVE IInv'
  <1> USE ChainAssumption
  <1>1. Sound(breaker)'
    <2>1. Sound([breaker EXCEPT !.age = IF breaker.opened = "set" THEN Older(@, Recovery) ELSE @])
      BY DEF IInv, Sound, Breakers, Older
    <2> QED
      BY <2>1 DEF Tick
  <1>2. CoolInv'
    <2>1. \A p \in Providers : cool[p] \in Cooldowns
      BY DEF IInv, CoolInv
    <2>2. \A p \in Providers : [cool[p] EXCEPT !.age = Older(@, Cooldown)] \in Cooldowns
      BY <2>1 DEF Cooldowns, Older
    <2> QED
      BY <2>1, <2>2 DEF Tick, CoolInv
  <1>3. CallInv' /\ healthy' \in BOOLEAN
    BY DEF IInv, CallInv, CallOK, CallRecords, Tick
  <1> QED
    BY <1>1, <1>2, <1>3 DEF IInv

LEMMA Inductive == Spec => []IInv
  <1>1. Init => IInv
    <2> SUFFICES ASSUME Init PROVE IInv
      OBVIOUS
    <2>1. Sound(breaker) /\ healthy \in BOOLEAN
      BY ChainAssumption DEF Init, NewBreaker, Sound, Breakers
    <2>2. CoolInv
      BY ChainAssumption DEF Init, NewCooldown, CoolInv, Cooldowns
    <2>3. Idle \in CallRecords
      BY IdleOK DEF CallOK
    <2>4. CallInv
      BY <2>3, IdleOK DEF Init, CallInv
    <2> QED
      BY <2>1, <2>2, <2>4 DEF IInv
  <1>2. IInv /\ [Next]_vars => IInv'
    <2> SUFFICES ASSUME IInv, [Next]_vars PROVE IInv'
      OBVIOUS
    <2>1. ASSUME NEW c \in Calls, CheckAllowed(c) \/ Step(c) PROVE IInv'
      BY <2>1, StepKeepsCalls, StepKeepsShared DEF IInv
    <2>2. CASE Tick
      BY <2>2, TickInv
    <2>3. CASE BackendsChange
      BY <2>3 DEF BackendsChange, IInv, Sound, Breakers, CoolInv, CallInv, CallOK, CallRecords
    <2>4. CASE UNCHANGED vars
      BY <2>4 DEF vars, IInv, Sound, Breakers, CoolInv, CallInv, CallOK, CallRecords
    <2> QED
      BY <2>1, <2>2, <2>3, <2>4 DEF Next
  <1> QED
    BY <1>1, <1>2, PTL DEF Spec

-----------------------------------------------------------------------------

\* Every variable keeps its type; in particular a backend is never tried more
\* than max_retries + 1 times in a row.
THEOREM TypeCorrect == Spec => []TypeOK
  <1>1. IInv => TypeOK
    BY DEF IInv, Sound, Breakers, CoolInv, Cooldowns, CallInv, CallRecords, TypeOK
  <1> QED
    BY <1>1, Inductive, PTL

\* One call makes at most max_retries + 1 requests to each backend, however many
\* backends there are and whatever concurrent calls do to their cooldowns.
THEOREM CallsAreBounded == Spec => []CallsBounded
  <1>1. IInv => CallsBounded
    BY DEF IInv, CallInv, CallOK, CallsBounded
  <1> QED
    BY <1>1, Inductive, PTL

\* In whatever order the results of concurrent calls reach the breaker, a
\* closed circuit is below its threshold and an open one has a recovery time.
THEOREM BreakerIsConsistent == Spec => []BreakerConsistent
  <1>1. IInv => BreakerConsistent
    BY DEF IInv, Sound, BreakerConsistent
  <1> QED
    BY <1>1, Inductive, PTL

=============================================================================

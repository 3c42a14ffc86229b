---------------------------- MODULE ProviderCircuit ----------------------------
(***************************************************************************)
(* The circuit of each market data provider (data_quality/health.py) under *)
(* the router that chooses one (collector/router.py) for the threads of    *)
(* the scheduler.                                                          *)
(*                                                                         *)
(* The score that orders the providers that may be tried is left out: any  *)
(* of them may be the first.  A pause is counted in seconds, and a double  *)
(* holds 2^n up to some n.                                                 *)
(***************************************************************************)
EXTENDS Naturals, FiniteSets

CONSTANTS
  Providers,
  Serves,           \* the markets of each provider
  Threads,          \* HOT, WARM, COLD and BAR
  Threshold,        \* circuit_fail_threshold
  MaxBackoff,       \* backoff_max_sec; backoff_base_sec is 1
  LargestExponent,  \* 1023
  MaxFailures,      \* bound: consecutive failures
  MaxSecond         \* bound: clock

VARIABLES
  second,     \* the clock
  answering,  \* the providers that answer
  circuit,    \* CLOSED, OPEN, HALF_OPEN
  failures,   \* _consecutive_fail
  level,      \* _backoff_level
  openUntil,  \* _open_until
  call        \* what each thread is doing

circuitVars == <<second, answering, circuit, failures, level, openUntil, call>>

Markets == UNION {Serves[p] : p \in Providers}
NoCall == [bars |-> FALSE, todo |-> {}, from |-> {}, next |-> {}]

-----------------------------------------------------------------------------
(* HealthTracker.                                                          *)

CanTry(p) == circuit[p] = "CLOSED" \/ second >= openUntil[p]

\* can_try() of each of some providers: one that may be tried is HALF_OPEN.
TryAll(ps) ==
  circuit' = [p \in Providers |->
                IF p \in ps /\ CanTry(p) /\ circuit[p] # "CLOSED" THEN "HALF_OPEN" ELSE circuit[p]]

RecordSuccess(p) ==
  /\ failures' = [failures EXCEPT ![p] = 0]
  /\ level' = [level EXCEPT ![p] = 0]
  /\ circuit' = [circuit EXCEPT ![p] = "CLOSED"]
  /\ UNCHANGED openUntil

Opens(p) == failures[p] + 1 >= Threshold
\* 2 ** n is a double once it is multiplied by the base.
Overflows(p) == Opens(p) /\ level[p] > LargestExponent
Backoff(n) == IF 2 ^ n < MaxBackoff THEN 2 ^ n ELSE MaxBackoff
\* The pause is computed after the circuit is open, and may not be computable.
RecordFailure(p) ==
  /\ failures' = [failures EXCEPT ![p] = @ + 1]
  /\ circuit' = IF Opens(p) THEN [circuit EXCEPT ![p] = "OPEN"] ELSE circuit
  /\ IF Opens(p) /\ ~Overflows(p)
     THEN /\ level' = [level EXCEPT ![p] = @ + 1]
          /\ openUntil' = [openUntil EXCEPT ![p] = second + Backoff(level[p])]
     ELSE UNCHANGED <<level, openUntil>>

-----------------------------------------------------------------------------
(* ProviderRouter.                                                         *)

\* fetch_quotes(): the markets one after the other, one provider for each.
FetchQuotes(t) ==
  /\ call[t] = NoCall
  /\ \E ms \in (SUBSET Markets) \ {{}} : call' = [call EXCEPT ![t].todo = ms]
  /\ UNCHANGED <<second, answering, circuit, failures, level, openUntil>>

Select(t) ==
  /\ call[t].from = {} /\ call[t].todo # {}
  /\ \E m \in call[t].todo :
       LET able == {p \in Providers : m \in Serves[p] /\ CanTry(p)}
       IN /\ TryAll(able)
          /\ \/ /\ able = {}
                /\ call' = [call EXCEPT ![t].todo = @ \ {m}]
             \/ \E p \in able :
                  call' = [call EXCEPT ![t].todo = @ \ {m}, ![t].from = {p}]
  /\ UNCHANGED <<second, answering, failures, level, openUntil>>

\* fetch_bars(): every provider of a market until one answers.
FetchBars(t) ==
  /\ call[t] = NoCall
  /\ \E m \in Markets :
       LET able == {p \in Providers : m \in Serves[p] /\ CanTry(p)}
       IN /\ TryAll(able)
          /\ \E p \in able :
               call' = [call EXCEPT ![t].bars = TRUE, ![t].from = {p}, ![t].next = able \ {p}]
  /\ UNCHANGED <<second, answering, failures, level, openUntil>>

Answer(t) ==
  /\ \E p \in call[t].from \cap answering :
       /\ RecordSuccess(p)
       /\ call' = [call EXCEPT ![t].from = {}, ![t].next = {}]
  /\ UNCHANGED <<second, answering>>

\* The next provider of a call for bars is asked, if there is one.
AskNext(t) ==
  \/ call[t].next = {} /\ call' = [call EXCEPT ![t].from = {}]
  \/ \E q \in call[t].next : call' = [call EXCEPT ![t].from = {q}, ![t].next = @ \ {q}]

\* One that has no bars of the symbol has neither succeeded nor failed.
AnswerEmpty(t) ==
  /\ call[t].bars /\ call[t].from \cap answering # {}
  /\ AskNext(t)
  /\ UNCHANGED <<second, answering, circuit, failures, level, openUntil>>

\* An exception of record_failure() leaves the handler it is called from, and
\* with it the rest of the call.
Fail(t) ==
  /\ \E p \in call[t].from \ answering :
       /\ failures[p] < MaxFailures /\ RecordFailure(p)
       /\ \/ /\ Overflows(p) /\ call' = [call EXCEPT ![t] = NoCall]
          \/ ~Overflows(p) /\ AskNext(t)
  /\ UNCHANGED <<second, answering>>

Finish(t) ==
  /\ call[t] # NoCall /\ call[t].todo = {} /\ call[t].from = {}
  /\ call' = [call EXCEPT ![t] = NoCall]
  /\ UNCHANGED <<second, answering, circuit, failures, level, openUntil>>

\* External: a provider goes away or comes back.
Change ==
  /\ second < MaxSecond /\ second' = second + 1
  /\ \E p \in Providers :
       answering' \in {answering, answering \cup {p}, answering \ {p}}
  /\ UNCHANGED <<circuit, failures, level, openUntil, call>>

CircuitInit ==
  /\ second = 0 /\ answering \in SUBSET Providers
  /\ circuit = [p \in Providers |-> "CLOSED"]
  /\ failures = [p \in Providers |-> 0] /\ level = [p \in Providers |-> 0]
  /\ openUntil = [p \in Providers |-> 0]
  /\ call = [t \in Threads |-> NoCall]

CircuitNext ==
  \/ \E t \in Threads : \/ FetchQuotes(t) \/ Select(t) \/ FetchBars(t)
                        \/ Answer(t) \/ AnswerEmpty(t) \/ Fail(t) \/ Finish(t)
  \/ Change
CircuitSpec == CircuitInit /\ [][CircuitNext]_circuitVars

-----------------------------------------------------------------------------
(* Properties.                                                             *)

\* data_quality/health.py: "OPEN (pauses N seconds)", the pause "capped at
\* backoff_max".  A failure that opens a circuit pauses its provider.
OpenPauses ==
  [][\A p \in Providers :
       failures'[p] > failures[p] /\ circuit'[p] = "OPEN" => second < openUntil'[p]]_circuitVars
=============================================================================

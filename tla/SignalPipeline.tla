---------------------------- MODULE SignalPipeline ----------------------------
(***************************************************************************)
(* The life of one signal (signals/manager.py, state_machine.py,           *)
(* risk_gate.py, data_quality/gate.py): threads scan the same symbol, each *)
(* fetches a quote, judges it against the one in memory, decides from the  *)
(* signal in memory, stores the decision and then shows it.                *)
(*                                                                         *)
(* The transaction that stores a decision is RuntimeOutbox's; here it is a *)
(* compare-and-set of the row.  ARMED stands for ARMED_BREAKOUT and        *)
(* ARMED_PULLBACK, which the code never tells apart.  The freshness makes  *)
(* a version of a signal the version of an instant; two threads read the   *)
(* clock at two instants, so here every decision has an id that is free.   *)
(***************************************************************************)
EXTENDS Naturals, FiniteSets

CONSTANTS
  Scanners,    \* the HOT and the WARM thread
  Proposals,   \* what the strategy may propose
  StaleAge,    \* stale_ms
  Lifetime,    \* age at which the freshness is below 0.15
  MaxMoment    \* bound: clock

ASSUME ProposalsAssumption == Proposals \subseteq {"WATCH", "ARMED"}
ASSUME ScannersAssumption == IsFiniteSet(Scanners)

VARIABLES
  moment,   \* the clock
  tape,     \* what the provider answers: a price and its time
  shown,    \* MarketStore: the quote of the symbol
  memory,   \* MarketStore: the signal
  row,      \* table signals
  scan      \* where each thread is

signalVars == <<moment, tape, shown, memory, row, scan>>

NoSignal == [state |-> "NONE", since |-> 0, id |-> 0]
NoQuote == [at |-> 0, last |-> "NONE"]
Prices == {"MISSING", "BELOW", "ABOVE", "EXTENDED"}

-----------------------------------------------------------------------------
(* DataQualityGate.evaluate(), RiskGate.check().                           *)

Quality(quote, prev) ==
  IF quote.last = "MISSING" THEN "INVALID"
  ELSE IF quote.age > StaleAge THEN "STALE"
  ELSE IF prev.at = quote.at /\ prev.last = quote.last THEN "DEGRADED" ELSE "VALID"

\* What else the gate knows: the market regime, the reward-risk and the heat.
Bars == {"NONE", "REGIME", "REWARD"}
Decision(dq, quote, bar) ==
  [allowed |-> dq = "VALID" /\ bar = "NONE",
   overextended |-> dq = "VALID" /\ bar # "REGIME" /\ quote.last = "EXTENDED"]
Crossed(quote) == quote.last \in {"ABOVE", "EXTENDED"}

-----------------------------------------------------------------------------
(* SignalStateMachine.decide().                                            *)

ValidTransitions ==
  [COLD |-> {"WATCH", "DATA_INVALID"},
   WATCH |-> {"ARMED", "INVALIDATED", "DATA_INVALID", "EXPIRED", "COLD"},
   ARMED |-> {"TRIGGERED", "INVALIDATED", "DATA_INVALID", "EXPIRED", "WATCH", "OVEREXTENDED"},
   TRIGGERED |-> {"ACTIVE", "INVALIDATED", "OVEREXTENDED", "DATA_INVALID"},
   ACTIVE |-> {"TRIM", "EXIT", "INVALIDATED", "OVEREXTENDED", "DATA_INVALID"},
   TRIM |-> {"EXIT", "ACTIVE", "INVALIDATED"},
   OVEREXTENDED |-> {"ACTIVE", "EXIT", "INVALIDATED", "DATA_INVALID"},
   EXIT |-> {}, INVALIDATED |-> {"WATCH"}, DATA_INVALID |-> {"WATCH"}, EXPIRED |-> {}]

\* What becomes of a signal in a state, or of a proposal of one.
Next1(state, dq, d, quote, expired) ==
  IF dq # "VALID" THEN IF state \in {"WATCH", "ARMED"} THEN "DATA_INVALID" ELSE state
  ELSE IF d.overextended /\ state \in {"ARMED", "TRIGGERED", "ACTIVE"} THEN "OVEREXTENDED"
  ELSE IF state # "ARMED" THEN state
  ELSE IF d.allowed /\ Crossed(quote) THEN "TRIGGERED"
  ELSE IF ~d.allowed THEN "WATCH"
  ELSE IF expired THEN "EXPIRED" ELSE state
Legal(from, to) == IF to \in ValidTransitions[from] THEN to ELSE from

\* Ids of versions nobody holds are used again.
InUse ==
  {memory.id, row.id} \cup UNION {{scan[s].existing.id, scan[s].signal.id} :
                                  s \in {t \in Scanners : scan[t].step \in {"DECIDED", "STORED"}}}
NewId == CHOOSE i \in 1..(2 * Cardinality(Scanners) + 2) : i \notin InUse

Decide(existing, proposed, dq, d, quote) ==
  LET expired == moment - existing.since >= Lifetime
      state == IF existing = NoSignal THEN Next1(proposed, dq, d, quote, FALSE)
               ELSE Legal(existing.state, Next1(existing.state, dq, d, quote, expired))
  IN [state |-> state, id |-> NewId,
      since |-> IF existing # NoSignal /\ existing.state = state THEN existing.since ELSE moment]

-----------------------------------------------------------------------------
(* SignalManager.                                                          *)

Idle == [step |-> "IDLE"]

\* fetch_quotes(): the age of the quote is what it is when it is received.
Fetch(s) ==
  /\ scan[s] = Idle
  /\ scan' = [scan EXCEPT ![s] = [step |-> "FETCHED",
                                  quote |-> [at |-> tape.at, last |-> tape.last,
                                             age |-> moment - tape.at]]]
  /\ UNCHANGED <<moment, tape, shown, memory, row>>

Evaluate(s) ==
  /\ scan[s].step = "FETCHED"
  /\ scan' = [scan EXCEPT ![s] = [step |-> "EVALUATED", quote |-> scan[s].quote,
                                  dq |-> Quality(scan[s].quote, shown)]]
  /\ UNCHANGED <<moment, tape, shown, memory, row>>

\* A quote without a price, or a strategy without a candidate, ends the scan.
Judge(s) ==
  /\ scan[s].step = "EVALUATED"
  /\ LET q == scan[s].quote
     IN /\ shown' = [at |-> q.at, last |-> q.last]
        /\ \/ scan' = [scan EXCEPT ![s] = Idle]
           \/ /\ q.last # "MISSING"
              /\ \E proposed \in Proposals, bar \in Bars :
                   LET d == Decision(scan[s].dq, q, bar)
                   IN scan' = [scan EXCEPT ![s] =
                        [step |-> "DECIDED", dq |-> scan[s].dq, existing |-> memory,
                         signal |-> Decide(memory, proposed, scan[s].dq, d, q)]]
  /\ UNCHANGED <<moment, tape, memory, row>>

\* Mutant: a new signal replaces the row of an older one.
IsCurrentOrNew(existing) == row = existing \/ existing = NoSignal
\* Mutant: whoever decided from some stored version may write.
IsCurrentLoosely(existing) == row = NoSignal <=> existing = NoSignal
\* The version decided from is still the version stored.
IsCurrent(existing) == row = existing
\* A decision that may not be stored ends the scan.
Persist(s) ==
  /\ scan[s].step = "DECIDED"
  /\ IF IsCurrent(scan[s].existing)
     THEN /\ row' = scan[s].signal
          /\ scan' = [scan EXCEPT ![s].step = "STORED"]
     ELSE /\ scan' = [scan EXCEPT ![s] = Idle]
          /\ UNCHANGED row
  /\ UNCHANGED <<moment, tape, shown, memory>>

Show(s) ==
  /\ scan[s].step = "STORED"
  /\ memory' = scan[s].signal
  /\ scan' = [scan EXCEPT ![s] = Idle]
  /\ UNCHANGED <<moment, tape, shown, row>>

\* The COLD thread writes quotes only.
Cold ==
  /\ shown' = [at |-> tape.at, last |-> tape.last]
  /\ UNCHANGED <<moment, tape, memory, row, scan>>

\* recover(): signals in other states stay in the table only.
Recovered == {"WATCH", "ARMED", "TRIGGERED", "ACTIVE", "TRIM", "OVEREXTENDED"}
Restart ==
  /\ shown' = NoQuote
  /\ memory' = IF row.state \in Recovered THEN row ELSE NoSignal
  /\ scan' = [s \in Scanners |-> Idle]
  /\ UNCHANGED <<moment, tape, row>>

\* External: the provider has a new quote, or it has not.
Elapse ==
  /\ moment < MaxMoment /\ moment' = moment + 1
  /\ tape' \in {tape} \cup {[at |-> moment', last |-> p] : p \in Prices}
  /\ UNCHANGED <<shown, memory, row, scan>>

SignalInit ==
  /\ moment = 0 /\ tape \in {[at |-> 0, last |-> p] : p \in Prices}
  /\ shown = NoQuote /\ memory = NoSignal /\ row = NoSignal
  /\ scan = [s \in Scanners |-> Idle]

SignalNext ==
  \/ \E s \in Scanners : Fetch(s) \/ Evaluate(s) \/ Judge(s) \/ Persist(s) \/ Show(s)
  \/ Cold \/ Restart \/ Elapse
SignalSpec == SignalInit /\ [][SignalNext]_signalVars

-----------------------------------------------------------------------------
(* Properties.                                                             *)

\* What is shown is what is stored, but for the thread that stored it last and
\* has not shown it yet: no thread that is late takes the signal back.
MemoryIsStored ==
  \/ memory = row
  \/ memory = NoSignal /\ row.state \notin Recovered
  \/ \E s \in Scanners : scan[s].step = "STORED" /\ scan[s].signal = row

\* A stored signal goes through the transitions of the state machine only, and
\* as long as it stays in a state it is as old as it was, whichever threads
\* decide and whenever the process is started again.
LifecycleIsLegal ==
  [][/\ row'.state # row.state => row.state = "NONE" \/ row'.state \in ValidTransitions[row.state]
     /\ row.state # "NONE" /\ row'.state = row.state => row'.since = row.since]_row

\* docs/architecture.md: "DATA_INVALID --> WATCH: data recovered".  A decision
\* on valid data does not leave a DATA_INVALID signal in its state.
DataRecovers ==
  [][\A s \in Scanners :
       /\ scan[s].step = "EVALUATED" /\ scan[s].dq = "VALID"
       /\ scan'[s].step = "DECIDED" /\ scan'[s].existing.state = "DATA_INVALID"
       => scan'[s].signal.state # "DATA_INVALID"]_signalVars
=============================================================================

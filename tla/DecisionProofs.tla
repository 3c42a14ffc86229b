--------------------------- MODULE DecisionProofs ----------------------------
(* Proofs about the components the runs of MCDecisions put side by side:   *)
(* SignalPipeline, for any finite set of scanning threads, any ages and any *)
(* lifetime of a signal; PlanBook, for any positions, currencies and sizes; *)
(* PointInTime, for any archive, any dates and any bars; PriceAdjustment,   *)
(* for any filings, policies and tapes.                                    *)
EXTENDS SignalPipeline, PlanBook, PriceAdjustment, FiniteSums, FunctionTheorems

-----------------------------------------------------------------------------
(* SignalPipeline.                                                         *)

Busy == {s \in Scanners : scan[s].step \in {"DECIDED", "STORED"}}

States == {"COLD", "WATCH", "ARMED", "TRIGGERED", "ACTIVE", "TRIM", "OVEREXTENDED",
           "EXIT", "INVALIDATED", "DATA_INVALID", "EXPIRED"}
Signals == {NoSignal} \cup [state : States, since : Nat, id : Nat]
Qualities == {"VALID", "INVALID", "STALE", "DEGRADED"}
Quotes == [at : Nat, last : Prices, age : Int]
Scans ==
  {Idle}
  \cup [step : {"FETCHED"}, quote : Quotes]
  \cup [step : {"EVALUATED"}, quote : Quotes, dq : Qualities]
  \cup [step : {"DECIDED", "STORED"}, dq : Qualities, existing : Signals, signal : Signals]

\* What is shown, stored and decided are signals of the state machine.
PipelineTypeOK ==
  /\ moment \in Nat
  /\ tape \in [at : Nat, last : Prices]
  /\ memory \in Signals /\ row \in Signals
  /\ scan \in [Scanners -> Scans]

\* The version a thread has decided is nobody else's: it is not in memory, no
\* thread decided from it, no other thread decided it, and it is in the table
\* when its own thread has stored it, and not before.
VersionsFresh ==
  \A s \in Busy :
    /\ scan[s].signal.id # memory.id
    /\ \A t \in Busy : scan[s].signal.id # scan[t].existing.id
    /\ \A t \in Busy \ {s} : scan[s].signal.id # scan[t].signal.id
    /\ scan[s].step = "DECIDED" => scan[s].signal.id # row.id
    /\ scan[s].step = "STORED" => row = scan[s].signal

\* One transition of the state machine, which keeps the age of a state it keeps.
LegalStep(from, to) ==
  /\ to.state # from.state => from.state = "NONE" \/ to.state \in ValidTransitions[from.state]
  /\ from.state # "NONE" /\ to.state = from.state => to.since = from.since
DecisionsLegal == \A s \in Busy : LegalStep(scan[s].existing, scan[s].signal)

IInv == PipelineTypeOK /\ VersionsFresh /\ DecisionsLegal /\ MemoryIsStored

-----------------------------------------------------------------------------
(* The operators of the model.                                             *)

\* While a thread has not decided, there is an id that nobody holds.
LEMMA NewIdIsFree ==
  ASSUME PipelineTypeOK, NEW s \in Scanners, s \notin Busy
  PROVE  NewId \in Nat /\ NewId \notin InUse
<1> DEFINE Olds == {scan[t].existing.id : t \in Busy}
           News == {scan[t].signal.id : t \in Busy}
           n == Cardinality(Scanners)
           Ids == 1..(2 * n + 2)
<1>1. /\ IsFiniteSet(Busy) /\ Cardinality(Busy) \in Nat
      /\ n \in Nat /\ Cardinality(Busy) < n
  <2>1. IsFiniteSet(Scanners) /\ Busy \in SUBSET Scanners
    BY ScannersAssumption DEF Busy
  <2>2. IsFiniteSet(Busy) /\ Cardinality(Busy) <= n /\ Cardinality(Busy) # n
    BY <2>1, FS_Subset
  <2> QED
    BY <2>1, <2>2, FS_CardinalityType
<1>2. IsFiniteSet(Olds) /\ Cardinality(Olds) <= Cardinality(Busy)
  <2> DEFINE f == [t \in Busy |-> scan[t].existing.id]
  <2>1. f \in Surjection(Busy, Olds)
    BY DEF Surjection
  <2> QED
    BY <1>1, <2>1, FS_Surjection
<1>3. IsFiniteSet(News) /\ Cardinality(News) <= Cardinality(Busy)
  <2> DEFINE f == [t \in Busy |-> scan[t].signal.id]
  <2>1. f \in Surjection(Busy, News)
    BY DEF Surjection
  <2> QED
    BY <1>1, <2>1, FS_Surjection
<1> HIDE DEF Olds, News
<1>4. /\ IsFiniteSet(Olds \cup News)
      /\ Cardinality(Olds \cup News) \in Nat
      /\ Cardinality(Olds \cup News) <= 2 * Cardinality(Busy)
  <2>1. IsFiniteSet(Olds \cap News)
    BY <1>2, FS_Intersection
  <2>2. /\ Cardinality(Olds) \in Nat /\ Cardinality(News) \in Nat
        /\ Cardinality(Olds \cap News) \in Nat
    BY <1>2, <1>3, <2>1, FS_CardinalityType
  <2>3. /\ IsFiniteSet(Olds \cup News)
        /\ Cardinality(Olds \cup News) = Cardinality(Olds) + Cardinality(News) - Cardinality(Olds \cap News)
    BY <1>2, <1>3, FS_Union
  <2>4. Cardinality(Olds \cup News) \in Nat
    BY <2>3, FS_CardinalityType
  <2> QED
    BY <1>1, <1>2, <1>3, <2>2, <2>3, <2>4
<1> DEFINE All == ((Olds \cup News) \cup {memory.id}) \cup {row.id}
<1>5. IsFiniteSet(All) /\ Cardinality(All) \in Nat /\ Cardinality(All) < 2 * n + 2
  <2>1. /\ IsFiniteSet((Olds \cup News) \cup {memory.id})
        /\ Cardinality((Olds \cup News) \cup {memory.id}) <= Cardinality(Olds \cup News) + 1
    BY <1>4, FS_AddElement, SMTT(60)
  <2>2. Cardinality((Olds \cup News) \cup {memory.id}) \in Nat
    BY <2>1, FS_CardinalityType
  <2>3. IsFiniteSet(All) /\ Cardinality(All) <= Cardinality((Olds \cup News) \cup {memory.id}) + 1
    BY <2>1, <2>2, FS_AddElement, SMTT(60)
  <2>4. Cardinality(All) \in Nat
    BY <2>3, FS_CardinalityType
  <2> QED
    BY <1>1, <1>4, <2>1, <2>2, <2>3, <2>4
<1>6. InUse = All
  BY DEF InUse, Olds, News, Busy
<1> HIDE DEF All
<1>7. \E i \in Ids : i \notin InUse
  <2> SUFFICES ASSUME Ids \in SUBSET All PROVE FALSE
    BY <1>6
  <2>1. Cardinality(Ids) <= Cardinality(All)
    BY <1>5, FS_Subset
  <2>2. Cardinality(Ids) = 2 * n + 2
    BY <1>1, FS_Interval
  <2> QED
    BY <1>1, <1>5, <2>1, <2>2
<1>8. NewId \in Ids /\ NewId \notin InUse
  BY <1>7 DEF NewId
<1> QED
  BY <1>1, <1>8

\* What decide() returns is a signal, and a legal step from the one decided from.
LEMMA DecideIsLegal ==
  ASSUME PipelineTypeOK, NEW s \in Scanners, s \notin Busy,
         NEW proposed \in Proposals, NEW dq \in Qualities, NEW quote \in Quotes, NEW bar \in Bars
  PROVE  LET new == Decide(memory, proposed, dq, Decision(dq, quote, bar), quote)
         IN new \in Signals /\ new.id = NewId /\ LegalStep(memory, new)
<1> DEFINE d == Decision(dq, quote, bar)
           new == Decide(memory, proposed, dq, d, quote)
<1> SUFFICES new \in Signals /\ new.id = NewId /\ LegalStep(memory, new)
  OBVIOUS
<1>1. NewId \in Nat
  BY NewIdIsFree
<1> HIDE DEF d
<1>2. \A state \in States : \A expired : Next1(state, dq, d, quote, expired) \in States
  BY DEF Next1, States
<1>3. \A from \in States, to \in States : Legal(from, to) \in States
  BY DEF Legal
<1>4. \A from \in States, to \in States :
        Legal(from, to) # from => Legal(from, to) \in ValidTransitions[from]
  BY DEF Legal
<1>5. memory \in Signals /\ moment \in Nat
  BY DEF PipelineTypeOK
<1> DEFINE expired == moment - memory.since >= Lifetime
<1>6. CASE memory = NoSignal
  <2>1. proposed \in States
    BY ProposalsAssumption DEF States
  <2> DEFINE to == Next1(proposed, dq, d, quote, FALSE)
  <2>2. new = [state |-> to, id |-> NewId, since |-> moment]
    BY <1>6 DEF Decide
  <2>3. to \in States
    BY <2>1, <1>2
  <2> HIDE DEF to
  <2>4. memory.state = "NONE"
    BY <1>6 DEF NoSignal
  <2> QED
    BY <1>1, <1>5, <2>2, <2>3, <2>4 DEF Signals, LegalStep
<1>7. CASE memory # NoSignal
  <2>1. memory.state \in States /\ memory.since \in Nat
    BY <1>5, <1>7 DEF Signals
  <2> DEFINE to == Legal(memory.state, Next1(memory.state, dq, d, quote, expired))
  <2>2. /\ to \in States
        /\ to # memory.state => to \in ValidTransitions[memory.state]
    BY <2>1, <1>2, <1>3, <1>4
  <2>3. new = [state |-> to, id |-> NewId,
               since |-> IF memory.state = to THEN memory.since ELSE moment]
    BY <1>7 DEF Decide
  <2> HIDE DEF to
  <2> QED
    BY <1>1, <1>5, <2>1, <2>2, <2>3 DEF Signals, LegalStep
<1> QED
  BY <1>6, <1>7

\* evaluate() answers with one of the four qualities.
LEMMA QualityType ==
  ASSUME NEW quote \in Quotes, NEW prev
  PROVE  Quality(quote, prev) \in Qualities
BY DEF Quality, Qualities, Quotes

-----------------------------------------------------------------------------
(* The steps of a thread.                                                  *)

LEMMA InitInv == SignalInit => IInv
<1> SUFFICES ASSUME SignalInit PROVE IInv
  OBVIOUS
<1>1. PipelineTypeOK
  BY DEF SignalInit, PipelineTypeOK, Signals, Scans
<1>2. Busy = {}
  BY DEF SignalInit, Busy, Idle
<1>3. MemoryIsStored
  BY DEF SignalInit, MemoryIsStored
<1> QED
  BY <1>1, <1>2, <1>3 DEF IInv, VersionsFresh, DecisionsLegal

\* A thread that has fetched or judged a quote, or is done, holds no version.
LEMMA NotBusy ==
  ASSUME NEW s \in Scanners, scan[s].step \notin {"DECIDED", "STORED"}
  PROVE  s \notin Busy
BY DEF Busy

LEMMA FetchInv ==
  ASSUME IInv, NEW s \in Scanners, Fetch(s)
  PROVE  IInv'
<1> USE DEF IInv
<1>1. [step |-> "FETCHED", quote |-> [at |-> tape.at, last |-> tape.last, age |-> moment - tape.at]] \in Scans
  BY DEF PipelineTypeOK, Scans, Quotes
<1>2. PipelineTypeOK'
  BY <1>1 DEF PipelineTypeOK, Fetch
<1>3. /\ Busy' = Busy
      /\ \A t \in Busy : scan'[t] = scan[t]
  BY DEF Fetch, Busy, PipelineTypeOK, Idle
<1>4. VersionsFresh' /\ DecisionsLegal'
  BY <1>3 DEF Fetch, VersionsFresh, DecisionsLegal
<1>5. MemoryIsStored'
  BY <1>3 DEF Fetch, MemoryIsStored, Busy
<1> QED
  BY <1>2, <1>4, <1>5

LEMMA EvaluateInv ==
  ASSUME IInv, NEW s \in Scanners, Evaluate(s)
  PROVE  IInv'
<1> USE DEF IInv
<1>1. scan[s].quote \in Quotes
  BY DEF PipelineTypeOK, Scans, Evaluate, Idle
<1>2. [step |-> "EVALUATED", quote |-> scan[s].quote, dq |-> Quality(scan[s].quote, shown)] \in Scans
  BY <1>1, QualityType DEF Scans
<1>3. PipelineTypeOK'
  BY <1>2 DEF PipelineTypeOK, Evaluate
<1>4. /\ Busy' = Busy
      /\ \A t \in Busy : scan'[t] = scan[t]
  BY DEF Evaluate, Busy, PipelineTypeOK
<1>5. VersionsFresh' /\ DecisionsLegal'
  BY <1>4 DEF Evaluate, VersionsFresh, DecisionsLegal
<1>6. MemoryIsStored'
  BY <1>4 DEF Evaluate, MemoryIsStored, Busy
<1> QED
  BY <1>3, <1>5, <1>6

\* A thread decides from what is shown; the version it makes is new.
LEMMA JudgeInv ==
  ASSUME IInv, NEW s \in Scanners, Judge(s)
  PROVE  IInv'
<1> USE DEF IInv
<1>1. /\ s \notin Busy /\ scan[s].quote \in Quotes /\ scan[s].dq \in Qualities
      /\ UNCHANGED <<moment, tape, memory, row>>
  BY DEF PipelineTypeOK, Scans, Judge, Idle, Busy
<1>2. CASE scan' = [scan EXCEPT ![s] = Idle]
  <2>1. PipelineTypeOK'
    BY <1>1, <1>2 DEF PipelineTypeOK, Scans
  <2>2. /\ Busy' = Busy
        /\ \A t \in Busy : scan'[t] = scan[t]
    BY <1>1, <1>2 DEF Busy, PipelineTypeOK, Idle
  <2>3. VersionsFresh' /\ DecisionsLegal'
    BY <1>1, <2>2 DEF VersionsFresh, DecisionsLegal
  <2>4. MemoryIsStored'
    BY <1>1, <2>2 DEF MemoryIsStored, Busy
  <2> QED
    BY <2>1, <2>3, <2>4
<1>3. ASSUME NEW proposed \in Proposals, NEW bar \in Bars, NEW new,
             new = Decide(memory, proposed, scan[s].dq, Decision(scan[s].dq, scan[s].quote, bar), scan[s].quote),
             scan' = [scan EXCEPT ![s] = [step |-> "DECIDED", dq |-> scan[s].dq,
                                          existing |-> memory, signal |-> new]]
      PROVE  IInv'
  <2>1. new \in Signals /\ new.id = NewId /\ LegalStep(memory, new)
    BY <1>1, <1>3, DecideIsLegal
  <2>2. NewId \notin InUse
    BY <1>1, NewIdIsFree
  <2>3. PipelineTypeOK'
    BY <1>1, <1>3, <2>1 DEF PipelineTypeOK, Scans
  <2>4. /\ Busy' = Busy \cup {s}
        /\ \A t \in Busy : t # s /\ scan'[t] = scan[t]
        /\ scan'[s].step = "DECIDED" /\ scan'[s].existing = memory /\ scan'[s].signal = new
    BY <1>1, <1>3 DEF Busy, PipelineTypeOK
  <2>5. /\ new.id # memory.id /\ new.id # row.id
        /\ \A t \in Busy : new.id # scan[t].existing.id /\ new.id # scan[t].signal.id
    BY <2>1, <2>2 DEF InUse, Busy
  <2>6. VersionsFresh'
    BY <1>1, <2>4, <2>5 DEF VersionsFresh
  <2>7. DecisionsLegal'
    BY <2>1, <2>4 DEF DecisionsLegal
  <2>8. MemoryIsStored'
    BY <1>1, <2>4 DEF MemoryIsStored, Busy
  <2> QED
    BY <2>3, <2>6, <2>7, <2>8
<1> QED
  BY <1>2, <1>3 DEF Judge

\* Only a thread whose decision is from the stored version stores it; then no other
\* thread is between storing and showing.
LEMMA PersistInv ==
  ASSUME IInv, NEW s \in Scanners, Persist(s)
  PROVE  IInv' /\ LegalStep(row, row')
<1> USE DEF IInv
<1>1. /\ s \in Busy /\ scan[s].step = "DECIDED"
      /\ scan[s] \in [step : {"DECIDED", "STORED"}, dq : Qualities, existing : Signals, signal : Signals]
      /\ UNCHANGED <<moment, tape, memory>>
  BY DEF PipelineTypeOK, Scans, Persist, Idle, Busy
<1>2. CASE IsCurrent(scan[s].existing)
  <2>1. row = scan[s].existing /\ row' = scan[s].signal
    BY <1>2 DEF Persist, IsCurrent
  <2>2. /\ scan' = [scan EXCEPT ![s].step = "STORED"]
    BY <1>2 DEF Persist
  <2>3. /\ scan'[s] = [step |-> "STORED", dq |-> scan[s].dq,
                       existing |-> scan[s].existing, signal |-> scan[s].signal]
        /\ \A t \in Scanners \ {s} : scan'[t] = scan[t]
    BY <1>1, <2>2 DEF PipelineTypeOK
  <2>4. PipelineTypeOK'
    BY <1>1, <2>1, <2>2, <2>3 DEF PipelineTypeOK, Scans
  <2>5. Busy' = Busy
    BY <1>1, <2>3 DEF Busy
  <2>6. \A t \in Busy : scan'[t].signal = scan[t].signal /\ scan'[t].existing = scan[t].existing
    BY <1>1, <2>3 DEF Busy
  <2>7. \A t \in Busy : scan[t].step = "DECIDED"
    BY <1>1, <2>1 DEF VersionsFresh, Busy
  <2>8. VersionsFresh'
    BY <1>1, <2>1, <2>3, <2>5, <2>6, <2>7 DEF VersionsFresh, Busy
  <2>9. DecisionsLegal' /\ LegalStep(row, row')
    BY <1>1, <2>1, <2>5, <2>6 DEF DecisionsLegal
  <2>10. MemoryIsStored'
    BY <2>1, <2>3 DEF MemoryIsStored
  <2> QED
    BY <2>4, <2>8, <2>9, <2>10
<1>3. CASE ~IsCurrent(scan[s].existing)
  <2>1. scan' = [scan EXCEPT ![s] = Idle] /\ row' = row
    BY <1>3 DEF Persist
  <2>2. PipelineTypeOK'
    BY <1>1, <2>1 DEF PipelineTypeOK, Scans
  <2>3. /\ Busy' = Busy \ {s}
        /\ \A t \in Busy \ {s} : scan'[t] = scan[t]
    BY <2>1 DEF Busy, PipelineTypeOK, Idle
  <2>4. VersionsFresh' /\ DecisionsLegal'
    BY <1>1, <2>1, <2>3 DEF VersionsFresh, DecisionsLegal
  <2>5. MemoryIsStored'
    BY <1>1, <2>1, <2>3 DEF MemoryIsStored, Busy
  <2> QED
    BY <2>1, <2>2, <2>4, <2>5 DEF LegalStep
<1> QED
  BY <1>2, <1>3

LEMMA ShowInv ==
  ASSUME IInv, NEW s \in Scanners, Show(s)
  PROVE  IInv'
<1> USE DEF IInv
<1>1. s \in Busy /\ scan[s].signal \in Signals /\ memory' = scan[s].signal /\ row = scan[s].signal
  BY DEF PipelineTypeOK, Scans, Show, Idle, Busy, VersionsFresh
<1>2. PipelineTypeOK'
  BY <1>1 DEF PipelineTypeOK, Scans, Show
<1>3. /\ Busy' = Busy \ {s}
      /\ \A t \in Busy \ {s} : scan'[t] = scan[t]
  BY DEF Busy, PipelineTypeOK, Idle, Show
<1>4. VersionsFresh' /\ DecisionsLegal'
  BY <1>1, <1>3 DEF VersionsFresh, DecisionsLegal, Show
<1>5. MemoryIsStored'
  BY <1>1 DEF MemoryIsStored, Show
<1> QED
  BY <1>2, <1>4, <1>5

-----------------------------------------------------------------------------
(* The other steps.                                                        *)

LEMMA RestartInv ==
  ASSUME IInv, Restart
  PROVE  IInv'
<1> USE DEF IInv
<1>1. PipelineTypeOK'
  BY DEF PipelineTypeOK, Scans, Signals, Restart
<1>2. Busy' = {}
  BY DEF Busy, Restart, Idle
<1>3. MemoryIsStored'
  BY DEF MemoryIsStored, Restart
<1> QED
  BY <1>1, <1>2, <1>3 DEF VersionsFresh, DecisionsLegal

\* The COLD thread, the clock and the provider touch no signal.
LEMMA SignalFrame ==
  ASSUME IInv, UNCHANGED <<memory, row, scan>>, moment' \in Nat, tape' \in [at : Nat, last : Prices]
  PROVE  IInv'
BY DEF IInv, PipelineTypeOK, VersionsFresh, DecisionsLegal, MemoryIsStored, Busy

\* Every step preserves the invariant and is legal for the stored signal.
LEMMA StepInv ==
  ASSUME IInv, [SignalNext]_signalVars
  PROVE  IInv' /\ LegalStep(row, row')
<1>1. ASSUME NEW s \in Scanners, Fetch(s)
      PROVE  IInv' /\ row' = row
  BY <1>1, FetchInv DEF Fetch
<1>2. ASSUME NEW s \in Scanners, Evaluate(s)
      PROVE  IInv' /\ row' = row
  BY <1>2, EvaluateInv DEF Evaluate
<1>3. ASSUME NEW s \in Scanners, Judge(s)
      PROVE  IInv' /\ row' = row
  BY <1>3, JudgeInv DEF Judge
<1>4. ASSUME NEW s \in Scanners, Persist(s)
      PROVE  IInv' /\ LegalStep(row, row')
  BY <1>4, PersistInv
<1>5. ASSUME NEW s \in Scanners, Show(s)
      PROVE  IInv' /\ row' = row
  BY <1>5, ShowInv DEF Show
<1>6. CASE Cold
  BY <1>6, SignalFrame DEF Cold, IInv, PipelineTypeOK, LegalStep
<1>7. CASE Restart
  BY <1>7, RestartInv DEF Restart, LegalStep
<1>8. CASE Elapse
  <2>1. moment' \in Nat /\ tape' \in [at : Nat, last : Prices]
    BY <1>8 DEF Elapse, IInv, PipelineTypeOK
  <2> QED
    BY <1>8, <2>1, SignalFrame DEF Elapse, LegalStep
<1>9. CASE UNCHANGED signalVars
  BY <1>9, SignalFrame DEF signalVars, IInv, PipelineTypeOK, LegalStep
<1>10. ASSUME row' = row PROVE LegalStep(row, row')
  BY <1>10 DEF LegalStep
<1> QED
  BY <1>1, <1>2, <1>3, <1>4, <1>5, <1>6, <1>7, <1>8, <1>9, <1>10 DEF SignalNext

-----------------------------------------------------------------------------
(* The theorems.                                                           *)

\* The inductive invariant holds throughout: versions are unique, decisions legal.
THEOREM PipelineInvariant == SignalSpec => []IInv
<1>1. SignalInit => IInv
  BY InitInv
<1>2. IInv /\ [SignalNext]_signalVars => IInv'
  BY StepInv
<1> QED
  BY <1>1, <1>2, PTL DEF SignalSpec

\* Whatever is shown or stored is a signal in a state of the state machine.
THEOREM PipelineTypeCorrect == SignalSpec => []PipelineTypeOK
<1>1. IInv => PipelineTypeOK
  BY DEF IInv
<1> QED
  BY <1>1, PipelineInvariant, PTL

\* Memory shows the stored signal, or a thread is about to show it, however many
\* threads scan and whenever the process restarts: no late thread takes it back.
THEOREM MemoryIsStoredHolds == SignalSpec => []MemoryIsStored
<1>1. IInv => MemoryIsStored
  BY DEF IInv
<1> QED
  BY <1>1, PipelineInvariant, PTL

\* The stored signal takes the transitions of the state machine only, and keeps the
\* age of a state it stays in.
THEOREM LifecycleIsLegalHolds == SignalSpec => LifecycleIsLegal
<1>1. IInv /\ [SignalNext]_signalVars => LegalStep(row, row')
  BY StepInv
<1>2. LegalStep(row, row') =>
        [/\ row'.state # row.state => row.state = "NONE" \/ row'.state \in ValidTransitions[row.state]
         /\ row.state # "NONE" /\ row'.state = row.state => row'.since = row.since]_row
  BY DEF LegalStep
<1> QED
  BY <1>1, <1>2, PipelineInvariant, PTL DEF SignalSpec, LifecycleIsLegal

-----------------------------------------------------------------------------
(* PlanBook.                                                               *)

\* The inductive invariant: a plan keeps its position whatever becomes of it.
BookInv == BookTypeOK /\ SameParent /\ CanReconcile

-----------------------------------------------------------------------------
LEMMA CurrenciesKnown ==
  ASSUME BookTypeOK
  PROVE /\ ActiveCurrencies \subseteq Currencies
        /\ IsFiniteSet(ActiveCurrencies)
        /\ Cardinality(ActiveCurrencies) \in Nat
        /\ Cardinality(Currencies) \in Nat
        /\ Cardinality(ActiveCurrencies) <= Cardinality(Currencies)
<1>1. ActiveCurrencies \subseteq Currencies
  BY BookAssumption DEF BookTypeOK, Plans, Parents, ActiveCurrencies, Active, Currency
<1>2. IsFiniteSet(Currencies)
  BY BookAssumption DEF BookAssumption
<1>3. QED
  BY <1>1, <1>2, FS_Subset, FS_CardinalityType

\* A command that is no reconciliation leaves room for one of each currency.
LEMMA RoomLeft ==
  ASSUME BookTypeOK, BookTypeOK', NEW kind, kind # "RECONCILE", Room(kind),
         book'.revision = book.revision + 1
  PROVE CanReconcile'
<1>1. /\ Cardinality(ActiveCurrencies') \in Nat /\ Cardinality(Currencies) \in Nat
      /\ Cardinality(ActiveCurrencies') <= Cardinality(Currencies)
  <2>1. ActiveCurrencies' \subseteq Currencies
    BY BookAssumption DEF BookTypeOK, Plans, Parents, ActiveCurrencies, Active, Currency
  <2>2. IsFiniteSet(Currencies)
    BY BookAssumption DEF BookAssumption
  <2> QED
    BY <2>1, <2>2, FS_Subset, FS_CardinalityType
<1>2. book.revision \in Nat /\ MaxCommands \in Nat
  BY BookAssumption DEF BookTypeOK, BookAssumption
<1>3. book.revision < MaxCommands - Cardinality(Currencies)
  BY DEF Room
<1> QED
  BY <1>1, <1>2, <1>3 DEF CanReconcile

-----------------------------------------------------------------------------
LEMMA BookInitInv == BookInit => BookInv
<1> SUFFICES ASSUME BookInit PROVE BookInv
  OBVIOUS
<1>1. BookTypeOK
  BY DEF BookInit, EmptyBook, BookTypeOK
<1>2. Active = {} /\ book.revision = 0
  BY DEF BookInit, EmptyBook, Active
<1>3. SameParent
  BY <1>2 DEF SameParent
<1>4. CanReconcile
  <2>1. ActiveCurrencies = {}
    BY <1>2 DEF ActiveCurrencies
  <2> QED
    BY <1>2, <2>1, FS_EmptySet, BookAssumption DEF CanReconcile, BookAssumption
<1> QED
  BY <1>1, <1>3, <1>4 DEF BookInv

\* A step that leaves the book alone.
LEMMA SameBook ==
  ASSUME BookInv, BookTypeOK', UNCHANGED book
  PROVE BookInv'
BY DEF BookInv, SameParent, CanReconcile, ActiveCurrencies, Active, Currency

LEMMA SetAllocationInv ==
  ASSUME BookInv, NEW h \in Holdings, NEW core \in [Purposes -> Shares],
         NEW tactical \in [Purposes -> Shares], SetAllocation(h, core, tactical)
  PROVE BookInv'
<1> USE DEF BookInv
<1> DEFINE item == [parent |-> Parent(h), core |-> core, tactical |-> tactical]
<1>0. item \in Allocations /\ item.parent = Parent(h)
  BY BookAssumption DEF BookAssumption, BookTypeOK, Allocations, Parents, Parent
<1> HIDE DEF item
<1>1. /\ book' = [[book EXCEPT !.allocations[h] = {item}] EXCEPT !.revision = book.revision + 1]
      /\ UNCHANGED <<tick, positions>> /\ Room("SET_ALLOCATION") /\ ActiveOf(h) = {}
  BY DEF SetAllocation, Commit, item
<1>2. book' = [revision |-> book.revision + 1, allocations |-> [book.allocations EXCEPT ![h] = {item}],
               inventory |-> book.inventory, cash |-> book.cash,
               plans |-> book.plans]
  BY <1>1 DEF BookTypeOK
<1>3. BookTypeOK'
  BY <1>0, <1>1, <1>2 DEF BookTypeOK
<1>4. SameParent'
  <2>1. Active' = Active
    BY <1>2 DEF Active
  <2>2. \A p \in Active : p.parent.holding # h
    BY <1>1 DEF ActiveOf
  <2>3. \A p \in Active : book'.allocations[p.parent.holding] = book.allocations[p.parent.holding]
    BY <1>2, <2>2 DEF BookTypeOK, Active, Plans, Parents
  <2> QED
    BY <1>2, <2>1, <2>3 DEF SameParent
<1>5. CanReconcile'
  BY <1>1, <1>2, <1>3, RoomLeft
<1> QED
  BY <1>3, <1>4, <1>5

LEMMA ConfirmInventoryInv ==
  ASSUME BookInv, NEW h \in Holdings, NEW sellable \in Shares, NEW maximum \in Limits,
         NEW expires \in tick..(tick + Window), ConfirmInventory(h, sellable, maximum, expires)
  PROVE BookInv'
<1> USE DEF BookInv
<1> DEFINE item == [parent |-> Parent(h), sellable |-> sellable, maximum |-> maximum,
                    expires |-> expires]
<1>0. item \in Inventories
  BY BookAssumption DEF BookAssumption, BookTypeOK, Inventories, Parents, Parent
<1> HIDE DEF item
<1>1. /\ book' = [[book EXCEPT !.inventory[h] = {item}] EXCEPT !.revision = book.revision + 1]
      /\ UNCHANGED <<tick, positions>> /\ Room("CONFIRM_INVENTORY") /\ ActiveOf(h) = {}
  BY DEF ConfirmInventory, Commit, item
<1>2. book' = [revision |-> book.revision + 1, allocations |-> book.allocations,
               inventory |-> [book.inventory EXCEPT ![h] = {item}], cash |-> book.cash,
               plans |-> book.plans]
  BY <1>1 DEF BookTypeOK
<1>3. BookTypeOK'
  BY <1>0, <1>1, <1>2 DEF BookTypeOK
<1>4. SameParent'
  <2>1. Active' = Active
    BY <1>2 DEF Active
  <2>2. \A p \in Active : p.parent.holding # h
    BY <1>1 DEF ActiveOf
  <2>3. \A p \in Active : book'.inventory[p.parent.holding] = book.inventory[p.parent.holding]
    BY <1>2, <2>2 DEF BookTypeOK, Active, Plans, Parents
  <2> QED
    BY <1>2, <2>1, <2>3 DEF SameParent
<1>5. CanReconcile'
  BY <1>1, <1>2, <1>3, RoomLeft
<1> QED
  BY <1>3, <1>4, <1>5

LEMMA ConfirmCashInv ==
  ASSUME BookInv, NEW c \in Currencies, NEW available \in Amounts,
         NEW expires \in tick..(tick + Window), ConfirmCash(c, available, expires)
  PROVE BookInv'
<1> USE DEF BookInv
<1> DEFINE item == [available |-> available, expires |-> expires]
<1>0. item \in Monies
  BY BookAssumption DEF BookAssumption, BookTypeOK, Monies
<1> HIDE DEF item
<1>1. /\ book' = [[book EXCEPT !.cash[c] = {item}] EXCEPT !.revision = book.revision + 1]
      /\ UNCHANGED <<tick, positions>> /\ Room("CONFIRM_CASH")
  BY DEF ConfirmCash, Commit, item
<1>2. book' = [revision |-> book.revision + 1, allocations |-> book.allocations,
               inventory |-> book.inventory, cash |-> [book.cash EXCEPT ![c] = {item}],
               plans |-> book.plans]
  BY <1>1 DEF BookTypeOK
<1>3. BookTypeOK'
  BY <1>0, <1>1, <1>2 DEF BookTypeOK
<1>4. SameParent'
  BY <1>2 DEF SameParent, Active
<1>5. CanReconcile'
  BY <1>1, <1>2, <1>3, RoomLeft
<1> QED
  BY <1>3, <1>4, <1>5

LEMMA ReserveInv ==
  ASSUME BookInv, NEW id \in PlanIds, NEW h \in Holdings, NEW purpose \in Purposes,
         NEW direction \in {"BUY_THEN_SELL", "SELL_THEN_BUY"},
         NEW quantity \in Shares \ {0}, NEW cost \in Amounts \ {0},
         Reserve(id, h, purpose, direction, quantity, cost)
  PROVE BookInv'
<1> USE DEF BookInv
<1> DEFINE plan == [id |-> id, parent |-> Parent(h), purpose |-> purpose, direction |-> direction,
                    quantity |-> quantity, cost |-> cost, status |-> "RESERVED"]
<1>0. plan \in Plans /\ plan.parent = Parent(h) /\ Parent(h).holding = h
  BY BookAssumption DEF BookAssumption, BookTypeOK, Plans, Parents, Parent, Statuses
<1> HIDE DEF plan
<1>1. /\ book' = [[book EXCEPT !.plans = @ \cup {plan}] EXCEPT !.revision = book.revision + 1]
      /\ UNCHANGED <<tick, positions>> /\ Room("RESERVE") /\ NoOlderParent(h)
      /\ \E item \in book.allocations[h] : item.parent = Parent(h)
      /\ \E item \in book.inventory[h] : item.parent = Parent(h)
  BY DEF Reserve, Commit, plan
<1>2. book' = [revision |-> book.revision + 1, allocations |-> book.allocations,
               inventory |-> book.inventory, cash |-> book.cash,
               plans |-> book.plans \cup {plan}]
  BY <1>1 DEF BookTypeOK
<1>3. BookTypeOK'
  BY <1>0, <1>1, <1>2 DEF BookTypeOK
<1>4. SameParent'
  <2>1. Active' \subseteq Active \cup {plan}
    BY <1>2 DEF Active
  <2>2. \A p \in Active \cup {plan} : SymbolOf[p.parent.holding] = SymbolOf[h] => p.parent = Parent(h)
    BY <1>0, <1>1 DEF NoOlderParent
  <2>3. \A p, q \in Active \cup {plan} :
          SymbolOf[q.parent.holding] = SymbolOf[p.parent.holding] => q.parent = p.parent
    BY <1>0, <2>2 DEF SameParent
  <2>4. \A p \in Active \cup {plan} :
          /\ \E item \in book.allocations[p.parent.holding] : item.parent = p.parent
          /\ \E item \in book.inventory[p.parent.holding] : item.parent = p.parent
    BY <1>0, <1>1 DEF SameParent
  <2> QED
    BY <1>2, <2>1, <2>3, <2>4 DEF SameParent
<1>5. CanReconcile'
  BY <1>1, <1>2, <1>3, RoomLeft
<1> QED
  BY <1>3, <1>4, <1>5

\* A plan that becomes executed or cancelled keeps its position.
LEMMA BecomesInv ==
  ASSUME BookInv, NEW kind, kind # "RECONCILE", Room(kind), NEW p \in book.plans,
         NEW status \in Statuses, p.status = "RESERVED",
         Commit([book EXCEPT !.plans = Becomes(p, status)]), UNCHANGED <<tick, positions>>
  PROVE BookInv'
<1> USE DEF BookInv
<1> DEFINE plan == [p EXCEPT !.status = status]
<1>0. p \in Active /\ plan \in Plans /\ plan.parent = p.parent
  BY DEF BookTypeOK, Plans, Active
<1>1. Becomes(p, status) = (book.plans \ {p}) \cup {plan}
  BY DEF Becomes
<1> HIDE DEF plan
<1>2. book' = [revision |-> book.revision + 1, allocations |-> book.allocations,
               inventory |-> book.inventory, cash |-> book.cash,
               plans |-> (book.plans \ {p}) \cup {plan}]
  BY <1>1 DEF BookTypeOK, Commit
<1>3. BookTypeOK'
  BY <1>0, <1>2 DEF BookTypeOK
<1>4. SameParent'
  <2>1. Active' \subseteq Active \cup {plan}
    BY <1>2 DEF Active
  <2>2. \A q \in Active' : \E r \in Active : q.parent = r.parent
    BY <1>0, <2>1
  <2> QED
    BY <1>2, <2>2 DEF SameParent
<1>5. CanReconcile'
  BY <1>2, <1>3, RoomLeft
<1> QED
  BY <1>3, <1>4, <1>5

\* The plans of one currency are closed and those of the others stay.
LEMMA ReconcileInv ==
  ASSUME BookInv, NEW c \in Currencies, Reconcile(c)
  PROVE BookInv'
<1> USE DEF BookInv
<1> DEFINE closed == {[p EXCEPT !.status = "CLOSED"] : p \in ActiveIn(c)}
           stock == [h \in Holdings |-> IF Currency(h) = c THEN {} ELSE book.inventory[h]]
<1>0. closed \subseteq Plans /\ \A p \in closed : p.status = "CLOSED"
  BY DEF BookTypeOK, Plans, ActiveIn, Active, Statuses
<1>1. /\ book.revision < MaxCommands /\ ActiveIn(c) # {} /\ UNCHANGED <<tick, positions>>
      /\ book' = [revision |-> book.revision + 1, allocations |-> book.allocations,
                  inventory |-> stock, cash |-> [book.cash EXCEPT ![c] = {}],
                  plans |-> (book.plans \ ActiveIn(c)) \cup closed]
  BY DEF BookTypeOK, Reconcile, Room, Commit
<1>2. stock \in [Holdings -> SUBSET Inventories]
  BY DEF BookTypeOK
<1> HIDE DEF closed
<1>3. BookTypeOK'
  BY <1>0, <1>1, <1>2 DEF BookTypeOK
<1>4. Active' = Active \ ActiveIn(c)
  BY <1>0, <1>1 DEF Active, ActiveIn
<1>5. SameParent'
  <2>1. \A p \in Active' : /\ p.parent.holding \in Holdings /\ Currency(p.parent.holding) # c
                           /\ p \in Active
    BY <1>4 DEF BookTypeOK, Plans, Parents, Active, ActiveIn
  <2>2. \A p \in Active' : book'.inventory[p.parent.holding] = book.inventory[p.parent.holding]
    BY <1>1, <2>1
  <2> QED
    BY <1>1, <2>1, <2>2 DEF SameParent
<1>6. CanReconcile'
  <2>1. ActiveCurrencies' = ActiveCurrencies \ {c}
    BY <1>4 DEF ActiveCurrencies, ActiveIn, Currency
  <2>2. c \in ActiveCurrencies
    BY <1>1 DEF ActiveCurrencies, ActiveIn
  <2>3. /\ IsFiniteSet(ActiveCurrencies) /\ Cardinality(ActiveCurrencies) \in Nat
    BY CurrenciesKnown
  <2>4. Cardinality(ActiveCurrencies') = Cardinality(ActiveCurrencies) - 1
    BY <2>1, <2>2, <2>3, FS_RemoveElement
  <2>5. book.revision \in Nat /\ MaxCommands \in Nat /\ book'.revision = book.revision + 1
    BY <1>1, BookAssumption DEF BookTypeOK, BookAssumption
  <2> QED
    BY <1>1, <2>3, <2>4, <2>5 DEF CanReconcile
<1> QED
  BY <1>3, <1>5, <1>6

-----------------------------------------------------------------------------
LEMMA BookCommandInv == BookInv /\ BookCommand => BookInv'
<1> SUFFICES ASSUME BookInv, BookCommand PROVE BookInv'
  OBVIOUS
<1>1. ASSUME NEW h \in Holdings, NEW core \in [Purposes -> Shares],
             NEW tactical \in [Purposes -> Shares], SetAllocation(h, core, tactical)
      PROVE BookInv'
  BY <1>1, SetAllocationInv
<1>2. ASSUME NEW h \in Holdings, NEW sellable \in Shares, NEW maximum \in Limits,
             NEW e \in tick..(tick + Window), ConfirmInventory(h, sellable, maximum, e)
      PROVE BookInv'
  BY <1>2, ConfirmInventoryInv
<1>3. ASSUME NEW c \in Currencies, NEW available \in Amounts, NEW e \in tick..(tick + Window),
             ConfirmCash(c, available, e)
      PROVE BookInv'
  BY <1>3, ConfirmCashInv
<1>4. ASSUME NEW id \in PlanIds, NEW h \in Holdings, NEW purpose \in Purposes,
             NEW direction \in {"BUY_THEN_SELL", "SELL_THEN_BUY"},
             NEW quantity \in Shares \ {0}, NEW cost \in Amounts \ {0},
             Reserve(id, h, purpose, direction, quantity, cost)
      PROVE BookInv'
  BY <1>4, ReserveInv
<1>5. ASSUME NEW p \in book.plans, Cancel(p) PROVE BookInv'
  <2>1. /\ Room("CANCEL") /\ p.status = "RESERVED" /\ UNCHANGED <<tick, positions>>
        /\ Commit([book EXCEPT !.plans = Becomes(p, "CANCELLED")])
    BY <1>5 DEF Cancel
  <2>2. "CANCELLED" \in Statuses /\ "CANCEL" # "RECONCILE"
    BY DEF Statuses
  <2> QED
    BY <2>1, <2>2, BecomesInv
<1>6. ASSUME NEW p \in book.plans, MarkExecuted(p) PROVE BookInv'
  <2>1. /\ Room("MARK_EXECUTED") /\ p.status = "RESERVED" /\ UNCHANGED <<tick, positions>>
        /\ Commit([book EXCEPT !.plans = Becomes(p, "RECONCILIATION_REQUIRED")])
    BY <1>6 DEF MarkExecuted
  <2>2. "RECONCILIATION_REQUIRED" \in Statuses /\ "MARK_EXECUTED" # "RECONCILE"
    BY DEF Statuses
  <2> QED
    BY <2>1, <2>2, BecomesInv
<1>7. ASSUME NEW c \in Currencies, Reconcile(c) PROVE BookInv'
  BY <1>7, ReconcileInv
<1> QED
  BY <1>1, <1>2, <1>3, <1>4, <1>5, <1>6, <1>7 DEF BookCommand

LEMMA BookNextInv == BookInv /\ [BookNext]_bookVars => BookInv'
<1> SUFFICES ASSUME BookInv, [BookNext]_bookVars PROVE BookInv'
  OBVIOUS
<1>1. CASE BookCommand
  BY <1>1, BookCommandInv
<1>2. ASSUME NEW h \in Holdings, NEW shares \in Shares, ChangePosition(h, shares)
      PROVE BookInv'
  <2>1. BookTypeOK'
    BY <1>2, BookAssumption DEF BookInv, BookTypeOK, BookAssumption, ChangePosition
  <2> QED
    BY <1>2, <2>1, SameBook DEF ChangePosition
<1>3. CASE PassTick
  <2>1. BookTypeOK'
    BY <1>3 DEF BookInv, BookTypeOK, PassTick
  <2> QED
    BY <1>3, <2>1, SameBook DEF PassTick
<1>4. CASE UNCHANGED bookVars
  <2>1. BookTypeOK' /\ UNCHANGED book
    BY <1>4 DEF bookVars, BookInv, BookTypeOK
  <2> QED
    BY <2>1, SameBook
<1> QED
  BY <1>1, <1>2, <1>3, <1>4 DEF BookNext

LEMMA BookInvAlways == BookSpec => []BookInv
<1> QED
  BY BookInitInv, BookNextInv, PTL DEF BookSpec

\* Whatever is commanded in whatever order, for any number of currencies, the
\* log never fills up before the plans of every currency could be closed.
THEOREM CanReconcileHolds == BookSpec => []CanReconcile
<1>1. BookInv => CanReconcile
  BY DEF BookInv
<1> QED
  BY <1>1, BookInvAlways, PTL

\* Open plans of one symbol never mean two different positions, whatever
\* becomes of the positions meanwhile.
THEOREM SameParentHolds == BookSpec => []SameParent
<1>1. BookInv => SameParent
  BY DEF BookInv
<1> QED
  BY <1>1, BookInvAlways, PTL

\* The book keeps its type.
THEOREM BookTypeHolds == BookSpec => []BookTypeOK
<1>1. BookInv => BookTypeOK
  BY DEF BookInv
<1> QED
  BY <1>1, BookInvAlways, PTL

-----------------------------------------------------------------------------
\* What plans reserve together.
LEMMA PlansSum ==
  ASSUME NEW S \in SUBSET Plans, IsFiniteSet(S)
  PROVE Quantities(S) \in Nat /\ Costs(S) \in Nat
<1> DEFINE f == [p \in S |-> p.quantity]
           g == [p \in S |-> p.cost]
<1>1. /\ \A p \in S : f[p] \in Nat /\ g[p] \in Nat
      /\ DOMAIN f = S /\ DOMAIN g = S
  BY DEF Plans
<1> HIDE DEF f, g
<1>2. SumFunctionOnSet(f, S) \in Nat /\ SumFunctionOnSet(g, S) \in Nat
  BY <1>1, SumIsNat
<1> QED
  BY <1>1, <1>2 DEF Quantities, Costs, SumFunction, f, g

LEMMA NoPlansSum == Quantities({}) = 0 /\ Costs({}) = 0
BY SumOfNone DEF Quantities, Costs, SumFunction

LEMMA PlanTaken ==
  ASSUME NEW S \in SUBSET Plans, IsFiniteSet(S), NEW q \in S
  PROVE /\ Quantities(S) = q.quantity + Quantities(S \ {q})
        /\ Costs(S) = q.cost + Costs(S \ {q})
<1> DEFINE f == [p \in S |-> p.quantity]
           g == [p \in S |-> p.cost]
           R == S \ {q}
           ff == [p \in R |-> p.quantity]
           gg == [p \in R |-> p.cost]
<1>1. /\ \A p \in S : f[p] \in Int /\ g[p] \in Int
      /\ \A p \in R : f[p] = ff[p] /\ f[p] \in Int /\ g[p] = gg[p] /\ g[p] \in Int
      /\ DOMAIN f = S /\ DOMAIN g = S /\ DOMAIN ff = R /\ DOMAIN gg = R
      /\ f[q] = q.quantity /\ g[q] = q.cost
  BY DEF Plans
<1>2. IsFiniteSet(R)
  BY FS_Subset
<1> HIDE DEF f, g, ff, gg
<1>3. /\ SumFunctionOnSet(f, S) = f[q] + SumFunctionOnSet(f, R)
      /\ SumFunctionOnSet(g, S) = g[q] + SumFunctionOnSet(g, R)
  BY <1>1, SumWithout
<1> HIDE DEF R
<1>4. /\ SumFunctionOnSet(f, R) = SumFunctionOnSet(ff, R)
      /\ SumFunctionOnSet(g, R) = SumFunctionOnSet(gg, R)
  BY <1>1, <1>2, SumAgrees
<1> QED
  BY <1>1, <1>3, <1>4 DEF Quantities, Costs, SumFunction, f, g, ff, gg, R

LEMMA PlanAdded ==
  ASSUME NEW S \in SUBSET Plans, IsFiniteSet(S), NEW q \in Plans, q \notin S
  PROVE /\ Quantities(S \cup {q}) = q.quantity + Quantities(S)
        /\ Costs(S \cup {q}) = q.cost + Costs(S)
<1> DEFINE T == S \cup {q}
<1>1. IsFiniteSet(T) /\ T \in SUBSET Plans /\ q \in T /\ T \ {q} = S
  BY FS_AddElement
<1> HIDE DEF T
<1>2. /\ Quantities(T) = q.quantity + Quantities(T \ {q})
      /\ Costs(T) = q.cost + Costs(T \ {q})
  BY <1>1, PlanTaken
<1> QED
  BY <1>1, <1>2 DEF T

\* A plan that ends, or goes on under another status, reserves no more.
LEMMA PlanBecomes ==
  ASSUME NEW S \in SUBSET Plans, IsFiniteSet(S), NEW p \in S, NEW q \in Plans,
         q.quantity = p.quantity, q.cost = p.cost,
         NEW T, T = S \ {p} \/ T = (S \ {p}) \cup {q}
  PROVE Quantities(T) <= Quantities(S) /\ Costs(T) <= Costs(S)
<1> DEFINE R == S \ {p}
<1>1. IsFiniteSet(R) /\ R \in SUBSET Plans
  BY FS_Subset
<1>2. /\ Quantities(S) = p.quantity + Quantities(R)
      /\ Costs(S) = p.cost + Costs(R)
  BY PlanTaken
<1> HIDE DEF R
<1>3. Quantities(R) \in Nat /\ Costs(R) \in Nat
  BY <1>1, PlansSum
<1>4. p.quantity \in Nat /\ p.cost \in Nat
  BY DEF Plans
<1>5. CASE T = R
  BY <1>2, <1>3, <1>4, <1>5
<1>6. CASE T = R \cup {q}
  <2>1. CASE q \in R
    <3>1. T = R
      BY <1>6, <2>1
    <3> QED
      BY <1>2, <1>3, <1>4, <3>1
  <2>2. CASE q \notin R
    <3>1. Quantities(T) = q.quantity + Quantities(R) /\ Costs(T) = q.cost + Costs(R)
      BY <1>1, <1>6, <2>2, PlanAdded
    <3> QED
      BY <1>2, <1>3, <1>4, <3>1
  <2> QED
    BY <2>1, <2>2
<1> QED
  BY <1>5, <1>6 DEF R

\* What is reserved stays within what was confirmed because there are finitely many plans,
\* and one set of sleeves.
Reserves ==
  /\ BookInv /\ NoOvercommit /\ IsFiniteSet(book.plans)
  /\ \A h \in Holdings : \A a, b \in book.allocations[h] : a = b

LEMMA ActiveAreFinite ==
  ASSUME BookTypeOK, IsFiniteSet(book.plans), NEW S \in SUBSET Active
  PROVE S \in SUBSET Plans /\ IsFiniteSet(S) /\ Quantities(S) \in Nat /\ Costs(S) \in Nat
<1>1. Active \in SUBSET book.plans /\ Active \in SUBSET Plans
  BY DEF Active, BookTypeOK
<1>2. S \in SUBSET Plans /\ IsFiniteSet(S)
  BY <1>1, FS_Subset
<1> QED
  BY <1>2, PlansSum

LEMMA ReservesInit == BookInit => Reserves
<1> SUFFICES ASSUME BookInit PROVE Reserves
  OBVIOUS
<1>1. Active = {} /\ book.plans = {} /\ \A h \in Holdings : book.allocations[h] = {}
  BY DEF BookInit, EmptyBook, Active
<1>2. BookInv
  BY BookInitInv
<1> QED
  BY <1>1, <1>2, FS_EmptySet DEF Reserves, NoOvercommit, ActiveIn, ActiveOf, BookInv

For(S, u) == {p \in S : p.purpose = u}
Bought(S) == {p \in S : p.direction = "BUY_THEN_SELL"}

\* What is known of the sums of some active plans after a step.
LEMMA SumsAfter ==
  ASSUME BookTypeOK', IsFiniteSet(book'.plans), NEW S \in SUBSET Active'
  PROVE S \in SUBSET Plans /\ IsFiniteSet(S) /\ Quantities(S) \in Nat /\ Costs(S) \in Nat
<1>1. S \in SUBSET book'.plans /\ S \in SUBSET Plans
  BY DEF Active, BookTypeOK
<1>2. IsFiniteSet(S)
  BY <1>1, FS_Subset
<1> QED
  BY <1>1, <1>2, PlansSum

\* Less reserved of what is still confirmed is no more than was confirmed.
LEMMA StillFits ==
  ASSUME Reserves, BookTypeOK', IsFiniteSet(book'.plans), SameParent',
         \A c \in Currencies : ActiveIn(c)' # {} =>
           /\ ActiveIn(c) # {} /\ book'.cash[c] = book.cash[c]
           /\ Costs(ActiveIn(c)') <= Costs(ActiveIn(c)),
         \A h \in Holdings : ActiveOf(h)' # {} =>
           /\ ActiveOf(h) # {}
           /\ book'.allocations[h] = book.allocations[h] /\ book'.inventory[h] = book.inventory[h]
           /\ Quantities(ActiveOf(h)') <= Quantities(ActiveOf(h))
           /\ \A u \in Purposes : Quantities(For(ActiveOf(h)', u)) <= Quantities(For(ActiveOf(h), u))
           /\ Bought(ActiveOf(h)') # {} => Bought(ActiveOf(h)) # {}
           /\ Quantities(Bought(ActiveOf(h)')) <= Quantities(Bought(ActiveOf(h)))
  PROVE NoOvercommit'
<1>1. ASSUME NEW c \in Currencies, ActiveIn(c)' # {}
      PROVE \E money \in book'.cash[c] : Costs(ActiveIn(c)') <= money.available
  <2>1. PICK money \in book.cash[c] : Costs(ActiveIn(c)) <= money.available
    BY <1>1 DEF Reserves, NoOvercommit
  <2>2. money.available \in Nat
    BY DEF Reserves, BookInv, BookTypeOK, Monies
  <2>3. Costs(ActiveIn(c)) \in Nat
    <3>1. ActiveIn(c) \in SUBSET Active
      BY DEF ActiveIn
    <3> QED
      BY <3>1, ActiveAreFinite DEF Reserves, BookInv
  <2>4. Costs(ActiveIn(c)') \in Nat
    <3>1. ActiveIn(c)' \in SUBSET Active'
      BY DEF ActiveIn
    <3> QED
      BY <3>1, SumsAfter
  <2>5. Costs(ActiveIn(c)') <= money.available
    BY <1>1, <2>1, <2>2, <2>3, <2>4
  <2> QED
    BY <1>1, <2>5
<1>2. ASSUME NEW h \in Holdings, ActiveOf(h)' # {}
      PROVE \E sleeves \in book'.allocations[h], stock \in book'.inventory[h] :
              /\ Quantities(ActiveOf(h)') <= stock.sellable
              /\ \A u \in Purposes : Quantities(For(ActiveOf(h)', u)) <= sleeves.tactical[u]
              /\ Bought(ActiveOf(h)') # {} =>
                   stock.parent.shares + Quantities(Bought(ActiveOf(h)')) <= stock.maximum
  <2>1. PICK sleeves \in book.allocations[h], stock \in book.inventory[h] :
              /\ Quantities(ActiveOf(h)) <= stock.sellable
              /\ \A u \in Purposes : Quantities(For(ActiveOf(h), u)) <= sleeves.tactical[u]
              /\ Bought(ActiveOf(h)) # {} =>
                   stock.parent.shares + Quantities(Bought(ActiveOf(h))) <= stock.maximum
    BY <1>2 DEF Reserves, NoOvercommit, For, Bought
  <2>2. /\ stock.sellable \in Nat /\ stock.maximum \in Nat /\ stock.parent.shares \in Nat
        /\ \A u \in Purposes : sleeves.tactical[u] \in Nat
    BY DEF Reserves, BookInv, BookTypeOK, Inventories, Allocations, Parents
  <2>3. /\ Quantities(ActiveOf(h)) \in Nat /\ Quantities(Bought(ActiveOf(h))) \in Nat
        /\ \A u \in Purposes : Quantities(For(ActiveOf(h), u)) \in Nat
    <3>1. /\ ActiveOf(h) \in SUBSET Active /\ Bought(ActiveOf(h)) \in SUBSET Active
          /\ \A u \in Purposes : For(ActiveOf(h), u) \in SUBSET Active
      BY DEF ActiveOf, Bought, For
    <3> QED
      BY <3>1, ActiveAreFinite DEF Reserves, BookInv
  <2>4. /\ Quantities(ActiveOf(h)') \in Nat /\ Quantities(Bought(ActiveOf(h)')) \in Nat
        /\ \A u \in Purposes : Quantities(For(ActiveOf(h)', u)) \in Nat
    <3>1. /\ ActiveOf(h)' \in SUBSET Active' /\ Bought(ActiveOf(h)') \in SUBSET Active'
          /\ \A u \in Purposes : For(ActiveOf(h)', u) \in SUBSET Active'
      BY DEF ActiveOf, Bought, For
    <3> QED
      BY <3>1, SumsAfter
  <2>5. Quantities(ActiveOf(h)') <= stock.sellable
    BY <1>2, <2>1, <2>2, <2>3, <2>4
  <2>6. ASSUME NEW u \in Purposes PROVE Quantities(For(ActiveOf(h)', u)) <= sleeves.tactical[u]
    BY <1>2, <2>1, <2>2, <2>3, <2>4
  <2>7. ASSUME Bought(ActiveOf(h)') # {}
        PROVE stock.parent.shares + Quantities(Bought(ActiveOf(h)')) <= stock.maximum
    BY <1>2, <2>1, <2>2, <2>3, <2>4, <2>7
  <2>8. sleeves \in book'.allocations[h] /\ stock \in book'.inventory[h]
    BY <1>2
  <2> QED
    BY <2>5, <2>6, <2>7, <2>8
<1> QED
  BY <1>1, <1>2 DEF NoOvercommit, For, Bought

\* A step that leaves the active plans alone, and what is confirmed for them.
LEMMA SameActive ==
  ASSUME Reserves, BookTypeOK', IsFiniteSet(book'.plans), SameParent', Active' = Active,
         \A c \in Currencies : ActiveIn(c) # {} => book'.cash[c] = book.cash[c],
         \A h \in Holdings : ActiveOf(h) # {} =>
           book'.allocations[h] = book.allocations[h] /\ book'.inventory[h] = book.inventory[h]
  PROVE NoOvercommit'
<1>1. /\ \A c \in Currencies : ActiveIn(c)' = ActiveIn(c)
      /\ \A h \in Holdings : ActiveOf(h)' = ActiveOf(h)
  BY DEF ActiveIn, ActiveOf, Currency
<1>2. ASSUME NEW S \in SUBSET Active
      PROVE Quantities(S) <= Quantities(S) /\ Costs(S) <= Costs(S)
  <2>1. Quantities(S) \in Nat /\ Costs(S) \in Nat
    BY ActiveAreFinite DEF Reserves, BookInv
  <2> QED
    BY <2>1
<1>3. ASSUME NEW c \in Currencies, ActiveIn(c)' # {}
      PROVE /\ ActiveIn(c) # {} /\ book'.cash[c] = book.cash[c]
            /\ Costs(ActiveIn(c)') <= Costs(ActiveIn(c))
  <2>1. ActiveIn(c) \in SUBSET Active
    BY DEF ActiveIn
  <2> QED
    BY <1>1, <1>2, <1>3, <2>1
<1>4. ASSUME NEW h \in Holdings, ActiveOf(h)' # {}
      PROVE /\ ActiveOf(h) # {}
            /\ book'.allocations[h] = book.allocations[h] /\ book'.inventory[h] = book.inventory[h]
            /\ Quantities(ActiveOf(h)') <= Quantities(ActiveOf(h))
            /\ \A u \in Purposes : Quantities(For(ActiveOf(h)', u)) <= Quantities(For(ActiveOf(h), u))
            /\ Bought(ActiveOf(h)') # {} => Bought(ActiveOf(h)) # {}
            /\ Quantities(Bought(ActiveOf(h)')) <= Quantities(Bought(ActiveOf(h)))
  <2>1. /\ ActiveOf(h) \in SUBSET Active /\ Bought(ActiveOf(h)) \in SUBSET Active
        /\ \A u \in Purposes : For(ActiveOf(h), u) \in SUBSET Active
    BY DEF ActiveOf, Bought, For
  <2>2. ActiveOf(h)' = ActiveOf(h)
    BY <1>1
  <2> QED
    BY <1>2, <1>4, <2>1, <2>2
<1> QED
  BY <1>3, <1>4, StillFits

LEMMA ClosedAreFinite ==
  ASSUME NEW S, IsFiniteSet(S)
  PROVE IsFiniteSet({[p EXCEPT !.status = "CLOSED"] : p \in S})
<1> DEFINE T == {[p EXCEPT !.status = "CLOSED"] : p \in S}
           f == [p \in S |-> [p EXCEPT !.status = "CLOSED"]]
<1>1. f \in [S -> T] /\ \A t \in T : \E p \in S : f[p] = t
  OBVIOUS
<1>2. f \in Surjection(S, T)
  BY <1>1 DEF Surjection
<1> HIDE DEF f, T
<1>3. IsFiniteSet(T)
  BY <1>2, FS_Surjection
<1> QED
  BY <1>3 DEF T

LEMMA SetAllocationFits ==
  ASSUME Reserves, NEW h \in Holdings, NEW core \in [Purposes -> Shares],
         NEW tactical \in [Purposes -> Shares], SetAllocation(h, core, tactical)
  PROVE Reserves'
<1> DEFINE item == [parent |-> Parent(h), core |-> core, tactical |-> tactical]
<1> HIDE DEF item
<1>1. BookInv' /\ BookTypeOK /\ ActiveOf(h) = {}
  BY SetAllocationInv DEF Reserves, BookInv, SetAllocation
<1>2. /\ book'.plans = book.plans /\ book'.inventory = book.inventory /\ book'.cash = book.cash
      /\ book'.allocations = [book.allocations EXCEPT ![h] = {item}]
  <2>1. book' = [[book EXCEPT !.allocations[h] = {item}] EXCEPT !.revision = book.revision + 1]
    BY DEF SetAllocation, Commit, item
  <2> QED
    BY <1>1, <2>1 DEF BookTypeOK
<1>3. Active' = Active
  BY <1>2 DEF Active
<1>4. \A g \in Holdings : ActiveOf(g) # {} => book'.allocations[g] = book.allocations[g]
  BY <1>1, <1>2 DEF BookTypeOK
<1>5. NoOvercommit'
  BY <1>1, <1>2, <1>3, <1>4, SameActive DEF Reserves, BookInv
<1>6. \A g \in Holdings : \A a, b \in book'.allocations[g] : a = b
  BY <1>1, <1>2 DEF BookTypeOK, Reserves
<1> QED
  BY <1>1, <1>2, <1>5, <1>6 DEF Reserves

LEMMA ConfirmInventoryFits ==
  ASSUME Reserves, NEW h \in Holdings, NEW sellable \in Shares, NEW maximum \in Limits,
         NEW expires \in tick..(tick + Window), ConfirmInventory(h, sellable, maximum, expires)
  PROVE Reserves'
<1> DEFINE item == [parent |-> Parent(h), sellable |-> sellable, maximum |-> maximum,
                    expires |-> expires]
<1> HIDE DEF item
<1>1. BookInv' /\ BookTypeOK /\ ActiveOf(h) = {}
  BY ConfirmInventoryInv DEF Reserves, BookInv, ConfirmInventory
<1>2. /\ book'.plans = book.plans /\ book'.allocations = book.allocations
      /\ book'.cash = book.cash /\ book'.inventory = [book.inventory EXCEPT ![h] = {item}]
  <2>1. book' = [[book EXCEPT !.inventory[h] = {item}] EXCEPT !.revision = book.revision + 1]
    BY DEF ConfirmInventory, Commit, item
  <2> QED
    BY <1>1, <2>1 DEF BookTypeOK
<1>3. Active' = Active
  BY <1>2 DEF Active
<1>4. \A g \in Holdings : ActiveOf(g) # {} => book'.inventory[g] = book.inventory[g]
  BY <1>1, <1>2 DEF BookTypeOK
<1>5. NoOvercommit'
  BY <1>1, <1>2, <1>3, <1>4, SameActive DEF Reserves, BookInv
<1> QED
  BY <1>1, <1>2, <1>5 DEF Reserves

LEMMA ConfirmCashFits ==
  ASSUME Reserves, NEW c \in Currencies, NEW available \in Amounts,
         NEW expires \in tick..(tick + Window), ConfirmCash(c, available, expires)
  PROVE Reserves'
<1> DEFINE item == [available |-> available, expires |-> expires]
<1> HIDE DEF item
<1>1. BookInv' /\ BookTypeOK /\ ActiveIn(c) = {}
  BY ConfirmCashInv DEF Reserves, BookInv, ConfirmCash
<1>2. /\ book'.plans = book.plans /\ book'.allocations = book.allocations
      /\ book'.inventory = book.inventory /\ book'.cash = [book.cash EXCEPT ![c] = {item}]
  <2>1. book' = [[book EXCEPT !.cash[c] = {item}] EXCEPT !.revision = book.revision + 1]
    BY DEF ConfirmCash, Commit, item
  <2> QED
    BY <1>1, <2>1 DEF BookTypeOK
<1>3. Active' = Active
  BY <1>2 DEF Active
<1>4. \A d \in Currencies : ActiveIn(d) # {} => book'.cash[d] = book.cash[d]
  BY <1>1, <1>2 DEF BookTypeOK
<1>5. NoOvercommit'
  BY <1>1, <1>2, <1>3, <1>4, SameActive DEF Reserves, BookInv
<1> QED
  BY <1>1, <1>2, <1>5 DEF Reserves

\* A plan that becomes executed or cancelled reserves no more than before.
LEMMA BecomesFits ==
  ASSUME Reserves, BookInv', NEW p \in book.plans, NEW status \in Statuses, p.status = "RESERVED",
         Commit([book EXCEPT !.plans = Becomes(p, status)])
  PROVE Reserves'
<1> DEFINE plan == [p EXCEPT !.status = status]
<1>0. /\ p \in Active /\ plan \in Plans /\ plan.parent = p.parent /\ plan.status = status
      /\ plan.purpose = p.purpose /\ plan.direction = p.direction
      /\ plan.quantity = p.quantity /\ plan.cost = p.cost
  BY DEF Reserves, BookInv, BookTypeOK, Plans, Active
<1>1. Becomes(p, status) = (book.plans \ {p}) \cup {plan}
  BY DEF Becomes
<1> HIDE DEF plan
<1>2. /\ book'.plans = (book.plans \ {p}) \cup {plan} /\ book'.allocations = book.allocations
      /\ book'.inventory = book.inventory /\ book'.cash = book.cash
  BY <1>1 DEF Reserves, BookInv, BookTypeOK, Commit
<1>3. IsFiniteSet(book'.plans)
  <2>1. IsFiniteSet(book.plans \ {p})
    BY FS_Subset DEF Reserves
  <2> QED
    BY <1>2, <2>1, FS_AddElement
<1>4. Active' = Active \ {p} \/ Active' = (Active \ {p}) \cup {plan}
  <2> DEFINE open == {"RESERVED", "RECONCILIATION_REQUIRED"}
  <2>1. Active' = {q \in book'.plans : q.status \in open}
    BY DEF Active
  <2>2. Active' = {q \in book.plans \ {p} : q.status \in open} \cup {q \in {plan} : q.status \in open}
    BY <1>2, <2>1
  <2>3. Active \ {p} = {q \in book.plans \ {p} : q.status \in open}
    BY DEF Active
  <2> QED
    BY <2>2, <2>3
\* A part of the active plans, told by what a plan keeps, is left alone or has p in it.
<1>5. ASSUME NEW S \in SUBSET Active, NEW T,
             T = S \/ (p \in S /\ (T = S \ {p} \/ T = (S \ {p}) \cup {plan}))
      PROVE Quantities(T) <= Quantities(S) /\ Costs(T) <= Costs(S)
  <2>1. S \in SUBSET Plans /\ IsFiniteSet(S) /\ Quantities(S) \in Nat /\ Costs(S) \in Nat
    BY ActiveAreFinite DEF Reserves, BookInv
  <2>2. CASE T = S
    BY <2>1, <2>2
  <2>3. CASE p \in S /\ (T = S \ {p} \/ T = (S \ {p}) \cup {plan})
    BY <1>0, <2>1, <2>3, PlanBecomes
  <2> QED
    BY <1>5, <2>2, <2>3
<1>6. ASSUME NEW c \in Currencies, ActiveIn(c)' # {}
      PROVE /\ ActiveIn(c) # {} /\ book'.cash[c] = book.cash[c]
            /\ Costs(ActiveIn(c)') <= Costs(ActiveIn(c))
  <2> DEFINE S == ActiveIn(c)
             T == ActiveIn(c)'
  <2>1. S \in SUBSET Active /\ T = {q \in Active' : Currency(q.parent.holding) = c}
        /\ S = {q \in Active : Currency(q.parent.holding) = c}
    BY DEF ActiveIn, Currency
  <2>2. T = S \/ (p \in S /\ (T = S \ {p} \/ T = (S \ {p}) \cup {plan}))
    <3> HIDE DEF S, T
    <3>1. CASE Currency(p.parent.holding) = c
      BY <1>0, <1>4, <2>1, <3>1
    <3>2. CASE Currency(p.parent.holding) # c
      BY <1>0, <1>4, <2>1, <3>2
    <3> QED
      BY <3>1, <3>2
  <2> HIDE DEF S, T
  <2>3. Costs(T) <= Costs(S)
    BY <1>5, <2>1, <2>2
  <2>4. T # {} => S # {}
    BY <2>2
  <2> QED
    BY <1>2, <1>6, <2>3, <2>4 DEF S, T
<1>7. ASSUME NEW h \in Holdings, ActiveOf(h)' # {}
      PROVE /\ ActiveOf(h) # {}
            /\ book'.allocations[h] = book.allocations[h] /\ book'.inventory[h] = book.inventory[h]
            /\ Quantities(ActiveOf(h)') <= Quantities(ActiveOf(h))
            /\ \A u \in Purposes : Quantities(For(ActiveOf(h)', u)) <= Quantities(For(ActiveOf(h), u))
            /\ Bought(ActiveOf(h)') # {} => Bought(ActiveOf(h)) # {}
            /\ Quantities(Bought(ActiveOf(h)')) <= Quantities(Bought(ActiveOf(h)))
  <2> DEFINE S == ActiveOf(h)
             T == ActiveOf(h)'
  <2>1. S \in SUBSET Active /\ T = {q \in Active' : q.parent.holding = h}
        /\ S = {q \in Active : q.parent.holding = h}
    BY DEF ActiveOf
  <2> HIDE DEF S, T
  <2>2. T = S \/ (p \in S /\ (T = S \ {p} \/ T = (S \ {p}) \cup {plan}))
    <3>1. CASE p.parent.holding = h
      BY <1>0, <1>4, <2>1, <3>1
    <3>2. CASE p.parent.holding # h
      BY <1>0, <1>4, <2>1, <3>2
    <3> QED
      BY <3>1, <3>2
  <2>3. Quantities(T) <= Quantities(S)
    BY <1>5, <2>1, <2>2
  <2>4. ASSUME NEW u \in Purposes PROVE Quantities(For(T, u)) <= Quantities(For(S, u))
    <3> DEFINE A == For(S, u)
               B == For(T, u)
    <3>1. A \in SUBSET Active /\ (B = A \/ (p \in A /\ (B = A \ {p} \/ B = (A \ {p}) \cup {plan})))
      <4>1. CASE p.purpose = u
        BY <1>0, <2>1, <2>2, <4>1 DEF For
      <4>2. CASE p.purpose # u
        BY <1>0, <2>1, <2>2, <4>2 DEF For
      <4> QED
        BY <4>1, <4>2
    <3> HIDE DEF A, B
    <3>2. Quantities(B) <= Quantities(A)
      BY <1>5, <3>1
    <3> QED
      BY <3>2 DEF A, B
  <2>5. /\ Bought(T) # {} => Bought(S) # {}
        /\ Quantities(Bought(T)) <= Quantities(Bought(S))
    <3> DEFINE A == Bought(S)
               B == Bought(T)
    <3>1. A \in SUBSET Active /\ (B = A \/ (p \in A /\ (B = A \ {p} \/ B = (A \ {p}) \cup {plan})))
      <4>1. CASE p.direction = "BUY_THEN_SELL"
        BY <1>0, <2>1, <2>2, <4>1 DEF Bought
      <4>2. CASE p.direction # "BUY_THEN_SELL"
        BY <1>0, <2>1, <2>2, <4>2 DEF Bought
      <4> QED
        BY <4>1, <4>2
    <3> HIDE DEF A, B
    <3>2. Quantities(B) <= Quantities(A) /\ (B # {} => A # {})
      BY <1>5, <3>1
    <3> QED
      BY <3>2 DEF A, B
  <2>6. T # {} => S # {}
    BY <2>2
  <2> QED
    BY <1>2, <1>7, <2>3, <2>4, <2>5, <2>6 DEF S, T
<1>8. NoOvercommit'
  BY <1>3, <1>6, <1>7, StillFits DEF BookInv
<1> QED
  BY <1>2, <1>3, <1>8 DEF Reserves

\* What is closed reserves nothing and the other currencies keep what they have.
LEMMA ReconcileFits ==
  ASSUME Reserves, NEW c \in Currencies, Reconcile(c)
  PROVE Reserves'
<1> DEFINE closed == {[p EXCEPT !.status = "CLOSED"] : p \in ActiveIn(c)}
           stock == [h \in Holdings |-> IF Currency(h) = c THEN {} ELSE book.inventory[h]]
<1>1. BookInv' /\ BookTypeOK
  BY ReconcileInv DEF Reserves, BookInv
<1>2. /\ book'.plans = (book.plans \ ActiveIn(c)) \cup closed
      /\ book'.allocations = book.allocations
      /\ book'.inventory = stock /\ book'.cash = [book.cash EXCEPT ![c] = {}]
  BY <1>1 DEF BookTypeOK, Reconcile, Commit
<1>3. \A p \in closed : p.status = "CLOSED"
  BY <1>1 DEF BookTypeOK, Plans, ActiveIn, Active
<1>4. IsFiniteSet(book'.plans)
  <2>1. ActiveIn(c) \in SUBSET Active
    BY DEF ActiveIn
  <2>2. IsFiniteSet(ActiveIn(c)) /\ IsFiniteSet(book.plans \ ActiveIn(c))
    BY <1>1, <2>1, ActiveAreFinite, FS_Subset DEF Reserves
  <2>3. IsFiniteSet(closed)
    BY <2>2, ClosedAreFinite
  <2> HIDE DEF closed
  <2>4. IsFiniteSet((book.plans \ ActiveIn(c)) \cup closed)
    BY <2>2, <2>3, FS_Union
  <2> QED
    BY <1>2, <2>4
<1> HIDE DEF closed
<1>5. Active' = Active \ ActiveIn(c)
  BY <1>2, <1>3 DEF Active, ActiveIn
<1>6. ASSUME NEW d \in Currencies, ActiveIn(d)' # {}
      PROVE /\ ActiveIn(d) # {} /\ book'.cash[d] = book.cash[d]
            /\ Costs(ActiveIn(d)') <= Costs(ActiveIn(d))
  <2>1. ActiveIn(d)' = {q \in Active' : Currency(q.parent.holding) = d}
    BY DEF ActiveIn, Currency
  <2>2. d # c /\ ActiveIn(d)' = ActiveIn(d)
    BY <1>5, <1>6, <2>1 DEF ActiveIn
  <2>3. ActiveIn(d) \in SUBSET Active
    BY DEF ActiveIn
  <2>4. Costs(ActiveIn(d)) \in Nat
    BY <1>1, <2>3, ActiveAreFinite DEF Reserves
  <2> QED
    BY <1>1, <1>2, <1>6, <2>2, <2>4 DEF BookTypeOK
<1>7. ASSUME NEW h \in Holdings, ActiveOf(h)' # {}
      PROVE /\ ActiveOf(h) # {}
            /\ book'.allocations[h] = book.allocations[h] /\ book'.inventory[h] = book.inventory[h]
            /\ Quantities(ActiveOf(h)') <= Quantities(ActiveOf(h))
            /\ \A u \in Purposes : Quantities(For(ActiveOf(h)', u)) <= Quantities(For(ActiveOf(h), u))
            /\ Bought(ActiveOf(h)') # {} => Bought(ActiveOf(h)) # {}
            /\ Quantities(Bought(ActiveOf(h)')) <= Quantities(Bought(ActiveOf(h)))
  <2>1. ActiveOf(h)' = {q \in Active' : q.parent.holding = h}
    BY DEF ActiveOf
  <2>2. Currency(h) # c /\ ActiveOf(h)' = ActiveOf(h)
    BY <1>5, <1>7, <2>1 DEF ActiveOf, ActiveIn
  <2>3. /\ ActiveOf(h) \in SUBSET Active /\ Bought(ActiveOf(h)) \in SUBSET Active
        /\ \A u \in Purposes : For(ActiveOf(h), u) \in SUBSET Active
    BY DEF ActiveOf, Bought, For
  <2>4. /\ Quantities(ActiveOf(h)) \in Nat /\ Quantities(Bought(ActiveOf(h))) \in Nat
        /\ \A u \in Purposes : Quantities(For(ActiveOf(h), u)) \in Nat
    BY <1>1, <2>3, ActiveAreFinite DEF Reserves
  <2>5. book'.inventory[h] = book.inventory[h]
    BY <1>2, <2>2
  <2> QED
    BY <1>2, <1>7, <2>2, <2>4, <2>5
<1>8. NoOvercommit'
  BY <1>1, <1>4, <1>6, <1>7, StillFits DEF BookInv
<1> QED
  BY <1>1, <1>2, <1>4, <1>8 DEF Reserves

\* What is reserved was looked for among the same confirmations.
LEMMA ReserveFits ==
  ASSUME Reserves, NEW id \in PlanIds, NEW h \in Holdings, NEW purpose \in Purposes,
         NEW direction \in {"BUY_THEN_SELL", "SELL_THEN_BUY"},
         NEW quantity \in Shares \ {0}, NEW cost \in Amounts \ {0},
         Reserve(id, h, purpose, direction, quantity, cost)
  PROVE Reserves'
<1> DEFINE plan == [id |-> id, parent |-> Parent(h), purpose |-> purpose, direction |-> direction,
                    quantity |-> quantity, cost |-> cost, status |-> "RESERVED"]
<1>0. /\ plan \in Plans /\ plan.parent.holding = h /\ plan.purpose = purpose
      /\ plan.direction = direction /\ plan.quantity = quantity /\ plan.cost = cost
      /\ plan.status = "RESERVED" /\ plan.id = id
  BY BookAssumption DEF BookAssumption, Reserves, BookInv, BookTypeOK, Plans, Parents, Parent, Statuses
<1>1. BookInv' /\ BookInv /\ BookTypeOK /\ IsFiniteSet(book.plans)
  BY ReserveInv DEF Reserves, BookInv
<1>2. /\ book'.plans = book.plans \cup {plan} /\ book'.allocations = book.allocations
      /\ book'.inventory = book.inventory /\ book'.cash = book.cash
  <2>1. book' = [[book EXCEPT !.plans = @ \cup {plan}] EXCEPT !.revision = book.revision + 1]
    BY DEF Reserve, Commit
  <2> HIDE DEF plan
  <2> QED
    BY <1>1, <2>1 DEF BookTypeOK
<1> HIDE DEF plan
<1>3. IsFiniteSet(book'.plans)
  BY <1>1, <1>2, FS_AddElement
<1>4. plan \notin Active /\ Active' = Active \cup {plan}
  <2>1. \A p \in book.plans : p.id # id
    BY DEF Reserve
  <2> QED
    BY <1>0, <1>2, <2>1 DEF Active
<1>5. ASSUME NEW S \in SUBSET Active
      PROVE /\ S \in SUBSET Plans /\ IsFiniteSet(S) /\ Quantities(S) \in Nat /\ Costs(S) \in Nat
            /\ Quantities(S \cup {plan}) = quantity + Quantities(S)
            /\ Costs(S \cup {plan}) = cost + Costs(S)
  <2>1. S \in SUBSET Plans /\ IsFiniteSet(S) /\ Quantities(S) \in Nat /\ Costs(S) \in Nat
    BY <1>1, ActiveAreFinite
  <2> QED
    BY <1>0, <1>4, <2>1, PlanAdded
<1>6. quantity \in Nat /\ cost \in Nat
  BY BookAssumption DEF BookAssumption
<1>7. ASSUME NEW c \in Currencies, ActiveIn(c)' # {}
      PROVE \E money \in book'.cash[c] : Costs(ActiveIn(c)') <= money.available
  <2>1. /\ ActiveIn(c)' = {q \in Active' : Currency(q.parent.holding) = c}
        /\ ActiveIn(c) = {q \in Active : Currency(q.parent.holding) = c}
        /\ ActiveIn(c) \in SUBSET Active
    BY DEF ActiveIn, Currency
  <2>2. CASE c = Currency(h)
    <3>1. ActiveIn(c)' = ActiveIn(c) \cup {plan}
      BY <1>0, <1>4, <2>1, <2>2
    <3>2. PICK money \in book.cash[c] : cost <= money.available - Costs(ActiveIn(c))
      BY <2>2 DEF Reserve, CostsBefore
    <3>3. money.available \in Nat
      BY <1>1 DEF BookTypeOK, Monies
    <3>4. Costs(ActiveIn(c)) \in Nat /\ Costs(ActiveIn(c) \cup {plan}) = cost + Costs(ActiveIn(c))
      BY <1>5, <2>1
    <3>5. cost + Costs(ActiveIn(c)) <= money.available
      BY <1>6, <3>2, <3>3, <3>4
    <3> QED
      BY <1>2, <3>1, <3>4, <3>5
  <2>3. CASE c # Currency(h)
    <3>1. ActiveIn(c)' = ActiveIn(c)
      BY <1>0, <1>4, <2>1, <2>3
    <3> QED
      BY <1>2, <1>7, <3>1 DEF Reserves, NoOvercommit
  <2> QED
    BY <2>2, <2>3
<1>8. ASSUME NEW g \in Holdings, ActiveOf(g)' # {}
      PROVE \E sleeves \in book'.allocations[g], stock \in book'.inventory[g] :
              /\ Quantities(ActiveOf(g)') <= stock.sellable
              /\ \A u \in Purposes : Quantities(For(ActiveOf(g)', u)) <= sleeves.tactical[u]
              /\ Bought(ActiveOf(g)') # {} =>
                   stock.parent.shares + Quantities(Bought(ActiveOf(g)')) <= stock.maximum
  <2>1. /\ ActiveOf(g)' = {q \in Active' : q.parent.holding = g}
        /\ ActiveOf(g) = {q \in Active : q.parent.holding = g}
    BY DEF ActiveOf
  <2>2. CASE g # h
    <3>1. ActiveOf(g)' = ActiveOf(g)
      BY <1>0, <1>4, <2>1, <2>2
    <3> QED
      BY <1>2, <1>8, <3>1 DEF Reserves, NoOvercommit, For, Bought
  <2>3. CASE g = h
    <3> DEFINE S == ActiveOf(h)
    <3>1. ActiveOf(g)' = S \cup {plan}
      BY <1>0, <1>4, <2>1, <2>3
    <3>2. PICK sleeves \in book.allocations[h] :
            quantity <= sleeves.tactical[purpose] - Quantities(For(S, purpose))
      BY DEF Reserve, For
    <3>3. PICK stock \in book.inventory[h] :
            /\ stock.parent = Parent(h)
            /\ quantity <= stock.sellable - Quantities(S)
            /\ Peak(h, direction, quantity) <= stock.maximum
      BY DEF Reserve
    <3>4. /\ stock.sellable \in Nat /\ stock.maximum \in Nat
          /\ \A u \in Purposes : sleeves.tactical[u] \in Nat
          /\ positions[h] \in Nat /\ stock.parent.shares = positions[h]
      BY <1>1, <3>3 DEF BookTypeOK, Inventories, Allocations, Parents, Parent
    <3>5. /\ S \in SUBSET Active /\ Bought(S) \in SUBSET Active
          /\ \A u \in Purposes : For(S, u) \in SUBSET Active
      BY DEF ActiveOf, Bought, For
    <3>6. Peak(h, direction, quantity) =
            positions[h] + Quantities(Bought(S)) + IF direction = "BUY_THEN_SELL" THEN quantity ELSE 0
      BY DEF Peak, Bought
    <3> HIDE DEF S
    <3>7. Quantities(S \cup {plan}) <= stock.sellable
      <4>1. Quantities(S) \in Nat /\ Quantities(S \cup {plan}) = quantity + Quantities(S)
        BY <1>5, <3>5
      <4> QED
        BY <1>6, <3>3, <3>4, <4>1
    <3>8. ASSUME NEW u \in Purposes PROVE Quantities(For(S \cup {plan}, u)) <= sleeves.tactical[u]
      <4>1. CASE u = purpose
        <5>1. For(S \cup {plan}, u) = For(S, u) \cup {plan}
          BY <1>0, <4>1 DEF For
        <5>2. /\ Quantities(For(S, u)) \in Nat
              /\ Quantities(For(S, u) \cup {plan}) = quantity + Quantities(For(S, u))
          BY <1>5, <3>5
        <5>3. quantity <= sleeves.tactical[u] - Quantities(For(S, u)) /\ sleeves.tactical[u] \in Nat
          BY <3>2, <3>4, <4>1
        <5>4. quantity + Quantities(For(S, u)) <= sleeves.tactical[u]
          BY <1>6, <5>2, <5>3
        <5> QED
          BY <5>1, <5>2, <5>4
      <4>2. CASE u # purpose
        <5>1. For(S \cup {plan}, u) = For(S, u)
          BY <1>0, <4>2 DEF For
        <5>2. CASE S = {}
          <6>1. For(S, u) = {}
            BY <5>2 DEF For
          <6>2. Quantities(For(S \cup {plan}, u)) = 0 /\ sleeves.tactical[u] \in Nat
            BY <3>4, <5>1, <6>1, NoPlansSum
          <6> QED
            BY <6>2
        <5>3. CASE S # {}
          <6>1. PICK old \in book.allocations[h] : \A v \in Purposes : Quantities(For(S, v)) <= old.tactical[v]
            BY <5>3 DEF Reserves, NoOvercommit, S, For
          <6>2. old = sleeves
            BY <3>2, <6>1 DEF Reserves
          <6> QED
            BY <5>1, <6>1, <6>2
        <5> QED
          BY <5>2, <5>3
      <4> QED
        BY <4>1, <4>2
    <3>9. ASSUME Bought(S \cup {plan}) # {}
          PROVE stock.parent.shares + Quantities(Bought(S \cup {plan})) <= stock.maximum
      <4>1. Quantities(Bought(S)) \in Nat
        BY <1>5, <3>5
      <4>2. CASE direction = "BUY_THEN_SELL"
        <5>1. Bought(S \cup {plan}) = Bought(S) \cup {plan}
          BY <1>0, <4>2 DEF Bought
        <5>2. Quantities(Bought(S) \cup {plan}) = quantity + Quantities(Bought(S))
          BY <1>5, <3>5
        <5>3. positions[h] + Quantities(Bought(S)) + quantity <= stock.maximum
          BY <3>3, <3>6, <4>2
        <5>4. positions[h] + (quantity + Quantities(Bought(S))) <= stock.maximum
          BY <1>6, <3>4, <4>1, <5>3
        <5> QED
          BY <3>4, <5>1, <5>2, <5>4
      <4>3. CASE direction # "BUY_THEN_SELL"
        <5>1. Bought(S \cup {plan}) = Bought(S)
          BY <1>0, <4>3 DEF Bought
        <5>2. positions[h] + Quantities(Bought(S)) + 0 <= stock.maximum
          BY <3>3, <3>6, <4>3
        <5> QED
          BY <3>4, <4>1, <5>1, <5>2
      <4> QED
        BY <4>2, <4>3
    <3>10. sleeves \in book'.allocations[g] /\ stock \in book'.inventory[g]
      BY <1>2, <2>3
    <3> QED
      BY <3>1, <3>7, <3>8, <3>9, <3>10
  <2> QED
    BY <2>2, <2>3
<1>9. NoOvercommit'
  BY <1>1, <1>7, <1>8 DEF NoOvercommit, For, Bought, BookInv
<1> QED
  BY <1>1, <1>2, <1>3, <1>9 DEF Reserves

LEMMA ReservesNext == Reserves /\ [BookNext]_bookVars => Reserves'
<1> SUFFICES ASSUME Reserves, [BookNext]_bookVars PROVE Reserves'
  OBVIOUS
<1>0. BookInv'
  BY BookNextInv DEF Reserves
<1>1. ASSUME NEW h \in Holdings, NEW core \in [Purposes -> Shares],
             NEW tactical \in [Purposes -> Shares], SetAllocation(h, core, tactical)
      PROVE Reserves'
  BY <1>1, SetAllocationFits
<1>2. ASSUME NEW h \in Holdings, NEW sellable \in Shares, NEW maximum \in Limits,
             NEW e \in tick..(tick + Window), ConfirmInventory(h, sellable, maximum, e)
      PROVE Reserves'
  BY <1>2, ConfirmInventoryFits
<1>3. ASSUME NEW c \in Currencies, NEW available \in Amounts, NEW e \in tick..(tick + Window),
             ConfirmCash(c, available, e)
      PROVE Reserves'
  BY <1>3, ConfirmCashFits
<1>4. ASSUME NEW id \in PlanIds, NEW h \in Holdings, NEW purpose \in Purposes,
             NEW direction \in {"BUY_THEN_SELL", "SELL_THEN_BUY"},
             NEW quantity \in Shares \ {0}, NEW cost \in Amounts \ {0},
             Reserve(id, h, purpose, direction, quantity, cost)
      PROVE Reserves'
  BY <1>4, ReserveFits
<1>5. ASSUME NEW p \in book.plans, Cancel(p) PROVE Reserves'
  <2>1. p.status = "RESERVED" /\ Commit([book EXCEPT !.plans = Becomes(p, "CANCELLED")])
    BY <1>5 DEF Cancel
  <2>2. "CANCELLED" \in Statuses
    BY DEF Statuses
  <2> QED
    BY <1>0, <2>1, <2>2, BecomesFits
<1>6. ASSUME NEW p \in book.plans, MarkExecuted(p) PROVE Reserves'
  <2>1. /\ p.status = "RESERVED"
        /\ Commit([book EXCEPT !.plans = Becomes(p, "RECONCILIATION_REQUIRED")])
    BY <1>6 DEF MarkExecuted
  <2>2. "RECONCILIATION_REQUIRED" \in Statuses
    BY DEF Statuses
  <2> QED
    BY <1>0, <2>1, <2>2, BecomesFits
<1>7. ASSUME NEW c \in Currencies, Reconcile(c) PROVE Reserves'
  BY <1>7, ReconcileFits
<1>8. ASSUME UNCHANGED book PROVE Reserves'
  <2>1. Active' = Active
    BY <1>8 DEF Active
  <2>2. NoOvercommit'
    BY <1>0, <1>8, <2>1, SameActive DEF Reserves, BookInv
  <2> QED
    BY <1>0, <1>8, <2>2 DEF Reserves
<1>9. CASE BookCommand
  BY <1>1, <1>2, <1>3, <1>4, <1>5, <1>6, <1>7, <1>9 DEF BookCommand
<1> QED
  BY <1>8, <1>9 DEF BookNext, ChangePosition, PassTick, bookVars

LEMMA ReservesAlways == BookSpec => []Reserves
BY ReservesInit, ReservesNext, PTL DEF BookSpec

\* Whatever is confirmed, reserved, executed, cancelled and reconciled in
\* whatever order, for any positions, currencies and sizes, the open plans
\* together never promise more than was confirmed for them.
THEOREM NoOvercommitHolds == BookSpec => []NoOvercommit
<1>1. Reserves => NoOvercommit
  BY DEF Reserves
<1> QED
  BY <1>1, ReservesAlways, PTL

-----------------------------------------------------------------------------
(* PointInTime.                                                            *)

\* What a step leaves of the past rests on: the clock is a date, the facts that are known are
\* finitely many, and a fact keeps what it carries when it is learned.
HistoryInv ==
  /\ today \in Nat /\ IsFiniteSet(learned)
  /\ \A f \in learned \union coming : IsFact(f)

\* A fact that is learned carries the date of the day, so nobody could have known it before.
LEMMA LearnedLate ==
  ASSUME NEW f, IsFact(f), today \in Nat, NEW delay \in {0, 1}
  PROVE LET new == [f EXCEPT !.known = today, !.usable = today + delay]
        IN new.known = today /\ IsFact(new)
<1> DEFINE mid == [f EXCEPT !.known = today]
           new == [mid EXCEPT !.usable = today + delay]
<1>1. /\ {"book", "from", "to", "known", "usable", "rev", "sup"} \subseteq DOMAIN mid
      /\ mid.known = today /\ mid.from = f.from /\ mid.to = f.to /\ mid.rev = f.rev /\ mid.sup = f.sup /\ mid.book = f.book
  BY DEF IsFact
<1>2. /\ {"book", "from", "to", "known", "usable", "rev", "sup"} \subseteq DOMAIN new
      /\ new.known = today /\ new.usable = today + delay /\ new.from = f.from /\ new.to = f.to
      /\ new.rev = f.rev /\ new.sup = f.sup /\ new.book = f.book
  <2> HIDE DEF mid
  <2> QED
    BY <1>1
<1>3. new = [f EXCEPT !.known = today, !.usable = today + delay]
  OBVIOUS
<1> HIDE DEF mid, new
<1>4. IsFact(new)
  BY <1>2 DEF IsFact
<1> QED
  BY <1>2, <1>3, <1>4

\* The invariant holds in every behaviour: an archive's facts stay facts while they are waiting.
THEOREM HistoryInvHolds == HistorySpec => []HistoryInv
<1>1. HistoryInit => HistoryInv
  BY HistoryAssumption DEF HistoryInit, HistoryInv
<1>2. HistoryInv /\ [HistoryNext]_historyVars => HistoryInv'
  <2> SUFFICES ASSUME HistoryInv, [HistoryNext]_historyVars PROVE HistoryInv'
    OBVIOUS
  <2>1. CASE UNCHANGED historyVars
    BY <2>1 DEF HistoryInv, historyVars
  <2>2. CASE NextDate
    BY <2>2 DEF HistoryInv, NextDate
  <2>3. ASSUME NEW f \in coming, NEW delay \in {0, 1}, Learn(f, delay) PROVE HistoryInv'
    <3> DEFINE new == [f EXCEPT !.known = today, !.usable = today + delay]
    <3>1. coming' \subseteq coming /\ today' = today /\ learned' = learned \union {new}
      BY <2>3, SMTT(60) DEF Learn
    <3>2. IsFact(new)
      BY LearnedLate DEF HistoryInv
    <3> HIDE DEF new
    <3>3. IsFiniteSet(learned')
      BY <3>1, FS_AddElement DEF HistoryInv
    <3>4. \A h \in learned' \union coming' : IsFact(h)
      BY <3>1, <3>2 DEF HistoryInv
    <3> QED
      BY <3>1, <3>3, <3>4 DEF HistoryInv
  <2> QED
    BY <2>1, <2>2, <2>3 DEF HistoryNext
<1> QED
  BY <1>1, <1>2, PTL DEF HistorySpec

-----------------------------------------------------------------------------
\* No step changes what was known, or heard of the market, as of an instant that has passed: a
\* new fact is dated today, and a new date brings no fact.
LEMMA PastIsKept ==
  ASSUME HistoryInv, [HistoryNext]_historyVars, NEW asOf \in 0 .. (today' - 1)
  PROVE Known(asOf)' = Known(asOf) /\ Heard(asOf)' = Heard(asOf)
<1>1. CASE learned' = learned
  BY <1>1 DEF Known, Heard, Visible
<1>2. ASSUME NEW f \in coming, NEW delay \in {0, 1}, Learn(f, delay)
      PROVE Known(asOf)' = Known(asOf) /\ Heard(asOf)' = Heard(asOf)
  <2> DEFINE new == [f EXCEPT !.known = today, !.usable = today + delay]
  <2>1. learned' = learned \union {new} /\ today' = today
    BY <1>2 DEF Learn
  <2>2. new.known = today /\ ~(new.known <= asOf)
    <3>1. new.known = today
      BY LearnedLate DEF HistoryInv
    <3> QED
      BY <2>1, <3>1, SMTT(60) DEF HistoryInv
  <2> HIDE DEF new
  <2>3. Known(asOf)' = Known(asOf)
    BY <2>1, <2>2 DEF Known, Visible
  <2>4. Heard(asOf)' = Heard(asOf)
    BY <2>1, <2>2 DEF Heard
  <2> QED
    BY <2>3, <2>4
<1> QED
  BY <1>1, <1>2 DEF HistoryNext, NextDate, historyVars

\* No look-ahead: whatever the archive, what the books answer or refuse as of an instant that has
\* passed is a function of what was known then, so no later fact changes it.
THEOREM AnswersStandHold == HistorySpec => AnswersStand
<1>1. HistoryInv /\ [HistoryNext]_historyVars
        => [\A asOf \in 0 .. (today' - 1) : Answers(asOf)' = Answers(asOf)]_historyVars
  <2> SUFFICES ASSUME HistoryInv, [HistoryNext]_historyVars, NEW asOf \in 0 .. (today' - 1)
               PROVE Answers(asOf)' = Answers(asOf)
    OBVIOUS
  <2>1. Known(asOf)' = Known(asOf) /\ Heard(asOf)' = Heard(asOf)
    BY PastIsKept
  <2> QED
    BY <2>1 DEF Answers
<1> QED
  BY <1>1, HistoryInvHolds, PTL DEF HistorySpec, AnswersStand

-----------------------------------------------------------------------------
\* What a snapshot shows of a stream: no fact of it that is known replaces a terminal one, nor has
\* one become known after the newest.
LEMMA TerminalIsLast ==
  ASSUME NEW S, NEW f \in Terminals(Streams(S, BySource))
  PROVE f \in S /\ \A g \in S : BySource(g) = BySource(f) => g.sup # f.rev
BY DEF Terminals, Streams, Terminal

LEMMA StreamIsThere ==
  ASSUME NEW S, NEW f \in S
  PROVE {g \in S : ByDate(g) = ByDate(f)} \in Streams(S, ByDate)
<1>1. Streams(S, ByDate) = {{g \in S : ByDate(g) = ByDate(h)} : h \in S}
  BY DEF Streams
<1> QED
  BY <1>1

LEMMA CurrentIsLast ==
  ASSUME NEW S, NEW f \in Current(Streams(S, ByDate))
  PROVE f \in S /\ \A g \in S : ByDate(g) = ByDate(f) => g.known <= f.known
BY DEF Current, Streams, Newest

LEMMA CurrentIsLastOfSource ==
  ASSUME NEW S, NEW f \in Current(Streams(S, BySource))
  PROVE f \in S /\ \A g \in S : BySource(g) = BySource(f) => g.known <= f.known
BY DEF Current, Streams, Newest

-----------------------------------------------------------------------------
\* In a book with predecessors a terminal revision of the facts that a snapshot looks at is
\* replaced by none of them.
LEMMA TerminalStands ==
  ASSUME NEW S, NEW f \in Terminals(Streams(S, BySource)), f.book \in Graphs,
         NEW g, g.book = f.book /\ BySource(g) = BySource(f) => g \in S
  PROVE ~Replaces(g, f)
BY TerminalIsLast DEF Replaces, Graphs, Spanning

\* In one without, nor is the newest.
LEMMA CurrentStands ==
  ASSUME NEW S, NEW f \in Current(Streams(S, ByDate)), f.book \in {"session", "member", "status"},
         NEW g, IsFact(f), IsFact(g),
         g.book = f.book /\ BySource(g) = BySource(f) /\ g.from = f.from => g \in S
  PROVE ~Replaces(g, f)
<1> SUFFICES ASSUME Replaces(g, f) PROVE FALSE
  OBVIOUS
<1>1. g.book = f.book /\ BySource(g) = BySource(f) /\ g.from = f.from
  BY DEF Replaces, Graphs, Spanning
<1>2. ByDate(g) = ByDate(f)
  BY <1>1 DEF BySource, ByDate
<1>3. g.known <= f.known
  BY <1>1, <1>2, CurrentIsLast
<1>4. g.sup = 0 /\ f.rev # 0 /\ f.known \in Nat /\ g.known \in Nat
  BY <1>1 DEF IsFact
<1>5. g.sup = f.rev \/ g.known > f.known
  BY DEF Replaces, Graphs, Spanning
<1> QED
  BY <1>3, <1>4, <1>5

\* What is looked for by what it spans is replaced by nothing that spans no less and is looked at too.
LEMMA SpanStands ==
  ASSUME NEW f, NEW g, IsFact(f), IsFact(g), f.book \in Spanning,
         SpansNoLess(g, f) /\ g.book = f.book /\ BySource(g) = BySource(f) => g.known <= f.known
  PROVE ~Replaces(g, f)
<1>1. f.known \in Nat /\ g.known \in Nat
  BY DEF IsFact
<1>2. Replaces(g, f) => SpansNoLess(g, f) /\ g.book = f.book /\ BySource(g) = BySource(f) /\ g.known > f.known
  BY DEF Replaces, Graphs, Spanning
<1> QED
  BY <1>1, <1>2

\* It spans each date that the other one does.
LEMMA SpannedToo ==
  ASSUME NEW f, NEW g, IsFact(f), IsFact(g), f.book \in Spanning, g.book \in Spanning, SpansNoLess(g, f)
  PROVE /\ \A day : ActiveOn(f, day) => ActiveOn(g, day)
        /\ \A lo, hi \in Int : f.from <= lo /\ hi <= f.to => g.from <= lo /\ hi <= g.to
<1>1. f.from \in Int /\ f.to \in Int /\ g.from \in Int /\ g.to \in Int
  BY DEF IsFact
<1> QED
  BY <1>1 DEF ActiveOn, SpansNoLess

LEMMA ActionsStand ==
  ASSUME NEW known, NEW asOf, NEW lo, NEW hi, NEW f \in ChosenOf(ActionAnswer(known, asOf, lo, hi)), NEW g \in known
  PROVE ~Replaces(g, f)
<1> DEFINE coverages == Streams(Facts(known, "action coverage"), BySource)
           covering == {c \in Terminals(coverages) : c.from <= lo /\ hi <= c.to /\ c.state = "complete"}
           base == {h \in Facts(known, "action") : \E c \in covering : c.source = h.source}
           chosen == InRange(Streams(base, BySource), lo, hi)
<1>1. f \in covering \union chosen \union IdentitiesOf(chosen, known)
  BY DEF ActionAnswer, Answer, ChosenOf
<1>2. CASE f \in covering
  <2>1. f \in Terminals(Streams(Facts(known, "action coverage"), BySource))
    BY <1>2
  <2> DEFINE S == Facts(known, "action coverage")
  <2>2. f.book = "action coverage"
    <3>1. f \in S
      BY <2>1, TerminalIsLast
    <3> QED
      BY <3>1 DEF Facts
  <2>3. g.book = f.book => g \in Facts(known, "action coverage")
    BY <2>2 DEF Facts
  <2> QED
    BY <2>1, <2>2, <2>3, TerminalStands DEF Graphs
<1>3. CASE f \in chosen
  <2>1. f \in Terminals(Streams(base, BySource))
    BY <1>3 DEF InRange
  <2>2. f \in base /\ f.book = "action"
    <3>1. f \in base
      <4> HIDE DEF base
      <4> QED
        BY <2>1, TerminalIsLast
    <3> QED
      BY <3>1 DEF Facts
  <2>3. g.book = f.book /\ BySource(g) = BySource(f) => g \in base
    BY <2>2 DEF Facts, BySource
  <2> HIDE DEF base
  <2> QED
    BY <2>1, <2>2, <2>3, TerminalStands DEF Graphs
<1>4. CASE f \in IdentitiesOf(chosen, known)
  BY <1>4 DEF IdentitiesOf, Facts, ChosenOf
<1> QED
  BY <1>1, <1>2, <1>3, <1>4

LEMMA EventsStand ==
  ASSUME NEW known, NEW heard, \A c \in heard : IsFact(c) /\ c.book = "confirmation", NEW asOf, NEW lo, NEW hi,
         NEW f \in EventAnswer(known, heard, asOf, lo, hi).shown,
         NEW g \in known, IsFact(g), g.book = "confirmation" => g \in heard
  PROVE ~Replaces(g, f)
<1> DEFINE covered == {c \in Facts(known, "event coverage") : c.source \in EventStreams}
           base == {h \in Facts(known, "event") : h.source \in EventStreams}
           chosen == InRange(Streams(base, BySource), lo, hi)
<1>1. f \in Terminals(Streams(covered, BySource)) \union chosen
            \union UNION {Confirmations(h, heard) : h \in chosen}
  BY DEF EventAnswer, Answer
<1>2. CASE f \in Terminals(Streams(covered, BySource))
  <2>1. f \in covered /\ f.book = "event coverage"
    <3>1. f \in covered
      <4> HIDE DEF covered
      <4> QED
        BY <1>2, TerminalIsLast
    <3> QED
      BY <3>1 DEF Facts
  <2>2. g.book = f.book /\ BySource(g) = BySource(f) => g \in covered
    BY <2>1 DEF Facts, BySource
  <2> HIDE DEF covered
  <2> QED
    BY <1>2, <2>1, <2>2, TerminalStands DEF Graphs
<1>3. CASE f \in chosen
  <2>1. f \in Terminals(Streams(base, BySource))
    BY <1>3 DEF InRange
  <2>2. f \in base /\ f.book = "event"
    <3>1. f \in base
      <4> HIDE DEF base
      <4> QED
        BY <2>1, TerminalIsLast
    <3> QED
      BY <3>1 DEF Facts
  <2>3. g.book = f.book /\ BySource(g) = BySource(f) => g \in base
    BY <2>2 DEF Facts, BySource
  <2> HIDE DEF base
  <2> QED
    BY <2>1, <2>2, <2>3, TerminalStands DEF Graphs
<1>4. CASE f \in UNION {Confirmations(h, heard) : h \in chosen}
  <2>1. PICK h \in chosen : f \in Confirmations(h, heard)
    BY <1>4
  <2> HIDE DEF chosen
  <2>2. f \in heard /\ f.book = "confirmation" /\ f.source = h.source /\ f.part = h.part /\ f.ref = h.rev
    BY <2>1 DEF Confirmations
  <2>3. ASSUME g.book = f.book, BySource(g) = BySource(f), g.ref = f.ref PROVE g.known <= f.known
    BY <2>1, <2>2, <2>3 DEF Confirmations, BySource
  <2>4. f.known \in Nat /\ g.known \in Nat
    BY <2>2 DEF IsFact
  <2> QED
    BY <2>2, <2>3, <2>4 DEF Replaces, Graphs, Spanning
<1> QED
  BY <1>1, <1>2, <1>3, <1>4

LEMMA ClassesStand ==
  ASSUME NEW known, NEW asOf, NEW day, NEW f \in ChosenOf(ClassAnswer(known, asOf, day)), NEW g \in known
  PROVE ~Replaces(g, f)
<1> DEFINE coverages == Streams(Facts(known, "class coverage"), BySource)
           covering == {c \in Terminals(coverages) : ActiveOn(c, day) /\ c.state = "complete"}
           Base(name) == {h \in Facts(known, name) : \E c \in covering : c.source = h.source}
           Holding(name) == {h \in Terminals(Streams(Base(name), BySource)) : ActiveOn(h, day)}
<1>1. f \in covering \union Holding("class") \union Holding("class member")
            \union IdentitiesOf(Holding("class member"), known)
  BY DEF ClassAnswer, Answer, ChosenOf
<1>2. CASE f \in covering
  <2>1. f \in Terminals(Streams(Facts(known, "class coverage"), BySource))
    BY <1>2
  <2> DEFINE S == Facts(known, "class coverage")
  <2>2. f.book = "class coverage"
    <3>1. f \in S
      BY <2>1, TerminalIsLast
    <3> QED
      BY <3>1 DEF Facts
  <2>3. g.book = f.book => g \in Facts(known, "class coverage")
    BY <2>2 DEF Facts
  <2> QED
    BY <2>1, <2>2, <2>3, TerminalStands DEF Graphs
<1>3. ASSUME NEW name \in {"class", "class member"}, f \in Holding(name) PROVE ~Replaces(g, f)
  <2>1. f \in Terminals(Streams(Base(name), BySource))
    BY <1>3
  <2>2. f \in Base(name) /\ f.book = name
    <3>1. f \in Base(name)
      <4> HIDE DEF Base
      <4> QED
        BY <2>1, TerminalIsLast
    <3> QED
      BY <3>1 DEF Facts
  <2>3. g.book = f.book /\ BySource(g) = BySource(f) => g \in Base(name)
    BY <2>2 DEF Facts, BySource
  <2> HIDE DEF Base
  <2> QED
    BY <1>3, <2>1, <2>2, <2>3, TerminalStands DEF Graphs
<1>4. CASE f \in IdentitiesOf(Holding("class member"), known)
  BY <1>4 DEF IdentitiesOf, Facts, ChosenOf
<1> QED
  BY <1>1, <1>2, <1>3, <1>4

LEMMA UniverseStands ==
  ASSUME NEW known, \A h \in known : IsFact(h), NEW day,
         NEW f \in UniverseAnswer(known, day).shown, NEW g \in known
  PROVE ~Replaces(g, f)
<1> DEFINE covered == {c \in Facts(known, "universe coverage") : ActiveOn(c, day) /\ c.state = "complete"}
           coverages == Streams(covered, BySource)
           base == {m \in Facts(known, "member") : m.from <= day /\ \E c \in Current(coverages) : c.source = m.source}
           members == LastOf(Current(Streams(base, ByDate)))
           Anchor(m) == IF Included(m) THEN day ELSE m.from
           Named(m) == {i \in Facts(known, "identity") : m.of = i.of /\ ActiveOn(i, Anchor(m))}
           Of(m) == {s \in Facts(known, "status") : m.of = s.of /\ IF Included(m) THEN s.from = day ELSE s.from <= m.from}
           named == UNION {Named(m) : m \in members}
           states == UNION {Of(m) : m \in members}
<1>1. f \in Current(coverages) \union members \union LastOf(Current(Streams(named, ByDate)))
            \union LastOf(Current(Streams(states, ByDate)))
  BY DEF UniverseAnswer, Answer
<1>2. CASE f \in Current(coverages)
  <2>1. f \in covered
    <3> HIDE DEF covered
    <3> QED
      BY <1>2 DEF Current, Streams, Newest
  <2>2. f \in known /\ f.book = "universe coverage" /\ ActiveOn(f, day) /\ f.state = "complete"
    BY <2>1 DEF Facts
  <2>3. ASSUME SpansNoLess(g, f), g.book = f.book, BySource(g) = BySource(f) PROVE g.known <= f.known
    <3>1. ActiveOn(g, day) /\ g.state = "complete"
      BY <2>2, <2>3, SpannedToo DEF SpansNoLess, Spanning
    <3>2. g \in covered
      BY <2>2, <2>3, <3>1 DEF Facts
    <3> HIDE DEF covered
    <3> QED
      BY <1>2, <2>3, <3>2, CurrentIsLastOfSource
  <2> QED
    BY <2>2, <2>3, SpanStands DEF Spanning
<1>3. CASE f \in members
  <2>1. f \in Current(Streams(base, ByDate))
    BY <1>3 DEF LastOf
  <2>2. f \in base
    <3> HIDE DEF base
    <3> QED
      BY <2>1, CurrentIsLast
  <2>3. f \in known /\ f.book = "member"
    BY <2>2 DEF Facts
  <2>4. g.book = f.book /\ BySource(g) = BySource(f) /\ g.from = f.from => g \in base
    BY <2>2, <2>3 DEF Facts, BySource
  <2> HIDE DEF base
  <2> QED
    BY <2>1, <2>3, <2>4, CurrentStands
<1>4. CASE f \in LastOf(Current(Streams(named, ByDate)))
  <2>1. f \in named /\ f \in Current(Streams(named, ByDate))
    <3> HIDE DEF named
    <3> QED
      BY <1>4, CurrentIsLast DEF LastOf
  <2> HIDE DEF members
  <2>2. PICK m \in members : f \in Named(m)
    BY <2>1
  <2>3. f \in known /\ f.book = "identity" /\ m.of = f.of /\ ActiveOn(f, Anchor(m))
    BY <2>2 DEF Facts
  <2>4. ASSUME SpansNoLess(g, f), g.book = f.book, BySource(g) = BySource(f) PROVE g.known <= f.known
    <3>1. ActiveOn(g, Anchor(m))
      <4> HIDE DEF Anchor
      <4> QED
        BY <2>3, <2>4, SpannedToo DEF Spanning
    <3>2. g.of = f.of /\ ByDate(g) = ByDate(f)
      BY <2>3, <2>4 DEF SpansNoLess, BySource, ByDate
    <3>3. g \in Named(m)
      BY <2>3, <2>4, <3>1, <3>2 DEF Facts
    <3>4. g \in named
      BY <3>3
    <3> HIDE DEF named
    <3> QED
      BY <2>1, <3>2, <3>4, CurrentIsLast
  <2> QED
    BY <2>3, <2>4, SpanStands DEF Spanning
<1>5. CASE f \in LastOf(Current(Streams(states, ByDate)))
  <2>1. f \in Current(Streams(states, ByDate))
    BY <1>5 DEF LastOf
  <2>2. f \in states
    <3> HIDE DEF states
    <3> QED
      BY <2>1, CurrentIsLast
  <2> HIDE DEF members
  <2>3. PICK m \in members : f \in Of(m)
    BY <2>2
  <2>4. f \in known /\ f.book = "status"
    BY <2>3 DEF Facts
  <2>5. g.book = f.book /\ BySource(g) = BySource(f) /\ g.from = f.from => g \in Of(m)
    BY <2>3, <2>4 DEF Facts, BySource
  <2>6. Of(m) \subseteq states
    OBVIOUS
  <2>7. g.book = f.book /\ BySource(g) = BySource(f) /\ g.from = f.from => g \in states
    BY <2>5, <2>6
  <2> HIDE DEF states
  <2> QED
    BY <2>1, <2>4, <2>7, CurrentStands
<1> QED
  BY <1>1, <1>2, <1>3, <1>4, <1>5

\* The one terminal revision of a day is the only one without a predecessor, if it has none: a
\* second chain would have to end in it, and it cannot end elsewhere, for the day is finite.
LEMMA OneRoot ==
  ASSUME NEW S, IsFiniteSet(S), \A h \in S : IsFact(h), Ancestry(S), NEW f \in Terminal(S),
         \A h \in Terminal(S) : h = f, f.sup = 0, NEW g \in S, g.sup = 0
  PROVE g = f
<1> SUFFICES ASSUME g # f PROVE FALSE
  OBVIOUS
<1> DEFINE others == S \ {f}
           later == {h \in others : h.sup # 0}
           Before(h) == CHOOSE p \in S : p.rev = h.sup
           before == [h \in later |-> Before(h)]
<1>1. \A h \in later : Before(h) \in others /\ Before(h).rev = h.sup
  <2> TAKE h \in later
  <2>1. Before(h) \in S /\ Before(h).rev = h.sup
    BY DEF Ancestry
  <2>2. Before(h) # f
    <3>1. h.sup # f.rev
      BY DEF Terminal
    <3> QED
      BY <2>1, <3>1
  <2> QED
    BY <2>1, <2>2
<1>2. \A p \in others : \E h \in later : before[h] = p
  <2> TAKE p \in others
  <2>1. p \notin Terminal(S)
    OBVIOUS
  <2>2. PICK h \in S : h.sup = p.rev
    BY <2>1 DEF Terminal
  <2>3. h \in later
    BY <2>2 DEF IsFact
  <2>4. before[h] \in S /\ before[h].rev = p.rev
    BY <1>1, <2>2, <2>3
  <2>5. before[h] = p
    BY <2>4 DEF Ancestry
  <2> QED
    BY <2>3, <2>5
<1>3. IsFiniteSet(others) /\ IsFiniteSet(later) /\ later \subseteq others /\ g \in others /\ g \notin later
  BY FS_Subset
<1>4. before \in Surjection(later, others)
  BY <1>1, <1>2 DEF Surjection
<1> HIDE DEF later, others, before
<1>5. Cardinality(others) <= Cardinality(later)
  BY <1>3, <1>4, FS_Surjection
<1>6. Cardinality(later) < Cardinality(others)
  BY <1>3, FS_Subset, FS_CardinalityType
<1> QED
  BY <1>3, <1>5, <1>6, FS_CardinalityType

LEMMA CalendarStands ==
  ASSUME NEW known, IsFiniteSet(known), \A h \in known : IsFact(h), NEW lo \in Int, NEW hi \in Int,
         NEW f \in CalendarAnswer(known, lo, hi).shown, NEW g \in known
  PROVE ~Replaces(g, f)
<1> DEFINE covered == {c \in Facts(known, "calendar coverage") : c.from <= lo /\ hi <= c.to}
           coverages == Streams(covered, BySource)
           base == {d \in Facts(known, "day") : d.from \in lo .. hi /\ \E c \in Current(coverages) : c.source = d.source}
           days == Streams(base, ByDate)
<1>1. f \in Current(coverages) \union UNION {DayRevision(S) : S \in days} /\ \A S \in days : DayAgreed(S)
  BY DEF CalendarAnswer, Answer
<1>2. CASE f \in Current(coverages)
  <2>1. f \in covered
    <3> HIDE DEF covered
    <3> QED
      BY <1>2 DEF Current, Streams, Newest
  <2>2. f \in known /\ f.book = "calendar coverage" /\ f.from <= lo /\ hi <= f.to
    BY <2>1 DEF Facts
  <2>3. ASSUME SpansNoLess(g, f), g.book = f.book, BySource(g) = BySource(f) PROVE g.known <= f.known
    <3>1. g.from <= lo /\ hi <= g.to
      BY <2>2, <2>3, SpannedToo DEF Spanning
    <3>2. g \in covered
      BY <2>2, <2>3, <3>1 DEF Facts
    <3> HIDE DEF covered
    <3> QED
      BY <1>2, <2>3, <3>2, CurrentIsLastOfSource
  <2> QED
    BY <2>2, <2>3, SpanStands DEF Spanning
<1>3. CASE f \in UNION {DayRevision(S) : S \in days}
  <2>1. PICK S \in days : f \in DayRevision(S)
    BY <1>3
  <2>2. f \in S
    BY <2>1 DEF DayRevision, Terminal, Newest
  <2>3. S \subseteq base /\ \A h \in base : ByDate(h) = ByDate(f) => h \in S
    <3> HIDE DEF base
    <3> QED
      BY <2>1, <2>2 DEF Streams
  <2>4. f \in base /\ f.book = "day" /\ base \subseteq known
    BY <2>2, <2>3 DEF Facts
  <2> SUFFICES ASSUME Replaces(g, f) PROVE FALSE
    OBVIOUS
  <2>5. g.book = f.book /\ BySource(g) = BySource(f) /\ g.from = f.from
        /\ (g.sup = f.rev \/ (f.sup = 0 /\ g.sup = 0 /\ g.known > f.known))
    BY <2>4 DEF Replaces, Graphs, Spanning
  <2>6. g \in base /\ ByDate(g) = ByDate(f)
    BY <2>4, <2>5 DEF Facts, BySource, ByDate
  <2>7. g \in S
    BY <2>3, <2>6
  <2>8. IsFiniteSet(S) /\ \A h \in S : IsFact(h)
    <3>1. S \subseteq known
      BY <2>3, <2>4
    <3> QED
      BY <3>1, FS_Subset
  <2> HIDE DEF days, base
  <2>9. DayAgreed(S)
    BY <1>1, <2>1
  <2>10. f.rev \in Nat \ {0} /\ f.known \in Nat /\ g.known \in Nat
    BY <2>2, <2>7, <2>8 DEF IsFact
  <2>11. CASE HasGraph(S)
    <3>1. f \in Terminal(S) /\ Ancestry(S) /\ Cardinality(Terminal(S)) = 1
      BY <2>1, <2>9, <2>11 DEF DayRevision, DayAgreed
    <3>2. \A h \in Terminal(S) : h = f
      <4>1. IsFiniteSet(Terminal(S))
        BY <2>8, FS_Subset DEF Terminal
      <4> QED
        BY <3>1, <4>1, FS_Singleton
    <3>3. g.sup # f.rev
      BY <2>7, <3>1 DEF Terminal
    <3>4. f.sup = 0 /\ g.sup = 0 /\ g.known > f.known
      BY <2>5, <3>3
    <3>5. g = f
      BY <2>7, <2>8, <3>1, <3>2, <3>4, OneRoot
    <3> QED
      BY <2>10, <3>4, <3>5
  <2>12. CASE ~HasGraph(S)
    <3>1. f \in Newest(S)
      BY <2>1, <2>12 DEF DayRevision
    <3>2. g.known <= f.known
      BY <2>7, <3>1 DEF Newest
    <3>3. g.sup = 0
      BY <2>7, <2>12 DEF HasGraph
    <3> QED
      BY <2>5, <2>10, <3>2, <3>3
  <2> QED
    BY <2>11, <2>12
<1> QED
  BY <1>1, <1>2, <1>3

LEMMA AlignmentStands ==
  ASSUME NEW known, IsFiniteSet(known), \A h \in known : IsFact(h), NEW lo \in Int, NEW hi \in Int,
         NEW f \in AlignmentAnswer(known, lo, hi).shown, NEW g \in known
  PROVE ~Replaces(g, f)
<1> DEFINE calendar == CalendarAnswer(known, lo, hi)
           open == OpenDates(calendar)
           base == {s \in Facts(known, "session") : s.from \in open}
<1>1. f \in calendar.shown \/ f \in Current(Streams(base, ByDate))
  BY DEF AlignmentAnswer, Answer, Reasons
<1>2. CASE f \in calendar.shown
  BY <1>2, CalendarStands
<1>3. CASE f \in Current(Streams(base, ByDate))
  <2> HIDE DEF open
  <2>1. f \in base
    <3> HIDE DEF base
    <3> QED
      BY <1>3, CurrentIsLast
  <2>2. f \in known /\ f.book = "session"
    BY <2>1 DEF Facts
  <2>3. g.book = f.book /\ BySource(g) = BySource(f) /\ g.from = f.from => g \in base
    BY <2>1, <2>2 DEF Facts
  <2> HIDE DEF base
  <2> QED
    BY <1>3, <2>2, <2>3, CurrentStands
<1> QED
  BY <1>1, <1>2, <1>3

\* No superseded fact is selected, whatever the archive: of every stream a snapshot looks at, it takes the
\* revision that no visible one replaces, and picks by date and state only then; what it finds by the dates
\* a coverage or an identity spans is replaced by none that spans no less.
THEOREM SupersededNeverShownHolds == HistorySpec => []SupersededNeverShown
<1>1. HistoryInv => SupersededNeverShown
  <2> SUFFICES ASSUME HistoryInv, NEW g \in learned, Visible(g, today), NEW f \in Shown(today)
               PROVE ~Replaces(g, f)
    BY DEF SupersededNeverShown
  <2> DEFINE known == Known(today)
  <2>1. g \in known /\ IsFiniteSet(known) /\ \A h \in known : IsFact(h)
    <3>1. known \subseteq learned
      BY DEF Known
    <3>2. g \in known
      BY DEF Known
    <3> QED
      BY <3>1, <3>2, FS_Subset DEF HistoryInv
  <2>2. \/ \E r \in Ranges : \/ f \in ChosenOf(ActionSnapshot(today, r[1], r[2]))
                             \/ f \in EventSnapshot(today, r[1], r[2]).shown
                             \/ f \in Alignment(today, r[1], r[2]).shown
        \/ \E d \in Dates : f \in ChosenOf(ClassSnapshot(today, d)) \/ f \in UniverseSnapshot(today, d).shown
    BY DEF Shown
  <2> HIDE DEF known
  <2>3. ASSUME NEW r \in Ranges, f \in ChosenOf(ActionSnapshot(today, r[1], r[2])) PROVE ~Replaces(g, f)
    BY <2>1, <2>3, ActionsStand DEF ActionSnapshot, known
  <2>4. ASSUME NEW r \in Ranges, f \in EventSnapshot(today, r[1], r[2]).shown PROVE ~Replaces(g, f)
    <3> PICK heard : heard = Heard(today)
      OBVIOUS
    <3>1. \A c \in heard : IsFact(c) /\ c.book = "confirmation"
      BY DEF HistoryInv, Heard
    <3>2. g.book = "confirmation" => g \in heard
      BY DEF Visible, Heard
    <3>3. f \in EventAnswer(known, heard, today, r[1], r[2]).shown
      BY <2>4 DEF EventSnapshot, known
    <3> QED
      BY <2>1, <3>1, <3>2, <3>3, EventsStand
  <2>5. ASSUME NEW r \in Ranges, f \in Alignment(today, r[1], r[2]).shown PROVE ~Replaces(g, f)
    <3>1. r[1] \in Int /\ r[2] \in Int
      BY HistoryAssumption DEF Ranges
    <3> QED
      BY <2>1, <2>5, <3>1, AlignmentStands DEF Alignment, known
  <2>6. ASSUME NEW d \in Dates, f \in ChosenOf(ClassSnapshot(today, d)) PROVE ~Replaces(g, f)
    BY <2>1, <2>6, ClassesStand DEF ClassSnapshot, known
  <2>7. ASSUME NEW d \in Dates, f \in UniverseSnapshot(today, d).shown PROVE ~Replaces(g, f)
    BY <2>1, <2>7, UniverseStands DEF UniverseSnapshot, known
  <2> QED
    BY <2>2, <2>3, <2>4, <2>5, <2>6, <2>7
<1> QED
  BY <1>1, HistoryInvHolds, PTL

-----------------------------------------------------------------------------
\* A part of a finite set that is not all of it has fewer elements.
LEMMA Fewer ==
  ASSUME NEW S, IsFiniteSet(S), NEW T, T \subseteq S, T # S
  PROVE Cardinality(T) < Cardinality(S)
<1>1. IsFiniteSet(T) /\ Cardinality(T) <= Cardinality(S) /\ Cardinality(S) # Cardinality(T)
  BY FS_Subset
<1> QED
  BY <1>1, FS_CardinalityType

LEMMA OneIsSome ==
  ASSUME NEW S, Cardinality(S) = 1
  PROVE \E x : x \in S
<1>1. Cardinality({}) = 0
  BY FS_EmptySet
<1>2. S # {}
  BY <1>1
<1> QED
  BY <1>2

\* Where finitely many integers are counted from below, every rank is taken: two of them have not
\* the same, and there are as many ranks as integers.
LEMMA EveryRank ==
  ASSUME NEW S \in SUBSET Int, IsFiniteSet(S), NEW k \in 1 .. Cardinality(S)
  PROVE \E x \in S : Cardinality({y \in S : y <= x}) = k
<1> DEFINE n == Cardinality(S)
           Below(x) == {y \in S : y <= x}
           rank == [x \in S |-> Cardinality(Below(x))]
           ranks == {rank[x] : x \in S}
<1>1. n \in Nat /\ \A x \in S : IsFiniteSet(Below(x)) /\ x \in Below(x) /\ Below(x) \subseteq S
  BY FS_CardinalityType, FS_Subset
<1>2. \A x \in S : rank[x] \in 1 .. n
  <2> TAKE x \in S
  <2>1. Cardinality(Below(x)) <= n /\ Cardinality(Below(x)) \in Nat
    BY <1>1, FS_Subset, FS_CardinalityType
  <2>2. Cardinality(Below(x)) # 0
    BY <1>1, FS_EmptySet
  <2> QED
    BY <1>1, <2>1, <2>2
<1>3. \A x, y \in S : x < y => rank[x] < rank[y]
  <2> TAKE x, y \in S
  <2> HAVE x < y
  <2>1. Below(x) \subseteq Below(y) /\ y \notin Below(x) /\ y \in Below(y) /\ IsFiniteSet(Below(y))
    <3>1. Below(x) \subseteq Below(y) /\ y \notin Below(x)
      <4>1. x \in Int /\ y \in Int
        OBVIOUS
      <4>2. \A z \in S : z \in Int /\ (z <= x => z <= y)
        BY <4>1
      <4>3. ~(y <= x)
        BY <4>1
      <4> QED
        BY <4>2, <4>3
    <3> QED
      BY <1>1, <3>1
  <2> HIDE DEF Below
  <2>2. Cardinality(Below(x)) < Cardinality(Below(y))
    BY <2>1, Fewer
  <2> QED
    BY <2>2
<1>4. \A x, y \in S : rank[x] = rank[y] => x = y
  BY <1>2, <1>3
<1>5. rank \in Bijection(S, ranks)
  <2>1. rank \in Injection(S, ranks)
    BY <1>4 DEF Injection, IsInjective
  <2>2. rank \in Surjection(S, ranks)
    BY DEF Surjection
  <2> QED
    BY <2>1, <2>2 DEF Bijection
<1> HIDE DEF rank
<1>6. ranks \subseteq 1 .. n
  BY <1>2
<1> HIDE DEF ranks
<1>7. Cardinality(ranks) = n
  BY <1>5, FS_Bijection DEF ExistsBijection
<1>8. IsFiniteSet(1 .. n) /\ Cardinality(1 .. n) = n
  BY <1>1, FS_Interval
<1>9. ranks = 1 .. n
  <2>1. ranks # 1 .. n => Cardinality(ranks) < Cardinality(1 .. n)
    BY <1>6, <1>8, Fewer
  <2> QED
    BY <1>1, <1>7, <1>8, <2>1
<1>10. k \in {rank[x] : x \in S}
  BY <1>9 DEF ranks
<1> QED
  BY <1>10 DEF rank

\* One of finitely many facts is dated last.
LEMMA SomeLast ==
  ASSUME NEW S, IsFiniteSet(S), S # {}, \A f \in S : IsFact(f)
  PROVE \E f \in S : \A g \in S : g.from <= f.from
<1> DEFINE from == [f \in S |-> f.from]
           dates == {from[f] : f \in S}
           top == Cardinality(dates)
<1>1. dates \in SUBSET Int /\ dates # {}
  BY DEF IsFact
<1>2. IsFiniteSet(dates) /\ top \in Nat /\ top # 0
  <2>1. from \in Surjection(S, dates)
    BY DEF Surjection
  <2> HIDE DEF dates, from
  <2>2. IsFiniteSet(dates)
    BY <2>1, FS_Surjection
  <2> QED
    BY <1>1, <2>2, FS_EmptySet, FS_CardinalityType
<1> HIDE DEF dates
<1>3. PICK x \in dates : Cardinality({y \in dates : y <= x}) = top
  BY <1>1, <1>2, EveryRank
<1>4. {y \in dates : y <= x} = dates
  <2>1. {y \in dates : y <= x} # dates => Cardinality({y \in dates : y <= x}) < top
    BY <1>2, Fewer
  <2> QED
    BY <1>2, <1>3, <2>1
<1>5. PICK f \in S : f.from = x
  BY DEF dates
<1>6. \A g \in S : g.from \in dates
  BY DEF dates
<1> QED
  BY <1>4, <1>5, <1>6

\* A member that a universe shows is known, joined by its day, and comes from the source it shows.
LEMMA MemberShown ==
  ASSUME NEW known, NEW day \in Int, NEW f \in UniverseAnswer(known, day).shown, f.book = "member"
  PROVE /\ f \in known /\ f.from <= day
        /\ \E c \in UniverseAnswer(known, day).shown : c.book = "universe coverage" /\ c.source = f.source
<1> DEFINE covered == {c \in Facts(known, "universe coverage") : ActiveOn(c, day) /\ c.state = "complete"}
           coverages == Streams(covered, BySource)
           base == {m \in Facts(known, "member") : m.from <= day /\ \E c \in Current(coverages) : c.source = m.source}
           members == LastOf(Current(Streams(base, ByDate)))
           Anchor(m) == IF Included(m) THEN day ELSE m.from
           Named(m) == {i \in Facts(known, "identity") : m.of = i.of /\ ActiveOn(i, Anchor(m))}
           Of(m) == {s \in Facts(known, "status") : m.of = s.of /\ IF Included(m) THEN s.from = day ELSE s.from <= m.from}
           named == UNION {Named(m) : m \in members}
           states == UNION {Of(m) : m \in members}
           chosen == Current(coverages) \union members \union LastOf(Current(Streams(named, ByDate)))
                      \union LastOf(Current(Streams(states, ByDate)))
<1>1. UniverseAnswer(known, day).shown \in {{}, chosen}
  BY DEF UniverseAnswer, Answer
<1>2. UniverseAnswer(known, day).shown = chosen
  BY <1>1
<1>3. Current(coverages) \subseteq covered /\ \A c \in covered : c.book = "universe coverage"
  <2>1. \A c \in covered : c.book = "universe coverage"
    BY DEF Facts
  <2> HIDE DEF covered
  <2>2. Current(coverages) \subseteq covered
    BY DEF Current, Streams, Newest
  <2> QED
    BY <2>1, <2>2
<1>4. f \notin LastOf(Current(Streams(named, ByDate)))
  <2>1. \A i \in named : i.book # "member"
    BY DEF Facts
  <2> HIDE DEF named
  <2> QED
    BY <2>1, CurrentIsLast DEF LastOf
<1>5. f \notin LastOf(Current(Streams(states, ByDate)))
  <2>1. \A i \in states : i.book # "member"
    BY DEF Facts
  <2> HIDE DEF states
  <2> QED
    BY <2>1, CurrentIsLast DEF LastOf
<1>6. f \in Current(Streams(base, ByDate))
  BY <1>2, <1>3, <1>4, <1>5 DEF LastOf
<1>7. f \in base
  <2> HIDE DEF base
  <2> QED
    BY <1>6, CurrentIsLast
<1> QED
  BY <1>2, <1>3, <1>7, ZenonT(60) DEF Facts

\* A given universe shows an instrument of which its source has a membership by its day.
LEMMA MemberKept ==
  ASSUME NEW known, IsFiniteSet(known), \A h \in known : IsFact(h), NEW day, UniverseAnswer(known, day).given,
         NEW c \in UniverseAnswer(known, day).shown, c.book = "universe coverage",
         NEW e \in known, e.book = "member", e.from <= day, e.source = c.source
  PROVE \E f \in UniverseAnswer(known, day).shown : f.book = "member" /\ f.of = e.of
<1> DEFINE covered == {x \in Facts(known, "universe coverage") : ActiveOn(x, day) /\ x.state = "complete"}
           coverages == Streams(covered, BySource)
           base == {m \in Facts(known, "member") : m.from <= day /\ \E x \in Current(coverages) : x.source = m.source}
           events == Streams(base, ByDate)
           members == LastOf(Current(events))
           Anchor(m) == IF Included(m) THEN day ELSE m.from
           Named(m) == {i \in Facts(known, "identity") : m.of = i.of /\ ActiveOn(i, Anchor(m))}
           Of(m) == {s \in Facts(known, "status") : m.of = s.of /\ IF Included(m) THEN s.from = day ELSE s.from <= m.from}
           named == UNION {Named(m) : m \in members}
           states == UNION {Of(m) : m \in members}
           chosen == Current(coverages) \union members \union LastOf(Current(Streams(named, ByDate)))
                      \union LastOf(Current(Streams(states, ByDate)))
<1>1. UniverseAnswer(known, day).shown = chosen /\ Agreed(events)
  BY DEF UniverseAnswer, Answer
<1>2. \A m \in base : m \in known /\ m.book = "member"
  BY DEF Facts
<1>3. c \notin members
  <2> HIDE DEF base
  <2> QED
    BY <1>2, CurrentIsLast DEF LastOf
<1>4. c \notin LastOf(Current(Streams(named, ByDate)))
  <2>1. \A i \in named : i.book = "identity"
    BY DEF Facts
  <2> HIDE DEF named
  <2> QED
    BY <2>1, CurrentIsLast DEF LastOf
<1>5. c \notin LastOf(Current(Streams(states, ByDate)))
  <2>1. \A i \in states : i.book = "status"
    BY DEF Facts
  <2> HIDE DEF states
  <2> QED
    BY <2>1, CurrentIsLast DEF LastOf
<1>6. c \in Current(coverages)
  BY <1>1, <1>3, <1>4, <1>5
<1>7. e \in base
  BY <1>6 DEF Facts
<1> HIDE DEF base
<1> DEFINE T == {h \in base : ByDate(h) = ByDate(e)}
<1>8. T \in Streams(base, ByDate)
  BY <1>7, StreamIsThere
<1>9. PICK n : n \in Newest(T)
  <2>1. Cardinality(Newest(T)) = 1
    BY <1>1, <1>8 DEF Agreed
  <2> HIDE DEF T
  <2> QED
    BY <2>1, OneIsSome
<1>10. n \in base /\ n.of = e.of /\ n \in Current(events)
  <2>1. n \in T
    BY <1>9 DEF Newest
  <2>2. n \in Current(events)
    <3> HIDE DEF T
    <3> QED
      BY <1>8, <1>9 DEF Current
  <2> QED
    BY <2>1, <2>2 DEF ByDate
<1> DEFINE X == {h \in Current(events) : h.of = e.of}
<1>11. X \subseteq base /\ X # {}
  BY <1>10, CurrentIsLast
<1>12. X \subseteq known
  BY <1>2, <1>11
<1>13. PICK f \in X : \A g \in X : g.from <= f.from
  BY <1>11, <1>12, FS_Subset, SomeLast
<1>14. f \in members
  BY <1>13 DEF LastOf
<1> QED
  BY <1>1, <1>2, <1>11, <1>14

\* What was known is known.
LEMMA StillKnown ==
  ASSUME HistoryInv, NEW asOf \in 0 .. today
  PROVE Known(asOf) \subseteq Known(today)
<1>1. today \in Nat /\ asOf \in Nat /\ asOf <= today
  BY DEF HistoryInv
<1> SUFFICES ASSUME NEW e \in learned, Visible(e, asOf) PROVE Visible(e, today)
  BY DEF Known
<1>2. e.known \in Nat /\ e.usable \in Nat
  BY DEF HistoryInv, IsFact
<1> QED
  BY <1>1, <1>2 DEF Visible

LEMMA NobodyDrops ==
  ASSUME HistoryInv, NEW asOf \in 0 .. today, NEW d1 \in Dates, NEW d2 \in Dates, d1 <= d2,
         UniverseAnswer(Known(today), d2).given,
         NEW e \in Known(asOf), e.book = "member", e.from <= d1,
         NEW c \in UniverseAnswer(Known(today), d2).shown, c.book = "universe coverage", e.source = c.source
  PROVE \E f \in UniverseAnswer(Known(today), d2).shown : f.book = "member" /\ f.of = e.of
<1>1. Known(today) \subseteq learned /\ e \in Known(today)
  BY StillKnown DEF Known
<1>2. IsFiniteSet(Known(today)) /\ \A h \in Known(today) : IsFact(h)
  BY <1>1, FS_Subset DEF HistoryInv
<1>3. e.from <= d2
  <2>1. e.from \in Int
    BY <1>1, <1>2 DEF IsFact
  <2>2. d1 \in Int /\ d2 \in Int
    BY HistoryAssumption
  <2>3. e.from <= d1 /\ d1 <= d2
    OBVIOUS
  <2> QED
    BY ONLY <2>1, <2>2, <2>3
<1> DEFINE known == Known(today)
<1> HIDE DEF known
<1> QED
  BY <1>1, <1>2, <1>3, MemberKept

\* Nobody drops out of a universe, whatever the archive: a membership that an answer was made of is
\* among those a later answer is made of, and of those of one instrument one is always shown.
THEOREM NoSurvivorshipBiasHolds == HistorySpec => []NoSurvivorshipBias
<1>1. HistoryInv => NoSurvivorshipBias
  <2> DEFINE Source(S) == {c.source : c \in {f \in S : f.book = "universe coverage"}}
             Members(S) == Instruments({f \in S : f.book = "member"})
  <2> SUFFICES ASSUME HistoryInv, NEW d2 \in Dates, UniverseSnapshot(today, d2).given,
                      NEW asOf \in 0 .. today, NEW d1 \in Dates, d1 <= d2,
                      Source(UniverseSnapshot(asOf, d1).shown) = Source(UniverseSnapshot(today, d2).shown),
                      NEW m \in Members(UniverseSnapshot(asOf, d1).shown)
               PROVE m \in Members(UniverseSnapshot(today, d2).shown)
    BY Zenon DEF NoSurvivorshipBias
  <2> DEFINE old == UniverseAnswer(Known(asOf), d1)
             new == UniverseAnswer(Known(today), d2)
  <2>1. UniverseSnapshot(asOf, d1) = old /\ UniverseSnapshot(today, d2) = new
    BY DEF UniverseSnapshot
  <2>2. PICK e \in old.shown : e.book = "member" /\ e.of = m
    BY <2>1 DEF Instruments
  <2>3. /\ e \in Known(asOf) /\ e.from <= d1
        /\ \E c \in old.shown : c.book = "universe coverage" /\ c.source = e.source
    <3>1. e \in UniverseAnswer(Known(asOf), d1).shown /\ e.book = "member"
      BY <2>2
    <3> DEFINE known == Known(asOf)
    <3> HIDE DEF known, Source, Members
    <3>2. e \in UniverseAnswer(known, d1).shown /\ e.book = "member" /\ d1 \in Int
      BY <3>1, HistoryAssumption DEF known
    <3>3. /\ e \in known /\ e.from <= d1
          /\ \E c \in UniverseAnswer(known, d1).shown : c.book = "universe coverage" /\ c.source = e.source
      BY ONLY <3>2, MemberShown
    <3> QED
      BY <3>3 DEF known
  <2>4. e.source \in Source(old.shown)
    BY <2>3
  <2>5. PICK c \in new.shown : c.book = "universe coverage" /\ c.source = e.source
    <3>1. e.source \in Source(new.shown)
      <4> HIDE DEF Source, old, new
      <4> QED
        BY <2>1, <2>4
    <3> QED
      BY ONLY <3>1
  <2>6. new.given
    BY <2>1
  <2>7. \E f \in new.shown : f.book = "member" /\ f.of = e.of
    <3>1. HistoryInv /\ asOf \in 0 .. today /\ d1 \in Dates /\ d2 \in Dates /\ d1 <= d2
      OBVIOUS
    <3>2. /\ e \in Known(asOf) /\ e.book = "member" /\ e.from <= d1
          /\ new.given /\ c \in new.shown /\ c.book = "universe coverage" /\ e.source = c.source
      BY ONLY <2>2, <2>3, <2>5, <2>6
    <3> QED
      BY ONLY <3>1, <3>2, NobodyDrops, ZenonT(60)
  <2> QED
    BY <2>1, <2>2, <2>7 DEF Instruments
<1> QED
  BY <1>1, HistoryInvHolds, PTL

-----------------------------------------------------------------------------
(* PriceAdjustment.                                                        *)

\* A candidate carries a row that its contract accepted when it was captured, and the row's revision.
Sound(c) ==
  /\ IsRow(c.row) /\ CandidateAccepted(c.row, c.known)
  /\ c.rev = c.row.rev /\ c.sup = c.row.sup /\ c.of = c.identity.of

\* What eligibility rests on: every candidate is sound, finitely many are gathered, and none is taken
\* for two actions.
ActionsInv ==
  /\ filing \in Filings
  /\ \A k \in captures : k.document \in filing.documents
  /\ IsFiniteSet(bundles)
  /\ \A b \in bundles : IsFiniteSet(b.candidates) /\ \A c \in b.candidates : Sound(c)
  /\ \A m \in mapped : m = [candidate |-> m.candidate, action |-> m.action]
  /\ \A m, n \in mapped : m.candidate = n.candidate => m = n

\* A function has finitely many values on a finite set.
LEMMA ImageIsFinite ==
  ASSUME NEW S, IsFiniteSet(S), NEW f
  PROVE IsFiniteSet({f[x] : x \in S})
<1> DEFINE T == {f[x] : x \in S}
<1>1. [x \in S |-> f[x]] \in Surjection(S, T)
  BY DEF Surjection
<1> HIDE DEF T
<1>2. IsFiniteSet(T)
  BY <1>1, FS_Surjection
<1> QED
  BY <1>2 DEF T

\* What is bound to identities is finite, and each candidate of it is sound.
LEMMA BoundIsSound ==
  ASSUME ActionsInv, NEW capture \in captures, NEW asOf, NEW b \in BoundBundle(capture, asOf)
  PROVE IsFiniteSet(b.candidates) /\ \A c \in b.candidates : Sound(c)
<1> DEFINE d == capture.document
           bound == {r \in d.rows : BoundTo(d, r, asOf) # {}}
           Of(r) == {CandidateAction(d, r, i, capture.at) : i \in BoundTo(d, r, asOf)}
           parts == {Of(r) : r \in bound}
<1>1. b.candidates = UNION parts /\ \A r \in bound : CandidateAccepted(r, capture.at)
  BY DEF BoundBundle
<1>2. IsFiniteSet(d.rows) /\ IsFiniteSet(filing.identities) /\ \A r \in d.rows : IsRow(r)
  BY ActionsAssumption DEF ActionsInv
<1>3. ASSUME NEW r \in bound PROVE IsFiniteSet(Of(r))
  <2>1. IsFiniteSet(BoundTo(d, r, asOf))
    BY <1>2, FS_Subset DEF BoundTo
  <2> DEFINE f == [i \in BoundTo(d, r, asOf) |-> CandidateAction(d, r, i, capture.at)]
  <2>2. Of(r) = {f[i] : i \in BoundTo(d, r, asOf)}
    OBVIOUS
  <2> HIDE DEF f
  <2> QED
    BY <2>1, <2>2, ImageIsFinite
<1>4. IsFiniteSet(parts)
  <2>1. IsFiniteSet(bound)
    BY <1>2, FS_Subset
  <2> DEFINE f == [r \in bound |-> Of(r)]
  <2>2. parts = {f[r] : r \in bound}
    OBVIOUS
  <2> HIDE DEF f, bound, parts
  <2> QED
    BY <2>1, <2>2, ImageIsFinite
<1>5. IsFiniteSet(b.candidates)
  <2>1. \A s \in parts : IsFiniteSet(s)
    BY <1>3
  <2> HIDE DEF parts
  <2> QED
    BY <1>1, <1>4, <2>1, FS_UNION
<1>6. ASSUME NEW c \in b.candidates PROVE Sound(c)
  <2>1. PICK r \in bound : c \in Of(r)
    BY <1>1
  <2>2. PICK i \in BoundTo(d, r, asOf) : c = CandidateAction(d, r, i, capture.at)
    BY <2>1
  <2>3. /\ c.row = r /\ c.known = capture.at /\ c.rev = r.rev /\ c.sup = r.sup
        /\ c.identity = i /\ c.of = i.of
    BY <2>2 DEF CandidateAction
  <2>4. r \in d.rows /\ CandidateAccepted(r, capture.at)
    BY <1>1
  <2>5. IsRow(r)
    BY <1>2, <2>4
  <2> QED
    BY <2>3, <2>4, <2>5 DEF Sound
<1> QED
  BY <1>5, <1>6

\* The invariant holds in every behaviour.
THEOREM ActionsInvariant == ActionsSpec => []ActionsInv
<1>1. ActionsInit => ActionsInv
  BY FS_EmptySet DEF ActionsInit, ActionsInv
<1>2. ActionsInv /\ [ActionsNext]_actionVars => ActionsInv'
  <2> SUFFICES ASSUME ActionsInv, [ActionsNext]_actionVars PROVE ActionsInv'
    OBVIOUS
  <2>1. CASE UNCHANGED actionVars
    BY <2>1 DEF ActionsInv, actionVars
  <2>2. CASE Later
    BY <2>2 DEF Later, ActionsInv
  <2>3. ASSUME NEW d \in filing.documents, Capture(d) PROVE ActionsInv'
    BY <2>3 DEF Capture, ActionsInv
  <2>4. ASSUME NEW capture \in captures, NEW asOf \in 1 .. instant, Bind(capture, asOf) PROVE ActionsInv'
    <3>1. PICK b \in BoundBundle(capture, asOf) : bundles' = bundles \union {b}
      BY <2>4 DEF Bind
    <3>2. UNCHANGED <<filing, captures, mapped>>
      BY <2>4 DEF Bind
    <3>3. IsFiniteSet(bundles')
      BY <3>1, FS_AddElement DEF ActionsInv
    <3>4. \A e \in bundles' : IsFiniteSet(e.candidates) /\ \A c \in e.candidates : Sound(c)
      BY <3>1, BoundIsSound DEF ActionsInv
    <3> QED
      BY <3>2, <3>3, <3>4 DEF ActionsInv
  <2>5. ASSUME NEW c \in Gathered, MapCandidate(c) PROVE ActionsInv'
    <3>1. PICK action \in c.row.actions : mapped' = mapped \union {[candidate |-> c, action |-> action]}
      BY <2>5 DEF MapCandidate
    <3>2. UNCHANGED <<filing, captures, bundles>> /\ \A m \in mapped : m.candidate # c
      BY <2>5 DEF MapCandidate
    <3> QED
      BY <3>1, <3>2 DEF ActionsInv
  <2> QED
    BY <2>1, <2>2, <2>3, <2>4, <2>5 DEF ActionsNext
<1> QED
  BY <1>1, <1>2, PTL DEF ActionsSpec

-----------------------------------------------------------------------------
\* A candidate that is selected for an action is mapped to it, and no other that is replaces it.
LEMMA SelectedIsLast ==
  ASSUME NEW action, NEW asOf, NEW c \in Selected(action, asOf)
  PROVE c \in MappedTo(action, asOf) /\ \A e \in MappedTo(action, asOf) : StreamOf(e) = StreamOf(c) => e.sup # c.rev
BY DEF Selected, StreamsOf, Terminals, Streams, Terminal

\* Where the revisions of an action are resolved, what a candidate replaces is mapped to the action too.
LEMMA PredecessorIsMapped ==
  ASSUME NEW action, NEW asOf, Resolved(StreamsOf(action, asOf)), NEW e \in MappedTo(action, asOf), e.sup # 0
  PROVE \E g \in MappedTo(action, asOf) : StreamOf(g) = StreamOf(e) /\ g.rev = e.sup
<1> DEFINE S == {g \in MappedTo(action, asOf) : StreamOf(g) = StreamOf(e)}
<1>1. S \in StreamsOf(action, asOf) /\ e \in S
  BY DEF StreamsOf, Streams
<1>2. \E g \in S : g.rev = e.sup
  BY <1>1 DEF Resolved, Ancestry
<1> QED
  BY <1>2

\* So nothing visible replaces what is selected, but where a revision was taken apart.
LEMMA SelectedStands ==
  ASSUME ActionsInv, NEW p, NEW asOf, Eligible(p, asOf), NEW action \in Logical(asOf),
         NEW c \in Selected(action, asOf), NEW e \in Gathered, StreamOf(e) = StreamOf(c)
  PROVE e.known <= asOf /\ (e.sup = c.rev => TakenApart(c, e, action))
<1>1. e \in Seen(asOf) /\ e.known <= asOf
  BY DEF Eligible, Seen
<1>2. ASSUME e.sup = c.rev PROVE TakenApart(c, e, action)
  <2>1. PICK n \in mapped : n.candidate = e
    BY <1>1 DEF Eligible
  <2> DEFINE other == n.action
  <2>2. e \in MappedTo(other, asOf) /\ other \in Logical(asOf)
    BY <1>1, <2>1 DEF MappedTo, Logical, ActionsInv
  <2>3. c \in MappedTo(action, asOf) /\ (e \in MappedTo(action, asOf) => e.sup # c.rev)
    BY SelectedIsLast
  <2>4. c.rev # 0
    <3>1. c \in Seen(asOf)
      BY <2>3 DEF MappedTo
    <3>2. Sound(c)
      BY <3>1 DEF Seen, ActionsInv
    <3> QED
      BY <3>2 DEF Sound, IsRow
  <2>5. PICK g \in MappedTo(other, asOf) : StreamOf(g) = StreamOf(e) /\ g.rev = e.sup
    BY <1>2, <2>2, <2>4, PredecessorIsMapped DEF Eligible, ReportGiven
  <2>6. other # action
    BY <1>2, <2>2, <2>3
  <2>7. g # c
    BY <2>3, <2>5, <2>6 DEF MappedTo, ActionsInv
  <2> DEFINE m == [candidate |-> g, action |-> other]
  <2>8. m \in mapped /\ m.action = n.action /\ m.candidate = g
    BY <2>5 DEF MappedTo
  <2> HIDE DEF m
  <2> QED
    BY <1>2, <2>1, <2>5, <2>6, <2>7, <2>8 DEF TakenApart
<1> QED
  BY <1>1, <1>2

-----------------------------------------------------------------------------
\* What is in an amount that is there, and what is left of a price, is a number.
LEMMA AmountIsNat ==
  ASSUME NEW amount, amount \subseteq Nat
  PROVE The(amount) \in Nat
<1>1. \E x \in amount \union {0} : amount # {} => x \in amount
  OBVIOUS
<1>2. The(amount) \in amount \union {0}
  BY <1>1, Zenon DEF The
<1>3. amount \union {0} \subseteq Nat
  OBVIOUS
<1> QED
  BY <1>2, <1>3, Zenon

LEMMA TheoreticalIsInt ==
  ASSUME NEW r, IsRow(r)
  PROVE Theoretical(r) \in Int
<1>1. /\ The(r.reference) \in Int /\ The(r.cash) \in Int
      /\ The(r.rights) \in Int /\ The(r.price) \in Int
  BY AmountIsNat DEF IsRow
<1>2. Unit \in Int
  BY ActionsAssumption
<1> QED
  BY <1>1, <1>2 DEF Theoretical

\* The core's contract accepts a row that is complete and that the candidate's contract accepted, but
\* for the two things which only the core looks at.
LEMMA CoreAccepts ==
  ASSUME NEW r, NEW at, IsRow(r), Complete(r), CandidateAccepted(r, at),
         r.currency = {} \/ Monetary(r), ~(Theoretical(r) <= 0)
  PROVE FactAccepted(r)
<1>1. \A later \in r.paid \union r.listed, x \in r.ex : x <= later
  BY DEF CandidateAccepted
<1>2. CASE r.lifecycle = "CANCELLED"
  BY <1>1, <1>2 DEF FactAccepted, CandidateAccepted
<1>3. CASE r.lifecycle # "CANCELLED"
  <2>1. /\ {} \notin {r.ratio, r.cash, r.rights} /\ ~NoOp(r)
        /\ SharesChange(r) => r.listed # {}
        /\ Positive(r.rights) => r.price # {}
        /\ Monetary(r) => r.currency # {}
        /\ r.reference # {} => r.evidence # {}
    BY <1>3 DEF Complete
  <2>2. ~Positive(r.rights) => r.price = {}
    <3> SUFFICES ASSUME ~Positive(r.rights) PROVE r.rights = {0}
      BY DEF CandidateAccepted
    <3>1. r.rights # {} /\ r.rights \subseteq Nat
      BY <2>1 DEF IsRow
    <3> QED
      BY <3>1 DEF Positive
  <2>3. r.reference = {} => r.evidence = {}
    BY DEF CandidateAccepted
  <2>4. Theoretical(r) > 0
    BY TheoreticalIsInt
  <2> QED
    BY <1>1, <1>3, <2>1, <2>2, <2>3, <2>4 DEF FactAccepted
<1> QED
  BY <1>2, <1>3

-----------------------------------------------------------------------------
\* A set of one element has one.
LEMMA OfOne ==
  ASSUME NEW S, IsFiniteSet(S), Cardinality(S) = 1, NEW a \in S, NEW b \in S
  PROVE a = b
BY FS_Singleton

LEMMA AtMostOne ==
  ASSUME NEW S, \A a, b \in S : a = b
  PROVE Cardinality(S) <= 1
<1>1. CASE S = {}
  BY <1>1, FS_EmptySet
<1>2. CASE S # {}
  <2>1. PICK a \in S : S = {a}
    BY <1>2
  <2> QED
    BY <2>1, FS_Singleton
<1> QED
  BY <1>1, <1>2

\* What an action is in the core: what a factor is made of.
Factor(f, basis) ==
  <<f.of, f.from, SharesFrom(f), f.state, IF f.state = "effective" THEN BackwardMultiplier(f, basis) ELSE {}>>
Factors(S, basis) == {Factor(f, basis) : f \in UNION {ToCoreFact(c) : c \in S}}

\* Candidates that agree on what is compared give one factor.
LEMMA OneFactor ==
  ASSUME NEW c, NEW e, Sound(c), Sound(e), Compared(c) = Compared(e), NEW basis,
         NEW f \in ToCoreFact(c), NEW g \in ToCoreFact(e)
  PROVE Factor(f, basis) = Factor(g, basis)
<1>1. /\ c.row.lifecycle = e.row.lifecycle /\ c.row.ex = e.row.ex /\ c.row.listed = e.row.listed
      /\ c.row.ratio = e.row.ratio /\ c.row.cash = e.row.cash /\ c.row.rights = e.row.rights
      /\ c.row.price = e.row.price /\ c.row.reference = e.row.reference /\ c.identity = e.identity
  BY DEF Compared
<1>2. /\ f.from \in c.row.ex /\ f.of = c.of /\ f.state = Phase(c.row) /\ f.row = c.row
      /\ g.from \in e.row.ex /\ g.of = e.of /\ g.state = Phase(e.row) /\ g.row = e.row
  BY DEF ToCoreFact
<1>3. f.from = g.from /\ f.of = g.of
  BY <1>1, <1>2 DEF Sound, IsRow
<1>4. f.state = g.state
  BY <1>1, <1>2 DEF Phase
<1>5. SharesFrom(f) = SharesFrom(g)
  BY <1>1, <1>2, <1>3 DEF SharesFrom, SharesChange
<1>6. BackwardMultiplier(f, basis) = BackwardMultiplier(g, basis)
  <2>1. Monetary(f.row) <=> Monetary(g.row)
    BY <1>1, <1>2 DEF Monetary, HasMoney
  <2>2. Theoretical(f.row) = Theoretical(g.row)
    BY <1>1, <1>2 DEF Theoretical
  <2>3. ShareRatio(f) = ShareRatio(g)
    BY <1>1, <1>2 DEF ShareRatio
  <2> QED
    BY <1>1, <1>2, <2>1, <2>2, <2>3 DEF BackwardMultiplier
<1> QED
  BY <1>3, <1>4, <1>5, <1>6 DEF Factor

\* The candidates of a report are finitely many, and sound.
LEMMA SelectedIsSound ==
  ASSUME ActionsInv, NEW action, NEW asOf
  PROVE IsFiniteSet(Selected(action, asOf)) /\ \A c \in Selected(action, asOf) : Sound(c)
<1> DEFINE f == [b \in bundles |-> b.candidates]
           parts == {f[b] : b \in bundles}
<1>1. IsFiniteSet(parts)
  <2> HIDE DEF f
  <2> QED
    BY ImageIsFinite DEF ActionsInv
<1>2. \A s \in parts : IsFiniteSet(s) /\ \A c \in s : Sound(c)
  BY DEF ActionsInv
<1>3. Selected(action, asOf) \subseteq UNION parts
  <2>1. Selected(action, asOf) \subseteq MappedTo(action, asOf)
    BY SelectedIsLast
  <2>2. MappedTo(action, asOf) \subseteq UNION parts
    BY DEF MappedTo, Seen
  <2> QED
    BY <2>1, <2>2
<1> HIDE DEF parts
<1>4. IsFiniteSet(UNION parts)
  BY <1>1, <1>2, FS_UNION
<1> QED
  BY <1>2, <1>3, <1>4, FS_Subset

\* Whatever is filed, captured, bound and mapped, and in whichever order: what a report lets an
\* analyst verify has no successor that is visible, but one that was taken apart, is accepted by the
\* core but for the two exceptions, and gives one factor whichever source is taken.
THEOREM EligibleIsUsableHolds == ActionsSpec => []EligibleIsUsable
<1>1. ActionsInv => EligibleIsUsable
  <2> SUFFICES ASSUME ActionsInv, NEW p \in Policies, NEW asOf \in 1 .. instant, Eligible(p, asOf),
                      NEW action \in Logical(asOf)
               PROVE LET chosen == Selected(action, asOf)
                     IN /\ \A c \in chosen, e \in Gathered :
                             StreamOf(e) = StreamOf(c) => e.known <= asOf /\ (e.sup = c.rev => TakenApart(c, e, action))
                        /\ \A c \in chosen :
                             \/ ToCoreFact(c) # {}
                             \/ c.row.currency # {} /\ ~Monetary(c.row)
                             \/ Theoretical(c.row) <= 0
                        /\ \A basis \in Bases : Cardinality(Factors(chosen, basis)) <= 1
    BY DEF EligibleIsUsable, Factors, Factor
  <2> DEFINE chosen == Selected(action, asOf)
  <2>1. IsFiniteSet(chosen) /\ \A c \in chosen : Sound(c)
    BY SelectedIsSound
  <2>2. Cardinality({Compared(c) : c \in chosen}) = 1 /\ \A c \in chosen : Complete(c.row)
    BY DEF Eligible, ActionClear
  <2> HIDE DEF chosen
  <2>3. ASSUME NEW c \in chosen, ~(c.row.currency # {} /\ ~Monetary(c.row)), ~(Theoretical(c.row) <= 0)
        PROVE ToCoreFact(c) # {}
    <3>1. FactAccepted(c.row)
      BY <2>1, <2>2, <2>3, CoreAccepts DEF Sound
    <3>2. c.row.type \in Supported /\ c.row.ex # {}
      BY <2>2 DEF Complete
    <3> QED
      BY <3>1, <3>2 DEF ToCoreFact
  <2>4. \A c, e \in chosen : Compared(c) = Compared(e)
    <3> DEFINE f == [c \in chosen |-> Compared(c)]
               compared == {f[c] : c \in chosen}
    <3>1. compared = {Compared(c) : c \in chosen}
      OBVIOUS
    <3>2. IsFiniteSet(compared)
      <4> HIDE DEF f
      <4> QED
        BY <2>1, ImageIsFinite
    <3>3. \A c \in chosen : Compared(c) \in compared
      OBVIOUS
    <3> HIDE DEF compared
    <3> QED
      BY <2>2, <3>1, <3>2, <3>3, OfOne
  <2>5. ASSUME NEW basis \in Bases PROVE Cardinality(Factors(chosen, basis)) <= 1
    <3>1. \A a, b \in Factors(chosen, basis) : a = b
      BY <2>1, <2>4, OneFactor DEF Factors
    <3> QED
      BY <3>1, AtMostOne
  <2>6. \A c \in chosen, e \in Gathered :
          StreamOf(e) = StreamOf(c) => e.known <= asOf /\ (e.sup = c.rev => TakenApart(c, e, action))
    BY SelectedStands DEF chosen
  <2> QED
    BY <2>3, <2>5, <2>6 DEF chosen
<1> QED
  BY <1>1, ActionsInvariant, PTL

-----------------------------------------------------------------------------
\* Numerators and denominators of what the facts of F make of a price, and that none has a zero.
Num(F, basis) == ProductOnSet([f \in F |-> Multiplier(f, basis)[1]], F)
Den(F, basis) == ProductOnSet([f \in F |-> Multiplier(f, basis)[2]], F)
Whole(F, basis) ==
  IsFiniteSet(F) /\ \A f \in F : Multiplier(f, basis)[1] \in Nat \ {0} /\ Multiplier(f, basis)[2] \in Nat \ {0}

LEMMA PartsAreWhole ==
  ASSUME NEW F, NEW basis, Whole(F, basis), NEW T \in SUBSET F
  PROVE /\ Whole(T, basis) /\ Num(T, basis) \in Nat \ {0} /\ Den(T, basis) \in Nat \ {0}
        /\ Num(F, basis) = Num(T, basis) * Num(F \ T, basis)
        /\ Den(F, basis) = Den(T, basis) * Den(F \ T, basis)
<1> DEFINE n(S) == [f \in S |-> Multiplier(f, basis)[1]]
           d(S) == [f \in S |-> Multiplier(f, basis)[2]]
           R == F \ T
<1>1. IsFiniteSet(F) /\ IsFiniteSet(T) /\ IsFiniteSet(R)
  BY FS_Subset DEF Whole
<1>2. \A f \in F : n(F)[f] \in Nat \ {0} /\ d(F)[f] \in Nat \ {0}
  BY DEF Whole
<1>3. ASSUME NEW S \in SUBSET F, IsFiniteSet(S)
      PROVE /\ ProductOnSet(n(F), S) = Num(S, basis) /\ ProductOnSet(d(F), S) = Den(S, basis)
            /\ Num(S, basis) \in Nat \ {0} /\ Den(S, basis) \in Nat \ {0}
  <2>0. /\ \A f \in S : n(S)[f] = n(F)[f] /\ n(S)[f] \in Nat \ {0}
        /\ \A f \in S : d(S)[f] = d(F)[f] /\ d(S)[f] \in Nat \ {0}
    BY <1>2
  <2> HIDE DEF n, d
  <2>1. /\ \A f \in S : n(S)[f] = n(F)[f] /\ n(S)[f] \in Int
        /\ \A f \in S : d(S)[f] = d(F)[f] /\ d(S)[f] \in Int
    BY <2>0
  <2>2. ProductOnSet(n(S), S) = ProductOnSet(n(F), S) /\ ProductOnSet(d(S), S) = ProductOnSet(d(F), S)
    BY <1>3, <2>1, ProductAgrees
  <2>3. ProductOnSet(n(S), S) \in Nat \ {0} /\ ProductOnSet(d(S), S) \in Nat \ {0}
    BY <1>3, <2>0, ProductIsPositive
  <2> QED
    BY <2>2, <2>3 DEF Num, Den, n, d
<1>4. Whole(T, basis)
  BY <1>1 DEF Whole
<1> HIDE DEF n, d
<1>5. /\ ProductOnSet(n(F), F) = ProductOnSet(n(F), T) * ProductOnSet(n(F), F \ T)
      /\ ProductOnSet(d(F), F) = ProductOnSet(d(F), T) * ProductOnSet(d(F), F \ T)
  <2>1. \A f \in F : n(F)[f] \in Int /\ d(F)[f] \in Int
    BY <1>2
  <2> QED
    BY <1>1, <2>1, ProductOfParts
<1> QED
  BY <1>1, <1>3, <1>4, <1>5

\* The facts of a source's book are what the core made of sound candidates.
LEMMA CoreFactIs ==
  ASSUME ActionsInv, NEW of, NEW source, NEW asOf, NEW f \in FactsOf(of, source, asOf)
  PROVE /\ IsRow(f.row) /\ FactAccepted(f.row) /\ f.state = Phase(f.row)
        /\ f.from \in f.row.ex /\ f.from \in Nat
<1>1. PICK e \in Terminals(Streams(ToldOf(of, source, asOf), StreamOf)) : f \in ToCoreFact(e)
  BY DEF FactsOf
<1>2. e \in ToldOf(of, source, asOf)
  BY <1>1 DEF Terminals, Streams, Terminal
<1>3. Sound(e)
  BY <1>2 DEF ToldOf, Seen, ActionsInv
<1>4. FactAccepted(e.row) /\ f.from \in e.row.ex /\ f.row = e.row /\ f.state = Phase(e.row)
  BY <1>1 DEF ToCoreFact
<1>5. e.row.ex \subseteq Nat /\ IsRow(e.row)
  BY <1>3 DEF Sound, IsRow
<1> QED
  BY <1>4, <1>5

\* An amount that is there and that the contract does not let be zero is not.
LEMMA AmountIsPositive ==
  ASSUME NEW amount, amount \subseteq Nat, 0 \notin amount, amount # {}
  PROVE The(amount) \in Nat \ {0}
<1>1. \E x \in amount \union {0} : amount # {} => x \in amount
  OBVIOUS
<1>2. The(amount) \in amount
  BY <1>1, Zenon DEF The
<1> QED
  BY <1>2

\* Nor a product of such, whatever is added to one of them.
LEMMA ProductsArePositive ==
  \A a, b \in Nat \ {0}, c \in Nat : a * (b + c) \in Nat \ {0}
<1> SUFFICES ASSUME NEW a \in Nat \ {0}, NEW b \in Nat \ {0}, NEW c \in Nat PROVE a * (b + c) \in Nat \ {0}
  OBVIOUS
<1>1. b + c \in Nat \ {0}
  OBVIOUS
<1>2. \A d, e \in Nat \ {0} : d * e \in Nat \ {0}
  OBVIOUS
<1> QED
  BY <1>1, <1>2

\* A fact's fraction has no zero in it.
LEMMA MultiplierIs ==
  ASSUME NEW f, IsRow(f.row), FactAccepted(f.row), f.state = Phase(f.row), f.state = "effective",
         NEW basis, BackwardMultiplier(f, basis) # {}
  PROVE /\ Multiplier(f, basis)[1] \in Nat \ {0} /\ Multiplier(f, basis)[2] \in Nat \ {0}
        /\ basis = "SHARE_CHANGE_ONLY" => Multiplier(f, basis) = Inverse2(ShareRatio(f))
<1>1. Multiplier(f, basis) \in BackwardMultiplier(f, basis)
  BY DEF Multiplier
<1>2. f.row.lifecycle # "CANCELLED"
  BY DEF Phase, Implemented
<1>3. /\ f.row.ratio # {}
      /\ f.row.reference # {} => Theoretical(f.row) > 0
  BY <1>2 DEF FactAccepted
<1>4. /\ f.row.ratio \subseteq Nat /\ 0 \notin f.row.ratio
      /\ f.row.reference \subseteq Nat /\ 0 \notin f.row.reference /\ f.row.rights \subseteq Nat
  BY DEF IsRow
<1>5. The(f.row.ratio) \in Nat \ {0}
  BY <1>3, <1>4, AmountIsPositive
<1>6. The(f.row.rights) \in Nat
  BY <1>4, AmountIsNat
<1>7. Unit \in Nat \ {0}
  BY ActionsAssumption
<1>8. \/ Multiplier(f, basis) = Inverse2(ShareRatio(f))
      \/ /\ Multiplier(f, basis) = <<Theoretical(f.row), The(f.row.reference) * (The(f.row.ratio) + The(f.row.rights))>>
         /\ basis # "SHARE_CHANGE_ONLY" /\ f.row.reference # {}
  BY <1>1 DEF BackwardMultiplier
<1>9. CASE Multiplier(f, basis) = Inverse2(ShareRatio(f))
  BY <1>5, <1>7, <1>9 DEF Inverse2, ShareRatio
<1>10. CASE /\ Multiplier(f, basis) = <<Theoretical(f.row), The(f.row.reference) * (The(f.row.ratio) + The(f.row.rights))>>
            /\ basis # "SHARE_CHANGE_ONLY" /\ f.row.reference # {}
  <2>1. The(f.row.reference) \in Nat \ {0}
    BY <1>4, <1>10, AmountIsPositive
  <2>2. The(f.row.reference) * (The(f.row.ratio) + The(f.row.rights)) \in Nat \ {0}
    BY <1>5, <1>6, <2>1, ProductsArePositive
  <2>3. Theoretical(f.row) \in Int
    BY TheoreticalIsInt
  <2>4. Theoretical(f.row) \in Nat \ {0}
    BY <1>3, <1>10, <2>3
  <2> QED
    BY <1>10, <2>2, <2>4
<1> QED
  BY <1>8, <1>9, <1>10

\* The facts of a book, each with its row.
IsBookOf(facts) ==
  \A f \in facts : /\ IsRow(f.row) /\ FactAccepted(f.row) /\ f.state = Phase(f.row)
                    /\ f.from \in f.row.ex /\ f.from \in Nat

\* The factors of a range are finitely many: no two of them are of one date.
LEMMA SeriesIs ==
  ASSUME NEW facts, IsBookOf(facts),
         NEW lo \in Nat, NEW hi \in Nat, NEW basis, NEW convention,
         NEW s \in Series(facts, lo, hi, basis, convention)
  PROVE /\ s.lo = lo /\ s.hi = hi /\ s.basis = basis /\ s.convention = convention
        /\ s.factors = {f \in facts : f.from \in lo .. hi /\ f.state = "effective"}
        /\ \A f \in s.factors : BackwardMultiplier(f, basis) # {}
        /\ Whole(s.factors, basis)
<1> DEFINE effective == {f \in facts : f.from \in lo .. hi /\ f.state = "effective"}
<1>1. /\ s = [lo |-> lo, hi |-> hi, basis |-> basis, convention |-> convention, factors |-> effective]
      /\ \A f, g \in effective : f.from = g.from => f = g
      /\ \A f \in effective : BackwardMultiplier(f, basis) # {}
  <2>1. effective = {f \in {g \in facts : g.from \in lo .. hi} : f.state = "effective"}
    OBVIOUS
  <2> QED
    BY <2>1 DEF Series
<1>2. IsFiniteSet(effective)
  <2>1. IsFiniteSet(lo .. hi)
    BY FS_Interval
  <2> DEFINE from == [f \in effective |-> f.from]
  <2>2. from \in [effective -> lo .. hi]
    BY DEF IsBookOf
  <2>3. \A f, g \in effective : from[f] = from[g] => f = g
    BY <1>1
  <2> HIDE DEF effective, from
  <2>4. from \in Injection(effective, lo .. hi)
    BY <2>2, <2>3 DEF Injection, IsInjective
  <2> QED
    BY <2>1, <2>4, FS_Injection
<1>3. ASSUME NEW f \in effective
      PROVE Multiplier(f, basis)[1] \in Nat \ {0} /\ Multiplier(f, basis)[2] \in Nat \ {0}
  <2>1. /\ IsRow(f.row) /\ FactAccepted(f.row) /\ f.state = Phase(f.row) /\ f.state = "effective"
        /\ BackwardMultiplier(f, basis) # {}
    BY <1>1 DEF IsBookOf
  <2> QED
    BY <2>1, MultiplierIs
<1> QED
  BY <1>1, <1>2, <1>3 DEF Whole

\* What a range makes of a price is the product of the facts between the date and the range's base.
LEMMA PriceIs ==
  ASSUME NEW s, NEW date, s.convention \in Conventions,
         NEW F, F = {g \in s.factors : Between(s, date, g.from)}
  PROVE PriceMultiplier(s, date) =
          IF s.convention = "BACKWARD" THEN <<Num(F, s.basis), Den(F, s.basis)>> ELSE <<Den(F, s.basis), Num(F, s.basis)>>
<1> DEFINE q == [f \in F |-> Turned(s, Multiplier(f, s.basis))]
<1>1. PriceMultiplier(s, date) = Product(q)
  BY DEF PriceMultiplier
<1>2. Product(q) = <<ProductOnSet([f \in F |-> q[f][1]], F), ProductOnSet([f \in F |-> q[f][2]], F)>>
  <2>1. DOMAIN q = F
    OBVIOUS
  <2> HIDE DEF q
  <2> QED
    BY <2>1 DEF Product, FoldFunction, ProductOnSet
<1>3. CASE s.convention = "BACKWARD"
  <2>1. /\ [f \in F |-> q[f][1]] = [f \in F |-> Multiplier(f, s.basis)[1]]
        /\ [f \in F |-> q[f][2]] = [f \in F |-> Multiplier(f, s.basis)[2]]
    BY <1>3 DEF Turned
  <2> QED
    BY <1>1, <1>2, <1>3, <2>1 DEF Num, Den
<1>4. CASE s.convention # "BACKWARD"
  <2>1. /\ [f \in F |-> q[f][1]] = [f \in F |-> Multiplier(f, s.basis)[2]]
        /\ [f \in F |-> q[f][2]] = [f \in F |-> Multiplier(f, s.basis)[1]]
    BY <1>4 DEF Turned, Inverse2
  <2> QED
    BY <1>1, <1>2, <1>4, <2>1 DEF Num, Den
<1> QED
  BY <1>3, <1>4

\* A fraction is to another as n to m.
Ratio(p, q, n, m) ==
  \E k1, k2 \in Nat \ {0} :
    \/ p = <<n * k1, m * k2>> /\ q = <<k1, k2>>
    \/ p = <<k1, k2>> /\ q = <<m * k1, n * k2>>

\* Between two sessions of a range the facts that count are those after the one and up to the other,
\* whichever way prices are adjusted: what counts for both is the same for each.
LEMMA RatioIs ==
  ASSUME NEW s, s.convention \in Conventions, Whole(s.factors, s.basis),
         \A f \in s.factors : f.from \in Nat, s.lo \in Nat, s.hi \in Nat,
         NEW d \in s.lo .. s.hi, NEW e \in s.lo .. s.hi, d <= e,
         NEW M, M = {f \in s.factors : d < f.from /\ f.from <= e}
  PROVE Ratio(PriceMultiplier(s, d), PriceMultiplier(s, e), Num(M, s.basis), Den(M, s.basis))
<1>1. PICK D, E : /\ D = {g \in s.factors : Between(s, d, g.from)}
                  /\ E = {g \in s.factors : Between(s, e, g.from)}
  OBVIOUS
<1>2. D \in SUBSET s.factors /\ E \in SUBSET s.factors /\ M \in SUBSET s.factors
  BY <1>1
<1>3. Whole(D, s.basis) /\ Whole(E, s.basis)
  BY <1>2, PartsAreWhole
<1>4. d \in Nat /\ e \in Nat /\ s.lo <= d /\ e <= s.hi
  OBVIOUS
<1>5. CASE s.convention = "BACKWARD"
  <2>1. M \in SUBSET D /\ D \ M = E
    <3>1. \A f \in s.factors : /\ Between(s, d, f.from) <=> d < f.from /\ f.from <= s.hi
                               /\ Between(s, e, f.from) <=> e < f.from /\ f.from <= s.hi
      BY <1>5 DEF Between
    <3>2. \A f \in s.factors : /\ d < f.from /\ f.from <= e => f.from <= s.hi
                               /\ e < f.from => d < f.from /\ ~(f.from <= e)
                               /\ ~(f.from <= e) => e < f.from
      BY <1>4
    <3> QED
      BY <1>1, <3>1, <3>2
  <2>2. /\ Num(D, s.basis) = Num(M, s.basis) * Num(E, s.basis)
        /\ Den(D, s.basis) = Den(M, s.basis) * Den(E, s.basis)
    <3>1. /\ Num(D, s.basis) = Num(M, s.basis) * Num(D \ M, s.basis)
          /\ Den(D, s.basis) = Den(M, s.basis) * Den(D \ M, s.basis)
      <4>1. PICK basis, T : basis = s.basis /\ T = M
        OBVIOUS
      <4>2. T \in SUBSET D /\ Whole(D, basis)
        BY <1>3, <2>1, <4>1
      <4>3. /\ Num(D, basis) = Num(T, basis) * Num(D \ T, basis)
            /\ Den(D, basis) = Den(T, basis) * Den(D \ T, basis)
        BY <4>2, PartsAreWhole
      <4> QED
        BY <4>1, <4>3
    <3> QED
      BY <2>1, <3>1
  <2>3. Num(E, s.basis) \in Nat \ {0} /\ Den(E, s.basis) \in Nat \ {0}
    BY <1>2, PartsAreWhole
  <2>4. /\ PriceMultiplier(s, d) = <<Num(D, s.basis), Den(D, s.basis)>>
        /\ PriceMultiplier(s, e) = <<Num(E, s.basis), Den(E, s.basis)>>
    BY <1>1, <1>5, PriceIs
  <2> QED
    BY <2>2, <2>3, <2>4 DEF Ratio
<1>6. CASE s.convention # "BACKWARD"
  <2>1. M \in SUBSET E /\ E \ M = D
    <3>1. \A f \in s.factors : /\ Between(s, d, f.from) <=> s.lo < f.from /\ f.from <= d
                               /\ Between(s, e, f.from) <=> s.lo < f.from /\ f.from <= e
      BY <1>6 DEF Between
    <3>2. \A f \in s.factors : /\ d < f.from /\ f.from <= e => s.lo < f.from
                               /\ f.from <= d => f.from <= e /\ ~(d < f.from)
                               /\ ~(d < f.from) => f.from <= d
      BY <1>4
    <3> QED
      BY <1>1, <3>1, <3>2
  <2>2. /\ Num(E, s.basis) = Num(M, s.basis) * Num(D, s.basis)
        /\ Den(E, s.basis) = Den(M, s.basis) * Den(D, s.basis)
    <3>1. /\ Num(E, s.basis) = Num(M, s.basis) * Num(E \ M, s.basis)
          /\ Den(E, s.basis) = Den(M, s.basis) * Den(E \ M, s.basis)
      <4>1. PICK basis, T : basis = s.basis /\ T = M
        OBVIOUS
      <4>2. T \in SUBSET E /\ Whole(E, basis)
        BY <1>3, <2>1, <4>1
      <4>3. /\ Num(E, basis) = Num(T, basis) * Num(E \ T, basis)
            /\ Den(E, basis) = Den(T, basis) * Den(E \ T, basis)
        BY <4>2, PartsAreWhole
      <4> QED
        BY <4>1, <4>3
    <3> QED
      BY <2>1, <3>1
  <2>3. Num(D, s.basis) \in Nat \ {0} /\ Den(D, s.basis) \in Nat \ {0}
    BY <1>2, PartsAreWhole
  <2>4. /\ PriceMultiplier(s, d) = <<Den(D, s.basis), Num(D, s.basis)>>
        /\ PriceMultiplier(s, e) = <<Den(E, s.basis), Num(E, s.basis)>>
    BY <1>1, <1>6, PriceIs
  <2> QED
    BY <2>2, <2>3, <2>4 DEF Ratio
<1> QED
  BY <1>5, <1>6

\* The shares that are adjusted are those of the facts that adjust the price, but for the facts whose
\* shares are awaited; where only their number counts, the one makes up for the other.
LEMMA SharesMakeUp ==
  ASSUME NEW s, s.convention \in Conventions, s.basis = "SHARE_CHANGE_ONLY", Whole(s.factors, s.basis),
         s.lo \in Nat, s.hi \in Nat, NEW d \in s.lo .. s.hi,
         \A f \in s.factors : /\ IsRow(f.row) /\ FactAccepted(f.row) /\ f.state = Phase(f.row) /\ f.state = "effective"
                              /\ f.from \in f.row.ex /\ f.from \in Nat /\ BackwardMultiplier(f, s.basis) # {},
         ~Awaited(s, d), ~Awaited(s, BaseDate(s)), NEW close \in Nat
  PROVE Same(Scaled(Scaled(<<close, 1>>, PriceMultiplier(s, d)), ShareMultiplier(s, d)), <<close, 1>>)
<1>1. PICK F : F = {g \in s.factors : Between(s, d, g.from)}
  OBVIOUS
<1>2. ASSUME NEW f \in s.factors PROVE SharesFrom(f) \in Nat /\ f.from <= SharesFrom(f)
  <2>1. CASE SharesChange(f.row)
    <3>1. f.row.lifecycle # "CANCELLED"
      BY DEF Phase, Implemented
    <3>2. f.row.listed # {} /\ \A later \in f.row.listed : f.from <= later
      BY <2>1, <3>1 DEF FactAccepted
    <3>3. The(f.row.listed) \in f.row.listed
      BY <3>2 DEF The
    <3>4. f.row.listed \subseteq Nat
      BY DEF IsRow
    <3> QED
      BY <2>1, <3>2, <3>3, <3>4 DEF SharesFrom
  <2>2. CASE ~SharesChange(f.row)
    BY <2>2 DEF SharesFrom
  <2> QED
    BY <2>1, <2>2
<1>3. F = {g \in s.factors : Between(s, d, SharesFrom(g))}
  <2>1. \A f \in s.factors : /\ ~(f.from <= d /\ d < SharesFrom(f))
                             /\ ~(f.from <= BaseDate(s) /\ BaseDate(s) < SharesFrom(f))
    BY DEF Awaited
  <2>2. BaseDate(s) \in Nat /\ d \in Nat
    BY DEF BaseDate
  <2>3. \A f \in s.factors : /\ d < f.from <=> d < SharesFrom(f)
                             /\ BaseDate(s) < f.from <=> BaseDate(s) < SharesFrom(f)
                             /\ f.from <= d <=> SharesFrom(f) <= d
                             /\ f.from <= BaseDate(s) <=> SharesFrom(f) <= BaseDate(s)
    BY <1>2, <2>1, <2>2
  <2>4. \A f \in s.factors : Between(s, d, f.from) <=> Between(s, d, SharesFrom(f))
    BY <2>3 DEF Between, BaseDate
  <2> QED
    BY <1>1, <2>4
<1>4. F \in SUBSET s.factors
  BY <1>1
<1>5. Num(F, s.basis) \in Nat \ {0} /\ Den(F, s.basis) \in Nat \ {0}
  BY <1>4, PartsAreWhole
<1>6. ASSUME NEW f \in F PROVE Multiplier(f, s.basis) = Inverse2(ShareRatio(f))
  <2>1. /\ IsRow(f.row) /\ FactAccepted(f.row) /\ f.state = Phase(f.row) /\ f.state = "effective"
        /\ BackwardMultiplier(f, s.basis) # {}
    BY <1>4
  <2> QED
    BY <2>1, MultiplierIs
<1> DEFINE q == [f \in F |-> Turned(s, ShareRatio(f))]
<1>7. ShareMultiplier(s, d) = <<ProductOnSet([f \in F |-> q[f][1]], F), ProductOnSet([f \in F |-> q[f][2]], F)>>
  <2>1. ShareMultiplier(s, d) = Product(q) /\ DOMAIN q = F
    BY <1>3 DEF ShareMultiplier
  <2> HIDE DEF q
  <2> QED
    BY <2>1 DEF Product, FoldFunction, ProductOnSet
<1>8. CASE s.convention = "BACKWARD"
  <2>1. /\ [f \in F |-> q[f][1]] = [f \in F |-> Multiplier(f, s.basis)[2]]
        /\ [f \in F |-> q[f][2]] = [f \in F |-> Multiplier(f, s.basis)[1]]
    BY <1>6, <1>8 DEF Turned, Inverse2
  <2>2. ShareMultiplier(s, d) = <<Den(F, s.basis), Num(F, s.basis)>>
    BY <1>7, <2>1 DEF Num, Den
  <2>3. PriceMultiplier(s, d) = <<Num(F, s.basis), Den(F, s.basis)>>
    BY <1>1, <1>8, PriceIs
  <2>4. \A n, m \in Nat \ {0} : (1 * m) * n > 0 /\ ((close * n) * m) * 1 = close * ((1 * m) * n)
    OBVIOUS
  <2> QED
    BY <1>5, <2>2, <2>3, <2>4 DEF Same, Scaled
<1>9. CASE s.convention # "BACKWARD"
  <2>1. /\ [f \in F |-> q[f][1]] = [f \in F |-> Multiplier(f, s.basis)[1]]
        /\ [f \in F |-> q[f][2]] = [f \in F |-> Multiplier(f, s.basis)[2]]
    BY <1>6, <1>9 DEF Turned, Inverse2
  <2>2. ShareMultiplier(s, d) = <<Num(F, s.basis), Den(F, s.basis)>>
    BY <1>7, <2>1 DEF Num, Den
  <2>3. PriceMultiplier(s, d) = <<Den(F, s.basis), Num(F, s.basis)>>
    BY <1>1, <1>9, PriceIs
  <2>4. \A n, m \in Nat \ {0} : (1 * m) * n > 0 /\ ((close * n) * m) * 1 = close * ((1 * m) * n)
    OBVIOUS
  <2> QED
    BY <1>5, <2>2, <2>3, <2>4 DEF Same, Scaled
<1> QED
  BY <1>8, <1>9

-----------------------------------------------------------------------------
\* What a dataset is made of: closes of the tape in a range, and the facts of the range.
IsDataset(a, facts, t, basis) ==
  LET s == a.series
  IN /\ s.lo \in Nat /\ s.hi \in Nat /\ s.convention \in Conventions /\ s.basis = basis
     /\ s.factors = {f \in facts : f.from \in s.lo .. s.hi /\ f.state = "effective"}
     /\ Whole(s.factors, basis)
     /\ \A f \in s.factors : BackwardMultiplier(f, basis) # {}
     /\ \A d \in DOMAIN a.prices :
          /\ d \in s.lo .. s.hi /\ t.closes[d] \in Nat
          /\ a.prices[d] = Scaled(<<t.closes[d], 1>>, PriceMultiplier(s, d))
          /\ a.shares[d] = ShareMultiplier(s, d)

\* Each dataset of the book is.
LEMMA DatasetIs ==
  ASSUME NEW c, NEW t \in Tapes, NEW basis, NEW asOf \in Nat, NEW a \in Datasets(c, t, basis, asOf),
         IsBookOf(FactsOf(c.of, c.source, asOf))
  PROVE IsDataset(a, FactsOf(c.of, c.source, asOf), t, basis)
<1>1. PICK facts : facts = FactsOf(c.of, c.source, asOf)
  OBVIOUS
<1>2. PICK lo \in 1 .. asOf, hi \in 1 .. asOf, convention \in Conventions :
        \E s0 \in Series(facts, lo, hi, basis, convention) : a \in Dataset(t, s0, c.identity, asOf)
  BY <1>1 DEF Datasets
<1> PICK s \in Series(facts, lo, hi, basis, convention) : a \in Dataset(t, s, c.identity, asOf)
  BY <1>2
<1>3. /\ a.series = s
      /\ \A d \in DOMAIN a.prices :
           /\ d \in DOMAIN t.closes /\ s.lo <= d /\ d <= s.hi
           /\ a.prices[d] = Scaled(<<t.closes[d], 1>>, PriceMultiplier(s, d))
           /\ a.shares[d] = ShareMultiplier(s, d)
  BY DEF Dataset, InSeries
<1>4. lo \in Nat /\ hi \in Nat /\ IsBookOf(facts)
  BY <1>1
<1>5. /\ s.lo = lo /\ s.hi = hi /\ s.basis = basis /\ s.convention = convention
      /\ s.factors = {f \in facts : f.from \in lo .. hi /\ f.state = "effective"}
      /\ \A f \in s.factors : BackwardMultiplier(f, basis) # {}
      /\ Whole(s.factors, basis)
  BY <1>4, SeriesIs
<1>6. ASSUME NEW d \in DOMAIN a.prices PROVE d \in s.lo .. s.hi /\ t.closes[d] \in Nat
  <2>1. d \in Nat /\ t.closes[d] \in Nat
    BY <1>3, TapesAssumption
  <2>2. s.lo \in Nat /\ s.hi \in Nat /\ s.lo <= d /\ d <= s.hi
    BY <1>3, <1>4, <1>5
  <2>3. d \in s.lo .. s.hi
    BY <2>1, <2>2
  <2> QED
    BY <2>1, <2>3
<1> QED
  BY <1>1, <1>3, <1>4, <1>5, <1>6 DEF IsDataset

\* The return from a session to a later one is that of the tape, times what the facts between them
\* make of it: turned around, it is in both datasets the product of the two closes and numbers of each.
LEMMA ReturnsOf ==
  ASSUME NEW n \in Nat \ {0}, NEW m \in Nat \ {0}, NEW x \in Nat, NEW y \in Nat,
         NEW p, NEW q, NEW u, NEW v, Ratio(p, q, n, m), Ratio(u, v, n, m)
  PROVE Same(Scaled(Scaled(<<x, 1>>, p), Scaled(<<y, 1>>, v)), Scaled(Scaled(<<y, 1>>, q), Scaled(<<x, 1>>, u)))
<1> PICK k1 \in Nat \ {0}, k2 \in Nat \ {0} :
      \/ p = <<n * k1, m * k2>> /\ q = <<k1, k2>>
      \/ p = <<k1, k2>> /\ q = <<m * k1, n * k2>>
  BY DEF Ratio
<1> PICK j1 \in Nat \ {0}, j2 \in Nat \ {0} :
      \/ u = <<n * j1, m * j2>> /\ v = <<j1, j2>>
      \/ u = <<j1, j2>> /\ v = <<m * j1, n * j2>>
  BY DEF Ratio
<1>0. \A a, b \in Nat \ {0} : a * b \in Nat \ {0} /\ a * b > 0 /\ 1 * a = a
  OBVIOUS
<1> n * k2 \in Nat \ {0} /\ m * k2 \in Nat \ {0} /\ n * j2 \in Nat \ {0} /\ m * j2 \in Nat \ {0}
  BY <1>0
<1>1. CASE p = <<n * k1, m * k2>> /\ q = <<k1, k2>> /\ u = <<n * j1, m * j2>> /\ v = <<j1, j2>>
  <2>1. ((x * (n * k1)) * (y * j1)) * ((1 * k2) * (1 * (m * j2)))
          = ((y * k1) * (x * (n * j1))) * ((1 * (m * k2)) * (1 * j2))
    OBVIOUS
  <2>2. (1 * (m * k2)) * (1 * j2) > 0 /\ (1 * k2) * (1 * (m * j2)) > 0
    BY <1>0
  <2> QED
    BY <1>1, <2>1, <2>2 DEF Same, Scaled
<1>2. CASE p = <<n * k1, m * k2>> /\ q = <<k1, k2>> /\ u = <<j1, j2>> /\ v = <<m * j1, n * j2>>
  <2>1. ((x * (n * k1)) * (y * (m * j1))) * ((1 * k2) * (1 * j2))
          = ((y * k1) * (x * j1)) * ((1 * (m * k2)) * (1 * (n * j2)))
    OBVIOUS
  <2>2. (1 * (m * k2)) * (1 * (n * j2)) > 0 /\ (1 * k2) * (1 * j2) > 0
    BY <1>0
  <2> QED
    BY <1>2, <2>1, <2>2 DEF Same, Scaled
<1>3. CASE p = <<k1, k2>> /\ q = <<m * k1, n * k2>> /\ u = <<n * j1, m * j2>> /\ v = <<j1, j2>>
  <2>1. ((x * k1) * (y * j1)) * ((1 * (n * k2)) * (1 * (m * j2)))
          = ((y * (m * k1)) * (x * (n * j1))) * ((1 * k2) * (1 * j2))
    OBVIOUS
  <2>2. (1 * k2) * (1 * j2) > 0 /\ (1 * (n * k2)) * (1 * (m * j2)) > 0
    BY <1>0
  <2> QED
    BY <1>3, <2>1, <2>2 DEF Same, Scaled
<1>4. CASE p = <<k1, k2>> /\ q = <<m * k1, n * k2>> /\ u = <<j1, j2>> /\ v = <<m * j1, n * j2>>
  <2>1. ((x * k1) * (y * (m * j1))) * ((1 * (n * k2)) * (1 * j2))
          = ((y * (m * k1)) * (x * j1)) * ((1 * k2) * (1 * (n * j2)))
    OBVIOUS
  <2>2. (1 * k2) * (1 * (n * j2)) > 0 /\ (1 * (n * k2)) * (1 * j2) > 0
    BY <1>0
  <2> QED
    BY <1>4, <2>1, <2>2 DEF Same, Scaled
<1> QED
  BY <1>1, <1>2, <1>3, <1>4

\* So two datasets of a book agree on it.
LEMMA LaterReturnsAgree ==
  ASSUME NEW facts, IsBookOf(facts), NEW t, NEW basis,
         NEW a, IsDataset(a, facts, t, basis), NEW b, IsDataset(b, facts, t, basis),
         NEW d \in DOMAIN a.prices \intersect DOMAIN b.prices,
         NEW e \in DOMAIN a.prices \intersect DOMAIN b.prices, d <= e
  PROVE Same(Scaled(a.prices[d], b.prices[e]), Scaled(a.prices[e], b.prices[d]))
<1>1. PICK r, s : r = a.series /\ s = b.series
  OBVIOUS
<1>2. PICK M : M = {f \in facts : f.state = "effective" /\ d < f.from /\ f.from <= e}
  OBVIOUS
<1>3. /\ r.convention \in Conventions /\ r.basis = basis /\ Whole(r.factors, basis)
      /\ r.lo \in Nat /\ r.hi \in Nat /\ d \in r.lo .. r.hi /\ e \in r.lo .. r.hi
      /\ r.factors = {f \in facts : f.from \in r.lo .. r.hi /\ f.state = "effective"}
      /\ t.closes[d] \in Nat /\ t.closes[e] \in Nat
  BY <1>1 DEF IsDataset
<1>4. /\ s.convention \in Conventions /\ s.basis = basis /\ Whole(s.factors, basis)
      /\ s.lo \in Nat /\ s.hi \in Nat /\ d \in s.lo .. s.hi /\ e \in s.lo .. s.hi
      /\ s.factors = {f \in facts : f.from \in s.lo .. s.hi /\ f.state = "effective"}
  BY <1>1 DEF IsDataset
<1>5. \A f \in facts : f.from \in Nat
  BY DEF IsBookOf
<1>6. M = {f \in r.factors : d < f.from /\ f.from <= e} /\ M = {f \in s.factors : d < f.from /\ f.from <= e}
  <2>1. \A f \in facts : d < f.from /\ f.from <= e => f.from \in r.lo .. r.hi /\ f.from \in s.lo .. s.hi
    BY <1>3, <1>4, <1>5
  <2> QED
    BY <1>2, <1>3, <1>4, <2>1
<1>7. Num(M, basis) \in Nat \ {0} /\ Den(M, basis) \in Nat \ {0}
  BY <1>3, <1>6, PartsAreWhole
<1>8. Ratio(PriceMultiplier(r, d), PriceMultiplier(r, e), Num(M, basis), Den(M, basis))
  <2>1. Ratio(PriceMultiplier(r, d), PriceMultiplier(r, e), Num(M, r.basis), Den(M, r.basis))
    <3>1. \A f \in r.factors : f.from \in Nat
      BY <1>3, <1>5
    <3>2. Whole(r.factors, r.basis)
      BY <1>3
    <3> QED
      BY <1>3, <1>6, <3>1, <3>2, RatioIs
  <2> QED
    BY <1>3, <2>1
<1>9. Ratio(PriceMultiplier(s, d), PriceMultiplier(s, e), Num(M, basis), Den(M, basis))
  <2>1. Ratio(PriceMultiplier(s, d), PriceMultiplier(s, e), Num(M, s.basis), Den(M, s.basis))
    <3>1. \A f \in s.factors : f.from \in Nat
      BY <1>4, <1>5
    <3>2. Whole(s.factors, s.basis)
      BY <1>4
    <3> QED
      BY <1>4, <1>6, <3>1, <3>2, RatioIs
  <2> QED
    BY <1>4, <2>1
<1>10. /\ a.prices[d] = Scaled(<<t.closes[d], 1>>, PriceMultiplier(r, d))
       /\ a.prices[e] = Scaled(<<t.closes[e], 1>>, PriceMultiplier(r, e))
       /\ b.prices[d] = Scaled(<<t.closes[d], 1>>, PriceMultiplier(s, d))
       /\ b.prices[e] = Scaled(<<t.closes[e], 1>>, PriceMultiplier(s, e))
  BY <1>1 DEF IsDataset
<1>11. PICK n, m, x, y, p, q, u, v :
         /\ n = Num(M, basis) /\ m = Den(M, basis) /\ x = t.closes[d] /\ y = t.closes[e]
         /\ p = PriceMultiplier(r, d) /\ q = PriceMultiplier(r, e)
         /\ u = PriceMultiplier(s, d) /\ v = PriceMultiplier(s, e)
  OBVIOUS
<1>12. n \in Nat \ {0} /\ m \in Nat \ {0} /\ x \in Nat /\ y \in Nat
  BY <1>3, <1>7, <1>11
<1>13. Ratio(p, q, n, m) /\ Ratio(u, v, n, m)
  BY <1>8, <1>9, <1>11
<1>14. Same(Scaled(Scaled(<<x, 1>>, p), Scaled(<<y, 1>>, v)), Scaled(Scaled(<<y, 1>>, q), Scaled(<<x, 1>>, u)))
  BY <1>12, <1>13, ReturnsOf
<1> QED
  BY <1>10, <1>11, <1>14

\* And on the return to an earlier session, which is its inverse.
LEMMA ReturnsOfDatasetsAgree ==
  ASSUME NEW facts, IsBookOf(facts), NEW t, NEW basis,
         NEW a, IsDataset(a, facts, t, basis), NEW b, IsDataset(b, facts, t, basis)
  PROVE \A d, e \in DOMAIN a.prices \intersect DOMAIN b.prices :
          Same(Scaled(a.prices[d], b.prices[e]), Scaled(a.prices[e], b.prices[d]))
<1> SUFFICES ASSUME NEW d \in DOMAIN a.prices \intersect DOMAIN b.prices,
                    NEW e \in DOMAIN a.prices \intersect DOMAIN b.prices
             PROVE Same(Scaled(a.prices[d], b.prices[e]), Scaled(a.prices[e], b.prices[d]))
  OBVIOUS
<1>1. d \in Int /\ e \in Int
  <2>1. a.series.lo \in Nat /\ a.series.hi \in Nat
    BY DEF IsDataset
  <2>2. d \in a.series.lo .. a.series.hi /\ e \in a.series.lo .. a.series.hi
    BY DEF IsDataset
  <2> QED
    BY <2>1, <2>2
<1>2. CASE d <= e
  BY <1>2, LaterReturnsAgree
<1>3. CASE e <= d
  <2>1. Same(Scaled(a.prices[e], b.prices[d]), Scaled(a.prices[d], b.prices[e]))
    BY <1>3, LaterReturnsAgree
  <2> QED
    BY <2>1 DEF Same
<1> QED
  BY <1>1, <1>2, <1>3

\* Returns do not depend on how prices are adjusted: ReturnsAgree of PriceAdjustment holds.
THEOREM ReturnsAgreeHolds == ActionsSpec => []ReturnsAgree
<1>1. ActionsInv => ReturnsAgree
  <2> SUFFICES ASSUME ActionsInv, NEW asOf \in 1 .. instant, NEW c \in Chosen(asOf), NEW t \in Tapes,
                      NEW basis \in Bases, NEW a \in Datasets(c, t, basis, asOf), NEW b \in Datasets(c, t, basis, asOf)
               PROVE /\ \A s, u \in DOMAIN a.prices \intersect DOMAIN b.prices :
                          Same(Scaled(a.prices[s], b.prices[u]), Scaled(a.prices[u], b.prices[s]))
                     /\ basis = "SHARE_CHANGE_ONLY" =>
                          \A s \in DOMAIN a.prices :
                            \/ \E date \in {s, BaseDate(a.series)} : Awaited(a.series, date)
                            \/ Same(Scaled(a.prices[s], a.shares[s]), <<t.closes[s], 1>>)
    BY DEF ReturnsAgree
  <2>1. PICK facts : facts = FactsOf(c.of, c.source, asOf)
    OBVIOUS
  <2>2. IsBookOf(facts)
    BY <2>1, CoreFactIs DEF IsBookOf
  <2>3. IsDataset(a, facts, t, basis) /\ IsDataset(b, facts, t, basis)
    <3>1. asOf \in Nat
      OBVIOUS
    <3> QED
      BY <2>1, <2>2, <3>1, DatasetIs
  <2>4. ASSUME basis = "SHARE_CHANGE_ONLY", NEW d \in DOMAIN a.prices,
               ~ \E date \in {d, BaseDate(a.series)} : Awaited(a.series, date)
        PROVE Same(Scaled(a.prices[d], a.shares[d]), <<t.closes[d], 1>>)
    <3>1. PICK s : s = a.series
      OBVIOUS
    <3>2. /\ s.convention \in Conventions /\ s.basis = "SHARE_CHANGE_ONLY" /\ Whole(s.factors, s.basis)
          /\ s.lo \in Nat /\ s.hi \in Nat /\ d \in s.lo .. s.hi /\ t.closes[d] \in Nat
          /\ s.factors = {f \in facts : f.from \in s.lo .. s.hi /\ f.state = "effective"}
          /\ \A f \in s.factors : BackwardMultiplier(f, s.basis) # {}
          /\ a.prices[d] = Scaled(<<t.closes[d], 1>>, PriceMultiplier(s, d))
          /\ a.shares[d] = ShareMultiplier(s, d)
      BY <2>3, <2>4, <3>1 DEF IsDataset
    <3>3. \A f \in s.factors : /\ IsRow(f.row) /\ FactAccepted(f.row) /\ f.state = Phase(f.row) /\ f.state = "effective"
                                /\ f.from \in f.row.ex /\ f.from \in Nat /\ BackwardMultiplier(f, s.basis) # {}
      BY <2>2, <3>2 DEF IsBookOf
    <3>4. ~Awaited(s, d) /\ ~Awaited(s, BaseDate(s))
      BY <2>4, <3>1
    <3>5. PICK close \in Nat : close = t.closes[d]
      BY <3>2
    <3>6. Same(Scaled(Scaled(<<close, 1>>, PriceMultiplier(s, d)), ShareMultiplier(s, d)), <<close, 1>>)
      BY <3>2, <3>3, <3>4, SharesMakeUp
    <3> QED
      BY <3>2, <3>5, <3>6
  <2> QED
    BY <2>2, <2>3, <2>4, ReturnsOfDatasetsAgree
<1> QED
  BY <1>1, ActionsInvariant, PTL
=============================================================================

----------------------------- MODULE BarrierLabels -----------------------------
(* quant/labels and quant/evaluation: what became of a signal is labelled   *)
(* by the barrier its price met first, and the labels are split into folds *)
(* that train before they validate, or selected to calibrate at a cutoff.  *)
EXTENDS Backtest

CONSTANTS
  Configs,   \* of labels: [target, stop, horizon, delay, policy, resolution, quantity]
  Splits,    \* [train, rolling, validation, step, gap, embargo]
  Unset      \* no rolling window, no resolution

ASSUME LabelsAssumption ==
  /\ \A c \in Configs : c.horizon \in Nat \ {0} /\ c.delay \in Nat
  /\ \A s \in Splits : s.gap \in Nat /\ (s.rolling # Unset => s.rolling \in Nat)

VARIABLE study   \* <<>>, or the labelled samples in order and what was made of them

labelVars == <<backtestVars, study>>

(* What a session does to the barriers of a position: "" is nothing.        *)
Touch(bar, target, stop, config) ==
  LET tp == bar.high >= target  sl == bar.low <= stop
  IN CASE bar.state # "OPEN" -> ""
       [] bar.state = "OPEN" /\ bar.open >= target -> "TAKE_PROFIT"
       [] bar.state = "OPEN" /\ bar.open < target /\ bar.open <= stop -> "STOP_LOSS"
       [] OTHER ->
            IF tp /\ sl
            THEN CASE config.policy = "MARK_AMBIGUOUS" -> "AMBIGUOUS"
                   [] config.policy = "WORST_CASE" -> "STOP_LOSS"
                   [] OTHER -> IF config.resolution = Unset THEN "RAISED" ELSE config.resolution
            ELSE IF tp THEN "TAKE_PROFIT" ELSE IF sl THEN "STOP_LOSS" ELSE ""

\* The exit is tried at the barrier in the session that met it (at the open when it
\* opened beyond), then at every open.
Reference(bar, met, touched, target, stop) ==
  IF ~met \/ bar.open >= target \/ bar.open <= stop THEN bar.open
  ELSE IF touched = "TAKE_PROFIT" THEN target ELSE stop

Result(outcome, end) == [outcome |-> outcome, end |-> end]

Resolved(b, config, entry) ==
  LET target == entry.price + config.target
      stop == entry.price - config.stop
      last == Min({Len(b), entry.at + config.horizon - 1})
      touched(i) == Touch(b[i], target, stop, config)
      met == {i \in entry.at..last : touched(i) # ""}
      first == Min(met)
      exit(i) == FillAt(b, i, "SELL", entry.quantity, entry.at,
                        Reference(b[i], i = first, touched(first), target, stop))
      tried == {i \in first..last :
                  exit(i).kind = "FILL" \/ exit(i).reason \in {"RAISED", "UNKNOWN_PRICE_LIMIT_STATE"}}
  IN IF stop <= 0 THEN Result("RAISED", Len(b))
     ELSE IF met = {} THEN Result("TIMEOUT", last)
     ELSE IF touched(first) \in {"AMBIGUOUS", "RAISED"} THEN Result(touched(first), first)
     ELSE IF tried = {} THEN Result("BARRIER_BLOCKED_TIMEOUT", last)
     ELSE IF exit(Min(tried)).kind # "FILL" THEN Result("RAISED", Min(tried))
     ELSE Result(IF touched(first) = "TAKE_PROFIT" THEN "TP_FIRST" ELSE "SL_FIRST", Min(tried))

Label(b, signal, config) ==
  LET entry == NextFill(b, signal + config.delay, "BUY", config.quantity, 0, Len(b))
  IN IF entry = Refused("RAISED") THEN Result("RAISED", Len(b))
     ELSE IF entry.kind # "FILL" THEN Result("ENTRY_UNAVAILABLE", Len(b))
     ELSE Resolved(b, config, entry)

Sample(b, signal, config) ==
  LET label == Label(b, signal, config)
  IN [signal |-> signal, outcome |-> label.outcome, end |-> label.end]
\* The k-th of a set of sessions. A signal whose label raises is no sample.
Nth(S, k) == CHOOSE i \in S : Cardinality({j \in S : j <= i}) = k
Samples(b, config) ==
  LET labelled == {i \in DOMAIN b : Sample(b, i, config).outcome # "RAISED"}
  IN [k \in 1..Cardinality(labelled) |-> Sample(b, Nth(labelled, k), config)]

-----------------------------------------------------------------------------
(* build_walk_forward(): a validation window every stride, trained on what  *)
(* ended before it, the gap before it and the embargo after it left out.   *)
Stride(split) == Max({split.step, split.validation + split.embargo})
Starts(samples, split) ==
  {v \in 1..Len(samples) :
     /\ v + split.validation - 1 <= Len(samples)
     /\ v > split.train + split.gap
     /\ (v - 1 - split.train - split.gap) % Stride(split) = 0}
Nominal(v, split) ==
  LET end == v - split.gap - 1
  IN (IF split.rolling = Unset THEN 1 ELSE Max({1, end - split.rolling + 1}))..end
TrainTouching(samples, v, split) == {i \in Nominal(v, split) : samples[i].end <= samples[v].signal}
Train(samples, v, split) == {i \in Nominal(v, split) : samples[i].end < samples[v].signal}
Folds(samples, split) ==
  {[train |-> Train(samples, v, split), from |-> v] :
     v \in {u \in Starts(samples, split) : Cardinality(Train(samples, u, split)) >= split.train}}

\* select_completed_rows(): by when a label was complete, not by its signal.
SignalledBy(samples, cutoff) == {i \in DOMAIN samples : samples[i].signal <= cutoff}
Completed(samples, cutoff) == {i \in DOMAIN samples : samples[i].end <= cutoff}

Study(config, split) ==
  /\ phase = "history" /\ Len(bars) = MaxSessions /\ study = <<>>
  /\ LET samples == Samples(bars, config)
     IN /\ Folds(samples, split) # {}
        /\ study' = <<[config |-> config, samples |-> samples, folds |-> Folds(samples, split)]>>
  /\ UNCHANGED backtestVars

LabelInit == BacktestInit /\ study = <<>>
LabelNext ==
  \/ BacktestNext /\ study = <<>> /\ UNCHANGED study
  \/ \E config \in Configs, split \in Splits : Study(config, split)
LabelSpec == LabelInit /\ [][LabelNext]_labelVars

(* No fold is trained, and nothing calibrated, on what was not known yet:   *)
(* the label of every sample of a fold is the one that the sessions before *)
(* its validation alone would give, and that of a sample complete at a     *)
(* cutoff the one given by the sessions up to it. A label must end no      *)
(* sooner than the last session it was read from.                          *)
Known(sample, config, session) ==
  Label(SubSeq(bars, 1, session), sample.signal, config) = Result(sample.outcome, sample.end)
FoldsDoNotLeak ==
  \A i \in DOMAIN study :
    LET samples == study[i].samples
    IN /\ \A fold \in study[i].folds : \A t \in fold.train :
            Known(samples[t], study[i].config, samples[fold.from].signal - 1)
       /\ \A cutoff \in DOMAIN bars : \A c \in Completed(samples, cutoff) :
            Known(samples[c], study[i].config, cutoff)
=============================================================================

---------------------------- MODULE UniverseAdapter ----------------------------
(* Candidate universes, quant/data/security_universe_adapter.py: an artifact *)
(* of one source holds rows about the instruments of an exchange: identities *)
(* with their symbol and range, memberships from a date, the status of a day *)
(* ("status") or of a part of one ("interval"). The adapter refuses it or    *)
(* makes a bundle of candidates, with a report of what is missing.           *)
(*   an artifact: [source, version, from, to, delay, required, declared,     *)
(*   rows]; a row: [book, of, part, symbol, from, to, state, trading, risk,  *)
(*   rev, delay]. An instrument's id is its source id with the exchange.     *)
(* Trust blockers are left out: no bundle is without one.                    *)
EXTENDS PointInTime

-----------------------------------------------------------------------------
(* parse_security_universe_artifact() *)

Candidate(artifact, row, at) ==
  [book |-> row.book, source |-> artifact.source, of |-> row.of, part |-> row.part, symbol |-> row.symbol,
   from |-> row.from, to |-> row.to, state |-> row.state, trading |-> row.trading, risk |-> row.risk,
   ref |-> 0, rev |-> row.rev, sup |-> 0, verified |-> FALSE, known |-> at, usable |-> at + row.delay]
Candidates(artifact, at) == {Candidate(artifact, row, at) : row \in artifact.rows}
OfKind(facts, book) == {f \in facts : f.book = book}

\* A status whose listing is unknown, or of a part of the day, makes no fact of the books.
Daily(facts) == {s \in OfKind(facts, "status") : s.state # "unknown"}
BookFacts(facts) == {f \in facts : f.book \in {"identity", "member"}} \union Daily(facts)

\* All rows of an artifact become known with it: the revision alone tells two of one key apart.
RowsDistinct(rows) ==
  \A r, q \in rows : r.book = q.book /\ ByDate(r) = ByDate(q) /\ r.part = q.part /\ r.rev = q.rev => r = q
StatusPossible(row) == row.book = "status" /\ row.state \in {"prelisting", "delisted"} => row.trading # "tradable"

CurrentIdentities(facts) == Current(Streams(OfKind(facts, "identity"), ByDate))
Overlap(i, j) == i.from <= j.to /\ j.from <= i.to
IntervalsApart(facts) ==
  \A i, j \in CurrentIdentities(facts) : i # j /\ (i.of = j.of \/ i.symbol = j.symbol) => ~Overlap(i, j)

ArtifactAccepted(artifact) ==
  /\ artifact.from <= artifact.to /\ artifact.required \subseteq artifact.from .. artifact.to
  /\ RowsDistinct(artifact.rows)
  /\ \A row \in artifact.rows : row.from <= row.to /\ StatusPossible(row)
  /\ IntervalsApart(Candidates(artifact, 0))

-----------------------------------------------------------------------------
(* _build_report(): of all candidates, usable or not *)

\* The last date of a member up to a day; of its revisions, the first.
MembersByDate(facts, day) ==
  LET eligible == {m \in OfKind(facts, "member") : m.from <= day}
  IN {m \in eligible : \A n \in eligible : n.of = m.of => n.from < m.from \/ (n.from = m.from /\ m.rev <= n.rev)}

IdentityAnchor(m, day) == IF Included(m) THEN day ELSE m.from
ActiveIdentities(facts, m, day) == {i \in CurrentIdentities(facts) : i.of = m.of /\ ActiveOn(i, day)}

MissingIdentity(facts, required) ==
  \/ \E m \in OfKind(facts, "member") : ActiveIdentities(facts, m, m.from) = {}
  \/ \E day \in required : \E m \in MembersByDate(facts, day) :
       ActiveIdentities(facts, m, IdentityAnchor(m, day)) = {}
MissingStatus(facts, required) ==
  \E day \in required : \E m \in MembersByDate(facts, day) :
    \E i \in ActiveIdentities(facts, m, IdentityAnchor(m, day)) :
      ~ \E s \in Daily(facts) :
          s.of = m.of /\ IF Included(m) THEN s.from = day /\ s.symbol = i.symbol ELSE s.from <= m.from
SymbolConflict(facts, required) ==
  \/ \E m \in OfKind(facts, "member") :
       LET active == ActiveIdentities(facts, m, m.from)
       IN active # {} /\ \A i \in active : i.symbol # m.symbol
  \/ \E day \in required : \E m \in MembersByDate(facts, day) :
       Included(m) /\ \E i \in ActiveIdentities(facts, m, day) : i.symbol # m.symbol
SnapshotBlocked(artifact, facts) ==
  \/ artifact.declared
  \/ MissingIdentity(facts, artifact.required)
  \/ MissingStatus(facts, artifact.required)
  \/ SymbolConflict(facts, artifact.required)

UniverseSpan(artifact, at) ==
  [book |-> "universe coverage", source |-> artifact.source, of |-> "u", part |-> "", symbol |-> "u",
   from |-> artifact.from, to |-> artifact.to, state |-> "complete", ref |-> 0, rev |-> 1, sup |-> 0,
   verified |-> FALSE, known |-> at, usable |-> at + artifact.delay]
Bundle(artifact, at) ==
  LET facts == Candidates(artifact, at)
  IN [artifact |-> artifact, retrieved |-> at, coverage |-> UniverseSpan(artifact, at), facts |-> facts,
      blocked |-> SnapshotBlocked(artifact, facts)]
=============================================================================

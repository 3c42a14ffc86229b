--------------------------- MODULE CorporateActions ---------------------------
(* What sources say of corporate actions, quant/data/corporate_action_*.py:  *)
(* documents are captured, their rows bound to identities as of an instant   *)
(* and made candidates; an analyst says which candidates are one action; a   *)
(* report as of an instant tells whether they may be verified.               *)
(*                                                                         *)
(* A row's optional fields are sets, empty or of one value; ratios are       *)
(* counted in `Unit`s, so that halves are integers. A gap is what keeps a row *)
(* from being `Complete`, a finding what keeps a report from being           *)
(* `Eligible`: their wording is left out. A function that raises returns the *)
(* empty set.                                                                *)
EXTENDS PointInTime, FiniteSetsExt

CONSTANTS
  Filings,       \* [documents, links, identities, claims]: what is published and registered
  Policies,      \* reconciliation policies
  Unit,           \* a ratio of 1
  LastInstant, MaxCaptures, MaxBundles   \* bounds

\* What the contracts of a row and of its fields ask: one value or none, dates, amounts that are not
\* negative, ratios and prices that are not zero, a revision that has a name.
IsRow(r) ==
  /\ r.rev \in Nat \ {0} /\ r.sup \in Nat
  /\ \A x \in {r.ex, r.listed, r.ratio, r.cash, r.rights, r.price, r.reference} : \A v, w \in x : v = w
  /\ \A x \in {r.ex, r.listed, r.ratio, r.cash, r.rights, r.price, r.reference} : x \subseteq Nat
  /\ 0 \notin r.ratio \union r.price \union r.reference

ASSUME ActionsAssumption ==
  /\ Unit \in Nat \ {0}
  /\ \A f \in Filings :
       /\ IsFiniteSet(f.identities)
       /\ \A d \in f.documents : IsFiniteSet(d.rows) /\ \A r \in d.rows : IsRow(r)

VARIABLES filing, captures, bundles, mapped, instant
actionVars == <<filing, captures, bundles, mapped, instant>>

InForce(f, asOf) == f.known <= asOf /\ f.usable <= asOf
Positive(amount) == \E x \in amount : x > 0

-----------------------------------------------------------------------------
(* Rows and candidates *)

Supported == {"CASH_DIVIDEND", "SPLIT", "RIGHTS_ISSUE", "COMBINED"}
Implemented == {"EFFECTIVE", "COMPLETED"}
TermFields == {"ratio", "cash", "rights", "price", "currency", "reference", "evidence"}
HasMoney(r) == Positive(r.cash) \/ Positive(r.rights)
Monetary(r) == HasMoney(r) \/ r.reference # {}
NoTerms(r) == \A t \in TermFields : r[t] = {}
\* A change of the number of shares needs the date they are listed, and a term must change something.
SharesChange(r) == r.ratio \notin {{}, {Unit}}
NoOp(r) == r.ratio = {Unit} /\ r.cash = {0} /\ r.rights = {0}

\* _candidate_gaps(): none
Complete(r) ==
  /\ ~r.dayOnly /\ r.type \in Supported /\ r.lifecycle \in Implemented \union {"CANCELLED"}
  /\ {} \notin {r.ex, r.recorded}
  /\ r.lifecycle \in Implemented => r.effective # {}
  /\ r.lifecycle # "CANCELLED" =>
       /\ {} \notin {r.ratio, r.cash, r.rights} /\ ~NoOp(r)
       /\ SharesChange(r) => r.listed # {}
       /\ Positive(r.rights) => r.price # {}
       /\ Monetary(r) => r.currency # {}
       /\ HasMoney(r) => r.reference # {}
       /\ r.reference # {} => r.evidence # {}

\* CandidateCorporateAction: what the contract refuses of a row that was parsed
CandidateAccepted(r, at) ==
  /\ \A p \in r.published : p <= at
  /\ r.rights = {0} => r.price = {}
  /\ r.evidence # {} => r.reference # {}
  /\ \A x \in r.ex : \A later \in r.paid \union r.listed : x <= later
  /\ r.lifecycle = "CANCELLED" => NoTerms(r)

\* The raw bytes are known from their capture on, whatever the source says of its publication.
CandidateAction(d, r, identity, at) ==
  [event |-> r.event, of |-> identity.of, identity |-> identity, source |-> d.source, raw |-> d, row |-> r,
   rev |-> r.rev, sup |-> r.sup, known |-> at]
StreamOf(c) == <<c.of, c.source, c.event>>

\* ExtractedSourceDocument
DocumentAccepted(d) ==
  /\ d.rows # {}
  /\ \A r, o \in d.rows : r.security = o.security /\ r.event = o.event /\ r.rev = o.rev => r = o

-----------------------------------------------------------------------------
(* bind_extracted_document() *)

EventDate(r) == IF r.ex # {} THEN r.ex ELSE r.effective
\* The one link in force names an identity that is in force, active on the date, and agrees.
BoundTo(d, r, asOf) ==
  LET links == {l \in filing.links : l.active /\ l.owner = d.source.owner /\ l.security = r.security /\ InForce(l, asOf)}
  IN {i \in filing.identities :
        /\ Cardinality(links) = 1 /\ \A l \in links : l.identity = i
        /\ InForce(i, asOf) /\ i.symbol = r.symbol
        /\ \E date \in EventDate(r) : ActiveOn(i, date)}

BoundBundle(capture, asOf) ==
  LET d == capture.document
      bound == {r \in d.rows : BoundTo(d, r, asOf) # {}}
      candidates == UNION {{CandidateAction(d, r, i, capture.at) : i \in BoundTo(d, r, asOf)} : r \in bound}
  IN IF \A r \in bound : CandidateAccepted(r, capture.at)
     THEN {[capture |-> capture, asOf |-> asOf, candidates |-> candidates,
            clear |-> bound = d.rows /\ \A r \in bound : Complete(r)]}
     ELSE {}

-----------------------------------------------------------------------------
(* reconcile_corporate_actions() *)

Gathered == UNION {b.candidates : b \in bundles}
\* Mutant: the candidates of a bundle are seen from its own instant on, not from theirs.
SeenWithBundle(asOf) == UNION {b.candidates : b \in {e \in bundles : e.asOf <= asOf}}
Seen(asOf) == {c \in UNION {b.candidates : b \in {e \in bundles : e.asOf <= asOf}} : c.known <= asOf}
MappedTo(action, asOf) == {c \in Seen(asOf) : [candidate |-> c, action |-> action] \in mapped}
Logical(asOf) == {m.action : m \in {n \in mapped : n.candidate \in Seen(asOf)}}

\* resolve_corporate_action_candidates(), of the candidates mapped to one action
StreamsOf(action, asOf) == Streams(MappedTo(action, asOf), StreamOf)
Selected(action, asOf) == Terminals(StreamsOf(action, asOf))
ReportGiven(asOf) == \A action \in Logical(asOf) : Resolved(StreamsOf(action, asOf))

\* Mutant: the reference price is not compared.
ComparedButReference(c) ==
  LET r == c.row IN <<r.lifecycle, r.ex, r.recorded, r.paid, r.listed, r.effective, r.type, r.ratio, r.cash, r.rights, r.price,
                      r.currency, r.evidence, c.identity>>
Compared(c) ==
  LET r == c.row IN <<r.lifecycle, r.ex, r.recorded, r.paid, r.listed, r.effective, r.type, r.ratio, r.cash, r.rights, r.price,
                      r.currency, r.reference, r.evidence, c.identity>>
Owners(S) == {c.source.owner : c \in S}
ActionClear(p, S) ==
  /\ S # {} /\ Cardinality({Compared(c) : c \in S}) = 1
  /\ \A c \in S : Complete(c.row)
  /\ \A c, e \in S : c.source.owner = e.source.owner => c.event = e.event
  /\ Cardinality(Owners(S)) >= p.sources
  /\ p.attached => \E c \in S : c.source.family = "ATTACHMENT"

\* A claim says that its source's events of a range were surveyed.
Claims(c, claims) ==
  {k \in claims : /\ k.of = c.of /\ k.owner = c.source.owner /\ k.version = c.source.version /\ c.event \in k.events
                  /\ \E date \in EventDate(c.row) : date \in k.from .. k.to}

Eligible(p, asOf) ==
  LET claims == {k \in filing.claims : InForce(k, asOf)}
  IN /\ ReportGiven(asOf)
     /\ \A b \in bundles : b.asOf <= asOf /\ b.clear
     /\ Gathered = Seen(asOf)
     /\ \A c \in Seen(asOf) : \E m \in mapped : m.candidate = c
     /\ p.required \subseteq {k.owner : k \in claims} \intersect Owners(Seen(asOf))
     /\ claims # {}
     /\ \A action \in Logical(asOf) :
          /\ ActionClear(p, Selected(action, asOf))
          /\ \A c \in Selected(action, asOf) : Cardinality(Claims(c, claims)) = 1
     /\ p.licensed => \A k \in claims : k.cleared
     /\ p.priced => \A c \in Seen(asOf) : HasMoney(c.row) => c.row.evidence # {}
     /\ p.synthetic

-----------------------------------------------------------------------------
(* What happens: time passes, documents are captured, bound and mapped *)

Later ==
  /\ instant < LastInstant /\ instant' = instant + 1
  /\ UNCHANGED <<filing, captures, bundles, mapped>>
Capture(d) ==
  /\ Cardinality(captures) < MaxCaptures /\ DocumentAccepted(d)
  /\ captures' = captures \union {[document |-> d, at |-> instant]}
  /\ UNCHANGED <<filing, bundles, mapped, instant>>
\* bind_extracted_document() is asked as of any instant, also one before the capture.
Bind(capture, asOf) ==
  /\ Cardinality(bundles) < MaxBundles
  /\ \E b \in BoundBundle(capture, asOf) : bundles' = bundles \union {b}
  /\ UNCHANGED <<filing, captures, mapped, instant>>
\* CandidateActionMapping: of a candidate that is there and has none
MapCandidate(c) ==
  /\ \A m \in mapped : m.candidate # c
  /\ \E action \in c.row.actions : mapped' = mapped \union {[candidate |-> c, action |-> action]}
  /\ UNCHANGED <<filing, captures, bundles, instant>>

ActionsInit ==
  /\ filing \in Filings /\ captures = {} /\ bundles = {} /\ mapped = {} /\ instant = 1
ActionsNext ==
  \/ Later
  \/ \E d \in filing.documents : Capture(d)
  \/ \E capture \in captures, asOf \in 1 .. instant : Bind(capture, asOf)
  \/ \E c \in Gathered : MapCandidate(c)
ActionsSpec == ActionsInit /\ [][ActionsNext]_actionVars
=============================================================================

----------------------------- MODULE OutcomeLedger -----------------------------
(***************************************************************************)
(* The outcome ledger (quant/storage/outcome_ledger.py): a catalogue of    *)
(* records and a directory with one immutable file per record, both behind *)
(* the write lock of the catalogue.  An append audits the whole ledger,    *)
(* links its file, then commits its row; its handler works after the       *)
(* rollback, without the lock.                                             *)
(*                                                                         *)
(* A record is its hash, and its file is named after it.  The lane, the    *)
(* path checks and the scoreboards are left out.                           *)
(***************************************************************************)
EXTENDS Naturals, Sequences

CONSTANTS
  Ledgers,
  None, Temporary   \* no record; the file a writer has not linked yet

VARIABLES
  rows,    \* by ledger: table outcome_records
  files,   \* by ledger: what is in the record root
  lock     \* by ledger: who is between BEGIN IMMEDIATE and its end

ledgerVars == <<rows, files, lock>>

LedgerInit ==
  /\ rows = [l \in Ledgers |-> <<>>]
  /\ files = [l \in Ledgers |-> {}]
  /\ lock = [l \in Ledgers |-> None]

LastRecord(l) == IF rows[l] = <<>> THEN None ELSE rows[l][Len(rows[l])]
NewRecord(l, outcome, by, at) ==
  [order |-> Len(rows[l]) + 1, previous |-> LastRecord(l),
   outcome |-> outcome, by |-> by, at |-> at]
Registered(l) == {rows[l][i] : i \in DOMAIN rows[l]}

\* Mutant: files without a row are not looked for.
ValidWithOrphans(l, cutoff) ==
  /\ \A i \in DOMAIN rows[l] : rows[l][i].order = i /\ rows[l][i].at <= cutoff
  /\ Registered(l) \subseteq files[l]
\* _validate_ledger_state()
Valid(l, cutoff) ==
  /\ \A i \in DOMAIN rows[l] :
       /\ rows[l][i].order = i /\ rows[l][i].at <= cutoff
       /\ rows[l][i].previous = IF i = 1 THEN None ELSE rows[l][i - 1]
       /\ i > 1 => rows[l][i - 1].at <= rows[l][i].at
  /\ files[l] = Registered(l)

RowsOf(l, outcome) == {r \in Registered(l) : r.outcome = outcome}
SignalTaken(l, outcome) == \E r \in Registered(l) : r.outcome.case = outcome.case
\* A record is not ingested before its outcome was recorded.
Admissible(l, outcome, at) == ~SignalTaken(l, outcome) /\ outcome.recordedAt <= at

Free(l) == lock[l] = None
BeginAppend(l, p) == lock' = [lock EXCEPT ![l] = p] /\ UNCHANGED <<rows, files>>
\* _atomic_write_immutable(), which may stop between its steps.
LinkFile(l, record) ==
  /\ files' = [files EXCEPT ![l] = @ \cup {record}]
  /\ UNCHANGED <<rows, lock>>
CommitRow(l, record) ==
  /\ rows' = [rows EXCEPT ![l] = Append(@, record)]
  /\ lock' = [lock EXCEPT ![l] = None]
  /\ UNCHANGED files
Rollback(l) == lock' = [lock EXCEPT ![l] = None] /\ UNCHANGED <<rows, files>>
UnlinkFile(l, record) ==
  /\ files' = [files EXCEPT ![l] = @ \ {record}]
  /\ UNCHANGED <<rows, lock>>
\* The process dies, or cannot remove what it wrote: its transaction ends, and that stays.
Leaves(l, p, left) ==
  /\ lock' = [lock EXCEPT ![l] = IF @ = p THEN None ELSE @]
  /\ files' = [files EXCEPT ![l] = @ \cup left]
  /\ UNCHANGED rows
=============================================================================

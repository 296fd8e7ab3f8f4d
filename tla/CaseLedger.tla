----------------------------- MODULE CaseLedger -----------------------------
(***************************************************************************)
(* What the case repository promises, without transactions, locks, faults  *)
(* or retries: a ledger of cases to which one atomic step at a time adds   *)
(* one legal move, together with its timeline row and its event, and takes *)
(* the Idempotency-Key it was asked under for good.                        *)
(***************************************************************************)
EXTENDS Workflow, Naturals, Sequences

CONSTANTS Case, Key, NoCase, NoKey

VARIABLES
  row,      \* the status and the version of each case
  history,  \* the moves of each case, in order, with what their callers vouched for
  events,   \* the transition events announced
  taken     \* the outcome each key stands for

ledgerVars == <<row, history, events, taken>>

Absent == [status |-> "", version |-> 0]
Free   == [case |-> NoCase, status |-> "", version |-> 0]

LedgerInit ==
  /\ row = [c \in Case |-> Absent]
  /\ history = [c \in Case |-> <<>>]
  /\ events = {}
  /\ taken = [k \in Key |-> Free]

\* Key k, if there is one, is free and now stands for the outcome r.
Take(k, r) ==
  \/ k = NoKey /\ UNCHANGED taken
  \/ k \in Key /\ taken[k] = Free /\ taken' = [taken EXCEPT ![k] = r]

\* Case c goes to state `to` by event ev, for a caller who vouches for ctx.
Record(c, ev, to, ctx) ==
  LET version == row[c].version + 1
      move    == [from |-> row[c].status, event |-> ev, to |-> to]
  IN  /\ row' = [row EXCEPT ![c] = [status |-> to, version |-> version]]
      /\ history' = [history EXCEPT ![c] = Append(@, [move |-> move, ctx |-> ctx])]
      /\ events' = events \cup {[case |-> c, version |-> version, move |-> move]}
      /\ \E k \in Key \cup {NoKey} :
           Take(k, [case |-> c, status |-> to, version |-> version])

Create(c, ctx) ==
  /\ row[c] = Absent
  /\ Record(c, "case_created", "NEW", ctx)

Move(c, ev, ctx) ==
  /\ Decide(row[c].status, ev, ctx) = "nil"
  /\ Record(c, ev, Target(row[c].status, ev), ctx)

\* Every step changes a case: said first, so that TLC does not search for a move that
\* would explain a step of the implementation which leaves all cases alone.
LedgerNext ==
  /\ row' # row
  /\ \E c \in Case, ctx \in SUBSET Flag :
       Create(c, ctx) \/ \E ev \in Event : Move(c, ev, ctx)

LedgerSpec == LedgerInit /\ [][LedgerNext]_ledgerVars
=============================================================================

------------------------ MODULE TransactionCorrection ------------------------
(***************************************************************************)
(* Reconciliation's correction path on top of the transaction lifecycle:   *)
(* a run compares a transaction with the record its provider lists and     *)
(* raises a discrepancy, an administrator decides it, at once or through   *)
(* the approval queue, while submissions, checks and jobs go on.           *)
(*                                                                         *)
(* What a run finds is recorded later than it was read, and what it        *)
(* recorded is decided later still; Decide may take any discrepancy raised *)
(* earlier, so both delays are in the model.                               *)
(***************************************************************************)
EXTENDS TransactionLifecycle

CONSTANT Kinds   \* what a provider's record may say of a transaction in the runs to come

ASSUME KindsOK == Kinds \subseteq {"succeeded", "failed", "absent"}

VARIABLES
    disputed,  \* the discrepancies of each transaction nobody resolved yet, by what was observed
    resolved,  \* the resolved ones: a finding seen again is recognised and raises nothing
    reversed   \* reversal entries written against the settlement entries of each type

reconciliation == <<disputed, resolved, reversed>>
correctionVars == <<vars, reconciliation>>

Zero == [e \in SettlementEntries |-> 0]

CorrectionInit ==
    /\ Init
    /\ disputed = [t \in Txns |-> {}]
    /\ resolved = [t \in Txns |-> {}]
    /\ reversed = [t \in Txns |-> Zero]

\* compareTransactions: does a record that says kind diverge from what the platform holds?
Diverges(x, kind) ==
    CASE kind = "absent" -> x.state \in OpenStates \cup {"undetermined", "succeeded"}
      [] kind = "succeeded" -> x.state # "succeeded"
      [] kind = "failed" -> x.state \notin {"failed", "expired"}

\* Mutant: the finding records what the platform holds, not what the provider says.
RaiseHeld(t, kind) ==
    /\ txn[t].state # "absent"
    /\ Diverges(txn[t], kind)
    /\ disputed' = [disputed EXCEPT ![t] = @ \cup {txn[t].state}]
    /\ UNCHANGED <<vars, resolved, reversed>>

\* One discrepancy per finding for ever: its fingerprint is unique, resolved or not.
Raise(t, kind) ==
    /\ txn[t].state # "absent"
    /\ Diverges(txn[t], kind)
    /\ kind \notin disputed[t] \cup resolved[t]
    /\ disputed' = [disputed EXCEPT ![t] = @ \cup {kind}]
    /\ UNCHANGED <<vars, resolved, reversed>>

Reopen(x) == [x EXCEPT !.state = "processing"]

\* Mutant: the settlement is left as it was.
ReversalForgotten(t, x) == x

\* Every settlement entry of the transaction is reversed, those reversed before among them.
Reversal(t, x) ==
    LET n == x.settled
        back == IF t \in Disbursements
                THEN Move(Move(x.book, "outside", "reserved", n["disbursement_settlement"] * Amount[t]),
                          "outside", "suspense", n["suspense_settlement"] * Amount[t])
                ELSE Move(x.book, "available", "outside", n["collection"] * Amount[t])
    IN  [x EXCEPT !.book = back]

\* Mutant: the reservation already released is not taken again.
CorrectToSucceededUnreserved(t, x) ==
    FinalizeSuccess(t, IF x.state \in {"failed", "expired"} THEN Reopen(x) ELSE x, x.current)

\* applyCorrection to succeeded: a reservation already released is taken again first.
CorrectToSucceeded(t, x) ==
    IF x.state \in {"failed", "expired"}
    THEN FinalizeSuccess(t, Reopen(IF t \in Disbursements THEN Reserve(t, x) ELSE x), x.current)
    ELSE FinalizeSuccess(t, x, x.current)

\* applyCorrection to failed: the reversal, then the release from reserved; the reopened row's
\* reservation counts as nil, so the failure itself releases nothing.
CorrectToFailed(t, x) ==
    IF x.state = "succeeded"
    THEN LET undone == Reversal(t, x)
             freed == IF t \in Disbursements
                      THEN Move(undone.book, "reserved", "available", Amount[t]) ELSE undone.book
         IN  [FinalizeFailure(t, Reopen(undone), x.current, "failed") EXCEPT !.book = freed]
    ELSE FinalizeFailure(t, x, x.current, "failed")

Corrected(t, x, kind) == IF kind = "succeeded" THEN CorrectToSucceeded(t, x) ELSE CorrectToFailed(t, x)

\* Mutant: a correction is not checked against the balance.
AffordableAlways(t, kind) == TRUE

\* reserve throws where the balance falls short, which leaves the discrepancy undecided.
Affordable(t, kind) ==
    (kind = "succeeded" /\ t \in Disbursements /\ txn[t].state \in {"failed", "expired"})
        => ProjectAvailable >= Amount[t]

Resolve(t, kind) ==
    /\ kind \in disputed[t]
    /\ disputed' = [disputed EXCEPT ![t] = @ \ {kind}]
    /\ resolved' = [resolved EXCEPT ![t] = @ \cup {kind}]

\* decide or executeApproved with follow = correct_transaction.
Correct(t, kind) ==
    /\ Resolve(t, kind)
    /\ Affordable(t, kind)
    /\ txn' = [txn EXCEPT ![t] = Corrected(t, @, kind)]
    /\ reversed' = [reversed EXCEPT ![t] =
                      IF kind # "succeeded" /\ txn[t].state = "succeeded"
                      THEN [e \in SettlementEntries |-> @[e] + txn[t].settled[e]] ELSE @]
    /\ UNCHANGED <<jobs, proc, money, late, wrong, deaths>>

\* decide without a correction: the transaction was examined and stands.
Dismiss(t, kind) ==
    /\ Resolve(t, kind)
    /\ UNCHANGED <<vars, reversed>>

CorrectionNext ==
    \/ Next /\ UNCHANGED reconciliation
    \/ \E t \in Txns, kind \in Kinds : Raise(t, kind) \/ Correct(t, kind) \/ Dismiss(t, kind)

CorrectionSpec == CorrectionInit /\ [][CorrectionNext]_correctionVars
-----------------------------------------------------------------------------
\* The reconciliation variables have their types.
CorrectionTypeOK ==
    /\ disputed \in [Txns -> SUBSET Kinds]
    /\ resolved \in [Txns -> SUBSET Kinds]
    /\ reversed \in [Txns -> [SettlementEntries -> Nat]]

\* After any sequence of corrections the ledger still says of a transaction what its state says: the
\* money of a corrected payment is neither moved twice nor left where it was, and its settlement
\* entries outnumber their reversals by one exactly when it stands succeeded.  Transactions settled
\* from suspense are left out: their reversal is the finding ReservedNeverNegative shows.
CorrectedBooks ==
    \A t \in Txns :
        txn[t].settled["suspense_settlement"] = 0 =>
            /\ BooksMatch(t, txn[t])
            /\ \A e \in SettlementEntries :
                  txn[t].settled[e] - reversed[t][e] =
                      IF txn[t].state = "succeeded" /\ e = SettlementEntry(t, [txn[t] EXCEPT !.state = "processing"])
                      THEN 1 ELSE 0

\* The books follow every correction (CorrectedBooks), and every variable has its type.
CorrectionsBalance == CorrectionTypeOK /\ CorrectedBooks

\* "A terminal state is left only through reconciliation's correction path": only a step that
\* resolves a discrepancy of the transaction takes it out of a terminal state, and into another one.
LeftByCorrectionOnly ==
    [][\A t \in Txns :
          (txn[t].state \in TerminalStates /\ txn'[t].state # txn[t].state) =>
              /\ txn'[t].state \in TerminalStates
              /\ resolved'[t] # resolved[t]]_correctionVars

\* What the code does not keep, the correction comment "The reversal restored the reserved balance; release it back to available":
\* what a correction releases from reserved was put back there.
ReservedNeverNegative == \A t \in Txns : txn[t].book["reserved"] >= 0
=============================================================================

--------------------------- MODULE LedgerCheckpoint ---------------------------
(***************************************************************************)
(* One ledger account of the double-entry ledger: postings, the balance    *)
(* read from the latest checkpoint forward, the hourly checkpoint, and the *)
(* reservation whose balance check is the project's solvency check.        *)
(*                                                                         *)
(* The store runs READ COMMITTED: a posting takes its id from a sequence   *)
(* when it is inserted and becomes visible to the statements of others     *)
(* when its transaction commits, which may be in another order.  Postings  *)
(* are of one unit.                                                        *)
(***************************************************************************)
EXTENDS Integers, FiniteSets

CONSTANTS
    Creditors,      \* transactions that credit the account (collection, release, funding): no lock
    Debtors,        \* transactions that debit it without the lock (reversals, adjustments)
    Spenders,       \* reservations: balance check and debit under the account's lock
    Checkpointers,  \* housekeeping transactions recording a checkpoint
    MaxPostings,    \* bound: ids the sequence hands out
    None

Sessions == Creditors \cup Debtors \cup Spenders \cup Checkpointers

ASSUME SessionsOK ==
    /\ MaxPostings \in Nat
    /\ None \notin Sessions
    /\ Spenders \cap (Creditors \cup Debtors \cup Checkpointers) = {}
    /\ Checkpointers \cap (Creditors \cup Debtors) = {}
    /\ Creditors \cap Debtors = {}

VARIABLES
    lastId,       \* the last id the posting sequence handed out
    credits,      \* ids of the committed credit postings
    debits,       \* ids of the committed debit postings of Debtors
    reservations, \* ids of the committed debit postings of Spenders
    lock,         \* the session holding the account's advisory lock, or None
    session,      \* what each database transaction has done so far
    checkpoints   \* the rows of ledger_checkpoint

vars == <<lastId, credits, debits, reservations, lock, session, checkpoints>>
book == <<credits, debits, reservations>>

Ids == 1..MaxPostings
Postings == credits \cup debits \cup reservations

\* What a set of committed postings amounts to.
Net(ids) == Cardinality(ids \cap credits) - Cardinality(ids \ credits)

(***************************************************************************)
(* A checkpoint is its balance and the posting it reads through.  counted  *)
(* is history: the postings its balance was summed from.                   *)
(***************************************************************************)
Checkpoint == [through : 0..MaxPostings, balance : Int, counted : SUBSET Ids]
NoCheckpoint == [through |-> 0, balance |-> 0, counted |-> {}]

Session == [stage : {"idle", "locked", "summed", "posted"}, id : 0..MaxPostings,
            balance : Int, counted : SUBSET Ids]
Idle == [stage |-> "idle", id |-> 0, balance |-> 0, counted |-> {}]

\* A committed row with the highest through_posting_id; no row counts as one through 0.
Latest == CHOOSE c \in checkpoints : \A d \in checkpoints : d.through <= c.through

\* Mutant: the posting the checkpoint reads through is read again.
SinceInclusive(ids) == {i \in ids : i >= Latest.through}

Since(ids) == {i \in ids : i > Latest.through}
Balance == Latest.balance + Net(Since(Postings))

\* max(id) of the account's committed postings.
LastPosting == IF Postings = {} THEN 0 ELSE CHOOSE i \in Postings : \A j \in Postings : j <= i

-----------------------------------------------------------------------------
Init ==
    /\ lastId = 0
    /\ credits = {}
    /\ debits = {}
    /\ reservations = {}
    /\ lock = None
    /\ session = [s \in Sessions |-> Idle]
    /\ checkpoints = {NoCheckpoint}

\* Inserting a posting takes the next id; nobody else sees the row yet.
Insert(s) ==
    /\ lastId < MaxPostings
    /\ lastId' = lastId + 1
    /\ session' = [session EXCEPT ![s].stage = "posted", ![s].id = lastId']

End(s) ==
    /\ session' = [session EXCEPT ![s] = Idle]
    /\ lock' = IF lock = s THEN None ELSE lock

Post(s) ==
    /\ s \in Creditors \cup Debtors
    /\ session[s].stage = "idle"
    /\ Insert(s)
    /\ UNCHANGED <<book, lock, checkpoints>>

\* Mutant: the advisory lock is not taken.
LockAccountShared(s) ==
    /\ s \in Spenders \cup Checkpointers
    /\ session[s].stage = "idle"
    /\ session' = [session EXCEPT ![s].stage = "locked"]
    /\ UNCHANGED <<lastId, book, lock, checkpoints>>

LockAccount(s) ==
    /\ s \in Spenders \cup Checkpointers
    /\ session[s].stage = "idle"
    /\ lock = None
    /\ lock' = s
    /\ session' = [session EXCEPT ![s].stage = "locked"]
    /\ UNCHANGED <<lastId, book, checkpoints>>

\* reserve: the balance read under the lock must cover the amount.
Reserve(s) ==
    /\ s \in Spenders
    /\ session[s].stage = "locked"
    /\ Balance >= 1
    /\ Insert(s)
    /\ UNCHANGED <<book, lock, checkpoints>>

\* Mutant: a session that inserted nothing commits a posting.
CommitUnposted(s) ==
    /\ session[s].stage # "idle"
    /\ credits' = credits \cup {session[s].id}
    /\ End(s)
    /\ UNCHANGED <<lastId, debits, reservations, checkpoints>>

Commit(s) ==
    /\ session[s].stage = "posted"
    /\ credits' = IF s \in Creditors THEN credits \cup {session[s].id} ELSE credits
    /\ debits' = IF s \in Debtors THEN debits \cup {session[s].id} ELSE debits
    /\ reservations' = IF s \in Spenders THEN reservations \cup {session[s].id} ELSE reservations
    /\ End(s)
    /\ UNCHANGED <<lastId, checkpoints>>

\* An error, or a process that dies, at any point: the id handed out is not used again.
Rollback(s) ==
    /\ session[s].stage # "idle"
    /\ End(s)
    /\ UNCHANGED <<lastId, book, checkpoints>>

\* checkpoint: the balance is read by one statement, the last posting by the next.
SumPostings(s) ==
    /\ s \in Checkpointers
    /\ session[s].stage = "locked"
    /\ session' = [session EXCEPT ![s].stage = "summed", ![s].balance = Balance,
                                  ![s].counted = Latest.counted \cup Since(Postings)]
    /\ UNCHANGED <<lastId, book, lock, checkpoints>>

RecordCheckpoint(s) ==
    /\ session[s].stage = "summed"
    /\ checkpoints' = checkpoints \cup {[through |-> LastPosting, balance |-> session[s].balance,
                                         counted |-> session[s].counted]}
    /\ End(s)
    /\ UNCHANGED <<lastId, book>>

Next ==
    \E s \in Sessions :
        \/ Post(s) \/ LockAccount(s) \/ Reserve(s) \/ Commit(s) \/ Rollback(s)
        \/ SumPostings(s) \/ RecordCheckpoint(s)

Spec == Init /\ [][Next]_vars
-----------------------------------------------------------------------------
\* Every variable has its type.
TypeOK ==
    /\ lastId \in 0..MaxPostings
    /\ credits \in SUBSET Ids
    /\ debits \in SUBSET Ids
    /\ reservations \in SUBSET Ids
    /\ lock \in Spenders \cup Checkpointers \cup {None}
    /\ session \in [Sessions -> Session]
    /\ checkpoints \in SUBSET Checkpoint
    /\ NoCheckpoint \in checkpoints

Through(n) == {i \in Postings : i <= n}
Missed(c) == Through(c.through) \ c.counted

\* A balance counts no posting twice and none that was rolled back: what a checkpoint holds is the
\* sum of distinct committed postings up to its own mark, however its statements interleaved with
\* the commits of others.
CountedOnce ==
    \A c \in checkpoints :
        /\ c.counted \subseteq Through(c.through)
        /\ c.balance = Net(c.counted)

\* The balance read orders checkpoints by their mark alone: two rows with one mark must agree.
TiesAgree ==
    \A c, d \in checkpoints : c.through = d.through => c.balance = d.balance

\* Verification reads only the latest checkpoint of an account: a posting that any earlier one missed
\* must be missing there too, or the loss would go unreported.
LatestShowsEveryLoss == \A c \in checkpoints : Missed(c) \subseteq Missed(Latest)

\* The account's lock puts reservations and checkpoints in one order: whatever a checkpoint misses, it
\* never misses a reservation, so a balance read shows every amount already reserved.
ReservationsAreSeen == \A c \in checkpoints : Missed(c) \cap reservations = {}

\* Concurrent reservations and the checkpoints between them never reserve more than was ever credited,
\* although what they read may miss credits and other debits.
NeverOverspent == Cardinality(reservations) <= Cardinality(credits)

\* What the code does not keep: a balance reads the checkpoint plus the entries that follow, so a
\* checkpoint should agree with the sum of the entries it includes.
CheckpointExact == \A c \in checkpoints : c.balance = Net(Through(c.through))
=============================================================================

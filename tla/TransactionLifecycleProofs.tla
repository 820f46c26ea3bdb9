---------------------- MODULE TransactionLifecycleProofs ----------------------
(***************************************************************************)
(* What holds of the transaction lifecycle for every set of transactions,  *)
(* providers and processes and for every amount.  The argument: whatever   *)
(* names a transaction names one that was confirmed (second and third      *)
(* sections), so each action does to one row at most what Outcome allows,  *)
(* and Outcome carries the row's postings along with its state (fourth     *)
(* section).                                                               *)
(*                                                                         *)
(* The last four sections are about reconciliation's corrections on top.   *)
(* A correction takes a row to another concluded row, so the invariant of  *)
(* the lifecycle goes on holding, and what Outcome says of a step of the   *)
(* lifecycle is said of a correction by what it does to the postings.  The *)
(* books need more than that: a settlement that was reversed must not be   *)
(* reversed again, and what keeps it from being so is that a finding is    *)
(* resolved once.                                                          *)
(***************************************************************************)
EXTENDS TransactionCorrection, SumTheorems, FiniteSetTheorems, TLAPS

\* A row whose current attempt exists where a check or a code would ask for it.
GoodRow(x) ==
    /\ x \in TxnRow
    /\ x.state \in Checkable => x.current \in Providers
    /\ x.state # "absent"

-----------------------------------------------------------------------------
(***************************************************************************)
(* The operators.                                                          *)
(***************************************************************************)
LEMMA EndAttemptType ==
    ASSUME NEW x \in TxnRow, NEW q \in Providers \cup {None}, NEW s \in AttemptStates
    PROVE  EndAttempt(x, q, s) \in [Providers -> AttemptStates]
BY DEF EndAttempt, TxnRow

LEMMA MoveType ==
    ASSUME NEW b \in [Accounts -> Int], NEW from \in Accounts, NEW to \in Accounts, NEW n \in Int
    PROVE  Move(b, from, to, n) \in [Accounts -> Int]
BY DEF Move

LEMMA SuccessIsGood ==
    ASSUME NEW t \in Txns, NEW x \in TxnRow, x.state # "absent", NEW q \in Providers \cup {None}
    PROVE  /\ FinalizeSuccess(t, x, q) \in TxnRow
           /\ FinalizeSuccess(t, x, q).state \in TerminalStates
<1>1. CASE x.state \in TerminalStates
  BY <1>1 DEF FinalizeSuccess
<1>2. CASE x.state \notin TerminalStates
  <2>1. x.book \in [Accounts -> Int] /\ Amount[t] \in Int
    BY ConstantsOK DEF TxnRow
  <2>2. EndAttempt(x, q, "succeeded") \in [Providers -> AttemptStates]
    BY EndAttemptType DEF AttemptStates
  <2>3. Settle(t, x) \in [Accounts -> Int]
    BY <2>1, MoveType DEF Settle, Source, Accounts
  <2>4. SettlementEntry(t, x) \in SettlementEntries
    BY DEF SettlementEntry, SettlementEntries
  <2>5. [x.settled EXCEPT ![SettlementEntry(t, x)] = @ + 1] \in [SettlementEntries -> Nat]
    BY <2>4 DEF TxnRow
  <2> QED BY <1>2, <2>2, <2>3, <2>5 DEF FinalizeSuccess, TxnRow, States, TerminalStates
<1> QED BY <1>1, <1>2

LEMMA FailureIsGood ==
    ASSUME NEW t \in Txns, NEW x \in TxnRow, x.state # "absent", NEW q \in Providers \cup {None},
           NEW next \in {"failed", "expired"}
    PROVE  /\ FinalizeFailure(t, x, q, next) \in TxnRow
           /\ FinalizeFailure(t, x, q, next).state \in TerminalStates
<1>1. CASE x.state \in TerminalStates
  BY <1>1 DEF FinalizeFailure
<1>2. CASE x.state \notin TerminalStates
  <2>1. x.book \in [Accounts -> Int] /\ Amount[t] \in Int
    BY ConstantsOK DEF TxnRow
  <2>2. EndAttempt(x, q, "failed") \in [Providers -> AttemptStates]
    BY EndAttemptType DEF AttemptStates
  <2>3. Release(t, x) \in [Accounts -> Int]
    BY <2>1, MoveType DEF Release, Source, Accounts
  <2> QED BY <1>2, <2>2, <2>3 DEF FinalizeFailure, TxnRow, States, TerminalStates
<1> QED BY <1>1, <1>2

\* A concluded row is good: no check asks for its attempt.
LEMMA TerminalIsGood ==
    ASSUME NEW x \in TxnRow, x.state \in TerminalStates
    PROVE  GoodRow(x)
BY DEF GoodRow, TerminalStates, Checkable

LEMMA ConclusionIsGood ==
    ASSUME NEW t \in Txns, NEW x, GoodRow(x), NEW q \in Providers \cup {None}
    PROVE  /\ GoodRow(FinalizeSuccess(t, x, q))
           /\ \A next \in {"failed", "expired"} : GoodRow(FinalizeFailure(t, x, q, next))
BY SuccessIsGood, FailureIsGood, TerminalIsGood DEF GoodRow

LEMMA UndeterminedIsGood ==
    ASSUME NEW t \in Txns, NEW x, GoodRow(x), NEW q \in Providers \cup {None}
    PROVE  GoodRow(MarkUndetermined(t, x, q))
<1>1. CASE x.state \in TerminalStates \cup {"undetermined"}
  BY <1>1 DEF MarkUndetermined
<1>2. CASE x.state \notin TerminalStates \cup {"undetermined"}
  <2> DEFINE y == MarkUndetermined(t, x, q)
             b == IF t \in Disbursements
                  THEN Move(x.book, "reserved", "suspense", Amount[t]) ELSE x.book
  <2>1. x \in TxnRow /\ x.book \in [Accounts -> Int] /\ Amount[t] \in Int
    BY ConstantsOK DEF GoodRow, TxnRow
  <2>2. EndAttempt(x, q, "undetermined") \in [Providers -> AttemptStates]
    BY <2>1, EndAttemptType DEF AttemptStates
  <2>3. b \in [Accounts -> Int]
    BY <2>1, MoveType DEF Accounts
  <2>4. y.state = "undetermined" /\ y \in TxnRow
    BY <1>2, <2>1, <2>2, <2>3 DEF MarkUndetermined, TxnRow, States, TerminalStates
  <2> QED BY <2>4 DEF GoodRow, Checkable
<1> QED BY <1>1, <1>2

LEMMA ScheduledIsGood ==
    ASSUME NEW x, GoodRow(x)
    PROVE  GoodRow(Schedule(x))
BY DEF GoodRow, Schedule, TxnRow

LEMMA StatusOutcomeIsGood ==
    ASSUME NEW t \in Txns, NEW x, GoodRow(x), NEW q \in Providers, NEW result
    PROVE  GoodRow(StatusOutcome(t, x, q, result))
<1>1. /\ GoodRow(FinalizeSuccess(t, x, q)) /\ GoodRow(MarkUndetermined(t, x, q))
      /\ GoodRow(FinalizeFailure(t, x, q, "failed")) /\ GoodRow(FinalizeFailure(t, x, q, "expired"))
      /\ GoodRow(Schedule(x))
  BY ConclusionIsGood, UndeterminedIsGood, ScheduledIsGood
<1>2. CASE x.state = "submitted"
  <2> DEFINE y == [x EXCEPT !.state = "processing"]
  <2>1. GoodRow(y)
    BY <1>2 DEF GoodRow, TxnRow, States, OpenStates, Checkable
  <2>2. GoodRow(Schedule(y))
    BY <2>1, ScheduledIsGood
  <2> QED BY <1>1, <2>2 DEF StatusOutcome
<1>3. CASE x.state # "submitted"
  BY <1>1, <1>3 DEF StatusOutcome
<1> QED BY <1>2, <1>3

-----------------------------------------------------------------------------
(***************************************************************************)
(* The inductive invariant: every row is untouched or good, and whatever   *)
(* names a transaction (a process, a job, a provider's request) names one  *)
(* that was confirmed.  The books alone are not inductive: a code entered  *)
(* for, or a job run for, a transaction never reserved would break them.   *)
(***************************************************************************)
Rows == txn \in [Txns -> TxnRow] /\ \A t \in Txns : txn[t] = Absent \/ GoodRow(txn[t])

Started(t) == txn[t].state # "absent"

CallStages == {"call", "record", "ask", "apply", "askCode", "applyCode"}

Busy ==
    \A p \in Procs :
        /\ proc[p].stage # "idle" \/ proc[p].job # "none" => proc[p].t \in Txns /\ Started(proc[p].t)
        /\ proc[p].stage \in CallStages => proc[p].q \in Providers

Known ==
    \A t \in Txns :
        (submitJob[t] # "none" \/ statusJob[t] # "none" \/ \E q \in Providers : money[t][q] # "none")
            => Started(t)

IInv == TypeOK /\ Rows /\ Busy /\ Known

\* What was confirmed stays so.
Kept == \A t \in Txns : Started(t) => Started(t)'

LEMMA AbsentRow == Absent \in TxnRow /\ Absent.state = "absent"
BY DEF Absent, TxnRow, States, AttemptStates, Accounts, SettlementEntries

\* One row changes to a good one.
LEMMA RowStep ==
    ASSUME Rows, NEW t \in Txns, NEW y, GoodRow(y), txn' = [txn EXCEPT ![t] = y]
    PROVE  Rows' /\ Kept
<1>1. txn' \in [Txns -> TxnRow]
  BY DEF Rows, GoodRow
<1>2. \A u \in Txns : txn'[u] = IF u = t THEN y ELSE txn[u]
  BY DEF Rows
<1>3. y.state # "absent"
  BY DEF GoodRow
<1> QED BY <1>1, <1>2, <1>3 DEF Rows, Kept, Started

\* One process goes on to state s.
LEMMA ProcStep ==
    ASSUME proc \in [Procs -> ProcState], Busy, Kept,
           NEW p \in Procs, NEW s \in ProcState, proc' = [proc EXCEPT ![p] = s],
           s.stage # "idle" \/ s.job # "none" => s.t \in Txns /\ txn'[s.t].state # "absent",
           s.stage \in CallStages => s.q \in Providers
    PROVE  proc' \in [Procs -> ProcState] /\ Busy'
<1>1. \A r \in Procs : proc'[r] = IF r = p THEN s ELSE proc[r]
  OBVIOUS
<1>2. proc' \in [Procs -> ProcState]
  OBVIOUS
<1>3. ASSUME NEW r \in Procs
      PROVE  /\ proc'[r].stage # "idle" \/ proc'[r].job # "none"
                    => proc'[r].t \in Txns /\ txn'[proc'[r].t].state # "absent"
             /\ proc'[r].stage \in CallStages => proc'[r].q \in Providers
  <2>1. CASE r = p
    BY <1>1, <2>1 DEF Started
  <2>2. CASE r # p
    BY <1>1, <2>2 DEF Busy, Kept, Started
  <2> QED BY <2>1, <2>2
<1> QED BY <1>2, <1>3 DEF Busy, Started

LEMMA DoneStep ==
    ASSUME proc \in [Procs -> ProcState], Busy, Kept, NEW p \in Procs,
           proc[p].stage # "idle", Done(p)
    PROVE  proc' \in [Procs -> ProcState] /\ Busy'
<1> DEFINE s == IF proc[p].job = "none" THEN Idle ELSE Running("finish", proc[p].t, proc[p].job)
<1>1. proc' = [proc EXCEPT ![p] = s]
  BY DEF Done
<1>2. proc[p] \in ProcState /\ proc[p].t \in Txns /\ txn'[proc[p].t].state # "absent"
  BY DEF Busy, Kept, Started
<1>3. /\ s \in ProcState /\ s.stage \notin CallStages
      /\ s.stage # "idle" \/ s.job # "none" => s.t = proc[p].t
  BY <1>2 DEF Idle, Running, ProcState, Stages, Results, CallStages
<1> HIDE DEF s
<1> QED BY <1>1, <1>2, <1>3, ProcStep

LEMMA InitIInv == Init => IInv
<1> SUFFICES ASSUME Init PROVE IInv
  OBVIOUS
<1>1. Rows
  BY AbsentRow DEF Init, Rows
<1>2. proc \in [Procs -> ProcState]
  BY DEF Init, Idle, ProcState, Stages, Results
<1>3. TypeOK
  BY <1>1, <1>2, ConstantsOK DEF Init, TypeOK, Rows
<1>4. Busy
  BY DEF Init, Busy, Idle, CallStages
<1>5. Known
  BY DEF Init, Known
<1> QED BY <1>1, <1>3, <1>4, <1>5 DEF IInv

-----------------------------------------------------------------------------
(***************************************************************************)
(* The actions.                                                            *)
(***************************************************************************)
LEMMA BusyRow ==
    ASSUME IInv, NEW p \in Procs, proc[p].stage # "idle"
    PROVE  /\ proc[p] \in ProcState /\ proc[p].t \in Txns
           /\ txn[proc[p].t] \in TxnRow /\ GoodRow(txn[proc[p].t])
           /\ txn[proc[p].t].current \in Providers \cup {None}
           /\ proc[p].stage \in CallStages => proc[p].q \in Providers
<1>1. proc[p] \in ProcState /\ proc[p].t \in Txns /\ txn[proc[p].t].state # "absent"
  BY DEF IInv, TypeOK, Busy, Started
<1>2. txn[proc[p].t] \in TxnRow /\ GoodRow(txn[proc[p].t])
  BY <1>1, AbsentRow DEF IInv, Rows
<1>3. txn[proc[p].t].current \in Providers \cup {None}
  BY <1>2 DEF TxnRow
<1> QED BY <1>1, <1>2, <1>3 DEF IInv, Busy

\* A step that leaves the rows alone keeps what holds of them.
LEMMA SameRows == ASSUME Rows, UNCHANGED txn PROVE Rows' /\ Kept
BY DEF Rows, Kept, Started

\* Most steps change one row, one process and nothing else.
LEMMA RowAndProc ==
    ASSUME IInv, Rows', Kept, proc' \in [Procs -> ProcState], Busy',
           UNCHANGED <<jobs, money, late, wrong, deaths>>
    PROVE  IInv'
<1>1. TypeOK'
  BY DEF IInv, TypeOK, Rows, jobs
<1>2. Known'
  BY DEF IInv, Known, Kept, Started, jobs
<1> QED BY <1>1, <1>2 DEF IInv

LEMMA NewAttemptIsGood ==
    ASSUME NEW t \in Txns, NEW x, GoodRow(x), x.state = "created", NEW q \in Providers
    PROVE  GoodRow(NewAttempt(x, q))
<1> DEFINE y == NewAttempt(x, q)
<1>1. y \in TxnRow /\ y.state = "submitted" /\ y.current = q
  BY DEF GoodRow, NewAttempt, TxnRow, States, OpenStates, Checkable, AttemptStates
<1> HIDE DEF y
<1>2. GoodRow(y)
  BY <1>1 DEF GoodRow, Checkable
<1> QED BY <1>2 DEF y

LEMMA PrepareAttemptStep ==
    ASSUME IInv, NEW p \in Procs, PrepareAttempt(p)
    PROVE  IInv'
<1> DEFINE t == proc[p].t
           x == txn[t]
<1>1. proc[p].stage = "prepare" /\ UNCHANGED <<jobs, money, late, wrong, deaths>>
  BY DEF PrepareAttempt
<1>2. proc[p] \in ProcState /\ t \in Txns /\ x \in TxnRow /\ GoodRow(x)
  BY <1>1, BusyRow
<1>3. CASE x.state # "created" /\ Done(p) /\ UNCHANGED txn
  <2>1. Rows' /\ Kept
    BY <1>3, SameRows DEF IInv
  <2>2. proc' \in [Procs -> ProcState] /\ Busy'
    BY <1>1, <1>3, <2>1, DoneStep DEF IInv, TypeOK
  <2> QED BY <1>1, <2>1, <2>2, RowAndProc
<1>4. ASSUME NEW q \in Providers, x.state = "created",
             txn' = [txn EXCEPT ![t] = NewAttempt(x, q)],
             proc' = [proc EXCEPT ![p].stage = "call", ![p].q = q]
      PROVE  IInv'
  <2>1. Rows' /\ Kept
    BY <1>2, <1>4, NewAttemptIsGood, RowStep DEF IInv
  <2> DEFINE s == [proc[p] EXCEPT !.stage = "call", !.q = q]
  <2>2. s \in ProcState /\ s.stage = "call" /\ s.t = t /\ s.q = q /\ proc' = [proc EXCEPT ![p] = s]
    BY <1>2, <1>4 DEF ProcState, Stages, IInv, TypeOK
  <2>3. txn'[t].state # "absent"
    BY <1>2, <2>1 DEF Kept, Started, GoodRow
  <2> HIDE DEF s
  <2>4. proc' \in [Procs -> ProcState] /\ Busy'
    BY <1>2, <2>1, <2>2, <2>3, ProcStep DEF IInv, TypeOK
  <2> QED BY <1>1, <2>1, <2>4, RowAndProc
<1>5. CASE txn' = [txn EXCEPT ![t] = FinalizeFailure(t, x, None, "failed")] /\ Done(p)
  <2>1. Rows' /\ Kept
    BY <1>2, <1>5, ConclusionIsGood, RowStep DEF IInv
  <2>2. proc' \in [Procs -> ProcState] /\ Busy'
    BY <1>1, <1>5, <2>1, DoneStep DEF IInv, TypeOK
  <2> QED BY <1>1, <2>1, <2>2, RowAndProc
<1> QED BY <1>3, <1>4, <1>5 DEF PrepareAttempt

LEMMA CallProviderStep ==
    ASSUME IInv, NEW p \in Procs, CallProvider(p)
    PROVE  IInv'
<1> DEFINE t == proc[p].t
           q == proc[p].q
<1>1. proc[p].stage = "call" /\ UNCHANGED <<txn, jobs, late, wrong, deaths>>
  BY DEF CallProvider
<1>2. proc[p] \in ProcState /\ t \in Txns /\ GoodRow(txn[t]) /\ q \in Providers
  BY <1>1, BusyRow DEF CallStages
<1>3. PICK a \in Answers : /\ money' = [money EXCEPT ![t][q] = a.money]
                           /\ proc' = [proc EXCEPT ![p].stage = "record", ![p].result = a.result]
  BY DEF CallProvider
<1>4. a.result \in Results /\ a.money \in {"none", "pending", "refused"}
  BY DEF Answers, Results
<1>5. Rows' /\ Kept
  BY <1>1, SameRows DEF IInv
<1> DEFINE s == [proc[p] EXCEPT !.stage = "record", !.result = a.result]
<1>6. s \in ProcState /\ s.stage = "record" /\ s.t = t /\ s.q = q /\ proc' = [proc EXCEPT ![p] = s]
  BY <1>2, <1>3, <1>4 DEF ProcState, Stages, IInv, TypeOK
<1>7. txn'[t].state # "absent"
  BY <1>1, <1>2 DEF GoodRow
<1> HIDE DEF s
<1>8. proc' \in [Procs -> ProcState] /\ Busy'
  BY <1>2, <1>5, <1>6, <1>7, ProcStep DEF IInv, TypeOK
<1>9. TypeOK'
  BY <1>1, <1>2, <1>3, <1>4, <1>5, <1>8 DEF IInv, TypeOK, Rows, jobs
<1>10. Known'
  <2>1. ASSUME NEW u \in Txns,
               submitJob'[u] # "none" \/ statusJob'[u] # "none" \/ \E r \in Providers : money'[u][r] # "none"
        PROVE  txn'[u].state # "absent"
    <3>1. CASE u = t
      BY <1>7, <3>1
    <3>2. CASE u # t
      BY <1>1, <1>3, <2>1, <3>2 DEF IInv, Known, Started, TypeOK, jobs
    <3> QED BY <3>1, <3>2
  <2> QED BY <2>1 DEF Known, Started
<1> QED BY <1>5, <1>8, <1>9, <1>10 DEF IInv

\* A process that changed the row of its transaction to a good one, or left it, and is done.
LEMMA DoneWithRow ==
    ASSUME IInv, NEW p \in Procs, proc[p].stage # "idle", Done(p), NEW y,
           GoodRow(y), txn' = [txn EXCEPT ![proc[p].t] = y],
           UNCHANGED <<jobs, money, late, wrong, deaths>>
    PROVE  IInv'
<1>1. proc[p].t \in Txns
  BY BusyRow
<1>2. Rows' /\ Kept
  BY <1>1, RowStep DEF IInv
<1>3. proc' \in [Procs -> ProcState] /\ Busy'
  BY <1>2, DoneStep DEF IInv, TypeOK
<1> QED BY <1>2, <1>3, RowAndProc

LEMMA DoneAsIs ==
    ASSUME IInv, NEW p \in Procs, proc[p].stage # "idle", Done(p),
           UNCHANGED <<txn, jobs, money, late, wrong, deaths>>
    PROVE  IInv'
<1>1. Rows' /\ Kept
  BY SameRows DEF IInv
<1>2. proc' \in [Procs -> ProcState] /\ Busy'
  BY <1>1, DoneStep DEF IInv, TypeOK
<1> QED BY <1>1, <1>2, RowAndProc

\* A process that goes on to another stage of the same operation.
LEMMA GoOn ==
    ASSUME IInv, NEW p \in Procs, Rows', Kept, NEW s \in ProcState, s.t \in Txns, Started(s.t),
           s.stage \in CallStages => s.q \in Providers,
           proc' = [proc EXCEPT ![p] = s],
           UNCHANGED <<jobs, money, late, wrong, deaths>>
    PROVE  IInv'
<1>1. txn'[s.t].state # "absent"
  BY DEF Kept, Started
<1>2. proc' \in [Procs -> ProcState] /\ Busy'
  BY <1>1, ProcStep DEF IInv, TypeOK
<1> QED BY <1>2, RowAndProc

LEMMA RecordOutcomeStep ==
    ASSUME IInv, NEW p \in Procs, RecordOutcome(p)
    PROVE  IInv'
<1> DEFINE t == proc[p].t
           q == proc[p].q
           x == txn[t]
           result == proc[p].result
           current == x.state = "submitted" /\ x.current = q
           others == UNCHANGED <<jobs, money, late, wrong, deaths>>
<1>1. proc[p].stage = "record" /\ others
  BY DEF RecordOutcome
<1>2. proc[p] \in ProcState /\ t \in Txns /\ x \in TxnRow /\ GoodRow(x) /\ q \in Providers
  BY <1>1, BusyRow DEF CallStages
<1>3. CASE ~current /\ Done(p) /\ UNCHANGED txn
  BY <1>1, <1>3, DoneAsIs
<1>4. CASE /\ current /\ txn' = [txn EXCEPT ![t] = FallBack(x, q)]
           /\ IF proc[p].hops + 1 < MaxHops
              THEN proc' = [proc EXCEPT ![p] = [Running("prepare", t, @.job)
                                                  EXCEPT !.hops = proc[p].hops + 1]]
              ELSE Done(p)
  <2> DEFINE y == FallBack(x, q)
  <2>1. y \in TxnRow /\ y.state = "created"
    BY <1>2, <1>4 DEF FallBack, TxnRow, States, OpenStates, Checkable, AttemptStates
  <2>2. GoodRow(y)
    BY <2>1 DEF GoodRow, Checkable
  <2>3. CASE Done(p)
    BY <1>1, <1>4, <2>2, <2>3, DoneWithRow
  <2>4. CASE ~Done(p)
    <3> DEFINE s == [Running("prepare", t, proc[p].job) EXCEPT !.hops = proc[p].hops + 1]
    <3>1. proc' = [proc EXCEPT ![p] = s]
      BY <1>4, <2>4
    <3>2. s \in ProcState /\ s.t = t /\ s.stage \notin CallStages
      <4> DEFINE r == Running("prepare", t, proc[p].job)
      <4>1. r \in ProcState /\ r.t = t /\ r.stage = "prepare"
        BY <1>2 DEF ProcState, Running, Idle, Stages, Results
      <4>2. proc[p].hops + 1 \in Nat
        BY <1>2 DEF ProcState
      <4> HIDE DEF r
      <4>3. [r EXCEPT !.hops = proc[p].hops + 1] \in ProcState
        BY <4>1, <4>2 DEF ProcState
      <4>4. [r EXCEPT !.hops = proc[p].hops + 1].t = t /\ [r EXCEPT !.hops = proc[p].hops + 1].stage = "prepare"
        BY <4>1 DEF ProcState
      <4> QED BY <4>3, <4>4 DEF r, CallStages
    <3>3. Rows' /\ Kept /\ Started(t)
      BY <1>2, <1>4, <2>2, RowStep DEF IInv, GoodRow, Started
    <3> HIDE DEF s
    <3> QED BY <1>1, <1>2, <3>1, <3>2, <3>3, GoOn
  <2> QED BY <2>3, <2>4
<1>5. CASE txn' = [txn EXCEPT ![t] = FinalizeFailure(t, x, q, "failed")] /\ Done(p)
  <2>1. GoodRow(FinalizeFailure(t, x, q, "failed"))
    BY <1>2, ConclusionIsGood
  <2> QED BY <1>1, <1>5, <2>1, DoneWithRow
<1>6. CASE txn' = [txn EXCEPT ![t] = MarkUndetermined(t, Learned(x, q, result), q)] /\ Done(p)
  <2> DEFINE z == Learned(x, q, result)
  <2>1. z \in TxnRow /\ z.state = x.state /\ z.current = x.current
    BY <1>2 DEF Learned, TxnRow
  <2>2. GoodRow(z)
    BY <1>2, <2>1 DEF GoodRow
  <2>3. GoodRow(MarkUndetermined(t, z, q))
    BY <1>2, <2>2, UndeterminedIsGood
  <2> QED BY <1>1, <1>6, <2>3, DoneWithRow
<1>7. CASE /\ current /\ result \in {"accepted", "code", "browser"}
           /\ txn' = [txn EXCEPT ![t] = Accepted(x, q, result)] /\ Done(p)
  <2> DEFINE y == Accepted(x, q, result)
  <2>1. y.state \in {"processing", "action_required"} /\ y.current = q
    BY <1>2, <1>7 DEF Accepted, TxnRow
  <2>2. y \in TxnRow
    <3> DEFINE next == IF result = "accepted" THEN "processing" ELSE "action_required"
               codes == IF result = "code" THEN CodeAttempts ELSE x.codes
               action == IF result = "accepted" THEN x.action ELSE result
    <3>1. next \in AttemptStates /\ next \in States
      BY DEF AttemptStates, States, OpenStates, Checkable
    <3>2. codes \in Nat /\ action \in {"none", "code", "browser"}
      BY <1>2, <1>7, ConstantsOK DEF TxnRow
    <3>3. y = [x EXCEPT !.state = next, !.checkAt = TRUE, !.known = @ \cup {q},
                        !.attempt[q] = next, !.action = action, !.codes = codes]
      BY DEF Accepted
    <3> HIDE DEF next, codes, action, y
    <3> QED BY <1>2, <3>1, <3>2, <3>3 DEF TxnRow
  <2> HIDE DEF y
  <2>3. GoodRow(y)
    BY <1>2, <2>1, <2>2 DEF GoodRow, Checkable
  <2> QED BY <1>1, <1>7, <2>3, DoneWithRow DEF y
<1> QED BY <1>3, <1>4, <1>5, <1>6, <1>7 DEF RecordOutcome

LEMMA StatusCheckStep ==
    ASSUME IInv, NEW p \in Procs, StatusCheck(p)
    PROVE  IInv'
<1> DEFINE t == proc[p].t
           q == proc[p].q
           x == txn[t]
           others == UNCHANGED <<jobs, money, late, wrong, deaths>>
<1>1. proc[p].stage \in {"defer", "look", "ask", "apply"} /\ others
  BY DEF StatusCheck, SweepDefer, Look, AskStatus, ApplyStatus
<1>2. /\ proc[p] \in ProcState /\ t \in Txns /\ x \in TxnRow /\ GoodRow(x)
      /\ x.current \in Providers \cup {None}
      /\ proc[p].stage \in CallStages => q \in Providers
  BY <1>1, BusyRow
<1>3. Started(t)
  BY <1>2 DEF GoodRow, Started
<1>4. ASSUME SweepDefer(p) PROVE IInv'
  <2>1. GoodRow(Schedule(x)) /\ txn' = [txn EXCEPT ![t] = Schedule(x)]
    BY <1>2, <1>4, ScheduledIsGood DEF SweepDefer
  <2>2. Rows' /\ Kept
    BY <1>2, <2>1, RowStep DEF IInv
  <2> DEFINE s == [proc[p] EXCEPT !.stage = "look"]
  <2>3. s \in ProcState /\ s.stage \notin CallStages /\ s.t = t /\ proc' = [proc EXCEPT ![p] = s]
    BY <1>2, <1>4 DEF ProcState, Stages, CallStages, IInv, TypeOK, SweepDefer
  <2> HIDE DEF s
  <2> QED BY <1>1, <1>2, <1>3, <2>2, <2>3, GoOn
<1>5. ASSUME Look(p) PROVE IInv'
  <2> DEFINE acknowledged == x.current \in x.known
             y == IF "ceiling" \in late[t] THEN MarkUndetermined(t, x, x.current) ELSE Schedule(x)
  <2>1. CASE Done(p) /\ UNCHANGED txn
    BY <1>1, <2>1, DoneAsIs
  <2>2. CASE Done(p) /\ txn' = [txn EXCEPT ![t] = y]
    <3>1. GoodRow(y)
      BY <1>2, UndeterminedIsGood, ScheduledIsGood
    <3> QED BY <1>1, <2>2, <3>1, DoneWithRow
  <2>3. CASE /\ acknowledged /\ UNCHANGED txn
             /\ proc' = [proc EXCEPT ![p].stage = "ask", ![p].q = x.current]
    <3> DEFINE s == [proc[p] EXCEPT !.stage = "ask", !.q = x.current]
    <3>1. x.current \in Providers
      BY <1>2, <2>3 DEF TxnRow
    <3>2. s \in ProcState /\ s.q \in Providers /\ s.t = t /\ proc' = [proc EXCEPT ![p] = s]
      BY <1>2, <2>3, <3>1 DEF ProcState, Stages, IInv, TypeOK
    <3>3. Rows' /\ Kept
      BY <2>3, SameRows DEF IInv
    <3> HIDE DEF s
    <3> QED BY <1>1, <1>2, <1>3, <3>2, <3>3, GoOn
  <2> QED BY <1>5, <2>1, <2>2, <2>3 DEF Look
<1>6. ASSUME AskStatus(p) PROVE IInv'
  <2>1. PICK result \in {Report(money[t][q]), "unavailable"} :
            proc' = [proc EXCEPT ![p].stage = "apply", ![p].result = result]
    BY <1>6 DEF AskStatus
  <2>2. result \in Results /\ q \in Providers /\ UNCHANGED txn
    BY <1>2, <1>6, <2>1 DEF Report, Results, AskStatus, CallStages
  <2> DEFINE s == [proc[p] EXCEPT !.stage = "apply", !.result = result]
  <2>3. s \in ProcState /\ s.q = q /\ s.t = t /\ proc' = [proc EXCEPT ![p] = s]
    BY <1>2, <2>1, <2>2 DEF ProcState, Stages, IInv, TypeOK
  <2>4. Rows' /\ Kept
    BY <2>2, SameRows DEF IInv
  <2> HIDE DEF s
  <2> QED BY <1>1, <1>2, <1>3, <2>2, <2>3, <2>4, GoOn
<1>7. ASSUME ApplyStatus(p) PROVE IInv'
  <2> DEFINE y == StatusOutcome(t, x, q, proc[p].result)
  <2>1. q \in Providers
    BY <1>2, <1>7 DEF ApplyStatus, CallStages
  <2>2. GoodRow(y)
    BY <1>2, <2>1, StatusOutcomeIsGood
  <2>3. txn' = [txn EXCEPT ![t] = y] /\ Done(p)
    BY <1>7 DEF ApplyStatus
  <2> QED BY <1>1, <2>2, <2>3, DoneWithRow
<1> QED BY <1>4, <1>5, <1>6, <1>7 DEF StatusCheck

LEMMA AskCodeStep ==
    ASSUME IInv, NEW p \in Procs, AskCode(p)
    PROVE  IInv'
<1> DEFINE t == proc[p].t
           q == proc[p].q
<1>1. proc[p].stage = "askCode" /\ UNCHANGED <<txn, jobs, late, deaths>>
  BY DEF AskCode
<1>2. proc[p] \in ProcState /\ t \in Txns /\ GoodRow(txn[t]) /\ q \in Providers
  BY <1>1, BusyRow DEF CallStages
<1>3. PICK result \in {"pending", "succeeded", "failed"} :
          proc' = [proc EXCEPT ![p].stage = "applyCode", ![p].result = result]
  BY DEF AskCode, Report
<1>4. /\ money' \in [Txns -> [Providers -> {"none", "pending", "paid", "refused"}]]
      /\ \A u \in Txns : u # t => money'[u] = money[u]
      /\ wrong' \in [Txns -> 0..MaxWrong]
  <2>1. /\ money \in [Txns -> [Providers -> {"none", "pending", "paid", "refused"}]]
        /\ wrong \in [Txns -> 0..MaxWrong] /\ MaxWrong \in Nat
    BY ConstantsOK DEF IInv, TypeOK
  <2>2. CASE /\ money' = [money EXCEPT ![t][q] = IF @ = "pending" THEN "paid" ELSE @]
             /\ UNCHANGED wrong
    BY <1>2, <2>1, <2>2
  <2>3. CASE /\ wrong' = [wrong EXCEPT ![t] = IF @ < MaxWrong THEN @ + 1 ELSE @]
             /\ UNCHANGED money
    <3>1. wrong' \in [Txns -> 0..MaxWrong]
      BY <1>2, <2>1, <2>3
    <3> QED BY <2>1, <2>3, <3>1
  <2> QED BY <2>2, <2>3 DEF AskCode
<1>5. Rows' /\ Kept
  BY <1>1, SameRows DEF IInv
<1> DEFINE s == [proc[p] EXCEPT !.stage = "applyCode", !.result = result]
<1>6. s \in ProcState /\ s.t = t /\ s.q = q /\ proc' = [proc EXCEPT ![p] = s]
  BY <1>2, <1>3 DEF ProcState, Stages, Results, IInv, TypeOK
<1>7. txn'[t].state # "absent"
  BY <1>1, <1>2 DEF GoodRow
<1> HIDE DEF s
<1>8. proc' \in [Procs -> ProcState] /\ Busy'
  BY <1>2, <1>5, <1>6, <1>7, ProcStep DEF IInv, TypeOK
<1>9. TypeOK'
  BY <1>1, <1>4, <1>5, <1>8 DEF IInv, TypeOK, Rows, jobs
<1>10. Known'
  <2>1. ASSUME NEW u \in Txns,
               submitJob'[u] # "none" \/ statusJob'[u] # "none" \/ \E r \in Providers : money'[u][r] # "none"
        PROVE  txn'[u].state # "absent"
    <3>1. CASE u = t
      BY <1>7, <3>1
    <3>2. CASE u # t
      BY <1>1, <1>4, <2>1, <3>2 DEF IInv, Known, Started, jobs
    <3> QED BY <3>1, <3>2
  <2> QED BY <2>1 DEF Known, Started
<1> QED BY <1>5, <1>8, <1>9, <1>10 DEF IInv

LEMMA ApplyCodeStep ==
    ASSUME IInv, NEW p \in Procs, ApplyCode(p)
    PROVE  IInv'
<1> DEFINE t == proc[p].t
           q == proc[p].q
           x == txn[t]
           y == CASE proc[p].result = "succeeded" -> FinalizeSuccess(t, x, q)
                  [] proc[p].result = "failed" -> FinalizeFailure(t, x, q, "failed")
                  [] OTHER -> x
<1>1. /\ proc[p].stage = "applyCode" /\ Done(p) /\ UNCHANGED <<jobs, money, late, wrong, deaths>>
      /\ txn' = [txn EXCEPT ![t] = y]
  BY DEF ApplyCode
<1>2. t \in Txns /\ GoodRow(x) /\ q \in Providers
  BY <1>1, BusyRow DEF CallStages
<1>3. GoodRow(y)
  BY <1>2, ConclusionIsGood
<1> QED BY <1>1, <1>3, DoneWithRow

JobStates == {"none", "queued", "running", "done", "dead"}

\* The steps that start or end an operation and leave the rows alone.
LEMMA ProcOnlyStep ==
    ASSUME IInv, NEW p \in Procs, NEW s \in ProcState, proc' = [proc EXCEPT ![p] = s],
           s.stage # "idle" \/ s.job # "none" => s.t \in Txns /\ Started(s.t),
           s.stage \in CallStages => s.q \in Providers,
           UNCHANGED <<txn, money, late, wrong>>,
           submitJob' \in [Txns -> JobStates],
           tries' \in [Txns -> 0..JobAttempts],
           statusJob' \in [Txns -> {"none", "queued", "running"}],
           deaths' \in 0..MaxDeaths,
           \A t \in Txns : submitJob'[t] # "none" \/ statusJob'[t] # "none" => Started(t)
    PROVE  IInv'
<1>1. Rows' /\ Kept
  BY SameRows DEF IInv
<1>2. s.stage # "idle" \/ s.job # "none" => s.t \in Txns /\ txn'[s.t].state # "absent"
  BY DEF Started
<1>3. proc' \in [Procs -> ProcState] /\ Busy'
  BY <1>1, <1>2, ProcStep DEF IInv, TypeOK
<1>4. TypeOK'
  BY <1>1, <1>3 DEF IInv, TypeOK, Rows, JobStates
<1>5. Known'
  BY DEF IInv, Known, Started
<1> QED BY <1>1, <1>3, <1>4, <1>5 DEF IInv

LEMMA RunningType ==
    ASSUME NEW stage \in Stages, NEW t \in Txns, NEW job \in {"none", "submit", "status"}
    PROVE  /\ Running(stage, t, job) \in ProcState
           /\ Running(stage, t, job).stage = stage /\ Running(stage, t, job).t = t
BY DEF Running, Idle, ProcState, Stages, Results

LEMMA IdleType == Idle \in ProcState /\ Idle.stage = "idle" /\ Idle.job = "none"
BY DEF Idle, ProcState, Stages, Results

LEMMA ConfirmStep ==
    ASSUME IInv, NEW r \in Procs, NEW t \in Txns, Confirm(r, t)
    PROVE  IInv'
<1> DEFINE created == [Absent EXCEPT !.state = "created"]
           y == IF t \in Disbursements THEN Reserve(t, created) ELSE created
           s == Running("prepare", t, "none")
<1>1. /\ txn' = [txn EXCEPT ![t] = y] /\ submitJob' = [submitJob EXCEPT ![t] = "queued"]
      /\ proc' = [proc EXCEPT ![r] = s] /\ UNCHANGED <<tries, statusJob, money, late, wrong, deaths>>
  BY DEF Confirm
<1>2. GoodRow(y)
  <2>1. created \in TxnRow /\ created.state = "created" /\ Amount[t] \in Int
    BY AbsentRow, ConstantsOK DEF TxnRow, States, OpenStates, Checkable
  <2> HIDE DEF created
  <2>2. Move(created.book, "available", "reserved", Amount[t]) \in [Accounts -> Int]
    BY <2>1, MoveType DEF TxnRow, Accounts
  <2>3. y \in TxnRow /\ y.state = "created"
    BY <2>1, <2>2 DEF Reserve, TxnRow
  <2> QED BY <2>3 DEF GoodRow, Checkable
<1> HIDE DEF y
<1>3. Rows' /\ Kept
  BY <1>1, <1>2, RowStep DEF IInv
<1>4. txn'[t].state # "absent"
  BY <1>1, <1>2 DEF IInv, Rows, GoodRow
<1>5. s \in ProcState /\ s.stage = "prepare" /\ s.t = t
  BY RunningType DEF Stages
<1> HIDE DEF s
<1>6. proc' \in [Procs -> ProcState] /\ Busy'
  BY <1>1, <1>3, <1>4, <1>5, ProcStep DEF IInv, TypeOK, CallStages
<1>7. TypeOK'
  BY <1>1, <1>3, <1>6 DEF IInv, TypeOK, Rows
<1>8. Known'
  BY <1>1, <1>3, <1>4 DEF IInv, TypeOK, Known, Kept, Started
<1> QED BY <1>3, <1>6, <1>7, <1>8 DEF IInv

\* A handler that threw: its process is idle, and its job is queued again or dead.
LEMMA JobFailsType ==
    ASSUME IInv, NEW p \in Procs, JobFails(p)
    PROVE  /\ proc' = [proc EXCEPT ![p] = Idle]
           /\ submitJob' \in [Txns -> JobStates]
           /\ \A u \in Txns : submitJob'[u] # "none" => Started(u)
<1>1. proc[p].job # "none" => proc[p].t \in Txns /\ Started(proc[p].t)
  BY DEF IInv, Busy
<1>2. submitJob \in [Txns -> JobStates] /\ \A u \in Txns : submitJob[u] # "none" => Started(u)
  BY DEF IInv, TypeOK, JobStates, Known
<1> QED BY <1>1, <1>2 DEF JobFails, JobStates

LEMMA PrepareThrowsStep ==
    ASSUME IInv, NEW p \in Procs, PrepareThrows(p)
    PROVE  IInv'
<1>1. JobFails(p) /\ UNCHANGED <<txn, tries, statusJob, money, late, wrong, deaths>>
  BY DEF PrepareThrows
<1>2. /\ tries' \in [Txns -> 0..JobAttempts] /\ deaths' \in 0..MaxDeaths
      /\ statusJob' \in [Txns -> {"none", "queued", "running"}]
      /\ \A u \in Txns : statusJob'[u] # "none" => Started(u)
  BY <1>1 DEF IInv, TypeOK, Known
<1> QED BY <1>1, <1>2, JobFailsType, IdleType, ProcOnlyStep DEF CallStages

LEMMA DieStep ==
    ASSUME IInv, NEW p \in Procs, Die(p)
    PROVE  IInv'
<1> DEFINE t == proc[p].t
<1>1. /\ UNCHANGED <<txn, tries, money, late, wrong>>
      /\ deaths < MaxDeaths /\ deaths' = deaths + 1
  BY DEF Die
<1>2. proc[p].job # "none" => t \in Txns /\ Started(t)
  BY DEF IInv, Busy
<1>3. /\ proc' = [proc EXCEPT ![p] = Idle]
      /\ submitJob' \in [Txns -> JobStates]
      /\ \A u \in Txns : submitJob'[u] # "none" => Started(u)
  <2>1. CASE JobFails(p)
    BY <2>1, JobFailsType
  <2>2. CASE ~JobFails(p)
    <3>1. submitJob \in [Txns -> JobStates] /\ \A u \in Txns : submitJob[u] # "none" => Started(u)
      BY DEF IInv, TypeOK, JobStates, Known
    <3> QED BY <1>2, <2>2, <3>1 DEF Die, JobStates
  <2> QED BY <2>1, <2>2
<1>4. /\ statusJob' \in [Txns -> {"none", "queued", "running"}]
      /\ \A u \in Txns : statusJob'[u] # "none" => Started(u)
  <2>1. PICK s \in {"queued", "none"} :
            statusJob' = IF proc[p].job = "status" THEN [statusJob EXCEPT ![t] = s] ELSE statusJob
    BY DEF Die, StatusJobStops
  <2>2. /\ statusJob \in [Txns -> {"none", "queued", "running"}]
        /\ \A u \in Txns : statusJob[u] # "none" => Started(u)
    BY DEF IInv, TypeOK, Known
  <2> QED BY <1>2, <2>1, <2>2
<1>5. deaths' \in 0..MaxDeaths /\ tries' \in [Txns -> 0..JobAttempts]
  BY <1>1, ConstantsOK DEF IInv, TypeOK
<1> QED BY <1>1, <1>3, <1>4, <1>5, IdleType, ProcOnlyStep DEF CallStages

LEMMA FinishJobStep ==
    ASSUME IInv, NEW p \in Procs, FinishJob(p)
    PROVE  IInv'
<1> DEFINE t == proc[p].t
<1>1. proc' = [proc EXCEPT ![p] = Idle] /\ UNCHANGED <<txn, tries, money, late, wrong, deaths>>
  BY DEF FinishJob
<1>2. t \in Txns /\ Started(t)
  BY DEF FinishJob, IInv, Busy
<1>3. /\ submitJob' \in [Txns -> JobStates]
      /\ statusJob' \in [Txns -> {"none", "queued", "running"}]
  BY <1>2 DEF FinishJob, IInv, TypeOK, JobStates
<1>4. \A u \in Txns : submitJob'[u] # "none" \/ statusJob'[u] # "none" => Started(u)
  BY <1>2 DEF FinishJob, IInv, TypeOK, Known
<1>5. deaths' \in 0..MaxDeaths /\ tries' \in [Txns -> 0..JobAttempts]
  BY <1>1 DEF IInv, TypeOK
<1> QED BY <1>1, <1>3, <1>4, <1>5, IdleType, ProcOnlyStep DEF CallStages

\* The worker claims a job, or the sweep selects a transaction.
LEMMA TakeStep ==
    ASSUME IInv, NEW w \in Procs, NEW t \in Txns,
           SweepSelect(w, t) \/ ClaimSubmit(w, t) \/ ClaimStatus(w, t)
    PROVE  IInv'
<1>1. Started(t)
  BY DEF SweepSelect, ClaimSubmit, ClaimStatus, IInv, Known, Started, Checkable
<1>2. PICK stage \in {"defer", "prepare", "look"}, job \in {"none", "submit", "status"} :
          proc' = [proc EXCEPT ![w] = Running(stage, t, job)]
  BY DEF SweepSelect, ClaimSubmit, ClaimStatus
<1> DEFINE s == Running(stage, t, job)
<1>3. s \in ProcState /\ s.stage \notin CallStages /\ s.t = t
  BY RunningType DEF Stages, CallStages
<1>4. /\ submitJob' \in [Txns -> JobStates]
      /\ statusJob' \in [Txns -> {"none", "queued", "running"}]
      /\ UNCHANGED <<txn, money, late, wrong, deaths>> /\ deaths' \in 0..MaxDeaths
  BY DEF SweepSelect, ClaimSubmit, ClaimStatus, IInv, TypeOK, JobStates, jobs
<1>6. tries' \in [Txns -> 0..JobAttempts]
  BY ConstantsOK DEF SweepSelect, ClaimSubmit, ClaimStatus, IInv, TypeOK, jobs
<1>5. \A u \in Txns : submitJob'[u] # "none" \/ statusJob'[u] # "none" => Started(u)
  BY <1>1 DEF SweepSelect, ClaimSubmit, ClaimStatus, IInv, TypeOK, Known, jobs
<1> HIDE DEF s
<1> QED BY <1>1, <1>2, <1>3, <1>4, <1>5, <1>6, ProcOnlyStep DEF s

LEMMA SubmitCodeStep ==
    ASSUME IInv, NEW r \in Procs, NEW t \in Txns, SubmitCode(r, t)
    PROVE  IInv'
<1>1. txn[t].state = "action_required" /\ UNCHANGED <<txn, jobs, money, late, wrong, deaths>>
  BY DEF SubmitCode
<1>2. Started(t) /\ txn[t].current \in Providers
  BY <1>1, AbsentRow DEF IInv, Rows, GoodRow, Checkable, Started
<1> DEFINE i == Running("askCode", t, "none")
           s == [i EXCEPT !.q = txn[t].current]
<1>3. i \in ProcState /\ i.stage = "askCode" /\ i.t = t
  BY RunningType DEF Stages
<1> HIDE DEF i
<1>4. s \in ProcState /\ s.t = t /\ s.q = txn[t].current
  BY <1>2, <1>3 DEF ProcState
<1>5. proc' = [proc EXCEPT ![r] = s]
  BY DEF SubmitCode, i
<1>6. /\ submitJob' \in [Txns -> JobStates]
      /\ statusJob' \in [Txns -> {"none", "queued", "running"}] /\ deaths' \in 0..MaxDeaths
      /\ UNCHANGED <<txn, money, late, wrong>> /\ tries' \in [Txns -> 0..JobAttempts]
  BY <1>1 DEF IInv, TypeOK, JobStates, jobs
<1>7. \A u \in Txns : submitJob'[u] # "none" \/ statusJob'[u] # "none" => Started(u)
  BY <1>1 DEF IInv, Known, jobs
<1> HIDE DEF s
<1> QED BY <1>2, <1>4, <1>5, <1>6, <1>7, ProcOnlyStep

\* A notification or an administrator sets a check due now.
LEMMA CheckNowStep ==
    ASSUME IInv, NEW t \in Txns, ProviderNotifies(t) \/ ForceRecheck(t)
    PROVE  IInv'
<1>1. Started(t) /\ CheckNow(t)
  BY DEF ProviderNotifies, ForceRecheck, IInv, Known, Started
<1>2. txn[t] \in TxnRow /\ GoodRow(txn[t])
  BY <1>1, AbsentRow DEF IInv, Rows, Started
<1>3. GoodRow(Schedule(txn[t])) /\ txn' = [txn EXCEPT ![t] = Schedule(txn[t])]
  BY <1>1, <1>2, ScheduledIsGood DEF CheckNow
<1>4. Rows' /\ Kept
  BY <1>3, RowStep DEF IInv
<1>5. Busy'
  BY <1>1, <1>4 DEF CheckNow, IInv, Busy, Kept, Started
<1>6. statusJob' \in [Txns -> {"none", "queued", "running"}]
  BY <1>1 DEF CheckNow, IInv, TypeOK
<1>7. TypeOK'
  BY <1>1, <1>4, <1>6 DEF CheckNow, IInv, TypeOK, Rows
<1>8. ASSUME NEW u \in Txns,
             submitJob'[u] # "none" \/ statusJob'[u] # "none" \/ \E q \in Providers : money'[u][q] # "none"
      PROVE  txn'[u].state # "absent"
  <2>1. Started(u)
    BY <1>1, <1>8 DEF CheckNow, IInv, TypeOK, Known
  <2> QED BY <1>4, <2>1 DEF Kept, Started
<1> QED BY <1>4, <1>5, <1>7, <1>8 DEF IInv, Known, Started

\* The environment: a request concludes at its provider, a deadline passes.
LEMMA EnvironmentStep ==
    ASSUME IInv, NEW t \in Txns,
           WindowCloses(t) \/ CeilingPasses(t) \/ \E q \in Providers : ProviderConcludes(t, q)
    PROVE  IInv'
<1>1. UNCHANGED <<txn, submitJob, tries, statusJob, proc, wrong, deaths>>
  BY DEF WindowCloses, CeilingPasses, ProviderConcludes, jobs
<1>2. late' \in [Txns -> SUBSET {"window", "ceiling"}]
  BY DEF WindowCloses, CeilingPasses, ProviderConcludes, IInv, TypeOK
<1>3. /\ money' \in [Txns -> [Providers -> {"none", "pending", "paid", "refused"}]]
      /\ \A u \in Txns : (\E q \in Providers : money'[u][q] # "none")
                           => \E q \in Providers : money[u][q] # "none"
  <2>1. CASE UNCHANGED money
    BY <2>1 DEF IInv, TypeOK
  <2>2. ASSUME NEW q \in Providers, ProviderConcludes(t, q)
        PROVE  /\ money' \in [Txns -> [Providers -> {"none", "pending", "paid", "refused"}]]
               /\ \A u \in Txns : (\E r \in Providers : money'[u][r] # "none")
                                    => \E r \in Providers : money[u][r] # "none"
    BY <2>2 DEF ProviderConcludes, IInv, TypeOK
  <2> QED BY <2>1, <2>2 DEF WindowCloses, CeilingPasses
<1>4. Rows' /\ Kept
  BY <1>1, SameRows DEF IInv
<1>5. Busy'
  BY <1>1 DEF IInv, Busy, Started
<1>6. TypeOK'
  BY <1>1, <1>2, <1>3 DEF IInv, TypeOK
<1>7. Known'
  BY <1>1, <1>3 DEF IInv, Known, Started
<1> QED BY <1>4, <1>5, <1>6, <1>7 DEF IInv

LEMMA StutterStep == IInv /\ UNCHANGED vars => IInv'
<1> SUFFICES ASSUME IInv, UNCHANGED vars PROVE IInv'
  OBVIOUS
<1>1. UNCHANGED <<txn, submitJob, tries, statusJob, proc, money, late, wrong, deaths>>
  BY DEF vars
<1>2. Rows'
  BY <1>1, SameRows DEF IInv
<1>3. TypeOK' /\ Busy' /\ Known'
  BY <1>1 DEF IInv, TypeOK, Busy, Known, Started
<1> QED BY <1>2, <1>3 DEF IInv

\* The invariant is inductive: one case per action.
LEMMA NextIInv == IInv /\ [Next]_vars => IInv'
<1> SUFFICES ASSUME IInv, [Next]_vars PROVE IInv'
  OBVIOUS
<1>1. ASSUME NEW p \in Procs, Progress(p) PROVE IInv'
  <2>1. CASE Submission(p)
    BY <2>1, PrepareAttemptStep, PrepareThrowsStep, CallProviderStep, RecordOutcomeStep DEF Submission
  <2>2. CASE StatusCheck(p)
    BY <2>2, StatusCheckStep
  <2>3. CASE CodeEntry(p)
    BY <2>3, AskCodeStep, ApplyCodeStep DEF CodeEntry
  <2>4. CASE FinishJob(p)
    BY <2>4, FinishJobStep
  <2> QED BY <1>1, <2>1, <2>2, <2>3, <2>4 DEF Progress
<1>2. ASSUME NEW p \in Procs, Die(p) PROVE IInv'
  BY <1>2, DieStep
<1>3. ASSUME NEW r \in Requests, NEW t \in Txns, Confirm(r, t) \/ SubmitCode(r, t) PROVE IInv'
  BY <1>3, ConfirmStep, SubmitCodeStep DEF Procs
<1>4. ASSUME NEW w \in Workers, NEW t \in Txns,
             SweepSelect(w, t) \/ ClaimSubmit(w, t) \/ ClaimStatus(w, t)
      PROVE  IInv'
  BY <1>4, TakeStep DEF Procs
<1>5. ASSUME NEW t \in Txns, ProviderNotifies(t) \/ ForceRecheck(t) PROVE IInv'
  BY <1>5, CheckNowStep
<1>6. ASSUME NEW t \in Txns,
             WindowCloses(t) \/ CeilingPasses(t) \/ \E q \in Providers : ProviderConcludes(t, q)
      PROVE  IInv'
  BY <1>6, EnvironmentStep
<1>7. CASE UNCHANGED vars
  BY <1>7, StutterStep
<1> QED BY <1>1, <1>2, <1>3, <1>4, <1>5, <1>6, <1>7 DEF Next

-----------------------------------------------------------------------------
(***************************************************************************)
(* The theorems.                                                           *)
(***************************************************************************)
LEMMA Inductive == Spec => []IInv
<1>1. Init => IInv
  BY InitIInv
<1>2. IInv /\ [Next]_vars => IInv'
  BY NextIInv
<1> QED BY <1>1, <1>2, PTL DEF Spec

\* Every variable of the lifecycle keeps its type.
THEOREM TypeCorrect == Spec => []TypeOK
<1>1. IInv => TypeOK
  BY DEF IInv
<1> QED BY <1>1, Inductive, PTL

-----------------------------------------------------------------------------
(***************************************************************************)
(* What one step may do to a row, its postings with its state: the books,  *)
(* the balance, the finality of terminal states and the refinement of the  *)
(* contract all follow from it.                                            *)
(***************************************************************************)
Undecided == OpenStates \cup {"undetermined"}

\* A disbursement's reservation moves; a collection holds none.
Shifted(t, x, from, to) ==
    IF t \in Disbursements THEN Move(x.book, from, to, Amount[t]) ELSE x.book

Stays(x, y) ==
    /\ y.state = x.state /\ y.book = x.book /\ y.settled = x.settled
    /\ x.state \in TerminalStates => y.attempt = x.attempt

Begins(t, x, y) ==
    /\ x.state = "absent" /\ y.state = "created"
    /\ y.book = Shifted(t, x, "available", "reserved") /\ y.settled = x.settled

Advances(x, y) ==
    /\ x.state \in OpenStates /\ y.state \in OpenStates
    /\ y.book = x.book /\ y.settled = x.settled

Suspends(t, x, y) ==
    /\ x.state \in OpenStates /\ y.state = "undetermined"
    /\ y.book = Shifted(t, x, "reserved", "suspense") /\ y.settled = x.settled

Succeeds(t, x, y) ==
    /\ x.state \in Undecided /\ y.state = "succeeded"
    /\ y.book = Settle(t, x)
    /\ y.settled = [x.settled EXCEPT ![SettlementEntry(t, x)] = @ + 1]

Fails(t, x, y) ==
    /\ x.state \in Undecided /\ y.state \in {"failed", "expired"}
    /\ y.book = Release(t, x) /\ y.settled = x.settled

Outcome(t, x, y) ==
    \/ Stays(x, y)       \/ Begins(t, x, y)   \/ Advances(x, y)
    \/ Suspends(t, x, y) \/ Succeeds(t, x, y) \/ Fails(t, x, y)

LEMMA SuccessOutcome ==
    ASSUME NEW t, NEW x \in TxnRow, x.state # "absent", NEW q
    PROVE  Outcome(t, x, FinalizeSuccess(t, x, q))
<1>1. CASE x.state \in TerminalStates
  BY <1>1 DEF FinalizeSuccess, Outcome, Stays
<1>2. CASE x.state \notin TerminalStates
  <2>1. Succeeds(t, x, FinalizeSuccess(t, x, q))
    BY <1>2 DEF FinalizeSuccess, Succeeds, Undecided, TxnRow, States, TerminalStates
  <2> QED BY <2>1 DEF Outcome
<1> QED BY <1>1, <1>2

LEMMA FailureOutcome ==
    ASSUME NEW t, NEW x \in TxnRow, x.state # "absent", NEW q, NEW next \in {"failed", "expired"}
    PROVE  Outcome(t, x, FinalizeFailure(t, x, q, next))
<1>1. CASE x.state \in TerminalStates
  BY <1>1 DEF FinalizeFailure, Outcome, Stays
<1>2. CASE x.state \notin TerminalStates
  <2>1. Fails(t, x, FinalizeFailure(t, x, q, next))
    BY <1>2 DEF FinalizeFailure, Fails, Undecided, TxnRow, States, TerminalStates
  <2> QED BY <2>1 DEF Outcome
<1> QED BY <1>1, <1>2

LEMMA OpenSuspends ==
    ASSUME NEW t, NEW x \in TxnRow, x.state \in OpenStates, NEW q
    PROVE  Suspends(t, x, MarkUndetermined(t, x, q))
<1>1. x.state \notin TerminalStates \cup {"undetermined"}
  BY DEF OpenStates, Checkable, TerminalStates
<1> QED BY <1>1 DEF MarkUndetermined, Suspends, Shifted, TxnRow

LEMMA UndeterminedOutcome ==
    ASSUME NEW t, NEW x \in TxnRow, x.state # "absent", NEW q
    PROVE  Outcome(t, x, MarkUndetermined(t, x, q))
<1>1. CASE x.state \in TerminalStates \cup {"undetermined"}
  BY <1>1 DEF MarkUndetermined, Outcome, Stays
<1>2. CASE x.state \notin TerminalStates \cup {"undetermined"}
  BY <1>2, OpenSuspends DEF Outcome, TxnRow, States
<1> QED BY <1>1, <1>2

LEMMA ScheduledOutcome ==
    ASSUME NEW t, NEW x \in TxnRow
    PROVE  Outcome(t, x, Schedule(x))
BY DEF Schedule, Outcome, Stays, TxnRow

LEMMA CheckOutcome ==
    ASSUME NEW t, NEW x \in TxnRow, x.state # "absent", NEW q, NEW result
    PROVE  Outcome(t, x, StatusOutcome(t, x, q, result))
<1>1. Outcome(t, x, x)
  BY DEF Outcome, Stays
<1>2. CASE x.state = "submitted"
  <2>1. Advances(x, Schedule([x EXCEPT !.state = "processing"]))
    BY <1>2 DEF Schedule, Advances, TxnRow, OpenStates, Checkable
  <2>2. Outcome(t, x, Schedule([x EXCEPT !.state = "processing"]))
    BY <2>1 DEF Outcome
  <2> QED BY <1>1, <2>2, SuccessOutcome, FailureOutcome, UndeterminedOutcome, ScheduledOutcome
          DEF StatusOutcome
<1>3. CASE x.state # "submitted"
  BY <1>1, <1>3, SuccessOutcome, FailureOutcome, UndeterminedOutcome, ScheduledOutcome DEF StatusOutcome
<1> QED BY <1>2, <1>3

\* One row at most changes, as an outcome allows, and a row is begun only where the balance covers it.
RowMoves ==
    \/ UNCHANGED txn
    \/ \E t \in Txns, y \in TxnRow :
          /\ Outcome(t, txn[t], y)
          /\ txn[t].state = "absent" => Covered(t)
          /\ txn' = [txn EXCEPT ![t] = y]

LEMMA SubmissionMoves ==
    ASSUME IInv, NEW p \in Procs, PrepareAttempt(p) \/ RecordOutcome(p), txn' # txn
    PROVE  \E y : Outcome(proc[p].t, txn[proc[p].t], y) /\ txn' = [txn EXCEPT ![proc[p].t] = y]
<1> DEFINE t == proc[p].t
           x == txn[t]
           q == proc[p].q
           result == proc[p].result
<1>1. proc[p].stage # "idle"
  BY DEF PrepareAttempt, RecordOutcome
<1>2. x \in TxnRow /\ x.state # "absent"
  BY <1>1, BusyRow DEF GoodRow
<1>3. CASE PrepareAttempt(p)
  <2>1. x.state = "created"
    BY <1>3 DEF PrepareAttempt
  <2>2. ASSUME NEW r \in Providers PROVE Outcome(t, x, NewAttempt(x, r))
    BY <1>2, <2>1 DEF NewAttempt, Outcome, Advances, TxnRow, OpenStates, Checkable
  <2>3. Outcome(t, x, FinalizeFailure(t, x, None, "failed"))
    BY <1>2, FailureOutcome
  <2> QED BY <1>3, <2>2, <2>3 DEF PrepareAttempt
<1>4. CASE RecordOutcome(p)
  <2>1. x.state = "submitted"
    BY <1>4 DEF RecordOutcome
  <2>2. Outcome(t, x, FallBack(x, q))
    BY <1>2, <2>1 DEF FallBack, Outcome, Advances, TxnRow, OpenStates, Checkable
  <2>3. Outcome(t, x, FinalizeFailure(t, x, q, "failed"))
    BY <1>2, FailureOutcome
  <2>4. Outcome(t, x, MarkUndetermined(t, Learned(x, q, result), q))
    <3> DEFINE z == Learned(x, q, result)
    <3>0. q \in Providers
      BY <1>1, <1>4, BusyRow DEF RecordOutcome, CallStages
    <3>1. z \in TxnRow /\ z.state = "submitted" /\ z.book = x.book /\ z.settled = x.settled
      BY <1>2, <2>1, <3>0 DEF Learned, TxnRow
    <3> HIDE DEF z
    <3>2. Suspends(t, z, MarkUndetermined(t, z, q))
      BY <3>1, OpenSuspends DEF OpenStates, Checkable
    <3>3. Suspends(t, x, MarkUndetermined(t, z, q))
      BY <2>1, <3>1, <3>2 DEF Suspends, Shifted
    <3> QED BY <3>3 DEF Outcome, z
  <2>5. Outcome(t, x, Accepted(x, q, result))
    <3>1. Advances(x, Accepted(x, q, result))
      BY <1>2, <2>1 DEF Accepted, Advances, TxnRow, OpenStates, Checkable
    <3> QED BY <3>1 DEF Outcome
  <2> QED BY <1>4, <2>2, <2>3, <2>4, <2>5 DEF RecordOutcome
<1> QED BY <1>3, <1>4

LEMMA CheckMoves ==
    ASSUME IInv, NEW p \in Procs, StatusCheck(p) \/ CodeEntry(p), txn' # txn
    PROVE  \E y : Outcome(proc[p].t, txn[proc[p].t], y) /\ txn' = [txn EXCEPT ![proc[p].t] = y]
<1> DEFINE t == proc[p].t
           x == txn[t]
           q == proc[p].q
           result == proc[p].result
<1>1. proc[p].stage # "idle"
  BY DEF StatusCheck, CodeEntry, SweepDefer, Look, AskStatus, ApplyStatus, AskCode, ApplyCode
<1>2. x \in TxnRow /\ x.state # "absent"
  BY <1>1, BusyRow DEF GoodRow
<1>3. Outcome(t, x, Schedule(x)) /\ Outcome(t, x, MarkUndetermined(t, x, x.current))
  BY <1>2, ScheduledOutcome, UndeterminedOutcome
<1>4. Outcome(t, x, StatusOutcome(t, x, q, result))
  BY <1>2, CheckOutcome
<1>5. CASE SweepDefer(p)
  BY <1>3, <1>5 DEF SweepDefer
<1>6. CASE Look(p)
  BY <1>3, <1>6 DEF Look
<1>7. CASE ApplyStatus(p)
  BY <1>4, <1>7 DEF ApplyStatus
<1>8. CASE ApplyCode(p)
  <2> DEFINE y == CASE result = "succeeded" -> FinalizeSuccess(t, x, q)
                    [] result = "failed" -> FinalizeFailure(t, x, q, "failed")
                    [] OTHER -> x
  <2>1. txn' = [txn EXCEPT ![t] = y]
    BY <1>8 DEF ApplyCode
  <2>2. Outcome(t, x, y)
    BY <1>2, SuccessOutcome, FailureOutcome DEF Outcome, Stays
  <2> QED BY <2>1, <2>2
<1> QED BY <1>5, <1>6, <1>7, <1>8 DEF StatusCheck, CodeEntry, AskStatus, AskCode

Moves(t) ==
    \E y : /\ Outcome(t, txn[t], y)
           /\ txn[t].state = "absent" => Covered(t)
           /\ txn' = [txn EXCEPT ![t] = y]

LEMMA ProgressMoves ==
    ASSUME IInv, NEW p \in Procs, Progress(p), txn' # txn
    PROVE  \E t \in Txns : Moves(t)
<1>1. proc[p].stage # "idle"
  BY DEF Progress, Submission, StatusCheck, CodeEntry, FinishJob, PrepareAttempt, CallProvider,
         RecordOutcome, PrepareThrows, SweepDefer, Look, AskStatus, ApplyStatus, AskCode, ApplyCode
<1>2. proc[p].t \in Txns /\ txn[proc[p].t].state # "absent"
  BY <1>1, BusyRow DEF GoodRow
<1>3. CASE Submission(p)
  BY <1>2, <1>3, SubmissionMoves DEF Submission, CallProvider, PrepareThrows, Moves
<1>4. CASE StatusCheck(p) \/ CodeEntry(p)
  BY <1>2, <1>4, CheckMoves DEF Moves
<1> QED BY <1>3, <1>4 DEF Progress, FinishJob

LEMMA ConfirmMoves ==
    ASSUME IInv, NEW r \in Requests, NEW t \in Txns, Confirm(r, t)
    PROVE  Moves(t)
<1> DEFINE created == [Absent EXCEPT !.state = "created"]
           y == IF t \in Disbursements THEN Reserve(t, created) ELSE created
<1>1. txn' = [txn EXCEPT ![t] = y] /\ txn[t] = Absent /\ Absent.state = "absent" /\ Covered(t)
  BY AbsentRow DEF Confirm, IInv, Rows, GoodRow
<1>2. /\ created \in TxnRow /\ created.state = "created"
      /\ created.book = Absent.book /\ created.settled = Absent.settled
  BY AbsentRow DEF TxnRow, States, OpenStates, Checkable
<1> HIDE DEF created
<1>3. Begins(t, Absent, y)
  BY <1>1, <1>2 DEF Begins, Shifted, Reserve, TxnRow
<1> QED BY <1>1, <1>3 DEF Outcome, Moves

LEMMA CheckNowMoves ==
    ASSUME IInv, NEW t \in Txns, ProviderNotifies(t) \/ ForceRecheck(t)
    PROVE  Moves(t)
<1>1. txn[t] \in TxnRow /\ txn[t].state # "absent" /\ txn' = [txn EXCEPT ![t] = Schedule(txn[t])]
  BY DEF ProviderNotifies, ForceRecheck, CheckNow, IInv, Rows, Known, Started
<1> QED BY <1>1, ScheduledOutcome DEF Moves

LEMMA NextMoves == IInv /\ [Next]_vars => RowMoves
<1> SUFFICES ASSUME IInv, [Next]_vars, txn' # txn PROVE RowMoves
  BY DEF RowMoves
<1>0. SUFFICES \E t \in Txns : Moves(t)
  <2>1. txn \in [Txns -> TxnRow] /\ txn' \in [Txns -> TxnRow]
    BY NextIInv DEF IInv, Rows
  <2>2. ASSUME NEW t \in Txns, NEW y, txn' = [txn EXCEPT ![t] = y] PROVE y \in TxnRow
    <3>1. txn'[t] = y
      BY <2>1, <2>2
    <3> QED BY <2>1, <3>1
  <2> QED BY <2>2 DEF RowMoves, Moves
<1>1. ASSUME NEW p \in Procs, Progress(p) \/ Die(p) PROVE \E t \in Txns : Moves(t)
  BY <1>1, ProgressMoves DEF Die
<1>2. ASSUME NEW r \in Requests, NEW t \in Txns, Confirm(r, t) \/ SubmitCode(r, t) PROVE Moves(t)
  BY <1>2, ConfirmMoves DEF SubmitCode
<1>3. ASSUME NEW t \in Txns, ProviderNotifies(t) \/ ForceRecheck(t) PROVE Moves(t)
  BY <1>3, CheckNowMoves
<1> QED BY <1>1, <1>2, <1>3
        DEF Next, vars, SweepSelect, ClaimSubmit, ClaimStatus, WindowCloses, CeilingPasses,
            ProviderConcludes

\* A concluded transaction keeps its state, its attempts and its postings, whatever was still under
\* way when it concluded.
THEOREM TerminalFinality == Spec => TerminalIsFinal
<1> DEFINE Final == \A t \in Txns : txn[t].state \in TerminalStates =>
                        /\ txn'[t].state = txn[t].state
                        /\ txn'[t].attempt = txn[t].attempt
                        /\ txn'[t].book = txn[t].book
<1>1. IInv /\ [Next]_vars => Final
  <2> SUFFICES ASSUME IInv, [Next]_vars PROVE Final
    OBVIOUS
  <2>1. RowMoves /\ txn \in [Txns -> TxnRow]
    BY NextMoves DEF IInv, Rows
  <2>2. ASSUME NEW t \in Txns, NEW y, Outcome(t, txn[t], y), txn[t].state \in TerminalStates
        PROVE  Stays(txn[t], y)
    BY <2>2 DEF Outcome, Begins, Advances, Suspends, Succeeds, Fails, Undecided, TerminalStates,
                OpenStates, Checkable
  <2> QED BY <2>1, <2>2 DEF RowMoves, Stays
<1>2. IInv /\ [Next]_vars => [Final]_vars
  BY <1>1
<1>3. Spec => [][Final]_vars
  BY <1>2, Inductive, PTL DEF Spec
<1> QED BY <1>3 DEF TerminalIsFinal

-----------------------------------------------------------------------------
(***************************************************************************)
(* The books.  An outcome of a row whose postings say what its state says  *)
(* is another such row, and writes a settlement entry where it succeeds    *)
(* and nowhere else.                                                       *)
(***************************************************************************)
BooksOf(t, x) ==
    /\ BooksMatch(t, x)
    /\ SettlementCount(x) = IF x.state = "succeeded" THEN 1 ELSE 0

LEMMA StateSets ==
    /\ Checkable = {"submitted", "processing", "action_required"}
    /\ OpenStates = {"created", "submitted", "processing", "action_required"}
    /\ TerminalStates = {"succeeded", "failed", "expired"}
    /\ Undecided = {"created", "submitted", "processing", "action_required", "undetermined"}
BY DEF Checkable, OpenStates, TerminalStates, Undecided

\* Where the money of an undecided row is.
LEMMA UndecidedBooks ==
    ASSUME NEW t \in Txns, NEW x \in TxnRow, BooksMatch(t, x), x.state \in Undecided
    PROVE  /\ t \in Disbursements /\ x.state = "undetermined" => Holds(x, -Amount[t], 0, Amount[t], 0)
           /\ t \in Disbursements /\ x.state # "undetermined" => Holds(x, -Amount[t], Amount[t], 0, 0)
           /\ t \notin Disbursements => Holds(x, 0, 0, 0, 0)
BY StateSets DEF BooksMatch

\* What suspending makes of a row's balances.
LEMMA SuspendedBook ==
    ASSUME NEW b \in [Accounts -> Int], NEW n \in Int, NEW c, c = Move(b, "reserved", "suspense", n)
    PROVE  /\ c["reserved"] = b["reserved"] - n
           /\ c["suspense"] = b["suspense"] + n
           /\ c["available"] = b["available"]
           /\ c["outside"] = b["outside"]
BY DEF Move, Accounts

LEMMA OutcomeBooks ==
    ASSUME NEW t \in Txns, NEW x \in TxnRow, NEW y \in TxnRow, BooksMatch(t, x), Outcome(t, x, y)
    PROVE  BooksMatch(t, y)
<1>1. x.book \in [Accounts -> Int] /\ Amount[t] \in Int
  BY ConstantsOK DEF TxnRow
<1> DEFINE n == Amount[t]
<1>2. CASE Stays(x, y)
  BY <1>2 DEF Stays, BooksMatch, Holds
<1>3. CASE Begins(t, x, y)
  <2>1. Holds(x, 0, 0, 0, 0)
    BY <1>3, StateSets DEF Begins, BooksMatch
  <2>2. t \in Disbursements => Holds(y, -n, n, 0, 0)
    BY <1>1, <1>3, <2>1 DEF Move, Begins, Shifted, Holds, Accounts
  <2>3. t \notin Disbursements => Holds(y, 0, 0, 0, 0)
    BY <1>3, <2>1 DEF Begins, Shifted, Holds
  <2> QED BY <1>3, <2>2, <2>3, StateSets DEF Begins, BooksMatch
<1>4. CASE Advances(x, y)
  BY <1>4, StateSets DEF Advances, BooksMatch, Holds
<1>5. CASE Suspends(t, x, y)
  <2>1. /\ t \in Disbursements => Holds(x, -n, n, 0, 0)
        /\ t \notin Disbursements => Holds(x, 0, 0, 0, 0)
    BY <1>5, UndecidedBooks, StateSets DEF Suspends
  <2>2. t \in Disbursements => Holds(y, -n, 0, n, 0)
    <3>1. SUFFICES ASSUME t \in Disbursements PROVE Holds(y, -n, 0, n, 0)
      OBVIOUS
    <3>2. y.book = Move(x.book, "reserved", "suspense", n)
      BY <1>5, <3>1 DEF Suspends, Shifted
    <3>3. /\ y.book["reserved"] = x.book["reserved"] - n /\ y.book["suspense"] = x.book["suspense"] + n
          /\ y.book["available"] = x.book["available"] /\ y.book["outside"] = x.book["outside"]
      BY <1>1, <3>2, SuspendedBook
    <3> QED BY <1>1, <2>1, <3>1, <3>3 DEF Holds
  <2>3. t \notin Disbursements => Holds(y, 0, 0, 0, 0)
    BY <1>5, <2>1 DEF Suspends, Shifted, Holds
  <2> QED BY <1>5, <2>2, <2>3, StateSets DEF Suspends, BooksMatch
<1>6. CASE Succeeds(t, x, y)
  <2>1. t \in Disbursements => Holds(y, -n, 0, 0, n)
    BY <1>1, <1>6, UndecidedBooks DEF Move, Succeeds, Settle, Source, Holds, Accounts
  <2>2. t \notin Disbursements => Holds(y, n, 0, 0, -n)
    BY <1>1, <1>6, UndecidedBooks DEF Move, Succeeds, Settle, Holds, Accounts
  <2> QED BY <1>6, <2>1, <2>2, StateSets DEF Succeeds, BooksMatch
<1>7. CASE Fails(t, x, y)
  <2>1. t \in Disbursements => Holds(y, 0, 0, 0, 0)
    BY <1>1, <1>7, UndecidedBooks DEF Move, Fails, Release, Source, Holds, Accounts
  <2>2. t \notin Disbursements => Holds(y, 0, 0, 0, 0)
    BY <1>7, UndecidedBooks DEF Fails, Release, Holds
  <2> QED BY <1>7, <2>1, <2>2, StateSets DEF Fails, BooksMatch
<1> QED BY <1>2, <1>3, <1>4, <1>5, <1>6, <1>7 DEF Outcome

\* The settlement entries an outcome writes: one, of the type the row calls for, where it succeeds.
LEMMA OutcomeEntries ==
    ASSUME NEW t \in Txns, NEW x \in TxnRow, NEW y \in TxnRow, Outcome(t, x, y)
    PROVE  \/ y.settled = x.settled /\ (x.state = "succeeded" <=> y.state = "succeeded")
           \/ /\ x.state \in Undecided /\ y.state = "succeeded"
              /\ y.settled = [x.settled EXCEPT ![SettlementEntry(t, x)] = @ + 1]
BY StateSets DEF Outcome, Stays, Begins, Advances, Suspends, Succeeds, Fails

LEMMA OutcomeCount ==
    ASSUME NEW t \in Txns, NEW x \in TxnRow, NEW y \in TxnRow, BooksOf(t, x), Outcome(t, x, y)
    PROVE  SettlementCount(y) = IF y.state = "succeeded" THEN 1 ELSE 0
<1> DEFINE e == SettlementEntry(t, x)
<1>1. CASE y.settled = x.settled /\ (x.state = "succeeded" <=> y.state = "succeeded")
  BY <1>1 DEF BooksOf, SettlementCount
<1>2. CASE x.state \in Undecided /\ y.state = "succeeded" /\ y.settled = [x.settled EXCEPT ![e] = @ + 1]
  <2>1. SettlementCount(x) = 0 /\ x.settled \in [SettlementEntries -> Nat] /\ e \in SettlementEntries
    BY <1>2, StateSets DEF BooksOf, TxnRow, SettlementEntry, SettlementEntries
  <2>2. y.settled[e] = x.settled[e] + 1 /\ \A f \in SettlementEntries : f # e => y.settled[f] = x.settled[f]
    BY <1>2, <2>1
  <2> HIDE DEF e
  <2>3. SettlementCount(y) = 1
    <3>1. CASE e = "collection"
      BY <2>1, <2>2, <3>1 DEF SettlementCount, SettlementEntries
    <3>2. CASE e = "disbursement_settlement"
      BY <2>1, <2>2, <3>2 DEF SettlementCount, SettlementEntries
    <3>3. CASE e = "suspense_settlement"
      BY <2>1, <2>2, <3>3 DEF SettlementCount, SettlementEntries
    <3> QED BY <2>1, <3>1, <3>2, <3>3 DEF SettlementEntries
  <2> QED BY <1>2, <2>3
<1> QED BY <1>1, <1>2, OutcomeEntries

LEMMA BooksStep == IInv /\ BooksFollowState /\ [Next]_vars => BooksFollowState'
<1> SUFFICES ASSUME IInv, BooksFollowState, [Next]_vars, NEW u \in Txns
             PROVE  BooksOf(u, txn[u])'
  BY DEF BooksFollowState, BooksOf
<1>1. txn \in [Txns -> TxnRow] /\ BooksOf(u, txn[u]) /\ RowMoves
  BY NextMoves DEF IInv, Rows, BooksFollowState, BooksOf
<1>2. CASE UNCHANGED txn
  BY <1>1, <1>2 DEF BooksOf, BooksMatch, SettlementCount, Holds
<1>3. ASSUME NEW t \in Txns, NEW y \in TxnRow, Outcome(t, txn[t], y), txn' = [txn EXCEPT ![t] = y]
      PROVE  BooksOf(u, txn[u])'
  <2>1. BooksOf(u, txn'[u])
    <3>1. CASE u = t
      <4>1. txn'[u] = y
        BY <1>1, <1>3, <3>1
      <4>2. BooksMatch(t, y)
        BY <1>1, <1>3, <3>1, OutcomeBooks DEF BooksOf
      <4>3. SettlementCount(y) = IF y.state = "succeeded" THEN 1 ELSE 0
        BY <1>1, <1>3, <3>1, OutcomeCount
      <4> QED BY <3>1, <4>1, <4>2, <4>3 DEF BooksOf
    <3>2. CASE u # t
      BY <1>1, <1>3, <3>2
    <3> QED BY <3>1, <3>2
  <2> QED BY <2>1 DEF BooksOf, BooksMatch, SettlementCount, Holds
<1> QED BY <1>1, <1>2, <1>3 DEF RowMoves

LEMMA InitBooks == Init => BooksFollowState
<1> SUFFICES ASSUME Init, NEW t \in Txns PROVE BooksOf(t, Absent)
  BY DEF Init, BooksFollowState, BooksOf
<1>1. Absent.state = "absent" /\ Holds(Absent, 0, 0, 0, 0) /\ SettlementCount(Absent) = 0
  BY DEF Absent, Holds, SettlementCount, Accounts, SettlementEntries
<1> QED BY <1>1, StateSets DEF BooksOf, BooksMatch

LEMMA BooksInductive == Spec => [](IInv /\ BooksFollowState)
<1>1. Init => IInv /\ BooksFollowState
  BY InitIInv, InitBooks
<1>2. IInv /\ BooksFollowState /\ [Next]_vars => IInv' /\ BooksFollowState'
  BY NextIInv, BooksStep
<1> QED BY <1>1, <1>2, PTL DEF Spec

\* The ledger postings of a transaction are what its state says, whatever raced to conclude it.
THEOREM BooksAlwaysFollowState == Spec => []BooksFollowState
BY BooksInductive, PTL

-----------------------------------------------------------------------------
(***************************************************************************)
(* The balance.  Only a confirmation takes from what is available, and it  *)
(* takes no more than is there when it commits.                            *)
(***************************************************************************)
Available == [t \in Txns |-> txn[t].book["available"]]

LEMMA OutcomeAvailable ==
    ASSUME NEW t \in Txns, NEW x \in TxnRow, NEW y \in TxnRow, Outcome(t, x, y)
    PROVE  \/ y.book["available"] >= x.book["available"]
           \/ /\ x.state = "absent" /\ t \in Disbursements
              /\ y.book["available"] = x.book["available"] - Amount[t]
<1>1. x.book \in [Accounts -> Int] /\ Amount[t] \in Nat
  BY ConstantsOK DEF TxnRow
<1>2. x.book["available"] \in Int /\ Amount[t] \in Int
  BY <1>1 DEF Accounts
<1>3. CASE Stays(x, y) \/ Advances(x, y)
  BY <1>2, <1>3 DEF Stays, Advances
<1>4. CASE Begins(t, x, y)
  BY <1>1, <1>2, <1>4 DEF Move, Begins, Shifted, Accounts
<1>5. CASE Suspends(t, x, y)
  BY <1>1, <1>2, <1>5 DEF Move, Suspends, Shifted, Accounts
<1>6. CASE Succeeds(t, x, y)
  <2>1. CASE t \in Disbursements
    BY <1>1, <1>2, <1>6, <2>1 DEF Move, Succeeds, Settle, Source, Accounts
  <2>2. CASE t \notin Disbursements
    <3>1. y.book["available"] = x.book["available"] + Amount[t]
      BY <1>1, <1>6, <2>2 DEF Move, Succeeds, Settle, Accounts
    <3> QED BY <1>1, <1>2, <3>1
  <2> QED BY <2>1, <2>2
<1>7. CASE Fails(t, x, y)
  <2>1. CASE t \in Disbursements
    <3>1. y.book["available"] = x.book["available"] + Amount[t]
      BY <1>1, <1>7, <2>1 DEF Move, Fails, Release, Source, Accounts
    <3> QED BY <1>1, <1>2, <3>1
  <2>2. CASE t \notin Disbursements
    BY <1>2, <1>7, <2>2 DEF Fails, Release
  <2> QED BY <2>1, <2>2
<1> QED BY <1>3, <1>4, <1>5, <1>6, <1>7 DEF Outcome

\* One row changes: the project's balance changes by what it takes or returns.
LEMMA BalanceStep ==
    ASSUME txn \in [Txns -> TxnRow], NEW t \in Txns, NEW y \in TxnRow, txn' = [txn EXCEPT ![t] = y]
    PROVE  /\ ProjectAvailable \in Int
           /\ ProjectAvailable' = ProjectAvailable + y.book["available"] - txn[t].book["available"]
<1> DEFINE f == Available
           g == [u \in Txns |-> txn'[u].book["available"]]
<1>1. IsFiniteSet(Txns) /\ Funding \in Int
  BY ConstantsOK
<1>2. \A x \in TxnRow : x.book["available"] \in Int
  BY DEF TxnRow, Accounts
<1>3. \A u \in Txns : txn'[u] = IF u = t THEN y ELSE txn[u]
  OBVIOUS
<1>4. /\ f \in [Txns -> Int] /\ g \in [Txns -> Int]
      /\ \A u \in Txns \ {t} : g[u] = f[u]
      /\ g[t] = y.book["available"] /\ f[t] = txn[t].book["available"]
  BY <1>2, <1>3 DEF Available
<1>5. /\ ProjectAvailable = Funding + SumFunctionOnSet(f, Txns)
      /\ ProjectAvailable' = Funding + SumFunctionOnSet(g, Txns)
  BY DEF ProjectAvailable, Available, SumFunction
<1> HIDE DEF f, g
<1>6. \A u \in Txns : f[u] \in Int /\ g[u] \in Int /\ (u # t => g[u] = f[u])
  BY <1>4
<1>7. SumFunctionOnSet(g, Txns) = SumFunctionOnSet(f, Txns) - f[t] + g[t]
  BY <1>1, <1>6, SumChange
<1>8. SumFunctionOnSet(f, Txns) \in Int
  BY <1>1, <1>6, SumIsInt
<1>9. f[t] \in Int /\ g[t] \in Int
  BY <1>6
<1> QED BY <1>1, <1>4, <1>5, <1>7, <1>8, <1>9

LEMMA BalanceKept == IInv /\ AvailableNeverNegative /\ [Next]_vars => AvailableNeverNegative'
<1> SUFFICES ASSUME IInv, AvailableNeverNegative, [Next]_vars PROVE AvailableNeverNegative'
  OBVIOUS
<1>1. txn \in [Txns -> TxnRow] /\ RowMoves
  BY NextMoves DEF IInv, Rows
<1>2. CASE UNCHANGED txn
  BY <1>2 DEF AvailableNeverNegative, ProjectAvailable
<1>3. ASSUME NEW t \in Txns, NEW y \in TxnRow, Outcome(t, txn[t], y),
             txn[t].state = "absent" => Covered(t), txn' = [txn EXCEPT ![t] = y]
      PROVE  AvailableNeverNegative'
  <2>1. /\ ProjectAvailable \in Int
        /\ ProjectAvailable' = ProjectAvailable + y.book["available"] - txn[t].book["available"]
    BY <1>1, <1>3, BalanceStep
  <2>2. txn[t].book["available"] \in Int /\ y.book["available"] \in Int /\ Amount[t] \in Int
    BY <1>1, ConstantsOK DEF TxnRow, Accounts
  <2>3. \/ y.book["available"] >= txn[t].book["available"]
        \/ /\ ProjectAvailable >= Amount[t]
           /\ y.book["available"] = txn[t].book["available"] - Amount[t]
    BY <1>1, <1>3, OutcomeAvailable DEF Covered
  <2>4. ProjectAvailable >= 0
    BY DEF AvailableNeverNegative
  <2>5. ProjectAvailable' >= 0
    BY <2>1, <2>2, <2>3, <2>4
  <2> QED BY <2>5 DEF AvailableNeverNegative
<1> QED BY <1>1, <1>2, <1>3 DEF RowMoves

LEMMA InitBalance == Init => AvailableNeverNegative
<1> SUFFICES ASSUME Init PROVE AvailableNeverNegative
  OBVIOUS
<1> DEFINE f == Available
<1>1. \A t \in Txns : f[t] = 0
  BY DEF Init, Available, Absent, Accounts
<1>2. f = [t \in Txns |-> 0] /\ ProjectAvailable = Funding + SumFunctionOnSet(f, Txns)
  BY <1>1 DEF Available, ProjectAvailable, SumFunction
<1> HIDE DEF f
<1>3. SumFunctionOnSet(f, Txns) = 0
  BY <1>1, <1>2, SumOfZeros, ConstantsOK
<1> QED BY <1>2, <1>3, ConstantsOK DEF AvailableNeverNegative

\* A project's available balance is never overdrawn, whatever is confirmed, concluded or undone at once.
THEOREM BalanceNeverOverdrawn == Spec => []AvailableNeverNegative
<1>1. Init => IInv /\ AvailableNeverNegative
  BY InitIInv, InitBalance
<1>2. IInv /\ AvailableNeverNegative /\ [Next]_vars => IInv' /\ AvailableNeverNegative'
  BY NextIInv, BalanceKept
<1> QED BY <1>1, <1>2, PTL DEF Spec

-----------------------------------------------------------------------------
(***************************************************************************)
(* The refinement of PaymentContract.  A good row's postings determine     *)
(* where its money is, and that place is the one its status explains.      *)
(***************************************************************************)
Place(t, s) ==
    IF t \in Disbursements
    THEN CASE s = "open" -> "reserved" [] s = "held" -> "suspense"
           [] s = "succeeded" -> "paid_out" [] OTHER -> "untouched"
    ELSE IF s = "succeeded" THEN "credited" ELSE "untouched"

LEMMA PlaceOfFunds ==
    ASSUME NEW t \in Txns, NEW x \in TxnRow, BooksMatch(t, x)
    PROVE  FundsOf(t, x) = Place(t, PublicStatus(x.state))
<1>1. Amount[t] \in Nat \ {0}
  BY ConstantsOK
<1>2. x.state \in States
  BY DEF TxnRow
<1>3. CASE t \in Disbursements /\ x.state \in OpenStates
  <2>1. Holds(x, -Amount[t], Amount[t], 0, 0)
    BY <1>3 DEF BooksMatch, OpenStates, Checkable
  <2>2. FundsOf(t, x) = "reserved"
    BY <1>1, <2>1 DEF FundsOf, Holds
  <2>3. PublicStatus(x.state) = "open"
    BY <1>3 DEF PublicStatus, OpenStates, Checkable
  <2> QED BY <1>3, <2>2, <2>3 DEF Place
<1>4. CASE t \in Disbursements /\ x.state = "undetermined"
  <2>1. Holds(x, -Amount[t], 0, Amount[t], 0)
    BY <1>4 DEF BooksMatch, OpenStates, Checkable
  <2>2. FundsOf(t, x) = "suspense"
    BY <1>1, <2>1 DEF FundsOf, Holds
  <2>3. PublicStatus(x.state) = "held"
    BY <1>4 DEF PublicStatus, OpenStates, Checkable
  <2> QED BY <1>4, <2>2, <2>3 DEF Place
<1>5. CASE t \in Disbursements /\ x.state = "succeeded"
  <2>1. Holds(x, -Amount[t], 0, 0, Amount[t])
    BY <1>5 DEF BooksMatch, OpenStates, Checkable
  <2>2. FundsOf(t, x) = "paid_out"
    BY <1>1, <2>1 DEF FundsOf, Holds
  <2>3. PublicStatus(x.state) = "succeeded"
    BY <1>5 DEF PublicStatus, OpenStates, Checkable
  <2> QED BY <1>5, <2>2, <2>3 DEF Place
<1>6. CASE t \in Disbursements /\ x.state \in {"failed", "expired", "absent"}
  <2>1. Holds(x, 0, 0, 0, 0)
    BY <1>6 DEF BooksMatch, OpenStates, Checkable
  <2>2. FundsOf(t, x) = "untouched"
    BY <1>1, <2>1 DEF FundsOf, Holds
  <2>3. PublicStatus(x.state) \in {"failed", "absent"}
    BY <1>6 DEF PublicStatus, OpenStates, Checkable
  <2> QED BY <1>6, <2>2, <2>3 DEF Place
<1>7. CASE t \notin Disbursements /\ x.state = "succeeded"
  <2>1. Holds(x, Amount[t], 0, 0, -Amount[t])
    BY <1>7 DEF BooksMatch
  <2>2. FundsOf(t, x) = "credited"
    BY <1>1, <2>1 DEF FundsOf, Holds
  <2>3. PublicStatus(x.state) = "succeeded"
    BY <1>7 DEF PublicStatus, OpenStates, Checkable
  <2> QED BY <1>7, <2>2, <2>3 DEF Place
<1>8. CASE t \notin Disbursements /\ x.state # "succeeded"
  <2>1. Holds(x, 0, 0, 0, 0)
    BY <1>8 DEF BooksMatch
  <2>2. FundsOf(t, x) = "untouched"
    BY <1>1, <2>1 DEF FundsOf, Holds
  <2>3. PublicStatus(x.state) # "succeeded"
    BY <1>2, <1>8 DEF PublicStatus, States, TerminalStates, OpenStates, Checkable
  <2> QED BY <1>8, <2>2, <2>3 DEF Place
<1> QED BY <1>2, <1>3, <1>4, <1>5, <1>6, <1>7, <1>8 DEF States, TerminalStates

Shown(t) == PublicStatus(txn[t].state)

\* In every state the money of a transaction is where its status says.
LEMMA FundsExplained ==
    ASSUME IInv, BooksFollowState
    PROVE  \A t \in Txns : FundsOf(t, txn[t]) = Place(t, Shown(t))
BY PlaceOfFunds DEF IInv, Rows, BooksFollowState, Shown

\* A status moves along the contract or stays.
LEMMA StatusMoves ==
    ASSUME NEW t, NEW x \in TxnRow, NEW y \in TxnRow, Outcome(t, x, y)
    PROVE  LET s == PublicStatus(x.state)
               n == PublicStatus(y.state)
           IN  \/ n = s
               \/ s = "absent" /\ n = "open"
               \/ s = "open" /\ n = "held"
               \/ s \in {"open", "held"} /\ n \in {"succeeded", "failed"}
<1>1. x.state \in States /\ y.state \in States
  BY DEF TxnRow
<1>2. \A s \in States : PublicStatus(s) = IF s \in OpenStates THEN "open"
                                           ELSE IF s = "undetermined" THEN "held"
                                           ELSE IF s \in {"failed", "expired"} THEN "failed" ELSE s
  BY DEF PublicStatus, OpenStates, Checkable
<1> QED BY <1>1, <1>2, StateSets
        DEF Outcome, Stays, Begins, Advances, Suspends, Succeeds, Fails, States

LEMMA ContractStep ==
    IInv /\ IInv' /\ BooksFollowState /\ BooksFollowState' /\ [Next]_vars
        => [Contract!Next]_Contract!contractVars
<1> SUFFICES ASSUME IInv, IInv', BooksFollowState, BooksFollowState', [Next]_vars
             PROVE  Contract!Next \/ UNCHANGED Contract!contractVars
  OBVIOUS
<1>1. RowMoves /\ txn \in [Txns -> TxnRow] /\ txn' \in [Txns -> TxnRow]
  BY NextMoves DEF IInv, Rows
<1>2. CASE UNCHANGED txn
  BY <1>2 DEF Contract!contractVars
<1>3. ASSUME NEW t \in Txns, NEW y \in TxnRow, Outcome(t, txn[t], y), txn' = [txn EXCEPT ![t] = y]
      PROVE  Contract!Next \/ UNCHANGED Contract!contractVars
  <2> DEFINE s == PublicStatus(txn[t].state)
             n == PublicStatus(y.state)
             status == [u \in Txns |-> PublicStatus(txn[u].state)]
             funds == [u \in Txns |-> FundsOf(u, txn[u])]
  <2>1. \A u \in Txns : txn'[u] = IF u = t THEN y ELSE txn[u]
    BY <1>1, <1>3
  <2>2. status' = [status EXCEPT ![t] = n]
    BY <2>1
  <2>3. FundsOf(t, y) = Place(t, n) /\ FundsOf(t, txn[t]) = Place(t, s)
    <3>1. FundsOf(t, txn'[t]) = Place(t, PublicStatus(txn'[t].state))
      BY <1>1, PlaceOfFunds DEF BooksFollowState
    <3> QED BY <2>1, <3>1, FundsExplained DEF Shown
  <2>4. funds' = [funds EXCEPT ![t] = Place(t, n)]
    BY <2>1, <2>3
  <2>5. status[t] = s /\ funds[t] = Place(t, s)
    BY <2>3
  <2>6. \/ n = s
        \/ s = "absent" /\ n = "open"
        \/ s = "open" /\ n = "held"
        \/ s \in {"open", "held"} /\ n \in {"succeeded", "failed"}
    BY <1>1, <1>3, StatusMoves
  <2> HIDE DEF s, n
  <2>7. CASE n = s
    <3>1. UNCHANGED <<status, funds>>
      BY <2>2, <2>4, <2>5, <2>7
    <3> QED BY <3>1 DEF Contract!contractVars
  <2>8. CASE s = "absent" /\ n = "open"
    <3>1. Contract!Accept(t)
      BY <2>2, <2>4, <2>5, <2>8 DEF Contract!Accept, Contract!Become, Place
    <3> QED BY <3>1 DEF Contract!Next
  <2>9. CASE s = "open" /\ n = "held"
    <3>1. Contract!Hold(t)
      BY <2>2, <2>4, <2>5, <2>9 DEF Contract!Hold, Contract!Become, Place
    <3> QED BY <3>1 DEF Contract!Next
  <2>10. CASE s \in {"open", "held"} /\ n = "succeeded"
    <3>1. Contract!Succeed(t)
      BY <2>2, <2>4, <2>5, <2>10 DEF Contract!Succeed, Contract!Become, Place
    <3> QED BY <3>1 DEF Contract!Next
  <2>11. CASE s \in {"open", "held"} /\ n = "failed"
    <3>1. Contract!Fail(t)
      BY <2>2, <2>4, <2>5, <2>11 DEF Contract!Fail, Contract!Become, Place
    <3> QED BY <3>1 DEF Contract!Next
  <2> QED BY <2>6, <2>7, <2>8, <2>9, <2>10, <2>11
<1> QED BY <1>1, <1>2, <1>3 DEF RowMoves

LEMMA ContractInit == Init => Contract!Init
<1> SUFFICES ASSUME Init PROVE Contract!Init
  OBVIOUS
<1>1. \A t \in Txns : txn[t] = Absent /\ Absent.state = "absent"
  BY AbsentRow DEF Init
<1>2. PublicStatus("absent") = "absent"
  BY DEF PublicStatus, OpenStates, Checkable
<1>3. \A t \in Txns : FundsOf(t, Absent) = "untouched"
  <2>1. Holds(Absent, 0, 0, 0, 0)
    BY DEF Holds, Absent, Accounts
  <2> QED BY <2>1, ConstantsOK DEF FundsOf, Holds
<1> QED BY <1>1, <1>2, <1>3 DEF Contract!Init

\* The lifecycle, with its attempts, jobs, races and deaths, implements the payment contract.
THEOREM LifecycleImplementsContract == Spec => ImplementsContract
<1>1. Init => Contract!Init
  BY ContractInit
<1>2. IInv /\ IInv' /\ BooksFollowState /\ BooksFollowState' /\ [Next]_vars
          => [Contract!Next]_Contract!contractVars
  BY ContractStep
<1>3. Spec => Contract!Spec
  BY <1>1, <1>2, BooksInductive, PTL DEF Spec, Contract!Spec
<1> QED BY <1>3 DEF ImplementsContract

-----------------------------------------------------------------------------
(***************************************************************************)
(* What is sent, and that the recorded outcome is the provider's.  The     *)
(* argument: apart from what was turned down, only the current attempt may *)
(* hold a live request, and only while the transaction is past creation;   *)
(* one process at most sends it; and whatever a process carries from a     *)
(* provider's answer to the database transaction that records it still     *)
(* stands then.                                                            *)
(***************************************************************************)
\* What a request may have become, and the fates that move nothing.
RequestFates == {"none", "pending", "paid", "refused"}
Dead == {"none", "refused"}

\* A request that moves nothing, or that the platform takes for failed without having heard of it.
Gone(x, m, q) == m[q] \in Dead \/ (x.attempt[q] = "failed" /\ q \notin x.known)

\* The row x of transaction t and what became of its requests, m.
RowAgrees(t, x, m) ==
    /\ \A q \in Providers : q # x.current => Gone(x, m, q)
    /\ x.state \in {"absent", "created", "failed"} => \A q \in Providers : Gone(x, m, q)
    /\ \A q \in Providers : x.attempt[q] = "none" => m[q] = "none"
    /\ x.known \subseteq {x.current}
    /\ x.known # {} => x.state \notin {"absent", "created", "submitted"}
    /\ x.state \in {"processing", "action_required"} => x.current \in x.known
    /\ x.state = "succeeded" => x.current \in Providers /\ m[x.current] = "paid"
    /\ ~FallbackAllowed(t)
          => \A q \in Providers : x.attempt[q] # "none" => q = x.current /\ x.state \notin {"absent", "created"}

\* Process s sends, or records the answer to, the current attempt of row x.
Sending == {"call", "record"}
SenderAgrees(s, x, m) ==
    s.stage \in Sending =>
        /\ s.q = x.current
        /\ x.state \in {"submitted", "undetermined"}
        /\ x.known = {}
        /\ x.attempt[s.q] # "none"
        /\ s.stage = "call" => m[s.q] = "none"

\* Process s asks after, or applies the answer of, an acknowledged attempt of row x.
Asking == {"ask", "apply", "askCode", "applyCode"}
AskerAgrees(s, x, m) ==
    s.stage \in Asking =>
        /\ s.q \in x.known
        /\ s.stage \in {"apply", "applyCode"} /\ s.result = "succeeded" => m[s.q] = "paid"
        /\ s.stage \in {"apply", "applyCode"} /\ s.result = "failed" => m[s.q] = "refused"

RowsAgree == \A t \in Txns : RowAgrees(t, txn[t], money[t])
ProcsAgree ==
    \A p \in Procs :
        /\ SenderAgrees(proc[p], txn[proc[p].t], money[proc[p].t])
        /\ AskerAgrees(proc[p], txn[proc[p].t], money[proc[p].t])
OneSender ==
    \A p, r \in Procs :
        proc[p].stage \in Sending /\ proc[r].stage \in Sending /\ proc[p].t = proc[r].t => p = r

PaidInv == RowsAgree /\ ProcsAgree /\ OneSender

-----------------------------------------------------------------------------
(***************************************************************************)
(* The operators.                                                          *)
(***************************************************************************)
\* What the outcome operators leave alone: which attempt is current, which are acknowledged, which
\* were made, and what is recorded of the others.
Keeps(x, y) ==
    /\ y.current = x.current
    /\ y.known = x.known
    /\ \A q \in Providers : y.attempt[q] = "none" => x.attempt[q] = "none"
    /\ \A q \in Providers : q # x.current \/ y.state = x.state => y.attempt[q] = x.attempt[q]

\* Only what is pending at a provider changes there.
Moved(m, n) == \A q \in Providers : m[q] # "pending" => n[q] = m[q]

LEMMA EndAttemptKeeps ==
    ASSUME NEW x \in TxnRow, NEW q \in Providers \cup {None}, NEW s \in AttemptStates, s # "none",
           NEW r \in Providers
    PROVE  /\ EndAttempt(x, q, s)[r] = "none" => x.attempt[r] = "none"
           /\ r # q => EndAttempt(x, q, s)[r] = x.attempt[r]
BY DEF EndAttempt, TxnRow

LEMMA SuccessKeeps ==
    ASSUME NEW t, NEW x \in TxnRow, NEW q \in Providers \cup {None}, q \in {x.current, None}
    PROVE  /\ Keeps(x, FinalizeSuccess(t, x, q))
           /\ FinalizeSuccess(t, x, q).state \in {x.state, "succeeded"}
<1> DEFINE y == FinalizeSuccess(t, x, q)
<1>1. CASE x.state \in TerminalStates
  BY <1>1 DEF FinalizeSuccess, Keeps
<1>2. CASE x.state \notin TerminalStates
  <2>1. y.current = x.current /\ y.known = x.known /\ y.state = "succeeded"
        /\ y.attempt = EndAttempt(x, q, "succeeded")
    BY <1>2 DEF FinalizeSuccess, TxnRow
  <2> HIDE DEF y
  <2>2. \A r \in Providers : /\ y.attempt[r] = "none" => x.attempt[r] = "none"
                             /\ r # x.current => y.attempt[r] = x.attempt[r]
    BY <2>1, EndAttemptKeeps, ConstantsOK DEF AttemptStates
  <2> QED BY <1>2, <2>1, <2>2 DEF Keeps, TerminalStates, y
<1> QED BY <1>1, <1>2

LEMMA FailureKeeps ==
    ASSUME NEW t, NEW x \in TxnRow, NEW q \in Providers \cup {None}, q \in {x.current, None},
           NEW next \in {"failed", "expired"}
    PROVE  /\ Keeps(x, FinalizeFailure(t, x, q, next))
           /\ FinalizeFailure(t, x, q, next).state \in {x.state, next}
           /\ q = None => FinalizeFailure(t, x, q, next).attempt = x.attempt
<1> DEFINE y == FinalizeFailure(t, x, q, next)
<1>1. CASE x.state \in TerminalStates
  BY <1>1 DEF FinalizeFailure, Keeps
<1>2. CASE x.state \notin TerminalStates
  <2>1. y.current = x.current /\ y.known = x.known /\ y.state = next
        /\ y.attempt = EndAttempt(x, q, "failed")
    BY <1>2 DEF FinalizeFailure, TxnRow
  <2> HIDE DEF y
  <2>2. \A r \in Providers : /\ y.attempt[r] = "none" => x.attempt[r] = "none"
                             /\ r # x.current => y.attempt[r] = x.attempt[r]
    BY <2>1, EndAttemptKeeps, ConstantsOK DEF AttemptStates
  <2>3. q = None => y.attempt = x.attempt
    BY <2>1 DEF EndAttempt
  <2> QED BY <1>2, <2>1, <2>2, <2>3 DEF Keeps, TerminalStates, y
<1> QED BY <1>1, <1>2

LEMMA UndeterminedKeeps ==
    ASSUME NEW t, NEW x \in TxnRow, NEW q \in Providers \cup {None}, q \in {x.current, None}
    PROVE  /\ Keeps(x, MarkUndetermined(t, x, q))
           /\ MarkUndetermined(t, x, q).state \in {x.state, "undetermined"}
<1> DEFINE y == MarkUndetermined(t, x, q)
<1>1. CASE x.state \in TerminalStates \cup {"undetermined"}
  BY <1>1 DEF MarkUndetermined, Keeps
<1>2. CASE x.state \notin TerminalStates \cup {"undetermined"}
  <2>1. y.current = x.current /\ y.known = x.known /\ y.state = "undetermined"
        /\ y.attempt = EndAttempt(x, q, "undetermined")
    BY <1>2 DEF MarkUndetermined, TxnRow
  <2> HIDE DEF y
  <2>2. \A r \in Providers : /\ y.attempt[r] = "none" => x.attempt[r] = "none"
                             /\ r # x.current => y.attempt[r] = x.attempt[r]
    BY <2>1, EndAttemptKeeps, ConstantsOK DEF AttemptStates
  <2> QED BY <1>2, <2>1, <2>2 DEF Keeps, TerminalStates, y
<1> QED BY <1>1, <1>2

LEMMA ScheduleKeeps ==
    ASSUME NEW x \in TxnRow PROVE Keeps(x, Schedule(x)) /\ Schedule(x).state = x.state
BY DEF Schedule, Keeps, TxnRow

\* The states an outcome may give a row that agrees with the providers.
LEMMA RowKept ==
    ASSUME NEW t, NEW x, NEW y, NEW m, RowAgrees(t, x, m), Keeps(x, y),
           \/ y.state \in {x.state, "undetermined", "expired"}
           \/ y.state = "failed" /\ \A q \in Providers : q = x.current => Gone(y, m, q)
           \/ y.state = "succeeded" /\ x.current \in Providers /\ m[x.current] = "paid"
    PROVE  RowAgrees(t, y, m)
<1>1. ASSUME NEW q \in Providers, q # x.current \/ y.state = x.state, Gone(x, m, q) PROVE Gone(y, m, q)
  BY <1>1 DEF Gone, Keeps
<1>2. \A q \in Providers : q # y.current => Gone(y, m, q)
  BY <1>1 DEF RowAgrees, Keeps
<1>3. y.state \in {"absent", "created", "failed"} => \A q \in Providers : Gone(y, m, q)
  BY <1>1, <1>2 DEF RowAgrees, Keeps
<1>4. ~FallbackAllowed(t)
        => \A q \in Providers : y.attempt[q] # "none" => q = y.current /\ y.state \notin {"absent", "created"}
  BY DEF RowAgrees, Keeps
<1> QED BY <1>2, <1>3, <1>4 DEF RowAgrees, Keeps

LEMMA RowMoved ==
    ASSUME NEW t, NEW x, NEW m, NEW n, RowAgrees(t, x, m), Moved(m, n)
    PROVE  RowAgrees(t, x, n)
<1>1. \A q \in Providers : Gone(x, m, q) => Gone(x, n, q)
  BY DEF Gone, Moved, Dead
<1> QED BY <1>1 DEF RowAgrees, Moved

\* A process keeps agreeing with a row that another one concluded.
LEMMA OtherKept ==
    ASSUME NEW s \in ProcState, s.stage \in Sending \cup Asking => s.q \in Providers,
           NEW x, NEW y, NEW m, NEW n, SenderAgrees(s, x, m), AskerAgrees(s, x, m),
           Keeps(x, y), Moved(m, n),
           s.stage \in Sending => y.state \in {x.state, "undetermined"}
    PROVE  SenderAgrees(s, y, n) /\ AskerAgrees(s, y, n)
<1>1. SenderAgrees(s, y, n)
  BY DEF SenderAgrees, Keeps, Moved, Sending, Dead
<1>2. AskerAgrees(s, y, n)
  BY DEF AskerAgrees, Keeps, Moved, Asking
<1> QED BY <1>1, <1>2

\* What is learned of the current attempt once it is acknowledged, applied by check.
LEMMA CheckAgrees ==
    ASSUME NEW t, NEW x \in TxnRow, NEW m, RowAgrees(t, x, m), NEW q \in Providers, q \in x.known,
           NEW result, result = "succeeded" => m[q] = "paid", result = "failed" => m[q] = "refused"
    PROVE  RowAgrees(t, StatusOutcome(t, x, q, result), m) /\ Keeps(x, StatusOutcome(t, x, q, result))
<1> DEFINE y == StatusOutcome(t, x, q, result)
<1>1. q = x.current /\ x.state # "submitted"
  BY DEF RowAgrees
<1>2. CASE y = x
  BY <1>2 DEF Keeps
<1>3. CASE result = "succeeded" /\ y = FinalizeSuccess(t, x, q)
  BY <1>1, <1>3, SuccessKeeps, RowKept
<1>4. CASE result = "failed" /\ y = FinalizeFailure(t, x, q, "failed")
  <2>1. \A r \in Providers : r = x.current => Gone(y, m, r)
    BY <1>1, <1>4 DEF Gone, Dead
  <2>2. Keeps(x, y) /\ y.state \in {x.state, "failed"}
    BY <1>1, <1>4, FailureKeeps
  <2> HIDE DEF y
  <2> QED BY <2>1, <2>2, RowKept DEF y
<1>5. CASE y = FinalizeFailure(t, x, q, "expired")
  BY <1>1, <1>5, FailureKeeps, RowKept
<1>6. CASE y = MarkUndetermined(t, x, q)
  BY <1>1, <1>6, UndeterminedKeeps, RowKept
<1>7. CASE y = Schedule(x)
  BY <1>7, ScheduleKeeps, RowKept
<1> QED BY <1>1, <1>2, <1>3, <1>4, <1>5, <1>6, <1>7 DEF StatusOutcome

-----------------------------------------------------------------------------
(***************************************************************************)
(* The actions.                                                            *)
(***************************************************************************)
\* A process that sends or asks has a transaction and an attempt.
LEMMA ActiveProc ==
    ASSUME IInv, NEW p \in Procs
    PROVE  /\ proc[p] \in ProcState
           /\ proc[p].stage \in Sending \cup Asking => proc[p].t \in Txns /\ proc[p].q \in Providers
BY DEF IInv, TypeOK, Busy, Sending, Asking, CallStages

\* Process p goes on to s while the row and the requests of t become y and m.
Writes(t, y, m, p, s) ==
    /\ txn' = [txn EXCEPT ![t] = y]
    /\ money' = [money EXCEPT ![t] = m]
    /\ proc' = [proc EXCEPT ![p] = s]

\* What was written agrees, and so does what the other processes at t hold.
WritesAgree(t, y, m, p, s) ==
    /\ RowAgrees(t, y, m)
    /\ s.stage \in Sending \cup Asking => s.t = t /\ SenderAgrees(s, y, m) /\ AskerAgrees(s, y, m)
    /\ s.stage \in Sending => \A r \in Procs : r # p /\ proc[r].stage \in Sending => proc[r].t # t
    /\ \A r \in Procs : r # p /\ proc[r].stage \in Sending \cup Asking /\ proc[r].t = t
          => SenderAgrees(proc[r], y, m) /\ AskerAgrees(proc[r], y, m)

LEMMA ProcGoesOn ==
    ASSUME IInv, PaidInv, NEW t \in Txns, NEW y, NEW m, NEW p \in Procs, NEW s,
           Writes(t, y, m, p, s), WritesAgree(t, y, m, p, s)
    PROVE  PaidInv'
<1>1. /\ \A u \in Txns : txn'[u] = (IF u = t THEN y ELSE txn[u])
      /\ \A u \in Txns : money'[u] = (IF u = t THEN m ELSE money[u])
      /\ \A r \in Procs : proc'[r] = (IF r = p THEN s ELSE proc[r])
  BY DEF IInv, TypeOK, Writes
<1>2. RowsAgree'
  BY <1>1 DEF PaidInv, RowsAgree, WritesAgree
<1>3. ASSUME NEW r \in Procs
      PROVE  /\ SenderAgrees(proc'[r], txn'[proc'[r].t], money'[proc'[r].t])
             /\ AskerAgrees(proc'[r], txn'[proc'[r].t], money'[proc'[r].t])
  <2>1. CASE proc'[r].stage \notin Sending \cup Asking
    BY <2>1 DEF SenderAgrees, AskerAgrees
  <2>2. CASE r = p /\ s.stage \in Sending \cup Asking
    BY <1>1, <2>2 DEF WritesAgree
  <2>3. CASE r # p /\ proc[r].stage \in Sending \cup Asking
    <3>1. proc'[r] = proc[r] /\ proc[r].t \in Txns
      BY <1>1, <2>3, ActiveProc
    <3>2. CASE proc[r].t = t
      BY <1>1, <2>3, <3>1, <3>2 DEF WritesAgree
    <3>3. CASE proc[r].t # t
      BY <1>1, <3>1, <3>3 DEF PaidInv, ProcsAgree
    <3> QED BY <3>2, <3>3
  <2> QED BY <1>1, <2>1, <2>2, <2>3
<1>4. OneSender'
  <2> SUFFICES ASSUME NEW a \in Procs, NEW b \in Procs, proc'[a].stage \in Sending,
                      proc'[b].stage \in Sending, proc'[a].t = proc'[b].t
               PROVE  a = b
    BY DEF OneSender
  <2>1. CASE a # p /\ b # p
    BY <1>1, <2>1 DEF PaidInv, OneSender
  <2>2. CASE a = p /\ b # p
    BY <1>1, <2>2 DEF WritesAgree
  <2>3. CASE a # p /\ b = p
    BY <1>1, <2>3 DEF WritesAgree
  <2> QED BY <2>1, <2>2, <2>3
<1> QED BY <1>2, <1>3, <1>4 DEF PaidInv, ProcsAgree

\* Process p goes on with the row and the requests of t as they were.
LEMMA ProcOnly ==
    ASSUME IInv, PaidInv, NEW t \in Txns, NEW p \in Procs, NEW s,
           UNCHANGED <<txn, money>>, proc' = [proc EXCEPT ![p] = s],
           s.stage \in Sending \cup Asking
               => s.t = t /\ SenderAgrees(s, txn[t], money[t]) /\ AskerAgrees(s, txn[t], money[t]),
           s.stage \in Sending
               => \A r \in Procs : r # p /\ proc[r].stage \in Sending => proc[r].t # t
    PROVE  PaidInv'
<1>1. Writes(t, txn[t], money[t], p, s)
  BY DEF IInv, TypeOK, Writes
<1>2. RowAgrees(t, txn[t], money[t])
  BY DEF PaidInv, RowsAgree
<1>3. \A r \in Procs : proc[r].t = t
          => SenderAgrees(proc[r], txn[t], money[t]) /\ AskerAgrees(proc[r], txn[t], money[t])
  BY DEF PaidInv, ProcsAgree
<1>4. WritesAgree(t, txn[t], money[t], p, s)
  BY <1>2, <1>3 DEF WritesAgree
<1> QED BY <1>1, <1>4, ProcGoesOn

\* Process p goes on to a stage that neither sends nor asks, the row of t concluded to y.
LEMMA RowConcluded ==
    ASSUME IInv, PaidInv, NEW t \in Txns, NEW y, NEW p \in Procs, NEW s,
           txn' = [txn EXCEPT ![t] = y], UNCHANGED money, proc' = [proc EXCEPT ![p] = s],
           RowAgrees(t, y, money[t]), Keeps(txn[t], y), s.stage \notin Sending \cup Asking,
           \/ y.state \in {txn[t].state, "undetermined"}
           \/ \A r \in Procs : r # p /\ proc[r].stage \in Sending => proc[r].t # t
    PROVE  PaidInv'
<1>1. money' = [money EXCEPT ![t] = money[t]] /\ Moved(money[t], money[t])
  BY DEF IInv, TypeOK, Moved
<1>2. ASSUME NEW r \in Procs, r # p, proc[r].stage \in Sending \cup Asking, proc[r].t = t
      PROVE  SenderAgrees(proc[r], y, money[t]) /\ AskerAgrees(proc[r], y, money[t])
  <2>1. SenderAgrees(proc[r], txn[t], money[t]) /\ AskerAgrees(proc[r], txn[t], money[t])
    BY <1>2 DEF PaidInv, ProcsAgree
  <2>2. proc[r].stage \in Sending => y.state \in {txn[t].state, "undetermined"}
    BY <1>2
  <2> QED BY <1>1, <1>2, <2>1, <2>2, ActiveProc, OtherKept
<1>3. Writes(t, y, money[t], p, s)
  BY <1>1 DEF Writes
<1>4. WritesAgree(t, y, money[t], p, s)
  BY <1>2 DEF WritesAgree
<1> QED BY <1>3, <1>4, ProcGoesOn

\* An acknowledged attempt has no sender.
LEMMA NoSender ==
    ASSUME PaidInv, NEW t \in Txns, txn[t].known # {} \/ txn[t].state \in {"absent", "created"},
           NEW r \in Procs, proc[r].stage \in Sending
    PROVE  proc[r].t # t
BY DEF PaidInv, ProcsAgree, SenderAgrees

LEMMA DoneStage ==
    ASSUME IInv, NEW p \in Procs, Done(p)
    PROVE  \E s : proc' = [proc EXCEPT ![p] = s] /\ s.stage \notin Sending \cup Asking
<1> DEFINE s == IF proc[p].job = "none" THEN Idle ELSE Running("finish", proc[p].t, proc[p].job)
<1>1. proc' = [proc EXCEPT ![p] = s]
  BY DEF Done
<1>2. s.stage \in {"idle", "finish"}
  BY DEF Idle, Running
<1> HIDE DEF s
<1> QED BY <1>1, <1>2 DEF Sending, Asking

LEMMA PrepareAgrees ==
    ASSUME IInv, PaidInv, NEW p \in Procs, PrepareAttempt(p)
    PROVE  PaidInv'
<1> DEFINE t == proc[p].t
           x == txn[t]
           m == money[t]
<1>1. /\ proc[p] \in ProcState /\ t \in Txns /\ x \in TxnRow /\ RowAgrees(t, x, m)
      /\ UNCHANGED money
  BY BusyRow DEF PrepareAttempt, PaidInv, RowsAgree
<1>2. CASE Done(p) /\ UNCHANGED txn
  <2>1. PICK s : proc' = [proc EXCEPT ![p] = s] /\ s.stage \notin Sending \cup Asking
    BY <1>2, DoneStage
  <2> QED BY <1>1, <1>2, <2>1, ProcOnly
<1>3. ASSUME x.state = "created", NEW q \in Providers \ Tried(x), txn' = [txn EXCEPT ![t] = NewAttempt(x, q)],
             proc' = [proc EXCEPT ![p].stage = "call", ![p].q = q]
      PROVE  PaidInv'
  <2> DEFINE y == NewAttempt(x, q)
             s == [proc[p] EXCEPT !.stage = "call", !.q = q]
  <2>1. /\ y.state = "submitted" /\ y.current = q /\ y.known = x.known
        /\ y.attempt = [x.attempt EXCEPT ![q] = "submitting"] /\ x.attempt \in [Providers -> AttemptStates]
    BY <1>1 DEF NewAttempt, TxnRow
  <2>2. proc' = [proc EXCEPT ![p] = s] /\ s.stage = "call" /\ s.q = q /\ s.t = t
    BY <1>1, <1>3 DEF ProcState, IInv, TypeOK
  <2>3. x.known = {} /\ m[q] = "none" /\ \A r \in Providers : Gone(x, m, r)
    BY <1>1, <1>3 DEF RowAgrees, Tried
  <2> HIDE DEF y, s
  <2>4. RowAgrees(t, y, m)
    <3>1. \A r \in Providers : r # q => y.attempt[r] = x.attempt[r]
      BY <2>1
    <3>2. \A r \in Providers : r # q => Gone(y, m, r)
      BY <2>1, <2>3, <3>1 DEF Gone
    <3>3. ~FallbackAllowed(t) => \A r \in Providers : r # q => y.attempt[r] = "none"
      BY <1>1, <1>3, <3>1 DEF RowAgrees
    <3>4. \A r \in Providers : y.attempt[r] = "none" => m[r] = "none"
      BY <1>1, <2>3, <3>1 DEF RowAgrees
    <3> QED BY <2>1, <2>3, <3>2, <3>3, <3>4 DEF RowAgrees
  <2>5. SenderAgrees(s, y, m) /\ AskerAgrees(s, y, m)
    BY <2>1, <2>2, <2>3 DEF SenderAgrees, AskerAgrees, Sending, Asking
  <2>6. \A r \in Procs : proc[r].stage \in Sending => proc[r].t # t
    BY <1>1, <1>3, NoSender
  <2>7. ASSUME NEW r \in Procs, r # p, proc[r].stage \in Sending \cup Asking, proc[r].t = t
        PROVE  FALSE
    <3>1. AskerAgrees(proc[r], x, m)
      BY <2>7 DEF PaidInv, ProcsAgree
    <3> QED BY <2>3, <2>6, <2>7, <3>1 DEF AskerAgrees
  <2>8. Writes(t, y, m, p, s)
    BY <1>1, <1>3, <2>2 DEF IInv, TypeOK, Writes, y
  <2>9. WritesAgree(t, y, m, p, s)
    BY <2>2, <2>4, <2>5, <2>6, <2>7 DEF WritesAgree
  <2> QED BY <1>1, <2>8, <2>9, ProcGoesOn
<1>4. CASE x.state = "created" /\ txn' = [txn EXCEPT ![t] = FinalizeFailure(t, x, None, "failed")] /\ Done(p)
  <2> DEFINE y == FinalizeFailure(t, x, None, "failed")
  <2>1. PICK s : proc' = [proc EXCEPT ![p] = s] /\ s.stage \notin Sending \cup Asking
    BY <1>4, DoneStage
  <2>2. Keeps(x, y) /\ y.state \in {x.state, "failed"}
    BY <1>1, FailureKeeps
  <2>3. RowAgrees(t, y, m)
    <3>1. \A r \in Providers : r = x.current => Gone(y, m, r)
      <4>1. y.attempt = x.attempt /\ y.known = x.known
        BY <1>1, <2>2, FailureKeeps DEF Keeps
      <4> HIDE DEF y
      <4> QED BY <1>1, <1>4, <4>1 DEF RowAgrees, Gone
    <3> HIDE DEF y
    <3> QED BY <1>1, <2>2, <3>1, RowKept
  <2>4. \A r \in Procs : proc[r].stage \in Sending => proc[r].t # t
    BY <1>1, <1>4, NoSender
  <2> QED BY <1>1, <1>4, <2>1, <2>2, <2>3, <2>4, RowConcluded
<1> QED BY <1>2, <1>3, <1>4 DEF PrepareAttempt

\* A sender is the only process at work on its transaction's requests.
LEMMA SenderAlone ==
    ASSUME PaidInv, NEW p \in Procs, proc[p].stage \in Sending,
           NEW r \in Procs, r # p, proc[r].t = proc[p].t
    PROVE  proc[r].stage \notin Sending \cup Asking
<1>1. proc[r].stage \notin Sending
  BY DEF PaidInv, OneSender
<1>2. txn[proc[p].t].known = {}
  BY DEF PaidInv, ProcsAgree, SenderAgrees
<1>3. AskerAgrees(proc[r], txn[proc[p].t], money[proc[p].t])
  BY DEF PaidInv, ProcsAgree
<1> QED BY <1>1, <1>2, <1>3 DEF AskerAgrees

LEMMA CallAgrees ==
    ASSUME IInv, PaidInv, NEW p \in Procs, CallProvider(p)
    PROVE  PaidInv'
<1> DEFINE t == proc[p].t
           q == proc[p].q
           x == txn[t]
           m == money[t]
<1>1. /\ proc[p] \in ProcState /\ t \in Txns /\ x \in TxnRow /\ RowAgrees(t, x, m) /\ q \in Providers
      /\ UNCHANGED txn /\ proc[p].stage = "call"
  BY BusyRow DEF CallProvider, CallStages, PaidInv, RowsAgree
<1>2. q = x.current /\ x.state \in {"submitted", "undetermined"} /\ x.known = {}
      /\ x.attempt[q] # "none" /\ m[q] = "none"
  BY <1>1 DEF PaidInv, ProcsAgree, SenderAgrees, Sending
<1>3. PICK a \in Answers : /\ money' = [money EXCEPT ![t][q] = a.money]
                           /\ proc' = [proc EXCEPT ![p].stage = "record", ![p].result = a.result]
  BY DEF CallProvider
<1> DEFINE n == [m EXCEPT ![q] = a.money]
           s == [proc[p] EXCEPT !.stage = "record", !.result = a.result]
<1>5. /\ proc' = [proc EXCEPT ![p] = s] /\ s.stage = "record" /\ s.q = q /\ s.t = t
      /\ s.result = a.result
  BY <1>1, <1>3 DEF ProcState, IInv, TypeOK
<1>6. /\ money' = [money EXCEPT ![t] = n] /\ txn' = [txn EXCEPT ![t] = x]
      /\ n[q] = a.money /\ \A r \in Providers : r # q => n[r] = m[r]
  BY <1>1, <1>3 DEF IInv, TypeOK
<1> HIDE DEF n, s
<1>7. RowAgrees(t, x, n)
  <2>1. \A r \in Providers : r # q /\ Gone(x, m, r) => Gone(x, n, r)
    BY <1>6 DEF Gone
  <2> QED BY <1>1, <1>2, <1>6, <2>1 DEF RowAgrees
<1>8. SenderAgrees(s, x, n) /\ AskerAgrees(s, x, n)
  BY <1>2, <1>5, <1>6 DEF SenderAgrees, AskerAgrees, Asking
<1>9. \A r \in Procs : r # p /\ proc[r].t = t => proc[r].stage \notin Sending \cup Asking
  BY <1>1, SenderAlone DEF Sending
<1>10. Writes(t, x, n, p, s)
  BY <1>5, <1>6 DEF Writes
<1>11. WritesAgree(t, x, n, p, s)
  BY <1>5, <1>7, <1>8, <1>9 DEF WritesAgree
<1> QED BY <1>1, <1>10, <1>11, ProcGoesOn

\* A sender records what it learned and is done with its attempt.
LEMMA SenderDone ==
    ASSUME IInv, PaidInv, NEW p \in Procs, proc[p].stage \in Sending, NEW y, NEW s,
           txn' = [txn EXCEPT ![proc[p].t] = y], UNCHANGED money, proc' = [proc EXCEPT ![p] = s],
           s.stage \notin Sending \cup Asking, RowAgrees(proc[p].t, y, money[proc[p].t])
    PROVE  PaidInv'
<1> DEFINE t == proc[p].t
<1>1. t \in Txns
  BY ActiveProc
<1>2. \A r \in Procs : r # p /\ proc[r].t = t => proc[r].stage \notin Sending \cup Asking
  BY SenderAlone
<1>3. Writes(t, y, money[t], p, s)
  BY <1>1 DEF Writes, IInv, TypeOK
<1>4. WritesAgree(t, y, money[t], p, s)
  BY <1>2 DEF WritesAgree
<1> HIDE DEF t
<1> QED BY <1>1, <1>3, <1>4, ProcGoesOn

LEMMA RecordAgrees ==
    ASSUME IInv, PaidInv, NEW p \in Procs, RecordOutcome(p)
    PROVE  PaidInv'
<1> DEFINE t == proc[p].t
           q == proc[p].q
           x == txn[t]
           m == money[t]
           result == proc[p].result
           current == x.state = "submitted" /\ x.current = q
           refused == result \in {"unavailable", "rejected"}
<1>1. /\ proc[p] \in ProcState /\ t \in Txns /\ x \in TxnRow /\ RowAgrees(t, x, m) /\ q \in Providers
      /\ UNCHANGED money /\ proc[p].stage = "record" /\ proc[p].stage \in Sending
  BY BusyRow DEF RecordOutcome, CallStages, PaidInv, RowsAgree, Sending
<1>2. /\ q = x.current /\ x.known = {} /\ x.attempt[q] # "none"
      /\ \A r \in Providers : r # q => Gone(x, m, r)
  BY <1>1 DEF PaidInv, ProcsAgree, SenderAgrees, RowAgrees
<1>3. ASSUME Done(p) \/ \E s : proc' = [proc EXCEPT ![p] = s] /\ s.stage \notin Sending \cup Asking,
             NEW y, txn' = [txn EXCEPT ![t] = y], RowAgrees(t, y, m)
      PROVE  PaidInv'
  <2>1. PICK s : proc' = [proc EXCEPT ![p] = s] /\ s.stage \notin Sending \cup Asking
    BY <1>3, DoneStage
  <2> QED BY <1>1, <1>3, <2>1, SenderDone
<1>4. CASE Done(p) /\ UNCHANGED txn
  <2>1. PICK s : proc' = [proc EXCEPT ![p] = s] /\ s.stage \notin Sending \cup Asking
    BY <1>4, DoneStage
  <2> QED BY <1>1, <1>4, <2>1, ProcOnly
<1>5. CASE /\ refused /\ FallbackAllowed(t) /\ txn' = [txn EXCEPT ![t] = FallBack(x, q)]
           /\ IF proc[p].hops + 1 < MaxHops
              THEN proc' = [proc EXCEPT ![p] = [Running("prepare", t, @.job) EXCEPT !.hops = proc[p].hops + 1]]
              ELSE Done(p)
  <2> DEFINE y == FallBack(x, q)
             s == [Running("prepare", t, proc[p].job) EXCEPT !.hops = proc[p].hops + 1]
  <2>1. /\ y.state = "created" /\ y.current = x.current /\ y.known = x.known
        /\ y.attempt = [x.attempt EXCEPT ![q] = "failed"] /\ x.attempt \in [Providers -> AttemptStates]
    BY <1>1 DEF FallBack, TxnRow
  <2>2. RowAgrees(t, y, m)
    <3> HIDE DEF y
    <3>1. \A r \in Providers : Gone(y, m, r)
      BY <1>2, <2>1 DEF Gone
    <3> QED BY <1>1, <1>2, <1>5, <2>1, <3>1 DEF RowAgrees
  <2>3. s.stage \notin Sending \cup Asking
    BY DEF Running, Idle, Sending, Asking
  <2>4. Done(p) \/ proc' = [proc EXCEPT ![p] = s]
    BY <1>1, <1>5 DEF IInv, TypeOK
  <2> HIDE DEF y, s
  <2> QED BY <1>3, <1>5, <2>2, <2>3, <2>4 DEF y
<1>6. CASE current /\ txn' = [txn EXCEPT ![t] = FinalizeFailure(t, x, q, "failed")] /\ Done(p)
  <2> DEFINE y == FinalizeFailure(t, x, q, "failed")
  <2>1. Keeps(x, y) /\ y.state \in {x.state, "failed"}
    BY <1>1, <1>2, FailureKeeps
  <2>2. y.attempt[q] = "failed"
    BY <1>1, <1>6, ConstantsOK DEF FinalizeFailure, EndAttempt, TerminalStates, TxnRow
  <2> HIDE DEF y
  <2>3. \A r \in Providers : r = x.current => Gone(y, m, r)
    BY <1>2, <2>1, <2>2 DEF Keeps, Gone
  <2>4. RowAgrees(t, y, m)
    BY <1>1, <1>2, <1>6, <2>1, <2>3, RowKept
  <2> QED BY <1>3, <1>6, <2>4 DEF y
<1>7. CASE current /\ txn' = [txn EXCEPT ![t] = MarkUndetermined(t, Learned(x, q, result), q)] /\ Done(p)
  <2> DEFINE z == Learned(x, q, result)
             y == MarkUndetermined(t, z, q)
  <2>1. /\ z \in TxnRow /\ z.state = "submitted" /\ z.current = q /\ z.known \in {{}, {q}}
        /\ z.attempt = x.attempt
    BY <1>1, <1>2, <1>7 DEF Learned, TxnRow
  <2> HIDE DEF z
  <2>2. Keeps(z, y)
    BY <1>1, <2>1, UndeterminedKeeps
  <2>3. y.state = "undetermined"
    BY <2>1 DEF MarkUndetermined, TerminalStates, TxnRow
  <2> HIDE DEF y
  <2>4. RowAgrees(t, y, m)
    <3>1. \A r \in Providers : r # q => y.attempt[r] = x.attempt[r] /\ Gone(y, m, r)
      BY <1>2, <2>1, <2>2 DEF Keeps, Gone
    <3> QED BY <1>1, <1>2, <2>1, <2>2, <2>3, <3>1 DEF RowAgrees, Keeps
  <2> QED BY <1>3, <1>7, <2>4 DEF y, z
<1>8. CASE current /\ txn' = [txn EXCEPT ![t] = Accepted(x, q, result)] /\ Done(p)
  <2> DEFINE y == Accepted(x, q, result)
             next == IF result = "accepted" THEN "processing" ELSE "action_required"
  <2>1. /\ y.state = next /\ y.current = x.current /\ y.known = x.known \cup {q}
        /\ y.attempt = [x.attempt EXCEPT ![q] = next] /\ x.attempt \in [Providers -> AttemptStates]
        /\ next \in {"processing", "action_required"}
    BY <1>1 DEF Accepted, TxnRow
  <2> HIDE DEF y, next
  <2>2. RowAgrees(t, y, m)
    <3>1. \A r \in Providers : r # q => y.attempt[r] = x.attempt[r] /\ Gone(y, m, r)
      BY <1>2, <2>1 DEF Gone
    <3>2. \A r \in Providers : y.attempt[r] = "none" => m[r] = "none"
      BY <1>1, <2>1, <3>1 DEF RowAgrees
    <3> QED BY <1>1, <1>2, <2>1, <3>1, <3>2 DEF RowAgrees
  <2> QED BY <1>3, <1>8, <2>2 DEF y
<1> QED BY <1>4, <1>5, <1>6, <1>7, <1>8 DEF RecordOutcome

LEMMA StatusAgrees ==
    ASSUME IInv, PaidInv, NEW p \in Procs, StatusCheck(p)
    PROVE  PaidInv'
<1> DEFINE t == proc[p].t
           q == proc[p].q
           x == txn[t]
           m == money[t]
<1>1. /\ proc[p].stage \in {"defer", "look", "ask", "apply"} /\ UNCHANGED money
      /\ proc[p] \in ProcState /\ t \in Txns /\ x \in TxnRow /\ RowAgrees(t, x, m)
      /\ x.current \in Providers \cup {None} /\ proc \in [Procs -> ProcState]
  BY BusyRow DEF StatusCheck, SweepDefer, Look, AskStatus, ApplyStatus, PaidInv, RowsAgree, IInv, TypeOK
<1>2. CASE SweepDefer(p)
  <2> DEFINE y == Schedule(x)
             s == [proc[p] EXCEPT !.stage = "look"]
  <2>1. Keeps(x, y) /\ y.state = x.state
    BY <1>1, ScheduleKeeps
  <2>2. txn' = [txn EXCEPT ![t] = y] /\ proc' = [proc EXCEPT ![p] = s] /\ s.stage = "look"
    BY <1>1, <1>2 DEF SweepDefer, ProcState
  <2> HIDE DEF y, s
  <2>3. RowAgrees(t, y, m)
    BY <1>1, <2>1, RowKept
  <2>4. s.stage \notin Sending \cup Asking
    BY <2>2 DEF Sending, Asking
  <2> QED BY <1>1, <2>1, <2>2, <2>3, <2>4, RowConcluded
<1>3. CASE Look(p)
  <2> DEFINE acknowledged == x.current \in x.known
             y == IF "ceiling" \in late[t] THEN MarkUndetermined(t, x, x.current) ELSE Schedule(x)
  <2>1. CASE Done(p) /\ UNCHANGED txn
    <3>1. PICK s : proc' = [proc EXCEPT ![p] = s] /\ s.stage \notin Sending \cup Asking
      BY <2>1, DoneStage
    <3> QED BY <1>1, <2>1, <3>1, ProcOnly
  <2>2. CASE Done(p) /\ txn' = [txn EXCEPT ![t] = y]
    <3>1. PICK s : proc' = [proc EXCEPT ![p] = s] /\ s.stage \notin Sending \cup Asking
      BY <2>2, DoneStage
    <3>2. Keeps(x, y) /\ y.state \in {x.state, "undetermined"}
      BY <1>1, UndeterminedKeeps, ScheduleKeeps
    <3> HIDE DEF y
    <3>3. RowAgrees(t, y, m)
      BY <1>1, <3>2, RowKept
    <3> QED BY <1>1, <2>2, <3>1, <3>2, <3>3, RowConcluded
  <2>3. CASE /\ acknowledged /\ UNCHANGED txn
             /\ proc' = [proc EXCEPT ![p].stage = "ask", ![p].q = x.current]
    <3> DEFINE s == [proc[p] EXCEPT !.stage = "ask", !.q = x.current]
    <3>1. proc' = [proc EXCEPT ![p] = s] /\ s.stage = "ask" /\ s.q = x.current /\ s.t = t
      BY <1>1, <2>3 DEF ProcState
    <3> HIDE DEF s
    <3>2. SenderAgrees(s, x, m) /\ AskerAgrees(s, x, m) /\ s.stage \notin Sending
      BY <2>3, <3>1 DEF SenderAgrees, AskerAgrees, Sending
    <3>3. UNCHANGED <<txn, money>>
      BY <1>1, <2>3
    <3> HIDE DEF acknowledged, y
    <3> QED BY <1>1, <3>1, <3>2, <3>3, ProcOnly
  <2> QED BY <1>3, <2>1, <2>2, <2>3 DEF Look
<1>4. CASE AskStatus(p)
  <2>1. PICK result \in {Report(m[q]), "unavailable"} :
            proc' = [proc EXCEPT ![p].stage = "apply", ![p].result = result]
    BY <1>4 DEF AskStatus
  <2> DEFINE s == [proc[p] EXCEPT !.stage = "apply", !.result = result]
  <2>2. /\ proc' = [proc EXCEPT ![p] = s] /\ s.stage = "apply" /\ s.q = q /\ s.t = t
        /\ s.result = result
    BY <1>1, <2>1 DEF ProcState
  <2> HIDE DEF s
  <2>3. q \in x.known
    BY <1>4 DEF AskStatus, PaidInv, ProcsAgree, AskerAgrees, Asking
  <2>4. (result = "succeeded" => m[q] = "paid") /\ (result = "failed" => m[q] = "refused")
    BY <2>1 DEF Report
  <2>5. SenderAgrees(s, x, m) /\ AskerAgrees(s, x, m) /\ s.stage \notin Sending
    BY <2>2, <2>3, <2>4 DEF SenderAgrees, AskerAgrees, Sending
  <2> QED BY <1>1, <1>4, <2>2, <2>5, ProcOnly DEF AskStatus
<1>5. CASE ApplyStatus(p)
  <2> DEFINE y == StatusOutcome(t, x, q, proc[p].result)
  <2>1. /\ q \in x.known /\ q \in Providers
        /\ proc[p].result = "succeeded" => m[q] = "paid"
        /\ proc[p].result = "failed" => m[q] = "refused"
    BY <1>5, ActiveProc DEF ApplyStatus, PaidInv, ProcsAgree, AskerAgrees, Asking
  <2>2. txn' = [txn EXCEPT ![t] = y] /\ Done(p)
    BY <1>5 DEF ApplyStatus
  <2>3. RowAgrees(t, y, m) /\ Keeps(x, y)
    BY <1>1, <2>1, CheckAgrees
  <2>4. \A r \in Procs : proc[r].stage \in Sending => proc[r].t # t
    BY <1>1, <2>1, NoSender
  <2>5. PICK s : proc' = [proc EXCEPT ![p] = s] /\ s.stage \notin Sending \cup Asking
    BY <2>2, DoneStage
  <2> HIDE DEF y
  <2> QED BY <1>1, <2>2, <2>3, <2>4, <2>5, RowConcluded
<1> QED BY <1>2, <1>3, <1>4, <1>5 DEF StatusCheck

\* A process ends, dies or starts what neither sends nor asks.
LEMMA ProcIdles ==
    ASSUME IInv, PaidInv, NEW p \in Procs, NEW s, UNCHANGED <<txn, money>>,
           proc' = [proc EXCEPT ![p] = s], s.stage \notin Sending \cup Asking
    PROVE  PaidInv'
<1>1. \A r \in Procs : proc'[r] = (IF r = p THEN s ELSE proc[r])
  BY DEF IInv, TypeOK
<1>2. RowsAgree'
  BY DEF PaidInv, RowsAgree
<1>3. OneSender'
  BY <1>1 DEF PaidInv, OneSender
<1>4. ProcsAgree'
  BY <1>1 DEF PaidInv, ProcsAgree, SenderAgrees, AskerAgrees
<1> QED BY <1>2, <1>3, <1>4 DEF PaidInv

LEMMA AskCodeAgrees ==
    ASSUME IInv, PaidInv, NEW p \in Procs, AskCode(p)
    PROVE  PaidInv'
<1> DEFINE t == proc[p].t
           q == proc[p].q
           x == txn[t]
           m == money[t]
           n == money'[t]
<1>1. /\ proc[p].stage = "askCode" /\ UNCHANGED txn /\ q \in Providers
      /\ proc[p] \in ProcState /\ t \in Txns /\ x \in TxnRow /\ RowAgrees(t, x, m)
      /\ proc \in [Procs -> ProcState] /\ money \in [Txns -> [Providers -> RequestFates]]
  BY BusyRow DEF AskCode, CallStages, PaidInv, RowsAgree, IInv, TypeOK, RequestFates
<1>2. PICK result : /\ proc' = [proc EXCEPT ![p].stage = "applyCode", ![p].result = result]
                    /\ result = "succeeded" => n[q] = "paid"
                    /\ result = "failed" => n[q] = "refused"
  BY DEF AskCode, Report
<1>3. money' = [money EXCEPT ![t] = n] /\ Moved(m, n)
  <2>1. CASE money' = [money EXCEPT ![t][q] = IF @ = "pending" THEN "paid" ELSE @]
    BY <1>1, <2>1 DEF Moved
  <2>2. CASE money' = money
    BY <1>1, <2>2 DEF Moved
  <2> QED BY <2>1, <2>2 DEF AskCode
<1> DEFINE s == [proc[p] EXCEPT !.stage = "applyCode", !.result = result]
<1>4. /\ proc' = [proc EXCEPT ![p] = s] /\ s.stage = "applyCode" /\ s.q = q /\ s.t = t
      /\ s.result = result
  BY <1>1, <1>2 DEF ProcState
<1> HIDE DEF s, n
<1>5. q \in x.known
  BY <1>1 DEF PaidInv, ProcsAgree, AskerAgrees, Asking
<1>6. SenderAgrees(s, x, n) /\ AskerAgrees(s, x, n) /\ s.stage \notin Sending
  BY <1>2, <1>4, <1>5 DEF SenderAgrees, AskerAgrees, Sending
<1>7. RowAgrees(t, x, n)
  BY <1>1, <1>3, RowMoved
<1>8. ASSUME NEW r \in Procs, proc[r].stage \in Sending \cup Asking, proc[r].t = t
      PROVE  SenderAgrees(proc[r], x, n) /\ AskerAgrees(proc[r], x, n)
  <2>1. SenderAgrees(proc[r], x, m) /\ AskerAgrees(proc[r], x, m)
    BY <1>8 DEF PaidInv, ProcsAgree
  <2>2. Keeps(x, x)
    BY DEF Keeps
  <2> QED BY <1>3, <1>8, <2>1, <2>2, ActiveProc, OtherKept
<1>9. txn' = [txn EXCEPT ![t] = x]
  BY <1>1 DEF IInv, TypeOK
<1> HIDE DEF x, m
<1>10. Writes(t, x, n, p, s)
  BY <1>3, <1>4, <1>9 DEF Writes
<1>11. WritesAgree(t, x, n, p, s)
  BY <1>4, <1>6, <1>7, <1>8 DEF WritesAgree
<1> QED BY <1>1, <1>10, <1>11, ProcGoesOn

LEMMA ApplyCodeAgrees ==
    ASSUME IInv, PaidInv, NEW p \in Procs, ApplyCode(p)
    PROVE  PaidInv'
<1> DEFINE t == proc[p].t
           q == proc[p].q
           x == txn[t]
           m == money[t]
           y == CASE proc[p].result = "succeeded" -> FinalizeSuccess(t, x, q)
                  [] proc[p].result = "failed" -> FinalizeFailure(t, x, q, "failed")
                  [] OTHER -> x
<1>1. /\ proc[p].stage = "applyCode" /\ UNCHANGED money /\ Done(p) /\ q \in Providers
      /\ proc[p] \in ProcState /\ t \in Txns /\ x \in TxnRow /\ RowAgrees(t, x, m)
      /\ txn' = [txn EXCEPT ![t] = y]
  BY BusyRow DEF ApplyCode, CallStages, PaidInv, RowsAgree
<1>2. /\ q \in x.known /\ q = x.current
      /\ proc[p].result = "succeeded" => m[q] = "paid"
      /\ proc[p].result = "failed" => m[q] = "refused"
  BY <1>1 DEF PaidInv, ProcsAgree, AskerAgrees, Asking, RowAgrees
<1>3. RowAgrees(t, y, m) /\ Keeps(x, y)
  <2>1. CASE proc[p].result = "succeeded"
    <3>1. y = FinalizeSuccess(t, x, q)
      BY <2>1
    <3> HIDE DEF y
    <3> QED BY <1>1, <1>2, <2>1, <3>1, SuccessKeeps, RowKept
  <2>2. CASE proc[p].result = "failed"
    <3>1. \A r \in Providers : r = x.current => Gone(y, m, r)
      BY <1>2, <2>2 DEF Gone, Dead
    <3>2. y = FinalizeFailure(t, x, q, "failed")
      BY <2>2
    <3> HIDE DEF y
    <3> QED BY <1>1, <1>2, <3>1, <3>2, FailureKeeps, RowKept
  <2>3. CASE proc[p].result \notin {"succeeded", "failed"}
    BY <1>1, <2>3 DEF Keeps
  <2> QED BY <2>1, <2>2, <2>3
<1>4. \A r \in Procs : proc[r].stage \in Sending => proc[r].t # t
  BY <1>1, <1>2, NoSender
<1>5. PICK s : proc' = [proc EXCEPT ![p] = s] /\ s.stage \notin Sending \cup Asking
  BY <1>1, DoneStage
<1> HIDE DEF y
<1> QED BY <1>1, <1>3, <1>4, <1>5, RowConcluded

LEMMA ConfirmAgrees ==
    ASSUME IInv, PaidInv, NEW p \in Procs, NEW t \in Txns, Confirm(p, t)
    PROVE  PaidInv'
<1> DEFINE created == [Absent EXCEPT !.state = "created"]
           y == IF t \in Disbursements THEN Reserve(t, created) ELSE created
           s == Running("prepare", t, "none")
           m == money[t]
<1>1. /\ txn' = [txn EXCEPT ![t] = y] /\ proc' = [proc EXCEPT ![p] = s] /\ UNCHANGED money
      /\ txn[t].state = "absent" /\ RowAgrees(t, txn[t], m)
  BY DEF Confirm, PaidInv, RowsAgree
<1>2. /\ y.state = "created" /\ y.current = None /\ y.known = {}
      /\ s.stage \notin Sending \cup Asking
  BY DEF Absent, Reserve, Running, Idle, Sending, Asking
<1>3. txn[t] = Absent
  BY <1>1 DEF IInv, Rows, GoodRow
<1>4. \A q \in Providers : m[q] = "none" /\ y.attempt[q] = "none"
  BY <1>1, <1>3 DEF RowAgrees, Absent, Reserve
<1> HIDE DEF y, s, m
<1>5. RowAgrees(t, y, m)
  BY <1>2, <1>4 DEF RowAgrees, Gone, Dead
<1>6. ASSUME NEW r \in Procs, proc[r].stage \in Sending \cup Asking, proc[r].t = t PROVE FALSE
  <2>1. txn[t].known = {}
    BY <1>3 DEF Absent
  <2>2. proc[r].stage \notin Sending
    BY <1>1, <1>6, NoSender
  <2>3. AskerAgrees(proc[r], txn[t], money[t])
    BY <1>6 DEF PaidInv, ProcsAgree
  <2> QED BY <1>6, <2>1, <2>2, <2>3 DEF AskerAgrees
<1>7. Writes(t, y, m, p, s)
  BY <1>1 DEF IInv, TypeOK, Writes, m
<1>8. WritesAgree(t, y, m, p, s)
  BY <1>2, <1>5, <1>6 DEF WritesAgree
<1> QED BY <1>7, <1>8, ProcGoesOn

LEMMA SubmitCodeAgrees ==
    ASSUME IInv, PaidInv, NEW p \in Procs, NEW t \in Txns, SubmitCode(p, t)
    PROVE  PaidInv'
<1> DEFINE s == [Running("askCode", t, "none") EXCEPT !.q = txn[t].current]
<1>1. proc' = [proc EXCEPT ![p] = s] /\ UNCHANGED <<txn, money>> /\ txn[t].state = "action_required"
  BY DEF SubmitCode
<1>2. s.stage = "askCode" /\ s.q = txn[t].current /\ s.t = t
  BY DEF Running, Idle
<1>3. txn[t].current \in txn[t].known
  BY <1>1 DEF PaidInv, RowsAgree, RowAgrees
<1> HIDE DEF s
<1>4. SenderAgrees(s, txn[t], money[t]) /\ AskerAgrees(s, txn[t], money[t]) /\ s.stage \notin Sending
  BY <1>2, <1>3 DEF SenderAgrees, AskerAgrees, Sending
<1> QED BY <1>1, <1>2, <1>4, ProcOnly

\* The environment and an administrator move a row's check or what is pending at a provider.
LEMMA OutsideAgrees ==
    ASSUME IInv, PaidInv, NEW t \in Txns, NEW y, NEW n, UNCHANGED proc,
           txn' = [txn EXCEPT ![t] = y], money' = [money EXCEPT ![t] = n],
           Keeps(txn[t], y), y.state = txn[t].state, Moved(money[t], n)
    PROVE  PaidInv'
<1>1. /\ \A u \in Txns : txn'[u] = (IF u = t THEN y ELSE txn[u])
      /\ \A u \in Txns : money'[u] = (IF u = t THEN n ELSE money[u])
  BY DEF IInv, TypeOK
<1>2. RowAgrees(t, y, n)
  BY RowKept, RowMoved DEF PaidInv, RowsAgree
<1>3. RowsAgree'
  BY <1>1, <1>2 DEF PaidInv, RowsAgree
<1>4. OneSender'
  BY DEF PaidInv, OneSender
<1>5. ASSUME NEW r \in Procs
      PROVE  /\ SenderAgrees(proc[r], txn'[proc[r].t], money'[proc[r].t])
             /\ AskerAgrees(proc[r], txn'[proc[r].t], money'[proc[r].t])
  <2>1. SenderAgrees(proc[r], txn[proc[r].t], money[proc[r].t])
        /\ AskerAgrees(proc[r], txn[proc[r].t], money[proc[r].t])
    BY DEF PaidInv, ProcsAgree
  <2>2. CASE proc[r].stage \notin Sending \cup Asking
    BY <2>2 DEF SenderAgrees, AskerAgrees
  <2>3. CASE proc[r].stage \in Sending \cup Asking /\ proc[r].t = t
    <3>1. SenderAgrees(proc[r], y, n) /\ AskerAgrees(proc[r], y, n)
      BY <2>1, <2>3, ActiveProc, OtherKept
    <3> QED BY <1>1, <2>3, <3>1
  <2>4. CASE proc[r].stage \in Sending \cup Asking /\ proc[r].t # t
    BY <1>1, <2>1, <2>4, ActiveProc
  <2> QED BY <2>2, <2>3, <2>4
<1>6. ProcsAgree'
  BY <1>5 DEF ProcsAgree
<1> QED BY <1>3, <1>4, <1>6 DEF PaidInv

\* A process that is idle again neither sends nor asks.
LEMMA IdleAgrees ==
    ASSUME IInv, PaidInv, NEW p \in Procs, proc' = [proc EXCEPT ![p] = Idle], UNCHANGED <<txn, money>>
    PROVE  PaidInv'
<1>1. Idle.stage \notin Sending \cup Asking
  BY DEF Idle, Sending, Asking
<1> QED BY <1>1, ProcIdles

LEMMA ThrowAgrees ==
    ASSUME IInv, PaidInv, NEW p \in Procs, PrepareThrows(p)
    PROVE  PaidInv'
BY IdleAgrees DEF PrepareThrows, JobFails

\* One case per action.
LEMMA NextPaidInv == IInv /\ PaidInv /\ [Next]_vars => PaidInv'
<1> SUFFICES ASSUME IInv, PaidInv, [Next]_vars PROVE PaidInv'
  OBVIOUS
<1>1. ASSUME NEW p \in Procs, Submission(p) \/ StatusCheck(p) \/ CodeEntry(p) PROVE PaidInv'
  BY <1>1, PrepareAgrees, ThrowAgrees, CallAgrees, RecordAgrees, StatusAgrees, AskCodeAgrees,
     ApplyCodeAgrees
     DEF Submission, CodeEntry
<1>2. ASSUME NEW p \in Procs, FinishJob(p) \/ Die(p) PROVE PaidInv'
  <2>1. proc' = [proc EXCEPT ![p] = Idle] /\ UNCHANGED <<txn, money>>
    BY <1>2 DEF FinishJob, Die, JobFails
  <2> QED BY <2>1, IdleAgrees
<1>3. ASSUME NEW r \in Requests, NEW t \in Txns, Confirm(r, t) \/ SubmitCode(r, t) PROVE PaidInv'
  BY <1>3, ConfirmAgrees, SubmitCodeAgrees DEF Procs
<1>4. ASSUME NEW w \in Workers, NEW t \in Txns,
             SweepSelect(w, t) \/ ClaimSubmit(w, t) \/ ClaimStatus(w, t)
      PROVE  PaidInv'
  <2>1. PICK stage \in {"defer", "prepare", "look"}, job \in {"none", "submit", "status"} :
            proc' = [proc EXCEPT ![w] = Running(stage, t, job)] /\ UNCHANGED <<txn, money>>
    BY <1>4 DEF SweepSelect, ClaimSubmit, ClaimStatus
  <2>2. Running(stage, t, job).stage \notin Sending \cup Asking
    BY DEF Running, Idle, Sending, Asking
  <2> QED BY <2>1, <2>2, ProcIdles DEF Procs
<1>5. ASSUME NEW t \in Txns, ProviderNotifies(t) \/ ForceRecheck(t) PROVE PaidInv'
  <2> DEFINE y == Schedule(txn[t])
             m == money[t]
  <2>1. /\ txn' = [txn EXCEPT ![t] = y] /\ UNCHANGED proc /\ money' = [money EXCEPT ![t] = m]
        /\ txn[t] \in TxnRow
    BY <1>5 DEF ProviderNotifies, ForceRecheck, CheckNow, IInv, TypeOK
  <2>2. Keeps(txn[t], y) /\ y.state = txn[t].state /\ Moved(money[t], m)
    BY <2>1, ScheduleKeeps DEF Moved
  <2> HIDE DEF y, m
  <2> QED BY <2>1, <2>2, OutsideAgrees
<1>6. ASSUME NEW t \in Txns, NEW q \in Providers, ProviderConcludes(t, q) PROVE PaidInv'
  <2> DEFINE x == txn[t]
             n == money'[t]
  <2>1. /\ txn' = [txn EXCEPT ![t] = x] /\ UNCHANGED proc /\ money' = [money EXCEPT ![t] = n]
        /\ Moved(money[t], n)
    BY <1>6 DEF ProviderConcludes, IInv, TypeOK, Moved
  <2>2. Keeps(txn[t], x) /\ x.state = txn[t].state
    BY DEF Keeps
  <2> HIDE DEF x, n
  <2> QED BY <2>1, <2>2, OutsideAgrees
<1>7. CASE UNCHANGED <<txn, money, proc>>
  BY <1>7 DEF PaidInv, RowsAgree, ProcsAgree, OneSender
<1>8. CASE UNCHANGED vars
  BY <1>7, <1>8 DEF vars
<1>9. ASSUME NEW t \in Txns, WindowCloses(t) \/ CeilingPasses(t) PROVE PaidInv'
  BY <1>7, <1>9 DEF WindowCloses, CeilingPasses
<1> QED BY <1>1, <1>2, <1>3, <1>4, <1>5, <1>6, <1>8, <1>9 DEF Next, Progress

LEMMA InitPaidInv == Init => PaidInv
<1> SUFFICES ASSUME Init PROVE PaidInv
  OBVIOUS
<1>1. RowsAgree
  BY DEF Init, RowsAgree, RowAgrees, Gone, Absent, Dead
<1>2. ProcsAgree
  BY DEF Init, ProcsAgree, SenderAgrees, AskerAgrees, Idle, Sending, Asking
<1>3. OneSender
  BY DEF Init, OneSender, Idle, Sending
<1> QED BY <1>1, <1>2, <1>3 DEF PaidInv

-----------------------------------------------------------------------------
(***************************************************************************)
(* The theorems.                                                           *)
(***************************************************************************)
LEMMA AlwaysAgree == Spec => []PaidInv
<1>1. Init => PaidInv
  BY InitPaidInv
<1>2. IInv /\ PaidInv /\ [Next]_vars => PaidInv'
  BY NextPaidInv
<1> QED BY <1>1, <1>2, Inductive, PTL DEF Spec

LEMMA AtMostOne ==
    ASSUME NEW S, NEW e, S \subseteq {e}
    PROVE  Cardinality(S) <= 1
<1>1. S = {} \/ S = {e}
  OBVIOUS
<1>2. Cardinality({}) = 0
  BY FS_EmptySet
<1>3. Cardinality({e}) = 1
  BY FS_Singleton
<1> QED BY <1>1, <1>2, <1>3

\* Whatever the number of providers, processes and deaths, and whatever became of the calls that were
\* answered as unavailable or rejected: apart from those no two providers ever hold a request that may
\* move, or has moved, the money of one transaction, and a payout without fallback is sent once.
THEOREM AlwaysSentOnce == Spec => []SentOnce
<1>1. ASSUME PaidInv PROVE SentOnce
  <2> SUFFICES ASSUME NEW t \in Txns
               PROVE  /\ Cardinality(Live(t) \ TurnedDown(t)) <= 1
                      /\ ~FallbackAllowed(t) => Cardinality(Live(t)) <= 1
    BY DEF SentOnce
  <2>1. RowAgrees(t, txn[t], money[t])
    BY <1>1 DEF PaidInv, RowsAgree
  <2>2. Live(t) \ TurnedDown(t) \subseteq {txn[t].current}
    BY <2>1 DEF RowAgrees, Gone, Dead, Live, TurnedDown
  <2>3. ~FallbackAllowed(t) => Live(t) \subseteq {txn[t].current}
    BY <2>1 DEF RowAgrees, Live
  <2> QED BY <2>2, <2>3, AtMostOne
<1>2. PaidInv => SentOnce
  BY <1>1
<1> QED BY <1>2, AlwaysAgree, PTL

\* A recorded success is the current provider's payment, and a recorded failure, which released the
\* reservation, leaves no request that may still move money but those answered as unavailable or
\* rejected.
THEOREM OutcomeIsTheProviders == Spec => []OutcomeFollowsMoney
<1>1. ASSUME PaidInv PROVE OutcomeFollowsMoney
  <2> SUFFICES ASSUME NEW t \in Txns
               PROVE  /\ txn[t].state = "succeeded"
                              => txn[t].current # None /\ money[t][txn[t].current] = "paid"
                      /\ txn[t].state = "failed" => Live(t) \subseteq TurnedDown(t)
    BY DEF OutcomeFollowsMoney
  <2>1. RowAgrees(t, txn[t], money[t])
    BY <1>1 DEF PaidInv, RowsAgree
  <2> QED BY <2>1, ConstantsOK DEF RowAgrees, Gone, Live, TurnedDown, Dead
<1>2. PaidInv => OutcomeFollowsMoney
  BY <1>1
<1> QED BY <1>2, AlwaysAgree, PTL

-----------------------------------------------------------------------------
(***************************************************************************)
(* Corrections: the corrected row.                                         *)
(***************************************************************************)

\* The books of the row a correction to failed leaves of a success: what was paid out comes back
\* through reserved, what was credited is taken back.
ReversedBook(t, x) ==
    LET n == x.settled
    IN  IF t \in Disbursements
        THEN Move(Move(Move(x.book, "outside", "reserved", n["disbursement_settlement"] * Amount[t]),
                       "outside", "suspense", n["suspense_settlement"] * Amount[t]),
                  "reserved", "available", Amount[t])
        ELSE Move(x.book, "available", "outside", n["collection"] * Amount[t])

LEMMA ReservedRow ==
    ASSUME NEW t \in Txns, NEW x \in TxnRow
    PROVE  /\ Reopen(IF t \in Disbursements THEN Reserve(t, x) ELSE x) \in TxnRow
           /\ Reopen(IF t \in Disbursements THEN Reserve(t, x) ELSE x).state = "processing"
           /\ Reopen(IF t \in Disbursements THEN Reserve(t, x) ELSE x).book
                = Shifted(t, x, "available", "reserved")
           /\ Reopen(IF t \in Disbursements THEN Reserve(t, x) ELSE x).settled = x.settled
           /\ Reopen(IF t \in Disbursements THEN Reserve(t, x) ELSE x).current = x.current
<1>1. x.book \in [Accounts -> Int] /\ Amount[t] \in Int
  BY ConstantsOK DEF TxnRow
<1> DEFINE b == Move(x.book, "available", "reserved", Amount[t])
<1>2. b \in [Accounts -> Int]
  BY <1>1, MoveType DEF Accounts
<1>3. CASE t \in Disbursements
  <2> DEFINE y == [x EXCEPT !.book = b]
  <2>1. /\ y \in TxnRow /\ y.book = b /\ y.settled = x.settled /\ y.current = x.current
        /\ Reserve(t, x) = y
    BY <1>2 DEF Reserve, TxnRow
  <2> HIDE DEF y, b
  <2>2. /\ Reopen(y) \in TxnRow /\ Reopen(y).state = "processing" /\ Reopen(y).book = y.book
        /\ Reopen(y).settled = y.settled /\ Reopen(y).current = y.current
    BY <2>1 DEF Reopen, TxnRow, States, OpenStates, Checkable
  <2> QED BY <1>3, <2>1, <2>2 DEF b, Shifted
<1>4. CASE t \notin Disbursements
  BY <1>4 DEF Reopen, Shifted, TxnRow, States, OpenStates, Checkable
<1> QED BY <1>3, <1>4

LEMMA CorrectToFailedRow ==
    ASSUME NEW t \in Txns, NEW x \in TxnRow, x.state = "succeeded"
    PROVE  /\ CorrectToFailed(t, x) \in TxnRow
           /\ CorrectToFailed(t, x).state = "failed"
           /\ CorrectToFailed(t, x).settled = x.settled
           /\ CorrectToFailed(t, x).book = ReversedBook(t, x)
<1> DEFINE n == x.settled
           back == Reversal(t, x).book
           undone == [x EXCEPT !.book = back]
           open == Reopen(undone)
           freed == IF t \in Disbursements THEN Move(back, "reserved", "available", Amount[t]) ELSE back
           ended == FinalizeFailure(t, open, x.current, "failed")
<1>1. /\ x.book \in [Accounts -> Int] /\ Amount[t] \in Int
      /\ \A e \in SettlementEntries : n[e] * Amount[t] \in Int
  BY ConstantsOK DEF TxnRow
<1>2. back \in [Accounts -> Int] /\ Reversal(t, x) = undone
  <2> DEFINE b == IF t \in Disbursements
                  THEN Move(Move(x.book, "outside", "reserved", n["disbursement_settlement"] * Amount[t]),
                            "outside", "suspense", n["suspense_settlement"] * Amount[t])
                  ELSE Move(x.book, "available", "outside", n["collection"] * Amount[t])
  <2>1. b \in [Accounts -> Int]
    BY <1>1, MoveType DEF Accounts, SettlementEntries
  <2>2. Reversal(t, x) = [x EXCEPT !.book = b]
    BY DEF Reversal
  <2> HIDE DEF b
  <2> QED BY <2>1, <2>2 DEF TxnRow
<1>3. freed \in [Accounts -> Int] /\ freed = ReversedBook(t, x)
  <2>1. freed \in [Accounts -> Int]
    BY <1>1, <1>2, MoveType DEF Accounts
  <2>2. freed = ReversedBook(t, x)
    BY DEF Reversal, ReversedBook, TxnRow
  <2> QED BY <2>1, <2>2
<1> HIDE DEF back, freed
<1>4. undone \in TxnRow /\ undone.settled = x.settled /\ undone.current = x.current /\ undone.book = back
  BY <1>2 DEF TxnRow
<1> HIDE DEF undone
<1>5. /\ open \in TxnRow /\ open.state = "processing" /\ open.settled = x.settled
      /\ open.current \in Providers \cup {None} /\ open.current = x.current
  BY <1>4 DEF Reopen, TxnRow, States, OpenStates, Checkable
<1> HIDE DEF open
<1>6. ended \in TxnRow /\ ended.state = "failed" /\ ended.settled = x.settled
  <2>1. ended \in TxnRow
    BY <1>5, FailureIsGood
  <2>2. Fails(t, open, ended) /\ ended.state = "failed"
    BY <1>5 DEF FinalizeFailure, Fails, Undecided, TxnRow, OpenStates, Checkable, TerminalStates
  <2> QED BY <1>5, <2>1, <2>2 DEF Fails
<1> HIDE DEF ended
<1>7. CorrectToFailed(t, x) = [ended EXCEPT !.book = freed]
  BY <1>2 DEF CorrectToFailed, ended, open, freed, back, undone
<1> QED BY <1>3, <1>6, <1>7 DEF TxnRow

MainEntry(t) == IF t \in Disbursements THEN "disbursement_settlement" ELSE "collection"

\* A failure corrected: the reservation is taken again and settled at once.
Resettles(t, x, y) ==
    /\ x.state \in {"failed", "expired"} /\ y.state = "succeeded"
    /\ y.book = IF t \in Disbursements
                THEN Move(Move(x.book, "available", "reserved", Amount[t]), "reserved", "outside", Amount[t])
                ELSE Move(x.book, "outside", "available", Amount[t])
    /\ y.settled = [x.settled EXCEPT ![MainEntry(t)] = @ + 1]

\* A success corrected: its settlements are reversed and the reservation is released.
Reverses(t, x, y) ==
    /\ x.state = "succeeded" /\ y.state = "failed"
    /\ y.book = ReversedBook(t, x) /\ y.settled = x.settled

\* What a correction does to the row: what the lifecycle might have done, or one of the two above.
LEMMA CorrectedRow ==
    ASSUME NEW t \in Txns, NEW x \in TxnRow, x.state # "absent", NEW kind
    PROVE  LET y == Corrected(t, x, kind)
           IN  /\ y \in TxnRow /\ y.state \in TerminalStates
               /\ \/ Outcome(t, x, y) /\ (kind # "succeeded" => x.state # "succeeded")
                  \/ Resettles(t, x, y) /\ kind = "succeeded"
                  \/ Reverses(t, x, y) /\ kind # "succeeded"
<1> DEFINE y == Corrected(t, x, kind)
<1>0. x.current \in Providers \cup {None}
  BY DEF TxnRow
<1>1. CASE kind = "succeeded" /\ x.state \in {"failed", "expired"}
  <2> DEFINE z == Reopen(IF t \in Disbursements THEN Reserve(t, x) ELSE x)
  <2>1. y = FinalizeSuccess(t, z, x.current)
    BY <1>1 DEF Corrected, CorrectToSucceeded
  <2>2. /\ z \in TxnRow /\ z.state = "processing" /\ z.settled = x.settled
        /\ z.book = Shifted(t, x, "available", "reserved")
    BY ReservedRow
  <2> HIDE DEF z, y
  <2>3. y \in TxnRow /\ y.state \in TerminalStates
    BY <1>0, <2>1, <2>2, SuccessIsGood
  <2>4. Succeeds(t, z, y)
    BY <2>1, <2>2 DEF FinalizeSuccess, Succeeds, Undecided, TxnRow, OpenStates, Checkable, TerminalStates
  <2>5. /\ Settle(t, z) = IF t \in Disbursements THEN Move(z.book, "reserved", "outside", Amount[t])
                          ELSE Move(z.book, "outside", "available", Amount[t])
        /\ SettlementEntry(t, z) = MainEntry(t)
    BY <2>2 DEF Settle, Source, SettlementEntry, MainEntry
  <2>6. Resettles(t, x, y)
    BY <1>1, <2>2, <2>4, <2>5 DEF Resettles, Succeeds, Shifted
  <2> QED BY <1>1, <2>3, <2>6 DEF y
<1>2. CASE kind = "succeeded" /\ x.state \notin {"failed", "expired"}
  <2>1. y = FinalizeSuccess(t, x, x.current)
    BY <1>2 DEF Corrected, CorrectToSucceeded
  <2> QED BY <1>0, <1>2, <2>1, SuccessIsGood, SuccessOutcome
<1>3. CASE kind # "succeeded" /\ x.state = "succeeded"
  <2>1. y = CorrectToFailed(t, x)
    BY <1>3 DEF Corrected
  <2> QED BY <1>3, <2>1, CorrectToFailedRow DEF Reverses, TerminalStates
<1>4. CASE kind # "succeeded" /\ x.state # "succeeded"
  <2>1. y = FinalizeFailure(t, x, x.current, "failed")
    BY <1>4 DEF Corrected, CorrectToFailed
  <2> QED BY <1>0, <1>4, <2>1, FailureIsGood, FailureOutcome
<1> QED BY <1>1, <1>2, <1>3, <1>4

-----------------------------------------------------------------------------
(***************************************************************************)
(* The invariant of the lifecycle, and what is true of the findings: none  *)
(* is both open and resolved, none names a transaction that never began,   *)
(* and what was reversed was reversed by a finding that is resolved.       *)
(***************************************************************************)
Findings ==
    \A t \in Txns :
        /\ disputed[t] \cap resolved[t] = {}
        /\ disputed[t] # {} => Started(t)
        /\ reversed[t] # Zero => resolved[t] \ {"succeeded"} # {}

CInv == IInv /\ CorrectionTypeOK /\ Findings

LEMMA CorrectKeepsIInv ==
    ASSUME CInv, NEW t \in Txns, NEW kind \in Kinds, Correct(t, kind)
    PROVE  IInv'
<1> DEFINE x == txn[t]
           y == Corrected(t, x, kind)
<1>1. x \in TxnRow /\ x.state # "absent"
  BY DEF CInv, IInv, Rows, Findings, Started, Correct, Resolve
<1>2. y \in TxnRow /\ y.state \in TerminalStates
  BY <1>1, CorrectedRow
<1>3. txn' = [txn EXCEPT ![t] = y] /\ UNCHANGED <<jobs, proc, money, late, wrong, deaths>>
  BY DEF Correct
<1> HIDE DEF y
<1>4. Rows' /\ Kept
  BY <1>2, <1>3, TerminalIsGood, RowStep DEF CInv, IInv
<1>5. proc' \in [Procs -> ProcState] /\ Busy'
  BY <1>3, <1>4 DEF CInv, IInv, TypeOK, Busy, Kept, Started
<1> QED BY <1>3, <1>4, <1>5, RowAndProc DEF CInv

LEMMA CInvInit == CorrectionInit => CInv
<1> SUFFICES ASSUME CorrectionInit PROVE CInv
  OBVIOUS
<1>1. IInv
  BY InitIInv DEF CorrectionInit
<1>2. CorrectionTypeOK /\ Findings
  BY DEF CorrectionInit, CorrectionTypeOK, Findings, Zero
<1> QED BY <1>1, <1>2 DEF CInv

LEMMA RaiseKeeps ==
    ASSUME CInv, NEW t \in Txns, NEW kind \in Kinds, Raise(t, kind)
    PROVE  CInv'
<1>1. UNCHANGED <<vars, resolved, reversed>> /\ disputed' = [disputed EXCEPT ![t] = @ \cup {kind}]
  BY DEF Raise
<1>2. IInv' /\ UNCHANGED txn
  BY <1>1, StutterStep DEF CInv, vars
<1>3. CorrectionTypeOK'
  BY <1>1 DEF CInv, CorrectionTypeOK
<1>4. Findings'
  BY <1>1, <1>2 DEF CInv, CorrectionTypeOK, Findings, Raise, Started
<1> QED BY <1>2, <1>3, <1>4 DEF CInv

LEMMA ResolveFindings ==
    ASSUME CInv, NEW t \in Txns, NEW kind \in Kinds, Resolve(t, kind), Kept,
           reversed' \in [Txns -> [SettlementEntries -> Nat]],
           \A u \in Txns : reversed'[u] # reversed[u] => u = t /\ kind # "succeeded"
    PROVE  CorrectionTypeOK' /\ Findings'
<1>1. /\ disputed' = [disputed EXCEPT ![t] = @ \ {kind}] /\ kind \in disputed[t]
      /\ resolved' = [resolved EXCEPT ![t] = @ \cup {kind}]
      /\ disputed \in [Txns -> SUBSET Kinds] /\ resolved \in [Txns -> SUBSET Kinds]
  BY DEF Resolve, CInv, CorrectionTypeOK
<1>2. CorrectionTypeOK'
  BY <1>1 DEF CorrectionTypeOK
<1>3. ASSUME NEW u \in Txns
      PROVE  /\ disputed'[u] \cap resolved'[u] = {}
             /\ disputed'[u] # {} => txn'[u].state # "absent"
             /\ reversed'[u] # Zero => resolved'[u] \ {"succeeded"} # {}
  <2>1. /\ disputed[u] \cap resolved[u] = {} /\ (disputed[u] # {} => txn'[u].state # "absent")
        /\ (reversed[u] # Zero => resolved[u] \ {"succeeded"} # {})
    BY DEF CInv, Findings, Kept, Started
  <2>2. CASE u = t
    BY <1>1, <2>1, <2>2
  <2>3. CASE u # t
    BY <1>1, <2>1, <2>3
  <2> QED BY <2>2, <2>3
<1> QED BY <1>2, <1>3 DEF Findings, Started, Zero

LEMMA DismissKeeps ==
    ASSUME CInv, NEW t \in Txns, NEW kind \in Kinds, Dismiss(t, kind)
    PROVE  CInv'
<1>1. IInv' /\ UNCHANGED <<txn, reversed>> /\ Resolve(t, kind)
  BY StutterStep DEF CInv, Dismiss, vars
<1>2. CorrectionTypeOK' /\ Findings'
  BY <1>1, ResolveFindings DEF CInv, CorrectionTypeOK, Kept, Started
<1> QED BY <1>1, <1>2 DEF CInv

LEMMA CorrectKeeps ==
    ASSUME CInv, NEW t \in Txns, NEW kind \in Kinds, Correct(t, kind)
    PROVE  CInv'
<1>1. IInv' /\ Resolve(t, kind)
  BY CorrectKeepsIInv DEF Correct
<1>2. Kept
  <2>1. txn[t] \in TxnRow /\ txn[t].state # "absent" /\ txn' = [txn EXCEPT ![t] = Corrected(t, txn[t], kind)]
    BY DEF CInv, IInv, Rows, Findings, Started, Correct, Resolve
  <2>2. Corrected(t, txn[t], kind).state \in TerminalStates
    BY <2>1, CorrectedRow
  <2> QED BY <2>1, <2>2, StateSets DEF CInv, IInv, Rows, Kept, Started
<1>3. /\ reversed' \in [Txns -> [SettlementEntries -> Nat]]
      /\ \A u \in Txns : reversed'[u] # reversed[u] => u = t /\ kind # "succeeded"
  <2>1. reversed \in [Txns -> [SettlementEntries -> Nat]] /\ txn[t].settled \in [SettlementEntries -> Nat]
    BY DEF CInv, IInv, Rows, CorrectionTypeOK, TxnRow
  <2> DEFINE r == IF kind # "succeeded" /\ txn[t].state = "succeeded"
                  THEN [e \in SettlementEntries |-> reversed[t][e] + txn[t].settled[e]] ELSE reversed[t]
  <2>2. reversed' = [reversed EXCEPT ![t] = r]
    BY DEF Correct
  <2>3. r \in [SettlementEntries -> Nat] /\ (r # reversed[t] => kind # "succeeded")
    BY <2>1
  <2> HIDE DEF r
  <2> QED BY <2>1, <2>2, <2>3
<1>4. CorrectionTypeOK' /\ Findings'
  BY <1>1, <1>2, <1>3, ResolveFindings
<1> QED BY <1>1, <1>4 DEF CInv

LEMMA LifecycleKeeps ==
    ASSUME CInv, [Next]_vars, UNCHANGED reconciliation
    PROVE  CInv'
<1>1. IInv' /\ RowMoves /\ UNCHANGED <<disputed, resolved, reversed>>
  BY NextIInv, NextMoves DEF CInv, reconciliation
<1>2. CorrectionTypeOK'
  BY <1>1 DEF CInv, CorrectionTypeOK
<1>3. Kept
  <2>1. txn \in [Txns -> TxnRow]
    BY DEF CInv, IInv, Rows
  <2>2. ASSUME NEW t \in Txns, NEW y, Outcome(t, txn[t], y), txn[t].state # "absent"
        PROVE  y.state # "absent"
    BY <2>2, StateSets DEF Outcome, Stays, Begins, Advances, Suspends, Succeeds, Fails
  <2> QED BY <1>1, <2>1, <2>2 DEF RowMoves, Kept, Started
<1>4. Findings'
  BY <1>1, <1>3 DEF CInv, Findings, Kept, Started, Zero
<1> QED BY <1>1, <1>2, <1>4 DEF CInv

LEMMA CInvStep == CInv /\ [CorrectionNext]_correctionVars => CInv'
<1> SUFFICES ASSUME CInv, [CorrectionNext]_correctionVars PROVE CInv'
  OBVIOUS
<1>1. CASE Next /\ UNCHANGED reconciliation
  BY <1>1, LifecycleKeeps
<1>2. ASSUME NEW t \in Txns, NEW kind \in Kinds, Raise(t, kind) \/ Correct(t, kind) \/ Dismiss(t, kind)
      PROVE  CInv'
  BY <1>2, RaiseKeeps, CorrectKeeps, DismissKeeps
<1>3. CASE UNCHANGED correctionVars
  BY <1>3, LifecycleKeeps DEF correctionVars
<1> QED BY <1>1, <1>2, <1>3 DEF CorrectionNext

LEMMA CInductive == CorrectionSpec => []CInv
<1>1. CorrectionInit => CInv
  BY CInvInit
<1>2. CInv /\ [CorrectionNext]_correctionVars => CInv'
  BY CInvStep
<1> QED BY <1>1, <1>2, PTL DEF CorrectionSpec

\* A concluded transaction changes its state only where one of its findings is resolved by the very
\* step that changes it, and it is concluded again afterwards.
THEOREM OnlyCorrectionsReopen == CorrectionSpec => LeftByCorrectionOnly
<1> DEFINE Left == \A t \in Txns :
                       (txn[t].state \in TerminalStates /\ txn'[t].state # txn[t].state) =>
                           /\ txn'[t].state \in TerminalStates
                           /\ resolved'[t] # resolved[t]
<1>1. CInv /\ [CorrectionNext]_correctionVars => Left
  <2> SUFFICES ASSUME CInv, [CorrectionNext]_correctionVars PROVE Left
    OBVIOUS
  <2>0. txn \in [Txns -> TxnRow] /\ resolved \in [Txns -> SUBSET Kinds]
    BY DEF CInv, IInv, Rows, CorrectionTypeOK
  <2>1. ASSUME [Next]_vars PROVE Left
    <3>1. RowMoves
      BY <2>1, NextMoves DEF CInv
    <3>2. ASSUME NEW t \in Txns, NEW y, Outcome(t, txn[t], y), txn[t].state \in TerminalStates
          PROVE  y.state = txn[t].state
      BY <3>2, StateSets DEF Outcome, Stays, Begins, Advances, Suspends, Succeeds, Fails
    <3> QED BY <2>0, <3>1, <3>2 DEF RowMoves
  <2>2. ASSUME NEW t \in Txns, NEW kind \in Kinds, Correct(t, kind) PROVE Left
    <3>1. /\ txn' = [txn EXCEPT ![t] = Corrected(t, txn[t], kind)]
          /\ kind \in disputed[t] /\ resolved' = [resolved EXCEPT ![t] = @ \cup {kind}]
      BY <2>2 DEF Correct, Resolve
    <3>2. kind \notin resolved[t] /\ txn[t].state # "absent"
      BY <3>1 DEF CInv, Findings, Started
    <3>3. Corrected(t, txn[t], kind).state \in TerminalStates
      BY <2>0, <3>2, CorrectedRow
    <3> QED BY <2>0, <3>1, <3>2, <3>3
  <2>3. ASSUME UNCHANGED txn PROVE Left
    BY <2>3
  <2> QED BY <2>1, <2>2, <2>3 DEF CorrectionNext, correctionVars, vars, Raise, Dismiss
<1>2. CorrectionSpec => [][Left]_correctionVars
  BY <1>1, CInductive, PTL DEF CorrectionSpec
<1> QED BY <1>2 DEF LeftByCorrectionOnly

-----------------------------------------------------------------------------
(***************************************************************************)
(* The books.  Two findings that undo a success, "failed" and "absent",    *)
(* could each reverse the same settlement entry; with one of them the      *)
(* entry is reversed at most once.                                         *)
(***************************************************************************)
OneUndoing == ~({"failed", "absent"} \subseteq Kinds)

\* What CorrectedBooks asks of one transaction: its row x and what was reversed of it, r.
Booked(t, x, r) ==
    x.settled["suspense_settlement"] = 0 =>
        /\ BooksMatch(t, x)
        /\ \A e \in SettlementEntries :
              x.settled[e] - r[e] = IF x.state = "succeeded" /\ e = MainEntry(t) THEN 1 ELSE 0

LEMMA BookedRows ==
    ASSUME txn \in [Txns -> TxnRow]
    PROVE  CorrectedBooks <=> \A t \in Txns : Booked(t, txn[t], reversed[t])
<1>1. ASSUME NEW t \in Txns
      PROVE  SettlementEntry(t, [txn[t] EXCEPT !.state = "processing"]) = MainEntry(t)
  BY DEF SettlementEntry, MainEntry, TxnRow
<1> QED BY <1>1 DEF CorrectedBooks, Booked

LEMMA BookedRowsNext ==
    ASSUME txn' \in [Txns -> TxnRow], \A t \in Txns : Booked(t, txn'[t], reversed'[t])
    PROVE  CorrectedBooks'
<1>1. ASSUME NEW t \in Txns
      PROVE  SettlementEntry(t, [txn'[t] EXCEPT !.state = "processing"]) = MainEntry(t)
  BY DEF SettlementEntry, MainEntry, TxnRow
<1> QED BY <1>1 DEF CorrectedBooks, Booked, BooksMatch, Holds, SettlementEntry

LEMMA OutcomeBooked ==
    ASSUME NEW t \in Txns, NEW x \in TxnRow, NEW y \in TxnRow, NEW r \in [SettlementEntries -> Nat],
           Booked(t, x, r), Outcome(t, x, y)
    PROVE  Booked(t, y, r)
<1> SUFFICES ASSUME y.settled["suspense_settlement"] = 0
             PROVE  /\ BooksMatch(t, y)
                    /\ \A e \in SettlementEntries :
                          y.settled[e] - r[e] = IF y.state = "succeeded" /\ e = MainEntry(t) THEN 1 ELSE 0
  BY DEF Booked
<1>1. \A e \in SettlementEntries : x.settled[e] \in Nat /\ r[e] \in Nat
  BY DEF TxnRow
<1>2. CASE y.settled = x.settled /\ (x.state = "succeeded" <=> y.state = "succeeded")
  BY <1>2, OutcomeBooks DEF Booked
<1>3. CASE /\ x.state \in Undecided /\ y.state = "succeeded"
           /\ y.settled = [x.settled EXCEPT ![SettlementEntry(t, x)] = @ + 1]
  <2> DEFINE m == SettlementEntry(t, x)
  <2>1. m \in SettlementEntries /\ x.settled \in [SettlementEntries -> Nat]
    BY DEF SettlementEntry, SettlementEntries, TxnRow
  <2>2. y.settled[m] = x.settled[m] + 1 /\ \A e \in SettlementEntries : e # m => y.settled[e] = x.settled[e]
    BY <1>3, <2>1
  <2>3. m # "suspense_settlement"
    BY <1>1, <2>1, <2>2
  <2>4. m = MainEntry(t)
    BY <2>3 DEF SettlementEntry, MainEntry
  <2> HIDE DEF m
  <2>5. x.settled["suspense_settlement"] = 0 /\ x.state # "succeeded"
    BY <1>3, <2>2, <2>3, StateSets DEF SettlementEntries
  <2>6. BooksMatch(t, x) /\ \A e \in SettlementEntries : x.settled[e] - r[e] = 0
    BY <2>5 DEF Booked
  <2>7. BooksMatch(t, y)
    BY <2>6, OutcomeBooks
  <2>8. ASSUME NEW e \in SettlementEntries PROVE y.settled[e] - r[e] = IF e = m THEN 1 ELSE 0
    BY <1>1, <2>1, <2>2, <2>6
  <2> QED BY <1>3, <2>4, <2>7, <2>8
<1> QED BY <1>2, <1>3, OutcomeEntries

LEMMA ResettledBooked ==
    ASSUME NEW t \in Txns, NEW x \in TxnRow, NEW y \in TxnRow, NEW r \in [SettlementEntries -> Nat],
           Booked(t, x, r), Resettles(t, x, y)
    PROVE  Booked(t, y, r)
<1> DEFINE m == MainEntry(t)
           n == Amount[t]
<1>1. m \in SettlementEntries /\ m # "suspense_settlement" /\ x.settled \in [SettlementEntries -> Nat]
      /\ x.book \in [Accounts -> Int] /\ n \in Int
  BY ConstantsOK DEF MainEntry, SettlementEntries, TxnRow
<1>2. /\ y.settled[m] = x.settled[m] + 1
      /\ \A e \in SettlementEntries : e # m => y.settled[e] = x.settled[e]
      /\ x.state # "succeeded" /\ y.state = "succeeded"
  BY <1>1 DEF Resettles
<1> SUFFICES ASSUME y.settled["suspense_settlement"] = 0
             PROVE  /\ BooksMatch(t, y)
                    /\ \A e \in SettlementEntries :
                          y.settled[e] - r[e] = IF y.state = "succeeded" /\ e = m THEN 1 ELSE 0
  BY DEF Booked
<1>3. x.settled["suspense_settlement"] = 0
  BY <1>1, <1>2 DEF SettlementEntries
<1>4. Holds(x, 0, 0, 0, 0) /\ \A e \in SettlementEntries : x.settled[e] - r[e] = 0
  BY <1>2, <1>3, StateSets DEF Booked, BooksMatch, Resettles
<1>5. ASSUME t \in Disbursements PROVE BooksMatch(t, y)
  <2> DEFINE b == Move(x.book, "available", "reserved", n)
             c == Move(b, "reserved", "outside", n)
  <2>1. y.book = c
    BY <1>5 DEF Resettles
  <2>2. /\ b \in [Accounts -> Int] /\ b["available"] = -n /\ b["reserved"] = n
        /\ b["suspense"] = 0 /\ b["outside"] = 0
    BY <1>1, <1>4 DEF Move, Holds, Accounts
  <2> HIDE DEF b
  <2>3. c["available"] = -n /\ c["reserved"] = 0 /\ c["suspense"] = 0 /\ c["outside"] = n
    BY <1>1, <2>2 DEF Move, Accounts
  <2> HIDE DEF c
  <2>4. Holds(y, -n, 0, 0, n)
    BY <2>1, <2>3 DEF Holds
  <2> QED BY <1>2, <1>5, <2>4, StateSets DEF BooksMatch
<1>6. ASSUME t \notin Disbursements PROVE BooksMatch(t, y)
  <2>1. y.book = Move(x.book, "outside", "available", n)
    BY <1>6 DEF Resettles
  <2>2. Holds(y, n, 0, 0, -n)
    BY <1>1, <1>4, <2>1 DEF Move, Holds, Accounts
  <2> QED BY <1>2, <1>6, <2>2 DEF BooksMatch
<1>7. BooksMatch(t, y)
  BY <1>5, <1>6
<1> HIDE DEF m
<1>8. ASSUME NEW e \in SettlementEntries PROVE y.settled[e] - r[e] = IF e = m THEN 1 ELSE 0
  <2>1. x.settled[e] \in Nat /\ r[e] \in Nat /\ x.settled[e] - r[e] = 0
    BY <1>1, <1>4
  <2>2. CASE e = m
    BY <1>2, <2>1, <2>2
  <2>3. CASE e # m
    BY <1>2, <2>1, <2>3
  <2> QED BY <2>2, <2>3
<1> QED BY <1>2, <1>7, <1>8

\* A reversal counts every settlement entry, so it leaves the books as they should be only where
\* none of them had been reversed.
LEMMA ReversedBooked ==
    ASSUME NEW t \in Txns, NEW x \in TxnRow, NEW y \in TxnRow,
           Booked(t, x, Zero), Reverses(t, x, y)
    PROVE  Booked(t, y, [e \in SettlementEntries |-> Zero[e] + x.settled[e]])
<1> DEFINE m == MainEntry(t)
           n == Amount[t]
           s == x.settled
<1>1. s \in [SettlementEntries -> Nat] /\ x.book \in [Accounts -> Int] /\ n \in Int
  BY ConstantsOK DEF TxnRow
<1>2. x.state = "succeeded" /\ y.state = "failed" /\ y.settled = s /\ y.book = ReversedBook(t, x)
  BY DEF Reverses
<1> SUFFICES ASSUME s["suspense_settlement"] = 0
             PROVE  /\ BooksMatch(t, y)
                    /\ \A e \in SettlementEntries :
                          s[e] - [f \in SettlementEntries |-> Zero[f] + s[f]][e] = 0
  BY <1>2 DEF Booked
<1>3. /\ BooksMatch(t, x)
      /\ \A e \in SettlementEntries : s[e] - Zero[e] = IF e = m THEN 1 ELSE 0
  BY <1>2 DEF Booked
<1>4. \A e \in SettlementEntries : s[e] = IF e = m THEN 1 ELSE 0
  BY <1>1, <1>3 DEF Zero
<1>5. ASSUME t \in Disbursements PROVE BooksMatch(t, y)
  <2>1. s["disbursement_settlement"] = 1 /\ s["suspense_settlement"] = 0
    BY <1>4, <1>5 DEF MainEntry, SettlementEntries
  <2>2. Holds(x, -n, 0, 0, n)
    BY <1>2, <1>3, <1>5, StateSets DEF BooksMatch
  <2>3. 1 * n = n /\ 0 * n = 0
    BY <1>1
  <2> DEFINE b == Move(x.book, "outside", "reserved", n)
             c == Move(b, "outside", "suspense", 0)
             d == Move(c, "reserved", "available", n)
  <2>4. y.book = d
    BY <1>2, <1>5, <2>1, <2>3 DEF ReversedBook
  <2>5. /\ b \in [Accounts -> Int] /\ b["available"] = -n /\ b["reserved"] = n
        /\ b["suspense"] = 0 /\ b["outside"] = 0
    BY <1>1, <2>2 DEF Move, Holds, Accounts
  <2> HIDE DEF b
  <2>6. /\ c \in [Accounts -> Int] /\ c["available"] = -n /\ c["reserved"] = n
        /\ c["suspense"] = 0 /\ c["outside"] = 0
    BY <2>5 DEF Move, Accounts
  <2> HIDE DEF c
  <2>7. d["available"] = 0 /\ d["reserved"] = 0 /\ d["suspense"] = 0 /\ d["outside"] = 0
    BY <1>1, <2>6 DEF Move, Accounts
  <2> HIDE DEF d
  <2>8. Holds(y, 0, 0, 0, 0)
    BY <2>4, <2>7 DEF Holds
  <2> QED BY <1>2, <1>5, <2>8, StateSets DEF BooksMatch
<1>6. ASSUME t \notin Disbursements PROVE BooksMatch(t, y)
  <2>1. s["collection"] = 1
    BY <1>4, <1>6 DEF MainEntry, SettlementEntries
  <2>2. Holds(x, n, 0, 0, -n)
    BY <1>2, <1>3, <1>6 DEF BooksMatch
  <2>3. 1 * n = n
    BY <1>1
  <2>4. y.book = Move(x.book, "available", "outside", n)
    BY <1>2, <1>6, <2>1, <2>3 DEF ReversedBook
  <2>5. Holds(y, 0, 0, 0, 0)
    BY <1>1, <2>2, <2>4 DEF Move, Holds, Accounts
  <2> QED BY <1>2, <1>6, <2>5 DEF BooksMatch
<1>7. ASSUME NEW e \in SettlementEntries
      PROVE  s[e] - [f \in SettlementEntries |-> Zero[f] + s[f]][e] = 0
  <2>1. s[e] \in Nat /\ Zero[e] = 0
    BY <1>1 DEF Zero
  <2> QED BY <2>1
<1> QED BY <1>5, <1>6, <1>7

LEMMA CorrectBooks ==
    ASSUME OneUndoing, CInv, CorrectedBooks, NEW t \in Txns, NEW kind \in Kinds, Correct(t, kind)
    PROVE  CorrectedBooks'
<1> DEFINE x == txn[t]
           y == Corrected(t, x, kind)
           r == reversed[t]
           n == IF kind # "succeeded" /\ x.state = "succeeded"
                THEN [e \in SettlementEntries |-> r[e] + x.settled[e]] ELSE r
<1>1. /\ txn \in [Txns -> TxnRow] /\ reversed \in [Txns -> [SettlementEntries -> Nat]]
      /\ x \in TxnRow /\ r \in [SettlementEntries -> Nat]
      /\ txn' = [txn EXCEPT ![t] = y] /\ reversed' = [reversed EXCEPT ![t] = n]
      /\ x.state # "absent"
  BY DEF CInv, IInv, Rows, CorrectionTypeOK, Findings, Started, Correct, Resolve
<1>2. /\ y \in TxnRow
      /\ \/ Outcome(t, x, y) /\ (kind # "succeeded" => x.state # "succeeded")
         \/ Resettles(t, x, y) /\ kind = "succeeded"
         \/ Reverses(t, x, y) /\ kind # "succeeded"
  BY <1>1, CorrectedRow
<1>3. \A u \in Txns : Booked(u, txn[u], reversed[u])
  BY <1>1, BookedRows
<1>4. kind # "succeeded" => r = Zero
  <2>1. kind \notin resolved[t] /\ resolved[t] \subseteq Kinds
    BY DEF CInv, CorrectionTypeOK, Findings, Correct, Resolve
  <2> QED BY <2>1, KindsOK DEF OneUndoing, CInv, Findings
<1>5. Booked(t, y, n)
  <2> HIDE DEF y
  <2>1. CASE Outcome(t, x, y) /\ (kind # "succeeded" => x.state # "succeeded")
    <3>1. n = r
      BY <2>1
    <3> HIDE DEF n
    <3> QED BY <1>1, <1>2, <1>3, <2>1, <3>1, OutcomeBooked
  <2>2. CASE Resettles(t, x, y) /\ kind = "succeeded"
    <3>1. n = r
      BY <2>2
    <3> HIDE DEF n
    <3> QED BY <1>1, <1>2, <1>3, <2>2, <3>1, ResettledBooked
  <2>3. CASE Reverses(t, x, y) /\ kind # "succeeded"
    <3>1. n = [e \in SettlementEntries |-> Zero[e] + x.settled[e]] /\ Booked(t, x, Zero)
      BY <1>3, <1>4, <2>3 DEF Reverses
    <3> HIDE DEF n
    <3> QED BY <1>1, <1>2, <2>3, <3>1, ReversedBooked
  <2> QED BY <1>2, <2>1, <2>2, <2>3
<1>6. txn' \in [Txns -> TxnRow]
  BY <1>1, <1>2
<1> HIDE DEF y, n
<1>7. \A u \in Txns : Booked(u, txn'[u], reversed'[u])
  BY <1>1, <1>3, <1>5
<1> QED BY <1>6, <1>7, BookedRowsNext

LEMMA BooksCorrected ==
    ASSUME OneUndoing, CInv, CorrectedBooks, [CorrectionNext]_correctionVars
    PROVE  CorrectedBooks'
<1>0. /\ txn \in [Txns -> TxnRow] /\ reversed \in [Txns -> [SettlementEntries -> Nat]]
      /\ txn' \in [Txns -> TxnRow]
  BY CInvStep DEF CInv, IInv, Rows, CorrectionTypeOK
<1>1. \A u \in Txns : Booked(u, txn[u], reversed[u])
  BY <1>0, BookedRows
<1>2. CASE [Next]_vars /\ UNCHANGED reconciliation
  <2>0. RowMoves
    BY <1>2, NextMoves DEF CInv
  <2>1. reversed' = reversed
    BY <1>2 DEF reconciliation
  <2>2. ASSUME NEW t \in Txns, NEW y \in TxnRow, Outcome(t, txn[t], y), txn' = [txn EXCEPT ![t] = y]
        PROVE  \A u \in Txns : Booked(u, txn'[u], reversed'[u])
    <3>1. Booked(t, y, reversed[t])
      BY <1>0, <1>1, <2>2, OutcomeBooked
    <3> QED BY <1>0, <1>1, <2>1, <2>2, <3>1
  <2>3. ASSUME UNCHANGED txn PROVE \A u \in Txns : Booked(u, txn'[u], reversed'[u])
    BY <1>1, <2>1, <2>3
  <2>4. \A u \in Txns : Booked(u, txn'[u], reversed'[u])
    BY <2>0, <2>2, <2>3 DEF RowMoves
  <2> QED BY <1>0, <2>4, BookedRowsNext
<1>3. ASSUME NEW t \in Txns, NEW kind \in Kinds, Correct(t, kind) PROVE CorrectedBooks'
  BY <1>3, CorrectBooks
<1>4. CASE UNCHANGED <<txn, reversed>>
  <2>1. \A u \in Txns : Booked(u, txn'[u], reversed'[u])
    BY <1>1, <1>4
  <2> QED BY <1>0, <2>1, BookedRowsNext
<1> QED BY <1>2, <1>3, <1>4 DEF CorrectionNext, correctionVars, vars, Raise, Dismiss

LEMMA InitCorrected == CorrectionInit => CorrectedBooks
<1> SUFFICES ASSUME CorrectionInit PROVE CorrectedBooks
  OBVIOUS
<1>1. txn \in [Txns -> TxnRow] /\ BooksFollowState
  BY InitIInv, InitBooks DEF CorrectionInit, IInv, Rows
<1>2. ASSUME NEW t \in Txns PROVE Booked(t, txn[t], reversed[t])
  <2>1. txn[t] = Absent /\ reversed[t] = Zero /\ BooksMatch(t, txn[t])
    BY <1>1 DEF CorrectionInit, Init, BooksFollowState
  <2>2. Absent.state = "absent" /\ Absent.settled = Zero /\ \A e \in SettlementEntries : Zero[e] - Zero[e] = 0
    BY DEF Absent, Zero
  <2> QED BY <2>1, <2>2 DEF Booked
<1> QED BY <1>1, <1>2, BookedRows

\* Where at most one finding undoes a success, the ledger goes on saying what the state says and the
\* settlement entries outnumber their reversals by one exactly where it stands succeeded, through
\* every sequence of corrections and every race with the checks.
THEOREM CorrectionsKeepBooks == OneUndoing => (CorrectionSpec => []CorrectionsBalance)
<1> SUFFICES ASSUME OneUndoing PROVE CorrectionSpec => []CorrectionsBalance
  OBVIOUS
<1>1. CorrectionInit => CInv /\ CorrectedBooks
  BY CInvInit, InitCorrected
<1>2. CInv /\ CorrectedBooks /\ [CorrectionNext]_correctionVars => CInv' /\ CorrectedBooks'
  BY CInvStep, BooksCorrected
<1>3. CInv /\ CorrectedBooks => CorrectionsBalance
  BY DEF CInv, CorrectionsBalance
<1> QED BY <1>1, <1>2, <1>3, PTL DEF CorrectionSpec

-----------------------------------------------------------------------------
(***************************************************************************)
(* The balance.  A correction takes from what is available in two ways: a  *)
(* payout that went through after all is reserved again, against the       *)
(* balance, and a collection that did not is taken back, whatever is left. *)
(* Without the second nothing is ever overdrawn.                           *)
(***************************************************************************)
NothingTakenBack == Disbursements = Txns \/ Kinds \subseteq {"succeeded"}

LEMMA CorrectAvailable ==
    ASSUME NothingTakenBack, CInv, AvailableNeverNegative,
           NEW t \in Txns, NEW kind \in Kinds, Correct(t, kind)
    PROVE  AvailableNeverNegative'
<1> DEFINE x == txn[t]
           y == Corrected(t, x, kind)
           n == Amount[t]
<1>1. /\ txn \in [Txns -> TxnRow] /\ x \in TxnRow /\ x.state # "absent" /\ n \in Nat
      /\ txn' = [txn EXCEPT ![t] = y]
  BY ConstantsOK DEF CInv, IInv, Rows, Findings, Started, Correct, Resolve
<1>2. /\ y \in TxnRow
      /\ \/ Outcome(t, x, y)
         \/ Resettles(t, x, y) /\ kind = "succeeded"
         \/ Reverses(t, x, y) /\ kind # "succeeded"
  BY <1>1, CorrectedRow
<1> HIDE DEF y
<1>3. /\ ProjectAvailable \in Int /\ ProjectAvailable >= 0
      /\ ProjectAvailable' = ProjectAvailable + y.book["available"] - x.book["available"]
  BY <1>1, <1>2, BalanceStep DEF AvailableNeverNegative
<1>4. /\ x.book \in [Accounts -> Int] /\ x.book["available"] \in Int /\ y.book["available"] \in Int
      /\ \A e \in SettlementEntries : x.settled[e] * n \in Int
  BY <1>1, <1>2 DEF TxnRow, Accounts
<1>5. CASE Outcome(t, x, y)
  <2>1. y.book["available"] >= x.book["available"]
    BY <1>1, <1>2, <1>5, OutcomeAvailable
  <2> QED BY <1>3, <1>4, <2>1 DEF AvailableNeverNegative
<1>6. CASE Resettles(t, x, y) /\ kind = "succeeded"
  <2>1. CASE t \in Disbursements
    <3> DEFINE b == Move(x.book, "available", "reserved", n)
    <3>1. y.book = Move(b, "reserved", "outside", n)
      BY <1>6, <2>1 DEF Resettles
    <3>2. b \in [Accounts -> Int] /\ b["available"] = x.book["available"] - n
      BY <1>1, <1>4 DEF Move, Accounts
    <3> HIDE DEF b
    <3>3. y.book["available"] = x.book["available"] - n
      BY <1>1, <3>1, <3>2 DEF Move, Accounts
    <3>4. ProjectAvailable >= n
      BY <1>6, <2>1 DEF Correct, Affordable, Resettles
    <3> QED BY <1>1, <1>3, <1>4, <3>3, <3>4 DEF AvailableNeverNegative
  <2>2. CASE t \notin Disbursements
    <3>1. y.book["available"] = x.book["available"] + n
      BY <1>1, <1>4, <1>6, <2>2 DEF Resettles, Move, Accounts
    <3> QED BY <1>1, <1>3, <1>4, <3>1 DEF AvailableNeverNegative
  <2> QED BY <2>1, <2>2
<1>7. CASE Reverses(t, x, y) /\ kind # "succeeded"
  <2>1. t \in Disbursements
    BY <1>7 DEF NothingTakenBack
  <2> DEFINE k == x.settled["disbursement_settlement"] * n
             l == x.settled["suspense_settlement"] * n
             b == Move(x.book, "outside", "reserved", k)
             c == Move(b, "outside", "suspense", l)
  <2>2. y.book = Move(c, "reserved", "available", n)
    BY <1>7, <2>1 DEF Reverses, ReversedBook
  <2>3. k \in Int /\ l \in Int
    BY <1>4 DEF SettlementEntries
  <2> HIDE DEF k, l
  <2>4. b \in [Accounts -> Int] /\ b["available"] = x.book["available"]
    BY <1>4, <2>3 DEF Move, Accounts
  <2> HIDE DEF b
  <2>5. c \in [Accounts -> Int] /\ c["available"] = x.book["available"]
    BY <2>3, <2>4 DEF Move, Accounts
  <2> HIDE DEF c
  <2>6. y.book["available"] = x.book["available"] + n
    BY <1>1, <2>2, <2>5 DEF Move, Accounts
  <2> QED BY <1>1, <1>3, <1>4, <2>6 DEF AvailableNeverNegative
<1> QED BY <1>2, <1>5, <1>6, <1>7

LEMMA AvailableCorrected ==
    ASSUME NothingTakenBack, CInv, AvailableNeverNegative, [CorrectionNext]_correctionVars
    PROVE  AvailableNeverNegative'
<1>1. CASE [Next]_vars
  BY <1>1, BalanceKept DEF CInv
<1>2. ASSUME NEW t \in Txns, NEW kind \in Kinds, Correct(t, kind) PROVE AvailableNeverNegative'
  BY <1>2, CorrectAvailable
<1>3. CASE UNCHANGED vars
  BY <1>1, <1>3
<1> QED BY <1>1, <1>2, <1>3 DEF CorrectionNext, correctionVars, Raise, Dismiss

\* Where no correction takes a collection back, the available balance is not overdrawn either by the
\* corrections, the confirmations and the releases that race for it.
THEOREM CorrectionsNeverOverdraw == NothingTakenBack => (CorrectionSpec => []AvailableNeverNegative)
<1> SUFFICES ASSUME NothingTakenBack PROVE CorrectionSpec => []AvailableNeverNegative
  OBVIOUS
<1>1. CorrectionInit => CInv /\ AvailableNeverNegative
  BY CInvInit, InitBalance DEF CorrectionInit
<1>2. CInv /\ AvailableNeverNegative /\ [CorrectionNext]_correctionVars => CInv' /\ AvailableNeverNegative'
  BY CInvStep, AvailableCorrected
<1> QED BY <1>1, <1>2, PTL DEF CorrectionSpec
=============================================================================

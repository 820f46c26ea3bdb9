-------------------------- MODULE ConfirmationProofs --------------------------
(***************************************************************************)
(* What holds of confirmations for any requests, floats and amounts.  The  *)
(* argument: a confirmation keeps what it locked to its end (Exclusive,    *)
(* Guarded), so what it found true under a lock is still true when it      *)
(* commits.  Of previews: what a call read before it wrote may be stale,   *)
(* and the unique indexes decide instead.  Of prices: the loops that look  *)
(* for the amount to send end, and where they end the counterparty         *)
(* experiences what was quoted.                                            *)
(***************************************************************************)
EXTENDS MCConfirmation, SumTheorems

Opened(r) == proc[r].stage \in {"entitlement", "reserve", "float", "open"}
Checked(r) == proc[r].stage \in {"reserve", "float", "open"}

\* No lock is held twice.
Exclusive == \A a, b \in Actors : a # b => locks[a] \cap locks[b] = {}

\* Under the preview's lock it stays unconfirmed, under the entitlement's no like payment opens.
Guarded ==
    \A r \in Requests :
        /\ Opened(r) => /\ Quote[r].preview \in locks[r]
                        /\ preview[Quote[r].preview] # "confirmed"
        /\ Checked(r) => /\ Entitlement(r) \in locks[r]
                         /\ \A q \in Requests : ~Similar(q, r)

Created(r) == txn[r].state # "absent"

\* Which requests made something of a preview.
Marked ==
    \A p \in Previews :
        IF preview[p] = "confirmed"
        THEN \E r \in Requests :
                 \A q \in Requests : (Quote[q].preview = p /\ Created(q)) <=> q = r
        ELSE \A q \in Requests : Quote[q].preview = p => ~Created(q)

\* The room a confirmation found under its cap is still there: who else draws on it needs the lock.
CapKept == \A r \in Requests : Checked(r) => WithinCap(r)

VelocityInv == CapKept /\ VelocityHolds

\* Exactly what is open is counted against a float.
Standing == \A r \in Requests : txn[r].float # None <=> txn[r].state \in OpenStates

\* Who examines a float holds it, and it has not been drawn on since unless behind the check.
Examined ==
    \A a \in Actors :
        proc[a].stage = "open" => /\ Target(a) \in locks[a]
                                  /\ Target(a) \notin blind => proc[a].seen <= float[Target(a)]

FloatInv == Standing /\ Examined /\ FloatCoversOpen

IInv == TypeOK /\ Exclusive /\ Guarded /\ Marked /\ NoSimilarPending

-----------------------------------------------------------------------------
(***************************************************************************)
(* Parts of the invariant that a step leaves alone.                        *)
(***************************************************************************)
LEMMA InitIInv == Init => IInv
<1> SUFFICES ASSUME Init PROVE IInv
  OBVIOUS
<1> USE DEF Init
<1>1. TypeOK
  <2>1. \A a \in Actors : Begin(a) \in [stage : Stages, at : Nat, seen : Int]
    BY DEF Begin, First, Stages
  <2>2. \A r \in Requests : 1 \in DOMAIN Quote[r].order
    <3> SUFFICES ASSUME NEW r \in Requests PROVE 1 \in DOMAIN Quote[r].order
      OBVIOUS
    <3>1. Quote[r].order \in Seq(Floats) /\ Quote[r].order # <<>>
      BY ConfirmationOK
    <3> QED BY <3>1
  <2>3. available \in [Projects -> Int] /\ float \in [Floats -> Int]
    BY ConfirmationOK
  <2>4. txn \in [Requests -> [state : OpenStates \cup {"absent", "succeeded", "failed"},
                              float : Floats \cup {None}]]
    BY DEF NoTxn
  <2>5. \A r \in Requests : proc[r].at \in DOMAIN Quote[r].order
    BY <2>2 DEF Begin, Actors
  <2> QED BY <2>1, <2>3, <2>4, <2>5 DEF TypeOK
<1>2. Exclusive /\ Guarded
  BY DEF Exclusive, Guarded, Opened, Checked, Begin, First, Actors
<1>3. Marked /\ NoSimilarPending
  BY DEF Marked, Created, NoTxn, NoSimilarPending, OpenStates
<1> QED BY <1>1, <1>2, <1>3 DEF IInv

\* A database transaction takes a free lock.
LEMMA LocksStep ==
    ASSUME IInv, NEW a \in Actors, NEW l \in Locks, Free(l), locks' = [locks EXCEPT ![a] = @ \cup {l}]
    PROVE  /\ locks' \in [Actors -> SUBSET Locks]
           /\ locks'[a] = locks[a] \cup {l}
           /\ \A b \in Actors : b # a => locks'[b] = locks[b]
           /\ Exclusive'
<1>1. locks \in [Actors -> SUBSET Locks]
  BY DEF IInv, TypeOK
<1>2. /\ locks'[a] = locks[a] \cup {l}
      /\ \A b \in Actors : b # a => locks'[b] = locks[b]
  BY <1>1
<1>3. locks' \in [Actors -> SUBSET Locks]
  <2>1. locks[a] \cup {l} \in SUBSET Locks
    BY <1>1
  <2> QED BY <1>1, <2>1
<1>4. Exclusive'
  <2> SUFFICES ASSUME NEW b \in Actors, NEW c \in Actors, b # c
               PROVE  locks'[b] \cap locks'[c] = {}
    BY DEF Exclusive
  <2>1. locks[b] \cap locks[c] = {} /\ l \notin locks[b] /\ l \notin locks[c]
    BY DEF IInv, Exclusive, Free
  <2>2. CASE b = a
    BY <1>2, <2>1, <2>2
  <2>3. CASE c = a
    BY <1>2, <2>1, <2>3
  <2>4. CASE b # a /\ c # a
    BY <1>2, <2>1, <2>4
  <2> QED BY <2>2, <2>3, <2>4
<1> QED BY <1>2, <1>3, <1>4

\* The other database transactions keep what they found.
LEMMA GuardedKept ==
    ASSUME IInv, NEW a \in Actors, UNCHANGED <<preview, txn>>,
           \A b \in Actors : b # a => proc'[b] = proc[b] /\ locks'[b] = locks[b],
           a \in Requests => 
               /\ Opened(a)' => /\ Quote[a].preview \in locks'[a]
                                /\ preview[Quote[a].preview] # "confirmed"
               /\ Checked(a)' => /\ Entitlement(a) \in locks'[a]
                                 /\ \A q \in Requests : ~Similar(q, a)
    PROVE  Guarded'
<1>1. \A q, r \in Requests : Similar(q, r)' <=> Similar(q, r)
  BY DEF Similar, Terms, Entitlement
<1> SUFFICES ASSUME NEW r \in Requests
             PROVE  /\ Opened(r)' => Quote[r].preview \in locks'[r] /\ preview'[Quote[r].preview] # "confirmed"
                    /\ Checked(r)' => Entitlement(r) \in locks'[r] /\ \A q \in Requests : ~Similar(q, r)'
  BY DEF Guarded, Entitlement
<1>2. CASE r = a
  BY <1>1, <1>2
<1>3. CASE r # a
  <2>1. r \in Actors /\ proc'[r] = proc[r] /\ locks'[r] = locks[r]
    BY <1>3 DEF Actors
  <2> QED BY <1>1, <2>1 DEF IInv, Guarded, Opened, Checked
<1> QED BY <1>2, <1>3

LEMMA StoreKept ==
    ASSUME IInv, UNCHANGED <<preview, txn>>
    PROVE  Marked' /\ NoSimilarPending'
BY DEF IInv, Marked, NoSimilarPending, Created, Terms, Entitlement

-----------------------------------------------------------------------------
(***************************************************************************)
(* The steps of a confirmation.                                            *)
(***************************************************************************)
LEMMA EndType ==
    ASSUME IInv, NEW a \in Actors, End(a)
    PROVE  /\ proc' \in [Actors -> [stage : Stages, at : Nat, seen : Int]]
           /\ \A r \in Requests : proc'[r].at \in DOMAIN Quote[r].order
           /\ proc'[a] = Ended /\ locks'[a] = {}
           /\ \A b \in Actors : b # a => proc'[b] = proc[b] /\ locks'[b] = locks[b]
           /\ locks' \in [Actors -> SUBSET Locks]
           /\ Exclusive'
<1>1. \A r \in Requests : 1 \in DOMAIN Quote[r].order
  <2> SUFFICES ASSUME NEW r \in Requests PROVE 1 \in DOMAIN Quote[r].order
    OBVIOUS
  <2>1. Quote[r].order \in Seq(Floats) /\ Quote[r].order # <<>>
    BY ConfirmationOK
  <2> QED BY <2>1
<1>2. Ended \in [stage : Stages, at : Nat, seen : Int] /\ Ended.at = 1
  BY DEF Ended, Stages
<1>3. /\ proc' \in [Actors -> [stage : Stages, at : Nat, seen : Int]]
      /\ proc'[a] = Ended /\ \A b \in Actors : b # a => proc'[b] = proc[b]
  BY <1>2 DEF End, IInv, TypeOK
<1>4. \A r \in Requests : proc'[r].at \in DOMAIN Quote[r].order
  BY <1>1, <1>2, <1>3 DEF IInv, TypeOK, Actors
<1>5. /\ locks' \in [Actors -> SUBSET Locks] /\ locks'[a] = {}
      /\ \A b \in Actors : b # a => locks'[b] = locks[b]
      /\ Exclusive'
  BY DEF End, IInv, TypeOK, Exclusive
<1> QED BY <1>3, <1>4, <1>5

\* A database transaction that ends without a commit leaves everything as it was.
LEMMA EndStep ==
    ASSUME IInv, NEW a \in Actors, End(a), UNCHANGED <<store, blind>>
    PROVE  IInv'
<1>1. /\ proc' \in [Actors -> [stage : Stages, at : Nat, seen : Int]]
      /\ \A r \in Requests : proc'[r].at \in DOMAIN Quote[r].order
      /\ proc'[a] = Ended /\ locks'[a] = {}
      /\ \A b \in Actors : b # a => proc'[b] = proc[b] /\ locks'[b] = locks[b]
      /\ locks' \in [Actors -> SUBSET Locks]
      /\ Exclusive'
  BY EndType
<1>2. TypeOK'
  BY <1>1 DEF IInv, TypeOK, store
<1>3. UNCHANGED <<preview, txn>>
  BY DEF store
<1>4. Guarded'
  BY <1>1, <1>3, GuardedKept DEF Opened, Checked, Ended
<1> QED BY <1>1, <1>2, <1>3, <1>4, StoreKept DEF IInv

\* A step that goes on to another stage under one more lock.
LEMMA StageStep ==
    ASSUME IInv, NEW a \in Actors, NEW l \in Locks, Free(l), NEW stage \in Stages, NEW seen \in Int,
           Take(a, l),
           proc' = [proc EXCEPT ![a] = [proc[a] EXCEPT !.stage = stage, !.seen = seen]],
           UNCHANGED <<store, blind>>
    PROVE  /\ TypeOK' /\ Exclusive' /\ Marked' /\ NoSimilarPending'
           /\ proc'[a].stage = stage /\ locks'[a] = locks[a] \cup {l}
           /\ \A b \in Actors : b # a => proc'[b] = proc[b] /\ locks'[b] = locks[b]
<1> DEFINE next == [proc[a] EXCEPT !.stage = stage, !.seen = seen]
<1>1. next \in [stage : Stages, at : Nat, seen : Int] /\ next.stage = stage /\ next.at = proc[a].at
  BY DEF IInv, TypeOK
<1>2. proc' = [proc EXCEPT ![a] = next]
  OBVIOUS
<1> HIDE DEF next
<1>3. /\ proc' \in [Actors -> [stage : Stages, at : Nat, seen : Int]]
      /\ proc'[a] = next /\ \A b \in Actors : b # a => proc'[b] = proc[b]
  BY <1>1, <1>2 DEF IInv, TypeOK
<1>4. \A r \in Requests : proc'[r].at \in DOMAIN Quote[r].order
  BY <1>1, <1>3 DEF IInv, TypeOK, Actors
<1>5. /\ locks' \in [Actors -> SUBSET Locks] /\ Exclusive' /\ locks'[a] = locks[a] \cup {l}
      /\ \A b \in Actors : b # a => locks'[b] = locks[b]
  BY LocksStep DEF Take, IInv, TypeOK
<1>6. TypeOK'
  BY <1>3, <1>4, <1>5 DEF IInv, TypeOK, store
<1> QED BY <1>1, <1>3, <1>5, <1>6, StoreKept DEF store

-----------------------------------------------------------------------------
(***************************************************************************)
(* Every step keeps the invariant.                                         *)
(***************************************************************************)
LEMMA LocksAreLocks ==
    \A r \in Requests : Quote[r].preview \in Locks /\ Entitlement(r) \in Locks /\ Quote[r].project \in Locks
BY ConfirmationOK DEF Locks, Previews

LEMMA TargetIsFloat ==
    ASSUME IInv, NEW a \in Actors
    PROVE  Target(a) \in Floats
<1>1. CASE a \in Requests
  <2>1. Quote[a].order \in Seq(Floats) /\ proc[a].at \in DOMAIN Quote[a].order
    BY <1>1, ConfirmationOK DEF IInv, TypeOK
  <2> QED BY <1>1, <2>1 DEF Target
<1>2. CASE a \notin Requests
  <2>1. a \in Transfers
    BY <1>2 DEF Actors
  <2>2. Transfer[a].source \in Floats
    BY <2>1, ConfirmationOK
  <2> QED BY <1>2, <2>2 DEF Target
<1> QED BY <1>1, <1>2

LEMMA AmountIsNat ==
    ASSUME NEW a \in Actors
    PROVE  Amount(a) \in Nat
<1>1. CASE a \in Requests
  BY <1>1, ConfirmationOK DEF Amount
<1>2. CASE a \notin Requests
  <2>1. a \in Transfers
    BY <1>2 DEF Actors
  <2> QED BY <1>2, <2>1, ConfirmationOK DEF Amount
<1> QED BY <1>1, <1>2

LEMMA LockPreviewStep ==
    ASSUME IInv, NEW r \in Requests, LockPreview(r)
    PROVE  IInv'
<1>0. r \in Actors
  BY DEF Actors
<1>1. CASE preview[Quote[r].preview] = "open"
  <2>1. /\ Take(r, Quote[r].preview) /\ Goto(r, "entitlement") /\ Free(Quote[r].preview)
        /\ UNCHANGED <<store, blind>>
    BY <1>1 DEF LockPreview
  <2>2. proc[r].seen \in Int /\ "entitlement" \in Stages /\ Quote[r].preview \in Locks
    BY <1>0, LocksAreLocks DEF IInv, TypeOK, Stages
  <2>3. proc' = [proc EXCEPT ![r] = [proc[r] EXCEPT !.stage = "entitlement", !.seen = proc[r].seen]]
    BY <2>1, <1>0 DEF Goto, IInv, TypeOK
  <2>4. /\ TypeOK' /\ Exclusive' /\ Marked' /\ NoSimilarPending'
        /\ proc'[r].stage = "entitlement" /\ locks'[r] = locks[r] \cup {Quote[r].preview}
        /\ \A b \in Actors : b # r => proc'[b] = proc[b] /\ locks'[b] = locks[b]
    BY <1>0, <2>1, <2>2, <2>3, StageStep
  <2>5. Opened(r)' /\ ~Checked(r)'
    BY <2>4 DEF Opened, Checked
  <2>6. Guarded'
    BY <1>0, <1>1, <2>1, <2>4, <2>5, GuardedKept DEF store
  <2> QED BY <2>4, <2>6 DEF IInv
<1>2. CASE preview[Quote[r].preview] # "open"
  BY <1>0, <1>2, EndStep DEF LockPreview
<1> QED BY <1>1, <1>2

LEMMA CheckGuardsStep ==
    ASSUME IInv, NEW r \in Requests, CheckGuards(r)
    PROVE  IInv'
<1>0. r \in Actors
  BY DEF Actors
<1>1. CASE WithinCap(r) /\ ~\E q \in Requests : Similar(q, r)
  <2>1. /\ Take(r, Entitlement(r)) /\ Goto(r, "reserve") /\ Free(Entitlement(r))
        /\ UNCHANGED <<store, blind>>
    BY <1>1 DEF CheckGuards
  <2>2. proc[r].seen \in Int /\ "reserve" \in Stages /\ Entitlement(r) \in Locks
    BY <1>0, LocksAreLocks DEF IInv, TypeOK, Stages
  <2>3. proc' = [proc EXCEPT ![r] = [proc[r] EXCEPT !.stage = "reserve", !.seen = proc[r].seen]]
    BY <2>1, <1>0 DEF Goto, IInv, TypeOK
  <2>4. /\ TypeOK' /\ Exclusive' /\ Marked' /\ NoSimilarPending'
        /\ proc'[r].stage = "reserve" /\ locks'[r] = locks[r] \cup {Entitlement(r)}
        /\ \A b \in Actors : b # r => proc'[b] = proc[b] /\ locks'[b] = locks[b]
    BY <1>0, <2>1, <2>2, <2>3, StageStep
  <2>5. Quote[r].preview \in locks[r] /\ preview[Quote[r].preview] # "confirmed"
    BY DEF CheckGuards, IInv, Guarded, Opened
  <2>6. Guarded'
    <3>1. UNCHANGED <<preview, txn>>
      BY <2>1 DEF store
    <3>2. /\ Quote[r].preview \in locks'[r] /\ Entitlement(r) \in locks'[r]
          /\ \A q \in Requests : ~Similar(q, r)
      BY <1>1, <2>4, <2>5
    <3> QED BY <1>0, <2>4, <2>5, <3>1, <3>2, GuardedKept
  <2> QED BY <2>4, <2>6 DEF IInv
<1>2. CASE ~(WithinCap(r) /\ ~\E q \in Requests : Similar(q, r))
  BY <1>0, <1>2, EndStep DEF CheckGuards
<1> QED BY <1>1, <1>2

\* A database transaction past its guards goes on, and what it found there still holds.
LEMMA GuardedGoesOn ==
    ASSUME IInv, NEW a \in Actors, UNCHANGED <<preview, txn>>,
           a \in Requests => Checked(a), locks[a] \subseteq locks'[a],
           \A b \in Actors : b # a => proc'[b] = proc[b] /\ locks'[b] = locks[b]
    PROVE  Guarded'
<1>1. a \in Requests => /\ Quote[a].preview \in locks'[a] /\ preview[Quote[a].preview] # "confirmed"
                        /\ Entitlement(a) \in locks'[a] /\ \A q \in Requests : ~Similar(q, a)
  BY DEF IInv, Guarded, Checked, Opened
<1> QED BY <1>1, GuardedKept

LEMMA ReserveStep ==
    ASSUME IInv, NEW r \in Requests, Reserve(r)
    PROVE  IInv'
<1>0. r \in Actors
  BY DEF Actors
<1>1. CASE available[Quote[r].project] >= Amount(r)
  <2>1. /\ Take(r, Quote[r].project) /\ Goto(r, "float") /\ Free(Quote[r].project)
        /\ UNCHANGED <<store, blind>> /\ Checked(r)
    BY <1>1 DEF Reserve, Checked
  <2>2. proc[r].seen \in Int /\ "float" \in Stages /\ Quote[r].project \in Locks
    BY <1>0, LocksAreLocks DEF IInv, TypeOK, Stages
  <2>3. proc' = [proc EXCEPT ![r] = [proc[r] EXCEPT !.stage = "float", !.seen = proc[r].seen]]
    BY <2>1, <1>0 DEF Goto, IInv, TypeOK
  <2>4. /\ TypeOK' /\ Exclusive' /\ Marked' /\ NoSimilarPending'
        /\ locks'[r] = locks[r] \cup {Quote[r].project}
        /\ \A b \in Actors : b # r => proc'[b] = proc[b] /\ locks'[b] = locks[b]
    BY <1>0, <2>1, <2>2, <2>3, StageStep
  <2>5. locks[r] \subseteq locks'[r] /\ UNCHANGED <<preview, txn>>
    BY <2>1, <2>4 DEF store
  <2>6. Guarded'
    BY <1>0, <2>1, <2>4, <2>5, GuardedGoesOn
  <2> QED BY <2>4, <2>6 DEF IInv
<1>2. CASE ~(available[Quote[r].project] >= Amount(r))
  BY <1>0, <1>2, EndStep DEF Reserve
<1> QED BY <1>1, <1>2

LEMMA LockFloatStep ==
    ASSUME IInv, NEW a \in Actors, LockFloat(a)
    PROVE  IInv'
<1>1. Target(a) \in Floats
  BY TargetIsFloat
<1>2. float[Target(a)] \in Int /\ Target(a) \in Locks /\ "open" \in Stages
  BY <1>1 DEF IInv, TypeOK, Locks, Stages
<1>3. proc' = [proc EXCEPT ![a] = [proc[a] EXCEPT !.stage = "open", !.seen = float[Target(a)]]]
  BY DEF LockFloat, IInv, TypeOK
<1>4. /\ TypeOK' /\ Exclusive' /\ Marked' /\ NoSimilarPending'
      /\ locks'[a] = locks[a] \cup {Target(a)}
      /\ \A b \in Actors : b # a => proc'[b] = proc[b] /\ locks'[b] = locks[b]
  <2>1. Free(Target(a)) /\ Take(a, Target(a)) /\ UNCHANGED <<store, blind>>
    BY DEF LockFloat
  <2> QED BY <1>2, <1>3, <2>1, StageStep
<1>5. /\ a \in Requests => Checked(a)
      /\ locks[a] \subseteq locks'[a] /\ UNCHANGED <<preview, txn>>
  BY <1>4 DEF LockFloat, Checked, store
<1>6. Guarded'
  BY <1>4, <1>5, GuardedGoesOn
<1> QED BY <1>4, <1>6 DEF IInv

LEMMA FloatShortStep ==
    ASSUME IInv, NEW a \in Actors, FloatShort(a)
    PROVE  IInv'
<1>1. CASE LastFloat(a)
  BY <1>1, EndStep DEF FloatShort
<1>2. CASE ~LastFloat(a)
  <2> DEFINE next == [proc[a] EXCEPT !.stage = "float", !.at = proc[a].at + 1]
  <2>1. proc' = [proc EXCEPT ![a] = next] /\ UNCHANGED locks /\ UNCHANGED <<store, blind>>
    BY <1>2 DEF FloatShort, IInv, TypeOK
  <2>2. next \in [stage : Stages, at : Nat, seen : Int] /\ next.at = proc[a].at + 1
    <3>1. proc[a] \in [stage : Stages, at : Nat, seen : Int] /\ "float" \in Stages
      BY DEF IInv, TypeOK, Stages
    <3>2. proc[a].at + 1 \in Nat
      BY <3>1
    <3> QED BY <3>1, <3>2
  <2> HIDE DEF next
  <2>3. /\ proc' \in [Actors -> [stage : Stages, at : Nat, seen : Int]]
        /\ proc'[a] = next /\ \A b \in Actors : b # a => proc'[b] = proc[b]
    BY <2>1, <2>2 DEF IInv, TypeOK
  <2>4. a \in Requests => proc[a].at + 1 \in DOMAIN Quote[a].order
    <3> SUFFICES ASSUME a \in Requests PROVE proc[a].at + 1 \in DOMAIN Quote[a].order
      OBVIOUS
    <3>1. /\ Quote[a].order \in Seq(Floats) /\ proc[a].at \in DOMAIN Quote[a].order
          /\ proc[a].at # Len(Quote[a].order)
      BY <1>2, ConfirmationOK DEF IInv, TypeOK, LastFloat
    <3> QED BY <3>1
  <2>5. \A r \in Requests : proc'[r].at \in DOMAIN Quote[r].order
    BY <2>2, <2>3, <2>4 DEF IInv, TypeOK, Actors
  <2>6. TypeOK' /\ Exclusive'
    BY <2>1, <2>3, <2>5 DEF IInv, TypeOK, Exclusive, store
  <2>7. /\ a \in Requests => Checked(a)
        /\ locks[a] \subseteq locks'[a] /\ UNCHANGED <<preview, txn>>
    BY <2>1 DEF FloatShort, Checked, store
  <2>8. Guarded'
    BY <2>1, <2>3, <2>7, GuardedGoesOn
  <2> QED BY <2>6, <2>7, <2>8, StoreKept DEF IInv
<1> QED BY <1>1, <1>2

\* Only a transaction that is already there changes, to another state that is not open unless it was.
LEMMA OthersConclude ==
    ASSUME IInv, UNCHANGED <<preview, proc, locks>>,
           \A q \in Requests : /\ Created(q)' <=> Created(q)
                               /\ txn'[q].state \in OpenStates => txn[q].state \in OpenStates
    PROVE  Exclusive' /\ Guarded' /\ Marked' /\ NoSimilarPending'
<1>1. Exclusive'
  BY DEF IInv, Exclusive
<1>2. \A q, r \in Requests : Similar(q, r)' => Similar(q, r)
  BY DEF Similar, Terms, Entitlement
<1>3. Guarded'
  BY <1>2 DEF IInv, Guarded, Opened, Checked, Entitlement
<1>4. Marked'
  BY DEF IInv, Marked
<1>5. NoSimilarPending'
  BY DEF IInv, NoSimilarPending, Terms, Entitlement
<1> QED BY <1>1, <1>3, <1>4, <1>5

LEMMA ConfirmStep ==
    ASSUME IInv, NEW r \in Requests, Confirm(r)
    PROVE  IInv'
<1>0. r \in Actors /\ End(r) /\ UNCHANGED <<float, blind>>
  BY DEF Actors, Confirm
<1> DEFINE made == [state |-> "created", float |-> Target(r)]
<1>1. txn' = [txn EXCEPT ![r] = made] /\ preview' = [preview EXCEPT ![Quote[r].preview] = "confirmed"]
  BY DEF Confirm
<1>2. made \in [state : OpenStates \cup {"absent", "succeeded", "failed"}, float : Floats \cup {None}]
  BY <1>0, TargetIsFloat DEF OpenStates
<1>3. made.state = "created"
  OBVIOUS
<1> HIDE DEF made
<1>4. /\ proc' \in [Actors -> [stage : Stages, at : Nat, seen : Int]]
      /\ \A q \in Requests : proc'[q].at \in DOMAIN Quote[q].order
      /\ proc'[r] = Ended /\ locks'[r] = {}
      /\ \A b \in Actors : b # r => proc'[b] = proc[b] /\ locks'[b] = locks[b]
      /\ locks' \in [Actors -> SUBSET Locks]
      /\ Exclusive'
  BY <1>0, EndType
<1>5. /\ txn'[r].state = "created"
      /\ \A q \in Requests : q # r => txn'[q] = txn[q]
      /\ Quote[r].preview \in Previews
      /\ \A p \in Previews : preview'[p] = IF p = Quote[r].preview THEN "confirmed" ELSE preview[p]
  BY <1>1, <1>3 DEF IInv, TypeOK, Previews
<1>6. /\ Opened(r) /\ Checked(r)
      /\ Quote[r].preview \in locks[r] /\ preview[Quote[r].preview] # "confirmed"
      /\ Entitlement(r) \in locks[r] /\ \A q \in Requests : ~Similar(q, r)
  BY DEF Confirm, IInv, Guarded, Opened, Checked
<1>7. TypeOK'
  <2>1. available[Quote[r].project] - Amount(r) \in Int
    <3>1. Quote[r].project \in Projects
      BY ConfirmationOK
    <3>2. available[Quote[r].project] \in Int
      BY <3>1 DEF IInv, TypeOK
    <3>3. Amount(r) \in Nat
      BY <1>0, AmountIsNat
    <3> QED BY <3>2, <3>3
  <2>2. available' = [available EXCEPT ![Quote[r].project] = available[Quote[r].project] - Amount(r)]
    BY DEF Confirm
  <2>3. available' \in [Projects -> Int]
    BY <2>1, <2>2 DEF IInv, TypeOK
  <2>4. txn' \in [Requests -> [state : OpenStates \cup {"absent", "succeeded", "failed"},
                               float : Floats \cup {None}]]
    BY <1>1, <1>2 DEF IInv, TypeOK
  <2>5. preview' \in [Previews -> {"open", "confirmed", "expired"}]
    BY <1>1 DEF IInv, TypeOK
  <2>6. float' \in [Floats -> Int] /\ blind' \subseteq Floats
    BY <1>0 DEF IInv, TypeOK
  <2> QED BY <1>4, <2>3, <2>4, <2>5, <2>6 DEF TypeOK
<1>8. Guarded'
  <2> SUFFICES ASSUME NEW s \in Requests
               PROVE  /\ Opened(s)' => Quote[s].preview \in locks'[s] /\ preview'[Quote[s].preview] # "confirmed"
                      /\ Checked(s)' => Entitlement(s) \in locks'[s] /\ \A q \in Requests : ~Similar(q, s)'
    BY DEF Guarded, Entitlement
  <2>1. CASE s = r
    BY <1>4, <2>1 DEF Opened, Checked, Ended
  <2>2. CASE s # r
    <3>1. s \in Actors /\ proc'[s] = proc[s] /\ locks'[s] = locks[s] /\ Quote[s].preview \in Previews
      BY <1>4, <2>2 DEF Actors, Previews
    <3>2. locks[s] \cap locks[r] = {}
      BY <1>0, <2>2, <3>1 DEF IInv, Exclusive
    <3>3. Opened(s)' => Quote[s].preview \in locks'[s] /\ preview'[Quote[s].preview] # "confirmed"
      <4> SUFFICES ASSUME Opened(s)'
                   PROVE  Quote[s].preview \in locks'[s] /\ preview'[Quote[s].preview] # "confirmed"
        OBVIOUS
      <4>1. Quote[s].preview \in locks[s] /\ preview[Quote[s].preview] # "confirmed"
        BY <3>1 DEF IInv, Guarded, Opened
      <4>2. Quote[s].preview # Quote[r].preview
        BY <1>6, <3>2, <4>1
      <4> QED BY <1>5, <3>1, <4>1, <4>2
    <3>4. Checked(s)' => Entitlement(s) \in locks'[s] /\ \A q \in Requests : ~Similar(q, s)'
      <4> SUFFICES ASSUME Checked(s)', NEW q \in Requests
                   PROVE  Entitlement(s) \in locks'[s] /\ ~Similar(q, s)'
        OBVIOUS
      <4>1. Entitlement(s) \in locks[s] /\ ~Similar(q, s)
        BY <3>1 DEF IInv, Guarded, Checked
      <4>2. Entitlement(s) # Entitlement(r)
        BY <1>6, <3>2, <4>1
      <4>3. CASE q = r
        BY <3>1, <4>1, <4>2, <4>3 DEF Similar, Terms, Entitlement
      <4>4. CASE q # r
        BY <1>5, <3>1, <4>1, <4>4 DEF Similar, Terms, Entitlement
      <4> QED BY <4>3, <4>4
    <3> QED BY <3>3, <3>4
  <2> QED BY <2>1, <2>2
<1>9. Marked'
  <2>1. \A q \in Requests : Quote[q].preview = Quote[r].preview => ~Created(q)
    BY <1>5, <1>6 DEF IInv, Marked
  <2> SUFFICES ASSUME NEW p \in Previews
               PROVE  IF preview'[p] = "confirmed"
                      THEN \E s \in Requests :
                               \A q \in Requests : (Quote[q].preview = p /\ Created(q)') <=> q = s
                      ELSE \A q \in Requests : Quote[q].preview = p => ~Created(q)'
    BY DEF Marked
  <2>2. CASE p = Quote[r].preview
    <3>1. \A q \in Requests : (Quote[q].preview = p /\ Created(q)') <=> q = r
      BY <1>5, <2>1, <2>2 DEF Created
    <3> QED BY <1>5, <2>2, <3>1
  <2>3. CASE p # Quote[r].preview
    <3>1. \A q \in Requests : Quote[q].preview = p => (Created(q)' <=> Created(q))
      BY <1>5, <2>3 DEF Created
    <3>2. preview'[p] = preview[p]
      BY <1>5, <2>3
    <3>3. IF preview[p] = "confirmed"
          THEN \E s \in Requests : \A q \in Requests : (Quote[q].preview = p /\ Created(q)) <=> q = s
          ELSE \A q \in Requests : Quote[q].preview = p => ~Created(q)
      BY DEF IInv, Marked
    <3> QED BY <3>1, <3>2, <3>3
  <2> QED BY <2>2, <2>3
<1>10. NoSimilarPending'
  <2> SUFFICES ASSUME NEW q \in Requests, NEW s \in Requests, q # s, Terms(q) = Terms(s),
                      txn'[q].state \in OpenStates, txn'[s].state \in OpenStates
               PROVE  FALSE
    BY DEF NoSimilarPending, Terms, Entitlement
  <2>1. CASE q # r /\ s # r
    BY <1>5, <2>1 DEF IInv, NoSimilarPending
  <2>2. CASE q = r
    BY <1>5, <1>6, <2>2 DEF Similar
  <2>3. CASE s = r
    BY <1>5, <1>6, <2>3 DEF Similar
  <2> QED BY <2>1, <2>2, <2>3
<1> QED BY <1>4, <1>7, <1>8, <1>9, <1>10 DEF IInv

LEMMA RegisterTransferStep ==
    ASSUME IInv, NEW t \in Transfers, RegisterTransfer(t)
    PROVE  IInv'
<1>0. t \in Actors /\ End(t) /\ UNCHANGED <<preview, txn, available, blind>>
  BY DEF Actors, RegisterTransfer
<1>1. /\ proc' \in [Actors -> [stage : Stages, at : Nat, seen : Int]]
      /\ \A q \in Requests : proc'[q].at \in DOMAIN Quote[q].order
      /\ proc'[t] = Ended /\ locks'[t] = {}
      /\ \A b \in Actors : b # t => proc'[b] = proc[b] /\ locks'[b] = locks[b]
      /\ locks' \in [Actors -> SUBSET Locks]
      /\ Exclusive'
  BY <1>0, EndType
<1>2. float' \in [Floats -> Int]
  <2>1. float \in [Floats -> Int] /\ Amount(t) \in Nat
    BY <1>0, AmountIsNat DEF IInv, TypeOK
  <2>2. Transfer[t].source \in Floats /\ Transfer[t].destination \in Floats /\ Transfer[t].fee \in Nat
    BY ConfirmationOK
  <2>3. /\ float[Transfer[t].source] - Amount(t) \in Int
        /\ float[Transfer[t].destination] + Amount(t) - Transfer[t].fee \in Int
    BY <2>1, <2>2
  <2> QED BY <2>1, <2>2, <2>3 DEF RegisterTransfer
<1>3. TypeOK'
  BY <1>0, <1>1, <1>2 DEF IInv, TypeOK
<1>4. Guarded'
  BY <1>0, <1>1, GuardedKept DEF Opened, Checked, Ended
<1> QED BY <1>0, <1>1, <1>3, <1>4, StoreKept DEF IInv

LEMMA WindowClosesStep ==
    ASSUME IInv, NEW p \in Previews, WindowCloses(p)
    PROVE  IInv'
<1>1. /\ preview' = [preview EXCEPT ![p] = "expired"] /\ preview[p] = "open"
      /\ UNCHANGED <<txn, available, float, proc, locks, blind>>
  BY DEF WindowCloses
<1>2. \A o \in Previews : preview'[o] = "confirmed" <=> preview[o] = "confirmed"
  BY <1>1 DEF IInv, TypeOK
<1>3. TypeOK'
  BY <1>1 DEF IInv, TypeOK
<1>4. Guarded'
  <2>1. \A r \in Requests : Quote[r].preview \in Previews
    BY DEF Previews
  <2>2. \A q, r \in Requests : Similar(q, r)' <=> Similar(q, r)
    BY <1>1 DEF Similar, Terms, Entitlement
  <2> QED BY <1>1, <1>2, <2>1, <2>2 DEF IInv, Guarded, Opened, Checked, Entitlement
<1>5. Marked'
  BY <1>1, <1>2 DEF IInv, Marked, Created
<1>6. Exclusive' /\ NoSimilarPending'
  BY <1>1 DEF IInv, Exclusive, NoSimilarPending, Terms, Entitlement
<1> QED BY <1>3, <1>4, <1>5, <1>6 DEF IInv

\* The transaction of a request goes to another state; what is posted with it keeps its type.
LEMMA OneConcludes ==
    ASSUME IInv, NEW r \in Requests, Created(r),
           NEW s \in OpenStates \cup {"succeeded", "failed"}, s \in OpenStates => txn[r].state \in OpenStates,
           NEW f \in Floats \cup {None},
           txn' = [txn EXCEPT ![r] = [state |-> s, float |-> f]],
           available' \in [Projects -> Int], float' \in [Floats -> Int], blind' \subseteq Floats,
           UNCHANGED <<preview, proc, locks>>
    PROVE  IInv'
<1>1. txn' \in [Requests -> [state : OpenStates \cup {"absent", "succeeded", "failed"},
                             float : Floats \cup {None}]]
  BY DEF IInv, TypeOK
<1>2. TypeOK'
  BY <1>1 DEF IInv, TypeOK
<1>3. \A q \in Requests : txn'[q].state = IF q = r THEN s ELSE txn[q].state
  BY DEF IInv, TypeOK
<1>4. s # "absent"
  BY DEF OpenStates
<1>5. \A q \in Requests : /\ Created(q)' <=> Created(q)
                          /\ txn'[q].state \in OpenStates => txn[q].state \in OpenStates
  BY <1>3, <1>4 DEF Created
<1> QED BY <1>2, <1>5, OthersConclude DEF IInv

LEMMA SubmitStep ==
    ASSUME IInv, NEW r \in Requests, NEW f \in Floats, Submit(r, f)
    PROVE  IInv'
<1>1. /\ txn[r].state = "created" /\ txn' = [txn EXCEPT ![r] = [state |-> "submitted", float |-> f]]
      /\ UNCHANGED <<preview, available, float, proc, locks>>
  BY DEF Submit
<1>2. "submitted" \in OpenStates /\ "created" \in OpenStates /\ Created(r)
  BY <1>1 DEF OpenStates, Created
<1>3. available' \in [Projects -> Int] /\ float' \in [Floats -> Int] /\ blind' \subseteq Floats
  BY DEF Submit, IInv, TypeOK
<1> QED BY <1>1, <1>2, <1>3, OneConcludes

LEMMA FallBackStep ==
    ASSUME IInv, NEW r \in Requests, FallBack(r)
    PROVE  IInv'
<1>1. txn[r].state = "submitted" /\ UNCHANGED <<preview, available, float, proc, locks, blind>>
  BY DEF FallBack
<1>2. txn[r].float \in Floats \cup {None} /\ txn' = [txn EXCEPT ![r] = [state |-> "created", float |-> txn[r].float]]
  <2>1. txn[r] \in [state : OpenStates \cup {"absent", "succeeded", "failed"}, float : Floats \cup {None}]
    BY DEF IInv, TypeOK
  <2>2. [txn[r] EXCEPT !.state = "created"] = [state |-> "created", float |-> txn[r].float]
    BY <2>1
  <2> QED BY <2>1, <2>2 DEF FallBack
<1>3. "submitted" \in OpenStates /\ "created" \in OpenStates /\ Created(r)
  BY <1>1 DEF OpenStates, Created
<1>4. available' \in [Projects -> Int] /\ float' \in [Floats -> Int] /\ blind' \subseteq Floats
  BY <1>1 DEF IInv, TypeOK
<1> QED BY <1>1, <1>2, <1>3, <1>4, OneConcludes

LEMMA SettleStep ==
    ASSUME IInv, NEW r \in Requests, Settle(r)
    PROVE  IInv'
<1>1. /\ txn[r].state = "submitted" /\ txn' = [txn EXCEPT ![r] = [state |-> "succeeded", float |-> None]]
      /\ UNCHANGED <<preview, available, proc, locks>>
  BY DEF Settle
<1>2. Created(r) /\ "succeeded" \notin OpenStates
  BY <1>1 DEF Created, OpenStates
<1>3. available' \in [Projects -> Int]
  BY <1>1 DEF IInv, TypeOK
<1>4. float' \in [Floats -> Int]
  <2>1. Amount(r) \in Nat /\ float \in [Floats -> Int]
    BY AmountIsNat DEF Actors, IInv, TypeOK
  <2>2. \A g \in Floats : float[g] - Amount(r) \in Int
    BY <2>1
  <2>3. float' = [float EXCEPT ![txn[r].float] = float[txn[r].float] - Amount(r)]
    BY DEF Settle
  <2> QED BY <2>1, <2>2, <2>3
<1>5. blind' \subseteq Floats
  <2>1. blind' = blind \cup {g \in {txn[r].float} : \E a \in Actors : proc[a].stage = "open" /\ Target(a) = g}
    BY DEF Settle
  <2> QED BY <2>1, TargetIsFloat DEF IInv, TypeOK
<1> QED BY <1>1, <1>2, <1>3, <1>4, <1>5, OneConcludes

LEMMA FailStep ==
    ASSUME IInv, NEW r \in Requests, Fail(r)
    PROVE  IInv'
<1>1. /\ txn[r].state \in OpenStates /\ txn' = [txn EXCEPT ![r] = [state |-> "failed", float |-> None]]
      /\ UNCHANGED <<preview, float, proc, locks, blind>>
  BY DEF Fail
<1>2. Created(r) /\ "failed" \notin OpenStates
  BY <1>1 DEF Created, OpenStates
<1>3. available' \in [Projects -> Int]
  <2>1. Amount(r) \in Nat /\ available \in [Projects -> Int] /\ Quote[r].project \in Projects
    BY AmountIsNat, ConfirmationOK DEF Actors, IInv, TypeOK
  <2>2. available[Quote[r].project] + Amount(r) \in Int
    BY <2>1
  <2>3. available' = [available EXCEPT ![Quote[r].project] = available[Quote[r].project] + Amount(r)]
    BY DEF Fail
  <2> QED BY <2>1, <2>2, <2>3
<1>4. float' \in [Floats -> Int] /\ blind' \subseteq Floats
  BY <1>1 DEF IInv, TypeOK
<1> QED BY <1>1, <1>2, <1>3, <1>4, OneConcludes

LEMMA NextIInv == IInv /\ [Next]_vars => IInv'
<1> SUFFICES ASSUME IInv, [Next]_vars PROVE IInv'
  OBVIOUS
<1>1. CASE \E r \in Requests : LockPreview(r) \/ CheckGuards(r) \/ Reserve(r) \/ Confirm(r)
  BY <1>1, LockPreviewStep, CheckGuardsStep, ReserveStep, ConfirmStep
<1>2. CASE \E t \in Transfers : RegisterTransfer(t)
  BY <1>2, RegisterTransferStep
<1>3. CASE \E a \in Actors : LockFloat(a) \/ FloatShort(a) \/ Abort(a)
  <2>1. ASSUME NEW a \in Actors, Abort(a) PROVE IInv'
    BY <2>1, EndStep DEF Abort
  <2> QED BY <1>3, <2>1, LockFloatStep, FloatShortStep
<1>4. CASE \E p \in Previews : WindowCloses(p)
  BY <1>4, WindowClosesStep
<1>5. CASE \E r \in Requests : FallBack(r) \/ Settle(r) \/ Fail(r) \/ \E f \in Floats : Submit(r, f)
  BY <1>5, FallBackStep, SettleStep, FailStep, SubmitStep
<1>6. CASE UNCHANGED vars
  <2>1. \A q, r \in Requests : Similar(q, r)' <=> Similar(q, r)
    BY <1>6 DEF vars, store, Similar, Terms, Entitlement
  <2>2. Guarded'
    BY <1>6, <2>1 DEF vars, store, IInv, Guarded, Opened, Checked, Entitlement
  <2>3. TypeOK' /\ Exclusive'
    BY <1>6 DEF vars, store, IInv, TypeOK, Exclusive
  <2> QED BY <1>6, <2>2, <2>3, StoreKept DEF IInv, vars, store
<1> QED BY <1>1, <1>2, <1>3, <1>4, <1>5, <1>6 DEF Next

-----------------------------------------------------------------------------
LEMMA InvariantHolds == Spec => []IInv
<1> QED BY InitIInv, NextIInv, PTL DEF Spec

\* Every variable of a confirmation keeps its type: the float it examines is always one of its
\* preview's quote, and what it locked is always a lock.
THEOREM ConfirmationTypeCorrect == Spec => []TypeOK
<1>1. IInv => TypeOK
  BY DEF IInv
<1> QED BY <1>1, InvariantHolds, PTL

\* TransactionService.confirm makes at most one transaction of a preview, however many requests
\* confirm it at a time: exactly one once it is confirmed, none before.
THEOREM EachConfirmedOnce == Spec => []ConfirmedOnce
<1>1. IInv => ConfirmedOnce
  <2> SUFFICES ASSUME IInv, NEW p \in Previews
               PROVE  Cardinality({r \in Requests : Quote[r].preview = p /\ txn[r].state # "absent"})
                          = IF preview[p] = "confirmed" THEN 1 ELSE 0
    BY DEF ConfirmedOnce
  <2> DEFINE made == {r \in Requests : Quote[r].preview = p /\ txn[r].state # "absent"}
  <2>1. CASE preview[p] = "confirmed"
    <3>1. PICK r \in Requests : \A q \in Requests : (Quote[q].preview = p /\ Created(q)) <=> q = r
      BY <2>1 DEF IInv, Marked
    <3>2. made = {r}
      BY <3>1 DEF Created
    <3> QED BY <2>1, <3>2, FS_Singleton, Zenon
  <2>2. CASE preview[p] # "confirmed"
    <3>1. made = {}
      BY <2>2 DEF IInv, Marked, Created
    <3> QED BY <2>2, <3>1, FS_EmptySet, Zenon
  <2> QED BY <2>1, <2>2
<1> QED BY <1>1, InvariantHolds, PTL

\* Two requests for one payment never become two open transactions: the duplicate guard of
\* TransactionService.confirm holds to the commit, because it is evaluated under checkVelocity's lock.
THEOREM LikePaymentsExcluded == Spec => []NoSimilarPending
<1>1. IInv => NoSimilarPending
  BY DEF IInv
<1> QED BY <1>1, InvariantHolds, PTL

-----------------------------------------------------------------------------
(***************************************************************************)
(* What is counted: totals of requests.                                    *)
(***************************************************************************)
LEMMA TotalIsNat == ASSUME NEW S \in SUBSET Requests PROVE TotalOf(S) \in Nat
<1>1. IsFiniteSet(S)
  BY ConfirmationOK, FS_Subset
<1> DEFINE amounts == [r \in Requests |-> Amount(r)]
<1>2. \A r \in S : amounts[r] \in Nat
  BY AmountIsNat DEF Actors
<1>3. TotalOf(S) = SumFunctionOnSet(amounts, S)
  BY DEF TotalOf
<1> HIDE DEF amounts
<1> QED BY <1>1, <1>2, <1>3, SumIsNat

LEMMA TotalOfNone == TotalOf({}) = 0
<1> DEFINE amounts == [r \in Requests |-> Amount(r)]
<1>1. TotalOf({}) = SumFunctionOnSet(amounts, {})
  BY DEF TotalOf
<1> HIDE DEF amounts
<1> QED BY <1>1, SumEmpty

LEMMA TotalOfPart ==
    ASSUME NEW S \in SUBSET Requests, NEW T \in SUBSET S
    PROVE  TotalOf(T) <= TotalOf(S)
<1>1. IsFiniteSet(S)
  BY ConfirmationOK, FS_Subset
<1> DEFINE amounts == [r \in Requests |-> Amount(r)]
<1>2. \A r \in S : amounts[r] \in Nat
  BY AmountIsNat DEF Actors
<1>3. TotalOf(S) = SumFunctionOnSet(amounts, S) /\ TotalOf(T) = SumFunctionOnSet(amounts, T)
  BY DEF TotalOf
<1> HIDE DEF amounts
<1> QED BY <1>1, <1>2, <1>3, SumOfPart

LEMMA TotalWithOneMore ==
    ASSUME NEW S \in SUBSET Requests, NEW r \in Requests, r \notin S
    PROVE  TotalOf(S \cup {r}) = TotalOf(S) + Amount(r)
<1>1. IsFiniteSet(S)
  BY ConfirmationOK, FS_Subset
<1> DEFINE amounts == [q \in Requests |-> Amount(q)]
<1>2. \A q \in S \cup {r} : amounts[q] \in Int
  BY AmountIsNat DEF Actors
<1>3. /\ TotalOf(S) = SumFunctionOnSet(amounts, S)
      /\ TotalOf(S \cup {r}) = SumFunctionOnSet(amounts, S \cup {r})
      /\ amounts[r] = Amount(r)
  BY DEF TotalOf
<1>4. SumFunctionOnSet(amounts, S \cup {r}) = amounts[r] + SumFunctionOnSet(amounts, S)
  <2> HIDE DEF amounts
  <2> QED BY <1>1, <1>2, SumAdd
<1>5. Amount(r) \in Nat /\ TotalOf(S) \in Nat
  BY AmountIsNat, TotalIsNat DEF Actors
<1> HIDE DEF amounts
<1> QED BY <1>3, <1>4, <1>5

-----------------------------------------------------------------------------
(***************************************************************************)
(* The value cap of an entitlement.                                        *)
(***************************************************************************)
ConsumingState(q) == txn[q].state \in OpenStates \cup {"succeeded"}

LEMMA VelocityIsOfConsuming ==
    ASSUME TypeOK
    PROVE  VelocityHolds <=> \A e \in DOMAIN ValueCap : TotalOf(Consuming(e)) <= ValueCap[e]
<1>1. ASSUME NEW e \in DOMAIN ValueCap
      PROVE  {r \in Requests : Entitlement(r) = e /\ txn[r].state \notin {"absent", "failed"}} = Consuming(e)
  BY DEF TypeOK, Consuming, OpenStates
<1> QED BY <1>1 DEF VelocityHolds

\* While nothing starts to draw on a cap, who checks his guards is the only one who has to find room.
LEMMA VelocityKept ==
    ASSUME TypeOK, TypeOK', VelocityInv,
           \A q \in Requests : ConsumingState(q)' => ConsumingState(q),
           \A r \in Requests : Checked(r)' => Checked(r) \/ WithinCap(r)
    PROVE  VelocityInv'
<1>1. ASSUME NEW e PROVE Consuming(e)' \in SUBSET Consuming(e) /\ Consuming(e) \in SUBSET Requests
  BY DEF Consuming, ConsumingState, Entitlement
<1>2. ASSUME NEW e
      PROVE  /\ TotalOf(Consuming(e)') <= TotalOf(Consuming(e))
             /\ TotalOf(Consuming(e)') \in Nat /\ TotalOf(Consuming(e)) \in Nat
  <2>1. Consuming(e)' \in SUBSET Consuming(e) /\ Consuming(e) \in SUBSET Requests /\ Consuming(e)' \in SUBSET Requests
    BY <1>1
  <2> DEFINE now == Consuming(e)
             then == Consuming(e)'
  <2> HIDE DEF now, then
  <2> SUFFICES TotalOf(then) <= TotalOf(now) /\ TotalOf(then) \in Nat /\ TotalOf(now) \in Nat
    BY DEF now, then
  <2>2. then \in SUBSET now /\ now \in SUBSET Requests /\ then \in SUBSET Requests
    BY <2>1 DEF now, then
  <2> QED BY <2>2, TotalOfPart, TotalIsNat
<1>3. CapKept'
  <2> SUFFICES ASSUME NEW r \in Requests, Checked(r)' PROVE WithinCap(r)'
    BY DEF CapKept
  <2>1. WithinCap(r)
    BY DEF VelocityInv, CapKept
  <2>2. Amount(r) \in Nat /\ ValueCap[Entitlement(r)] \in Nat
    BY AmountIsNat, ConfirmationOK DEF Actors
  <2>3. TotalOf(Consuming(Entitlement(r)))' = TotalOf(Consuming(Entitlement(r))')
    BY DEF TotalOf, Amount, Entitlement
  <2>4. TotalOf(Consuming(Entitlement(r))') + Amount(r) <= ValueCap[Entitlement(r)]
    BY <1>2, <2>1, <2>2 DEF WithinCap
  <2> QED BY <2>3, <2>4 DEF WithinCap, Amount, Entitlement
<1>4. VelocityHolds'
  <2>1. \A e \in DOMAIN ValueCap : TotalOf(Consuming(e)') <= ValueCap[e]
    <3> SUFFICES ASSUME NEW e \in DOMAIN ValueCap PROVE TotalOf(Consuming(e)') <= ValueCap[e]
      OBVIOUS
    <3>1. TotalOf(Consuming(e)) <= ValueCap[e] /\ ValueCap[e] \in Nat
      BY VelocityIsOfConsuming, ConfirmationOK DEF VelocityInv
    <3> QED BY <1>2, <3>1
  <2>2. ASSUME NEW e \in DOMAIN ValueCap
        PROVE  {r \in Requests : Entitlement(r) = e /\ txn[r].state \notin {"absent", "failed"}}' = Consuming(e)'
    BY DEF TypeOK, Consuming, OpenStates, Entitlement
  <2> QED BY <2>1, <2>2 DEF VelocityHolds, TotalOf, Amount
<1> QED BY <1>3, <1>4 DEF VelocityInv

LEMMA InitVelocity == Init => VelocityInv
<1> SUFFICES ASSUME Init PROVE VelocityInv
  OBVIOUS
<1>1. IInv
  BY InitIInv
<1>2. ASSUME NEW e PROVE Consuming(e) = {}
  <2>1. \A q \in Requests : txn[q].state \notin OpenStates \cup {"succeeded"}
    BY DEF Init, NoTxn, OpenStates
  <2> QED BY <2>1 DEF Consuming
<1>3. VelocityHolds
  <2>1. ASSUME NEW e \in DOMAIN ValueCap PROVE TotalOf(Consuming(e)) <= ValueCap[e]
    <3>1. ValueCap[e] \in Nat /\ TotalOf(Consuming(e)) = 0
      BY <1>2, TotalOfNone, ConfirmationOK
    <3> QED BY <3>1
  <2> QED BY <1>1, <2>1, VelocityIsOfConsuming DEF IInv
<1>4. CapKept
  BY DEF Init, CapKept, Checked, Begin, First, Actors
<1> QED BY <1>3, <1>4 DEF VelocityInv

\* A confirmation draws on the cap of its own entitlement, whose lock keeps everyone else from it.
LEMMA ConfirmVelocity ==
    ASSUME IInv, IInv', VelocityInv, NEW r \in Requests, Confirm(r)
    PROVE  VelocityInv'
<1>0. r \in Actors /\ End(r) /\ Checked(r) /\ Opened(r)
  BY DEF Actors, Confirm, Checked, Opened
<1>1. /\ proc'[r] = Ended /\ \A b \in Actors : b # r => proc'[b] = proc[b] /\ locks'[b] = locks[b]
  BY <1>0, EndType
<1>2. txn[r].state = "absent"
  <2>1. preview[Quote[r].preview] # "confirmed" /\ Quote[r].preview \in Previews
    BY <1>0 DEF IInv, Guarded, Previews
  <2> QED BY <2>1 DEF IInv, Marked, Created
<1>3. txn'[r].state = "created" /\ \A q \in Requests : q # r => txn'[q] = txn[q]
  BY DEF Confirm, IInv, TypeOK
<1>4. Consuming(Entitlement(r))' = Consuming(Entitlement(r)) \cup {r} /\ r \notin Consuming(Entitlement(r))
  BY <1>2, <1>3 DEF Consuming, OpenStates, Entitlement
<1>5. ASSUME NEW e, e # Entitlement(r) PROVE Consuming(e)' = Consuming(e)
  BY <1>3, <1>5 DEF Consuming, Entitlement
<1>6. TotalOf(Consuming(Entitlement(r))') = TotalOf(Consuming(Entitlement(r))) + Amount(r)
  <2> DEFINE now == Consuming(Entitlement(r))
  <2>1. now \in SUBSET Requests
    BY DEF Consuming
  <2>2. r \notin now /\ Consuming(Entitlement(r))' = now \cup {r}
    BY <1>4
  <2> HIDE DEF now
  <2>3. TotalOf(now \cup {r}) = TotalOf(now) + Amount(r)
    BY <2>1, <2>2, TotalWithOneMore
  <2> QED BY <2>2, <2>3 DEF now
<1>7. TotalOf(Consuming(Entitlement(r))') <= ValueCap[Entitlement(r)]
  BY <1>0, <1>6 DEF VelocityInv, CapKept, WithinCap
<1>8. VelocityHolds'
  <2>1. ASSUME NEW e \in DOMAIN ValueCap PROVE TotalOf(Consuming(e)') <= ValueCap[e]
    <3>1. TotalOf(Consuming(e)) <= ValueCap[e]
      BY VelocityIsOfConsuming DEF VelocityInv, IInv
    <3> QED BY <1>5, <1>7, <3>1
  <2>2. ASSUME NEW e \in DOMAIN ValueCap
        PROVE  {q \in Requests : Entitlement(q) = e /\ txn[q].state \notin {"absent", "failed"}}' = Consuming(e)'
    BY DEF IInv, TypeOK, Consuming, OpenStates, Entitlement
  <2> QED BY <2>1, <2>2 DEF VelocityHolds, TotalOf, Amount
<1>9. CapKept'
  <2> SUFFICES ASSUME NEW s \in Requests, Checked(s)' PROVE WithinCap(s)'
    BY DEF CapKept
  <2>1. s # r
    BY <1>1 DEF Checked, Ended
  <2>2. s \in Actors /\ Checked(s)
    BY <1>1, <2>1 DEF Actors, Checked
  <2>3. Entitlement(s) # Entitlement(r)
    BY <1>0, <2>1, <2>2 DEF IInv, Guarded, Exclusive
  <2>4. Consuming(Entitlement(s))' = Consuming(Entitlement(s)) /\ WithinCap(s)
    <3>1. Entitlement(s)' = Entitlement(s)
      BY DEF Entitlement
    <3>2. Consuming(Entitlement(s))' = {q \in Requests : txn'[q].state \in OpenStates \cup {"succeeded"} /\ Entitlement(q) = Entitlement(s)}
      BY DEF Consuming, Entitlement
    <3> QED BY <1>3, <2>2, <2>3, <3>2 DEF Consuming, VelocityInv, CapKept
  <2> QED BY <2>4 DEF WithinCap, TotalOf, Amount, Entitlement
<1> QED BY <1>8, <1>9 DEF VelocityInv

\* Every other step starts to draw on no cap, and only the guards let a confirmation past them.
LEMMA OthersVelocity ==
    ASSUME IInv, IInv', VelocityInv, [Next]_vars, ~\E r \in Requests : Confirm(r)
    PROVE  VelocityInv'
<1>1. CASE \E r \in Requests : LockPreview(r) \/ CheckGuards(r) \/ Reserve(r)
  <2>1. PICK r \in Requests : LockPreview(r) \/ CheckGuards(r) \/ Reserve(r)
    BY <1>1
  <2>2. UNCHANGED txn
    BY <2>1 DEF LockPreview, CheckGuards, Reserve, store
  <2>3. \A q \in Requests : q # r => proc'[q] = proc[q]
    BY <2>1 DEF LockPreview, CheckGuards, Reserve, Goto, End, IInv, TypeOK, Actors
  <2>4. Checked(r)' => Checked(r) \/ WithinCap(r)
    BY <2>1 DEF LockPreview, CheckGuards, Reserve, Goto, End, IInv, TypeOK, Actors, Checked, Ended
  <2>5. \A q \in Requests : Checked(q)' => Checked(q) \/ WithinCap(q)
    BY <2>3, <2>4 DEF Checked
  <2> QED BY <2>2, <2>5, VelocityKept DEF IInv, ConsumingState
<1>2. CASE \E t \in Transfers : RegisterTransfer(t)
  <2>1. PICK t \in Transfers : RegisterTransfer(t)
    BY <1>2
  <2>2. UNCHANGED txn /\ \A q \in Requests : proc'[q] = proc[q]
    BY <2>1, ConfirmationOK DEF RegisterTransfer, End, IInv, TypeOK, Actors
  <2> QED BY <2>2, VelocityKept DEF IInv, ConsumingState, Checked
<1>3. CASE \E a \in Actors : LockFloat(a) \/ FloatShort(a) \/ Abort(a)
  <2>1. PICK a \in Actors : LockFloat(a) \/ FloatShort(a) \/ Abort(a)
    BY <1>3
  <2>2. UNCHANGED txn
    BY <2>1 DEF LockFloat, FloatShort, Abort, store
  <2>3. \A q \in Requests : q # a => proc'[q] = proc[q]
    BY <2>1 DEF LockFloat, FloatShort, Abort, End, IInv, TypeOK, Actors
  <2>4. proc[a].stage \in {"float", "open"} \/ proc'[a].stage = "ended"
    BY <2>1 DEF LockFloat, FloatShort, Abort, End, IInv, TypeOK, Ended
  <2>5. \A q \in Requests : Checked(q)' => Checked(q)
    BY <2>3, <2>4 DEF Checked
  <2> QED BY <2>2, <2>5, VelocityKept DEF IInv, ConsumingState
<1>4. CASE \E p \in Previews : WindowCloses(p)
  BY <1>4, VelocityKept DEF WindowCloses, IInv, ConsumingState, Checked
<1>5. CASE \E r \in Requests : FallBack(r) \/ Settle(r) \/ Fail(r) \/ \E f \in Floats : Submit(r, f)
  <2>1. PICK r \in Requests : FallBack(r) \/ Settle(r) \/ Fail(r) \/ \E f \in Floats : Submit(r, f)
    BY <1>5
  <2>2. UNCHANGED proc /\ ConsumingState(r)
    BY <2>1 DEF FallBack, Settle, Fail, Submit, ConsumingState, OpenStates
  <2>3. \A q \in Requests : q # r => txn'[q] = txn[q]
    BY <2>1 DEF FallBack, Settle, Fail, Submit, IInv, TypeOK
  <2> QED BY <2>2, <2>3, VelocityKept DEF IInv, ConsumingState, Checked
<1>6. CASE UNCHANGED vars
  BY <1>6, VelocityKept DEF vars, store, IInv, ConsumingState, Checked
<1> QED BY <1>1, <1>2, <1>3, <1>4, <1>5, <1>6 DEF Next

-----------------------------------------------------------------------------
(***************************************************************************)
(* What is open against a float.                                           *)
(***************************************************************************)
LEMMA InitFloats == Init => FloatInv
<1> SUFFICES ASSUME Init PROVE FloatInv
  OBVIOUS
<1>1. \A r \in Requests : txn[r].state = "absent" /\ txn[r].float = None
  BY DEF Init, NoTxn
<1>2. Standing
  BY <1>1 DEF Standing, OpenStates
<1>3. Examined
  BY DEF Init, Examined, Begin, First
<1>4. ASSUME NEW f \in Floats PROVE float[f] >= Open(f)
  <2>1. {r \in Requests : txn[r].float = f} = {}
    BY <1>1, ConfirmationOK
  <2>2. Open(f) = 0
    BY <2>1, TotalOfNone DEF Open
  <2>3. float[f] \in Nat
    BY ConfirmationOK DEF Init
  <2> QED BY <2>2, <2>3
<1> QED BY <1>2, <1>3, <1>4 DEF FloatInv, FloatCoversOpen

Against(f) == {r \in Requests : txn[r].float = f}

\* A total open against a float goes with what stands there.
LEMMA OpenIsNat == ASSUME NEW f PROVE Open(f) \in Nat /\ Open(f) = TotalOf(Against(f))
<1>1. Against(f) \in SUBSET Requests /\ Open(f) = TotalOf(Against(f))
  BY DEF Against, Open
<1> HIDE DEF Against
<1> QED BY <1>1, TotalIsNat

LEMMA OpenOfSame == ASSUME UNCHANGED txn, NEW f PROVE Open(f)' = Open(f)
BY DEF Open, TotalOf, Amount

\* A transaction that leaves a float leaves it so much less to cover.
LEMMA OpenLess ==
    ASSUME NEW f, NEW r \in Requests, txn[r].float = f, txn'[r].float # f,
           \A q \in Requests : q # r => txn'[q] = txn[q]
    PROVE  Open(f)' + Amount(r) = Open(f) /\ Open(f)' \in Nat
<1> DEFINE then == Against(f)'
<1>1. then \in SUBSET Requests /\ r \notin then /\ Against(f) = then \cup {r}
  BY DEF Against
<1>2. Open(f)' = TotalOf(then)
  BY DEF Open, Against, TotalOf, Amount
<1>3. Open(f) = TotalOf(Against(f))
  BY OpenIsNat
<1> HIDE DEF then
<1>4. TotalOf(then \cup {r}) = TotalOf(then) + Amount(r) /\ TotalOf(then) \in Nat
  BY <1>1, TotalWithOneMore, TotalIsNat
<1> QED BY <1>1, <1>2, <1>3, <1>4

LEMMA OpenMore ==
    ASSUME NEW f, NEW r \in Requests, txn[r].float # f, txn'[r].float = f,
           \A q \in Requests : q # r => txn'[q] = txn[q]
    PROVE  Open(f)' = Open(f) + Amount(r)
<1> DEFINE now == Against(f)
<1>1. now \in SUBSET Requests /\ r \notin now /\ Against(f)' = now \cup {r}
  BY DEF Against
<1>2. Open(f)' = TotalOf(Against(f)')
  BY DEF Open, Against, TotalOf, Amount
<1>3. Open(f) = TotalOf(now)
  BY OpenIsNat
<1> HIDE DEF now
<1>4. TotalOf(now \cup {r}) = TotalOf(now) + Amount(r)
  BY <1>1, TotalWithOneMore
<1> QED BY <1>1, <1>2, <1>3, <1>4

LEMMA OpenElsewhere ==
    ASSUME NEW f, NEW r \in Requests, txn[r].float # f, txn'[r].float # f,
           \A q \in Requests : q # r => txn'[q] = txn[q]
    PROVE  Open(f)' = Open(f)
<1>1. Against(f)' = Against(f)
  BY DEF Against
<1>2. Open(f)' = TotalOf(Against(f)')
  BY DEF Open, Against, TotalOf, Amount
<1>3. Open(f) = TotalOf(Against(f))
  BY OpenIsNat
<1> QED BY <1>1, <1>2, <1>3

\* Who examines a float goes on doing so while nothing draws on it that he does not learn of.
LEMMA ExaminedKept ==
    ASSUME IInv, FloatInv, NEW a \in Actors,
           \A b \in Actors : b # a => proc'[b] = proc[b] /\ locks'[b] = locks[b],
           proc'[a].stage # "open" \/ (proc'[a] = proc[a] /\ locks'[a] = locks[a]),
           blind \subseteq blind',
           \A b \in Actors : proc'[b].stage = "open" /\ proc'[b] = proc[b] /\ Target(b) \notin blind'
                                  => float[Target(b)] <= float'[Target(b)],
           float' \in [Floats -> Int]
    PROVE  Examined'
<1> SUFFICES ASSUME NEW b \in Actors, proc'[b].stage = "open"
             PROVE  /\ Target(b)' \in locks'[b]
                    /\ Target(b)' \notin blind' => proc'[b].seen <= float'[Target(b)']
  BY DEF Examined
<1>1. proc'[b] = proc[b] /\ locks'[b] = locks[b]
  OBVIOUS
<1>2. Target(b)' = Target(b) /\ Target(b) \in Floats
  BY <1>1, TargetIsFloat DEF Target
<1>3. Target(b) \in locks[b] /\ (Target(b) \notin blind => proc[b].seen <= float[Target(b)])
  BY <1>1 DEF FloatInv, Examined
<1>4. proc[b].seen \in Int /\ float[Target(b)] \in Int /\ float'[Target(b)] \in Int
  BY <1>2 DEF IInv, TypeOK
<1> QED BY <1>1, <1>2, <1>3, <1>4

LEMMA FloatsUntouched ==
    ASSUME IInv, IInv', FloatInv, UNCHANGED <<txn, float, blind>>, NEW a \in Actors,
           \A b \in Actors : b # a => proc'[b] = proc[b] /\ locks'[b] = locks[b],
           proc'[a].stage # "open" \/ (proc'[a] = proc[a] /\ locks'[a] = locks[a])
    PROVE  FloatInv'
<1>1. float \in [Floats -> Int] /\ \A b \in Actors : Target(b) \in Floats
  BY TargetIsFloat DEF IInv, TypeOK
<1>2. \A b \in Actors : float[Target(b)] <= float'[Target(b)]
  BY <1>1
<1>3. Examined'
  BY <1>1, <1>2, ExaminedKept
<1>4. Standing'
  BY DEF FloatInv, Standing
<1>5. FloatCoversOpen'
  BY OpenOfSame DEF FloatInv, FloatCoversOpen
<1> QED BY <1>3, <1>4, <1>5 DEF FloatInv

LEMMA LockFloatFloats ==
    ASSUME IInv, IInv', FloatInv, NEW a \in Actors, LockFloat(a)
    PROVE  FloatInv'
<1>1. UNCHANGED <<txn, float, blind>>
  BY DEF LockFloat, store
<1>2. /\ \A b \in Actors : b # a => proc'[b] = proc[b] /\ locks'[b] = locks[b]
      /\ proc'[a] = [proc[a] EXCEPT !.stage = "open", !.seen = float[Target(a)]]
      /\ locks'[a] = locks[a] \cup {Target(a)}
  BY DEF LockFloat, Take, IInv, TypeOK
<1>3. proc'[a].at = proc[a].at /\ proc'[a].seen = float[Target(a)]
  BY <1>2 DEF IInv, TypeOK
<1>4. Target(a)' = Target(a) /\ Target(a) \in Floats /\ float[Target(a)] \in Int
  BY <1>3, TargetIsFloat DEF Target, IInv, TypeOK
<1>5. Examined'
  <2> SUFFICES ASSUME NEW b \in Actors, proc'[b].stage = "open"
               PROVE  /\ Target(b)' \in locks'[b]
                      /\ Target(b)' \notin blind' => proc'[b].seen <= float'[Target(b)']
    BY DEF Examined
  <2>1. CASE b = a
    <3>1. Target(b)' = Target(a)
      BY <1>3, <2>1 DEF Target
    <3>2. Target(a) \in locks'[b] /\ proc'[b].seen = float'[Target(a)] /\ float'[Target(a)] \in Int
      <4>1. locks'[b] = locks[a] \cup {Target(a)}
        BY <1>2, <2>1
      <4> QED BY <1>1, <1>3, <1>4, <2>1, <4>1
    <3> QED BY <3>1, <3>2
  <2>2. CASE b # a
    <3>1. proc'[b] = proc[b] /\ locks'[b] = locks[b] /\ Target(b)' = Target(b)
      BY <1>2, <2>2 DEF Target
    <3> QED BY <1>1, <3>1 DEF FloatInv, Examined
  <2> QED BY <2>1, <2>2
<1>6. Standing' /\ FloatCoversOpen'
  BY <1>1, OpenOfSame DEF FloatInv, Standing, FloatCoversOpen
<1> QED BY <1>5, <1>6 DEF FloatInv

\* A disbursement takes what the float it examined still has free.
LEMMA ConfirmFloats ==
    ASSUME IInv, IInv', FloatInv, NEW r \in Requests, Confirm(r)
    PROVE  FloatInv'
<1>0. r \in Actors /\ End(r) /\ Opened(r) /\ UNCHANGED <<float, blind>> /\ Covered(r) /\ proc[r].stage = "open"
  BY DEF Actors, Confirm, Opened
<1>1. proc'[r] = Ended /\ \A b \in Actors : b # r => proc'[b] = proc[b] /\ locks'[b] = locks[b]
  BY <1>0, EndType
<1>2. txn[r].state = "absent"
  <2>1. preview[Quote[r].preview] # "confirmed" /\ Quote[r].preview \in Previews
    BY <1>0 DEF IInv, Guarded, Previews
  <2> QED BY <2>1 DEF IInv, Marked, Created
<1>3. txn[r].float = None
  BY <1>2 DEF FloatInv, Standing, OpenStates
<1>4. /\ txn'[r].state = "created" /\ txn'[r].float = Target(r)
      /\ \A q \in Requests : q # r => txn'[q] = txn[q]
  BY DEF Confirm, IInv, TypeOK
<1>5. Target(r) \in Floats /\ None \notin Floats
  BY <1>0, TargetIsFloat, ConfirmationOK
<1>6. Standing'
  BY <1>4, <1>5 DEF FloatInv, Standing, OpenStates
<1>7. float \in [Floats -> Int] /\ \A b \in Actors : Target(b) \in Floats
  BY TargetIsFloat DEF IInv, TypeOK
<1>8. Examined'
  <2>1. \A b \in Actors : float[Target(b)] <= float'[Target(b)]
    BY <1>0, <1>7
  <2>2. proc'[r].stage # "open"
    BY <1>1 DEF Ended
  <2> QED BY <1>0, <1>1, <1>7, <2>1, <2>2, ExaminedKept
<1>9. ASSUME NEW f \in Floats \ blind PROVE float[f] >= Open(f)'
  <2>1. float[f] >= Open(f)
    BY DEF FloatInv, FloatCoversOpen
  <2>2. CASE f = Target(r)
    <3>1. proc[r].seen <= float[f] /\ proc[r].seen - Open(f) >= Amount(r)
      BY <1>0, <2>2 DEF FloatInv, Examined, Covered
    <3>2. Open(f)' = Open(f) + Amount(r)
      BY <1>3, <1>4, <1>5, <2>2, OpenMore
    <3>3. float[f] \in Int /\ proc[r].seen \in Int /\ Open(f) \in Nat /\ Amount(r) \in Nat
      BY <1>0, OpenIsNat, AmountIsNat DEF IInv, TypeOK
    <3> QED BY <3>1, <3>2, <3>3
  <2>3. CASE f # Target(r)
    <3>1. Open(f)' = Open(f)
      BY <1>3, <1>4, <1>5, <2>3, OpenElsewhere
    <3> QED BY <2>1, <3>1
  <2> QED BY <2>2, <2>3
<1>10. FloatCoversOpen'
  BY <1>0, <1>9 DEF FloatCoversOpen
<1> QED BY <1>6, <1>8, <1>10 DEF FloatInv

\* A transfer takes from the float it holds, which nobody else examines meanwhile.
LEMMA TransferFloats ==
    ASSUME IInv, IInv', FloatInv, NEW t \in Transfers, RegisterTransfer(t)
    PROVE  FloatInv'
<1>0. t \in Actors /\ t \notin Requests /\ End(t) /\ UNCHANGED <<txn, blind>> /\ Covered(t) /\ proc[t].stage = "open"
  BY ConfirmationOK DEF Actors, RegisterTransfer
<1>1. proc'[t] = Ended /\ \A b \in Actors : b # t => proc'[b] = proc[b] /\ locks'[b] = locks[b]
  BY <1>0, EndType
<1> DEFINE s == Transfer[t].source
           d == Transfer[t].destination
<1>2. s \in Floats /\ d \in Floats /\ s # d /\ Target(t) = s /\ Amount(t) \in Nat
  BY <1>0, ConfirmationOK, AmountIsNat DEF Target
<1>3. /\ float \in [Floats -> Int] /\ float' \in [Floats -> Int]
      /\ \A f \in Floats : Open(f) \in Nat
  BY OpenIsNat DEF IInv, TypeOK
<1>4. /\ float'[s] = float[s] - Amount(t) /\ float'[d] = float[d] + Amount(t) - Transfer[t].fee
      /\ Transfer[t].fee <= Amount(t) /\ Transfer[t].fee \in Nat
      /\ \A f \in Floats : f # s /\ f # d => float'[f] = float[f]
  BY <1>2, <1>3, ConfirmationOK DEF RegisterTransfer
<1> HIDE DEF s, d
<1>5. \A f \in Floats : f # s => float[f] <= float'[f]
  BY <1>2, <1>3, <1>4
<1>6. Examined'
  <2>1. ASSUME NEW b \in Actors, proc'[b].stage = "open", proc'[b] = proc[b]
        PROVE  float[Target(b)] <= float'[Target(b)]
    <3>1. b # t
      BY <1>1, <2>1 DEF Ended
    <3>2. Target(b) \in locks[b] /\ Target(t) \in locks[t]
      BY <1>0, <2>1 DEF FloatInv, Examined
    <3>3. Target(b) # s
      BY <1>0, <1>2, <3>1, <3>2 DEF IInv, Exclusive
    <3>4. Target(b) \in Floats
      BY TargetIsFloat
    <3> QED BY <1>5, <3>3, <3>4
  <2>2. proc'[t].stage # "open"
    BY <1>1 DEF Ended
  <2> QED BY <1>0, <1>1, <1>3, <2>1, <2>2, ExaminedKept
<1>7. ASSUME NEW f \in Floats \ blind PROVE float'[f] >= Open(f)
  <2>1. float[f] >= Open(f)
    BY DEF FloatInv, FloatCoversOpen
  <2>2. CASE f = s
    <3>1. proc[t].seen <= float[f] /\ proc[t].seen - Open(f) >= Amount(t)
      BY <1>0, <1>2, <2>2 DEF FloatInv, Examined, Covered
    <3>2. float[f] \in Int /\ proc[t].seen \in Int /\ Open(f) \in Nat
      BY <1>0, <1>3 DEF IInv, TypeOK
    <3> QED BY <1>2, <1>4, <2>2, <3>1, <3>2
  <2>3. CASE f # s
    <3>1. float[f] <= float'[f] /\ float[f] \in Int /\ float'[f] \in Int /\ Open(f) \in Nat
      BY <1>3, <1>5, <2>3
    <3> QED BY <2>1, <3>1
  <2> QED BY <2>2, <2>3
<1>8. FloatCoversOpen' /\ Standing'
  BY <1>0, <1>7, OpenOfSame DEF FloatCoversOpen, FloatInv, Standing
<1> QED BY <1>6, <1>8 DEF FloatInv

\* A submission to another float than the one examined is behind every check.
LEMMA SubmitFloats ==
    ASSUME IInv, IInv', FloatInv, NEW r \in Requests, NEW f \in Floats, Submit(r, f)
    PROVE  FloatInv'
<1> DEFINE g == txn[r].float
<1>1. /\ txn[r].state = "created" /\ txn'[r].state = "submitted" /\ txn'[r].float = f
      /\ \A q \in Requests : q # r => txn'[q] = txn[q]
      /\ blind' = (IF f = g THEN blind ELSE blind \cup {f})
      /\ UNCHANGED <<preview, available, float, proc, locks>>
  BY DEF Submit, IInv, TypeOK
<1>2. g \in Floats /\ None \notin Floats
  BY <1>1, ConfirmationOK DEF FloatInv, Standing, OpenStates, IInv, TypeOK
<1> HIDE DEF g
<1>3. Standing'
  BY <1>1, <1>2 DEF FloatInv, Standing, OpenStates
<1>4. float \in [Floats -> Int] /\ r \in Actors /\ \A b \in Actors : Target(b) \in Floats
  BY TargetIsFloat DEF IInv, TypeOK, Actors
<1>5. Examined'
  <2>1. \A b \in Actors : float[Target(b)] <= float'[Target(b)]
    BY <1>1, <1>4
  <2>2. blind \subseteq blind'
    BY <1>1
  <2> QED BY <1>1, <1>4, <2>1, <2>2, ExaminedKept
<1>6. ASSUME NEW h \in Floats \ blind' PROVE float[h] >= Open(h)'
  <2>1. float[h] >= Open(h) /\ (h = f => f = g)
    BY <1>1 DEF FloatInv, FloatCoversOpen
  <2>2. float[h] \in Int /\ Open(h) \in Nat /\ Amount(r) \in Nat
    BY <1>4, OpenIsNat, AmountIsNat
  <2>3. CASE f = g
    <3>1. Against(h)' = Against(h)
      BY <1>1, <2>3 DEF Against, g
    <3>2. Open(h)' = Open(h)
      BY <3>1 DEF Open, Against, TotalOf, Amount
    <3> QED BY <2>1, <3>2
  <2>4. CASE f # g /\ h = g
    <3>1. Open(h)' + Amount(r) = Open(h) /\ Open(h)' \in Nat
      BY <1>1, <2>4, OpenLess DEF g
    <3> QED BY <2>1, <2>2, <3>1
  <2>5. CASE f # g /\ h # g
    <3>1. Open(h)' = Open(h)
      BY <1>1, <2>1, <2>5, OpenElsewhere DEF g
    <3> QED BY <2>1, <3>1
  <2> QED BY <2>3, <2>4, <2>5
<1>7. FloatCoversOpen'
  BY <1>1, <1>6 DEF FloatCoversOpen
<1> QED BY <1>3, <1>5, <1>7 DEF FloatInv

\* Falling back moves nothing yet: the float stays named.
LEMMA FallBackFloats ==
    ASSUME IInv, IInv', FloatInv, NEW r \in Requests, FallBack(r)
    PROVE  FloatInv'
<1>1. /\ txn[r].state = "submitted" /\ txn'[r].state = "created" /\ txn'[r].float = txn[r].float
      /\ \A q \in Requests : q # r => txn'[q] = txn[q]
      /\ UNCHANGED <<preview, available, float, proc, locks, blind>>
  BY DEF FallBack, IInv, TypeOK
<1>2. Standing'
  BY <1>1 DEF FloatInv, Standing, OpenStates
<1>3. Examined'
  <2>1. float \in [Floats -> Int] /\ r \in Actors /\ \A b \in Actors : Target(b) \in Floats
    BY TargetIsFloat DEF IInv, TypeOK, Actors
  <2>2. \A b \in Actors : float[Target(b)] <= float'[Target(b)]
    BY <1>1, <2>1
  <2> QED BY <1>1, <2>1, <2>2, ExaminedKept
<1>4. ASSUME NEW f PROVE Open(f)' = Open(f)
  <2>1. Against(f)' = Against(f)
    BY <1>1 DEF Against
  <2> QED BY <2>1 DEF Open, Against, TotalOf, Amount
<1>5. FloatCoversOpen'
  BY <1>1, <1>4 DEF FloatInv, FloatCoversOpen
<1> QED BY <1>2, <1>3, <1>5 DEF FloatInv

\* A settlement takes from its float what was open against it, and whoever examines the float just
\* then does not learn of it.
LEMMA SettleFloats ==
    ASSUME IInv, IInv', FloatInv, NEW r \in Requests, Settle(r)
    PROVE  FloatInv'
<1> DEFINE g == txn[r].float
<1>1. /\ txn[r].state = "submitted" /\ txn'[r].state = "succeeded" /\ txn'[r].float = None
      /\ \A q \in Requests : q # r => txn'[q] = txn[q]
      /\ blind' = blind \cup {f \in {g} : \E a \in Actors : proc[a].stage = "open" /\ Target(a) = f}
      /\ UNCHANGED <<preview, available, proc, locks>>
  BY DEF Settle, IInv, TypeOK
<1>2. g \in Floats /\ None \notin Floats
  BY <1>1, ConfirmationOK DEF FloatInv, Standing, OpenStates, IInv, TypeOK
<1>3. /\ float \in [Floats -> Int] /\ float' \in [Floats -> Int] /\ r \in Actors /\ Amount(r) \in Nat
      /\ \A b \in Actors : Target(b) \in Floats
  BY TargetIsFloat, AmountIsNat DEF IInv, TypeOK, Actors
<1>4. float'[g] = float[g] - Amount(r) /\ \A f \in Floats : f # g => float'[f] = float[f]
  BY <1>2, <1>3 DEF Settle
<1> HIDE DEF g
<1>5. Standing'
  BY <1>1 DEF FloatInv, Standing, OpenStates
<1>6. Examined'
  <2>1. ASSUME NEW b \in Actors, proc'[b].stage = "open", proc'[b] = proc[b], Target(b) \notin blind'
        PROVE  float[Target(b)] <= float'[Target(b)]
    <3>1. Target(b) # g
      BY <1>1, <2>1
    <3>2. Target(b) \in Floats
      BY <1>3
    <3> QED BY <1>3, <1>4, <3>1, <3>2
  <2>2. blind \subseteq blind'
    BY <1>1
  <2> QED BY <1>1, <1>3, <2>1, <2>2, ExaminedKept
<1>7. ASSUME NEW h \in Floats \ blind' PROVE float'[h] >= Open(h)'
  <2>1. float[h] >= Open(h)
    BY <1>1 DEF FloatInv, FloatCoversOpen
  <2>2. CASE h = g
    <3>1. Open(h)' + Amount(r) = Open(h) /\ Open(h)' \in Nat
      BY <1>1, <1>2, <2>2, OpenLess DEF g
    <3> QED BY <1>3, <1>4, <2>1, <2>2, <3>1
  <2>3. CASE h # g
    <3>1. Open(h)' = Open(h)
      BY <1>1, <1>2, <2>3, OpenElsewhere DEF g
    <3> QED BY <1>4, <2>1, <2>3, <3>1
  <2> QED BY <2>2, <2>3
<1>8. FloatCoversOpen'
  BY <1>7 DEF FloatCoversOpen
<1> QED BY <1>5, <1>6, <1>8 DEF FloatInv

LEMMA FailFloats ==
    ASSUME IInv, IInv', FloatInv, NEW r \in Requests, Fail(r)
    PROVE  FloatInv'
<1> DEFINE g == txn[r].float
<1>1. /\ txn[r].state \in OpenStates /\ txn'[r].state = "failed" /\ txn'[r].float = None
      /\ \A q \in Requests : q # r => txn'[q] = txn[q]
      /\ UNCHANGED <<preview, float, proc, locks, blind>>
  BY DEF Fail, IInv, TypeOK
<1>2. g \in Floats /\ None \notin Floats
  BY <1>1, ConfirmationOK DEF FloatInv, Standing, IInv, TypeOK
<1>3. float \in [Floats -> Int] /\ r \in Actors /\ Amount(r) \in Nat /\ \A b \in Actors : Target(b) \in Floats
  BY TargetIsFloat, AmountIsNat DEF IInv, TypeOK, Actors
<1> HIDE DEF g
<1>4. Standing'
  BY <1>1 DEF FloatInv, Standing, OpenStates
<1>5. Examined'
  <2>1. \A b \in Actors : float[Target(b)] <= float'[Target(b)]
    BY <1>1, <1>3
  <2> QED BY <1>1, <1>3, <2>1, ExaminedKept
<1>6. ASSUME NEW h \in Floats \ blind PROVE float[h] >= Open(h)'
  <2>1. float[h] >= Open(h)
    BY DEF FloatInv, FloatCoversOpen
  <2>2. CASE h = g
    <3>1. Open(h)' + Amount(r) = Open(h) /\ Open(h)' \in Nat
      BY <1>1, <1>2, <2>2, OpenLess DEF g
    <3>2. float[h] \in Int
      BY <1>3
    <3> QED BY <1>3, <2>1, <3>1, <3>2
  <2>3. CASE h # g
    <3>1. Open(h)' = Open(h)
      BY <1>1, <1>2, <2>3, OpenElsewhere DEF g
    <3> QED BY <2>1, <3>1
  <2> QED BY <2>2, <2>3
<1>7. FloatCoversOpen'
  BY <1>1, <1>6 DEF FloatCoversOpen
<1> QED BY <1>4, <1>5, <1>7 DEF FloatInv

LEMMA NextFloats == IInv /\ IInv' /\ FloatInv /\ [Next]_vars => FloatInv'
<1> SUFFICES ASSUME IInv, IInv', FloatInv, [Next]_vars PROVE FloatInv'
  OBVIOUS
<1>1. CASE \E r \in Requests : LockPreview(r) \/ CheckGuards(r) \/ Reserve(r)
  <2>1. PICK r \in Requests : LockPreview(r) \/ CheckGuards(r) \/ Reserve(r)
    BY <1>1
  <2>2. r \in Actors /\ UNCHANGED <<txn, float, blind>>
    BY <2>1 DEF LockPreview, CheckGuards, Reserve, store, Actors
  <2>3. \A b \in Actors : b # r => proc'[b] = proc[b] /\ locks'[b] = locks[b]
    BY <2>1 DEF LockPreview, CheckGuards, Reserve, Goto, Take, End, IInv, TypeOK, Actors
  <2>4. proc'[r].stage # "open"
    BY <2>1, <2>2 DEF LockPreview, CheckGuards, Reserve, Goto, Take, End, Ended, IInv, TypeOK
  <2> QED BY <2>2, <2>3, <2>4, FloatsUntouched
<1>2. CASE \E r \in Requests : Confirm(r)
  BY <1>2, ConfirmFloats
<1>3. CASE \E t \in Transfers : RegisterTransfer(t)
  BY <1>3, TransferFloats
<1>4. CASE \E a \in Actors : LockFloat(a)
  BY <1>4, LockFloatFloats
<1>5. CASE \E a \in Actors : FloatShort(a) \/ Abort(a)
  <2>1. PICK a \in Actors : FloatShort(a) \/ Abort(a)
    BY <1>5
  <2>2. UNCHANGED <<txn, float, blind>>
    BY <2>1 DEF FloatShort, Abort, store
  <2>3. \A b \in Actors : b # a => proc'[b] = proc[b] /\ locks'[b] = locks[b]
    BY <2>1 DEF FloatShort, Abort, End, IInv, TypeOK
  <2>4. proc'[a].stage # "open"
    BY <2>1 DEF FloatShort, Abort, End, Ended, IInv, TypeOK
  <2> QED BY <2>2, <2>3, <2>4, FloatsUntouched
<1>6. CASE (\E p \in Previews : WindowCloses(p)) \/ UNCHANGED vars
  <2>1. UNCHANGED <<txn, float, blind, proc, locks>>
    BY <1>6 DEF WindowCloses, vars, store
  <2>2. CASE Actors = {}
    BY <2>1, <2>2, OpenOfSame DEF FloatInv, Standing, Examined, FloatCoversOpen
  <2>3. CASE Actors # {}
    BY <2>1, <2>3, FloatsUntouched
  <2> QED BY <2>2, <2>3
<1>7. CASE \E r \in Requests : FallBack(r) \/ Settle(r) \/ Fail(r) \/ \E f \in Floats : Submit(r, f)
  BY <1>7, FallBackFloats, SettleFloats, FailFloats, SubmitFloats
<1> QED BY <1>1, <1>2, <1>3, <1>4, <1>5, <1>6, <1>7 DEF Next

-----------------------------------------------------------------------------
\* What a project moves on a route within a window stays within its value cap, however many of its
\* confirmations run at a time: RouteResolver.checkVelocity sums and admits under a lock that is kept
\* to the commit.
THEOREM VelocityNeverExceeded == Spec => []VelocityHolds
<1>1. IInv /\ IInv' /\ VelocityInv /\ [Next]_vars => VelocityInv'
  BY ConfirmVelocity, OthersVelocity
<1>2. VelocityInv => VelocityHolds
  BY DEF VelocityInv
<1> QED BY <1>1, <1>2, InitVelocity, InvariantHolds, PTL DEF Spec

\* What is open against a float is covered by it: what TreasuryService.freeLiquidity found free for a
\* disbursement or a transfer is still free when it commits, unless a submission fell back on the
\* float or a settlement went between its two reads.
THEOREM FloatsCoverWhatIsOpen == Spec => []FloatCoversOpen
<1>1. FloatInv => FloatCoversOpen
  BY DEF FloatInv
<1> QED BY <1>1, InitFloats, NextFloats, InvariantHolds, PTL DEF Spec

-----------------------------------------------------------------------------
(***************************************************************************)
(* Confirmations implement the contract.  Nothing a confirmation found     *)
(* true can have changed when it commits: IInv says so of the preview and  *)
(* of like payments, CapKept of the cap, and BalanceKept of the balance it *)
(* found sufficient, which only the holder of the project's lock lowers.   *)
(***************************************************************************)
Reserved(r) == proc[r].stage \in {"float", "open"}

BalanceKept ==
    \A r \in Requests :
        Reserved(r) => Quote[r].project \in locks[r] /\ available[Quote[r].project] >= Amount(r)

\* The balances that others need do not fall, and only Reserve lets a confirmation past it.
LEMMA BalanceGoesOn ==
    ASSUME IInv, BalanceKept, NEW a \in Actors,
           \A b \in Actors : b # a => proc'[b] = proc[b] /\ locks'[b] = locks[b],
           \A r \in Requests : r # a /\ Reserved(r) =>
               available'[Quote[r].project] >= available[Quote[r].project],
           available' \in [Projects -> Int],
           a \in Requests /\ Reserved(a)' =>
               Quote[a].project \in locks'[a] /\ available'[Quote[a].project] >= Amount(a)
    PROVE  BalanceKept'
<1> SUFFICES ASSUME NEW r \in Requests, Reserved(r)'
             PROVE  Quote[r].project \in locks'[r] /\ available'[Quote[r].project] >= Amount(r)
  BY DEF BalanceKept, Amount
<1>1. CASE r = a
  BY <1>1
<1>2. CASE r # a
  <2>1. r \in Actors /\ Quote[r].project \in Projects /\ Amount(r) \in Nat
    BY ConfirmationOK, AmountIsNat DEF Actors
  <2>2. Reserved(r) /\ locks'[r] = locks[r]
    BY <1>2, <2>1 DEF Reserved
  <2>3. Quote[r].project \in locks[r] /\ available[Quote[r].project] >= Amount(r)
    BY <2>2 DEF BalanceKept
  <2>4. available'[Quote[r].project] >= available[Quote[r].project]
    BY <1>2, <2>2
  <2>5. available[Quote[r].project] \in Int /\ available'[Quote[r].project] \in Int
    BY <2>1 DEF IInv, TypeOK
  <2> QED BY <2>1, <2>2, <2>3, <2>4, <2>5
<1> QED BY <1>1, <1>2

LEMMA InitBalance == Init => BalanceKept
BY DEF Init, BalanceKept, Reserved, Begin, First, Actors

\* A step of one database transaction that leaves the balances alone.
LEMMA BalanceOfOthers ==
    ASSUME IInv, IInv', BalanceKept, NEW a \in Actors, UNCHANGED available,
           \A b \in Actors : b # a => proc'[b] = proc[b] /\ locks'[b] = locks[b],
           a \in Requests /\ Reserved(a)' =>
               \/ Reserved(a) /\ locks[a] \subseteq locks'[a]
               \/ Quote[a].project \in locks'[a] /\ available[Quote[a].project] >= Amount(a)
    PROVE  BalanceKept'
<1>1. \A r \in Requests : Quote[r].project \in Projects
  BY ConfirmationOK
<1>2. available' \in [Projects -> Int] /\ \A p \in Projects : available[p] \in Int
  BY DEF IInv, TypeOK
<1>3. \A r \in Requests : available'[Quote[r].project] >= available[Quote[r].project]
  BY <1>1, <1>2
<1>4. a \in Requests /\ Reserved(a)' =>
          Quote[a].project \in locks'[a] /\ available'[Quote[a].project] >= Amount(a)
  BY DEF BalanceKept
<1> QED BY <1>2, <1>3, <1>4, BalanceGoesOn

LEMMA NextBalance == IInv /\ IInv' /\ BalanceKept /\ [Next]_vars => BalanceKept'
<1> SUFFICES ASSUME IInv, IInv', BalanceKept, [Next]_vars PROVE BalanceKept'
  OBVIOUS
<1>0. /\ proc \in [Actors -> [stage : Stages, at : Nat, seen : Int]]
      /\ locks \in [Actors -> SUBSET Locks]
      /\ available \in [Projects -> Int] /\ available' \in [Projects -> Int]
  BY DEF IInv, TypeOK
<1>1. ASSUME NEW r \in Requests, LockPreview(r) \/ CheckGuards(r) \/ Reserve(r) PROVE BalanceKept'
  <2>1. r \in Actors /\ UNCHANGED available
    BY <1>1 DEF Actors, LockPreview, CheckGuards, Reserve, store
  <2>2. \A b \in Actors : b # r => proc'[b] = proc[b] /\ locks'[b] = locks[b]
    BY <1>0, <1>1 DEF LockPreview, CheckGuards, Reserve, Goto, Take, End
  <2>3. ASSUME Reserved(r)'
        PROVE  Quote[r].project \in locks'[r] /\ available[Quote[r].project] >= Amount(r)
    <3>1. Reserve(r) /\ proc'[r].stage # "ended"
      BY <1>0, <1>1, <2>1, <2>3 DEF LockPreview, CheckGuards, Goto, End, Ended, Reserved
    <3>2. available[Quote[r].project] >= Amount(r) /\ Take(r, Quote[r].project)
      BY <1>0, <2>1, <3>1 DEF Reserve, End, Ended
    <3> QED BY <1>0, <2>1, <3>2 DEF Take
  <2> QED BY <2>1, <2>2, <2>3, BalanceOfOthers
<1>2. ASSUME NEW r \in Requests, Confirm(r) PROVE BalanceKept'
  <2>1. r \in Actors /\ Reserved(r) /\ Quote[r].project \in Projects /\ Amount(r) \in Nat
    BY <1>2, ConfirmationOK, AmountIsNat DEF Actors, Confirm, Reserved
  <2>2. proc'[r] = Ended /\ \A b \in Actors : b # r => proc'[b] = proc[b] /\ locks'[b] = locks[b]
    BY <1>2, <2>1, EndType DEF Confirm
  <2>3. ASSUME NEW s \in Requests, s # r, Reserved(s)
        PROVE  available'[Quote[s].project] >= available[Quote[s].project]
    <3>1. s \in Actors /\ Quote[s].project \in Projects
      BY ConfirmationOK DEF Actors
    <3>2. Quote[s].project # Quote[r].project
      BY <2>1, <2>3, <3>1 DEF BalanceKept, IInv, Exclusive
    <3>3. available'[Quote[s].project] = available[Quote[s].project]
      BY <1>0, <1>2, <3>1, <3>2 DEF Confirm
    <3> QED BY <1>0, <3>1, <3>3
  <2>4. ~Reserved(r)'
    BY <2>2 DEF Reserved, Ended
  <2> QED BY <1>0, <2>1, <2>2, <2>3, <2>4, BalanceGoesOn
<1>3. ASSUME NEW t \in Transfers, RegisterTransfer(t) PROVE BalanceKept'
  <2>1. t \in Actors /\ t \notin Requests /\ UNCHANGED available
    BY <1>3, ConfirmationOK DEF Actors, RegisterTransfer
  <2>2. \A b \in Actors : b # t => proc'[b] = proc[b] /\ locks'[b] = locks[b]
    BY <1>3, <2>1, EndType DEF RegisterTransfer
  <2> QED BY <2>1, <2>2, BalanceOfOthers
<1>4. ASSUME NEW a \in Actors, LockFloat(a) \/ FloatShort(a) \/ Abort(a) PROVE BalanceKept'
  <2>1. UNCHANGED available
    BY <1>4 DEF LockFloat, FloatShort, Abort, store
  <2>2. \A b \in Actors : b # a => proc'[b] = proc[b] /\ locks'[b] = locks[b]
    BY <1>0, <1>4 DEF LockFloat, FloatShort, Abort, End, Take
  <2>3. ASSUME Reserved(a)' PROVE Reserved(a) /\ locks[a] \subseteq locks'[a]
    BY <1>0, <1>4, <2>3 DEF LockFloat, FloatShort, Abort, End, Ended, Take, Reserved
  <2> QED BY <2>1, <2>2, <2>3, BalanceOfOthers
<1>5. ASSUME UNCHANGED <<proc, locks>>, \A p \in Projects : available'[p] >= available[p]
      PROVE  BalanceKept'
  <2> SUFFICES ASSUME NEW r \in Requests, Reserved(r)'
               PROVE  Quote[r].project \in locks'[r] /\ available'[Quote[r].project] >= Amount(r)
    BY DEF BalanceKept, Amount
  <2>1. Quote[r].project \in Projects /\ Amount(r) \in Nat
    BY ConfirmationOK, AmountIsNat DEF Actors
  <2>2. Quote[r].project \in locks[r] /\ available[Quote[r].project] >= Amount(r)
    BY <1>5 DEF BalanceKept, Reserved
  <2>3. available'[Quote[r].project] >= available[Quote[r].project]
    BY <1>5, <2>1
  <2>4. available'[Quote[r].project] \in Int /\ available[Quote[r].project] \in Int
    BY <1>0, <2>1
  <2> QED BY <1>5, <2>1, <2>2, <2>3, <2>4
<1>6. ASSUME UNCHANGED <<proc, locks, available>> PROVE BalanceKept'
  BY <1>0, <1>5, <1>6
<1>7. ASSUME NEW r \in Requests, Fail(r) PROVE BalanceKept'
  <2>1. Quote[r].project \in Projects /\ Amount(r) \in Nat
    BY ConfirmationOK, AmountIsNat DEF Actors
  <2>2. UNCHANGED <<proc, locks>>
        /\ available' = [available EXCEPT ![Quote[r].project] = available[Quote[r].project] + Amount(r)]
    BY <1>7 DEF Fail
  <2>3. \A p \in Projects : available'[p] >= available[p]
    BY <1>0, <2>1, <2>2
  <2> QED BY <1>5, <2>2, <2>3
<1>8. ASSUME NEW r \in Requests, FallBack(r) \/ Settle(r) \/ \E f \in Floats : Submit(r, f)
      PROVE  BalanceKept'
  BY <1>6, <1>8 DEF FallBack, Settle, Submit
<1>9. ASSUME NEW p \in Previews, WindowCloses(p) PROVE BalanceKept'
  BY <1>6, <1>9 DEF WindowCloses
<1>10. CASE UNCHANGED vars
  BY <1>6, <1>10 DEF vars, store
<1> QED BY <1>1, <1>2, <1>3, <1>4, <1>7, <1>8, <1>9, <1>10 DEF Next

\* What the contract counts against an allowance is what is counted against the cap.
LEMMA SpentIsConsuming ==
    ASSUME TypeOK, NEW e
    PROVE  Spending!Spent(e) = TotalOf(Consuming(e))
<1>1. {q \in Requests : [r \in Requests |-> PaymentStatus(r)][q] \in {"open", "succeeded"}
                        /\ [r \in Requests |-> Entitlement(r)][q] = e} = Consuming(e)
  BY DEF TypeOK, Consuming, PaymentStatus, OpenStates
<1>2. ASSUME NEW f, NEW S PROVE Spending!SumFunctionOnSet(f, S) = SumFunctionOnSet(f, S)
  <2>1. Spending!SumFunctionOnSet(f, S) = Table(f, S)[S]
    BY DEF Spending!SumFunctionOnSet, Spending!FoldFunctionOnSet, Spending!MapThenFoldSet, Table, IsTable, Chosen
  <2> QED BY <2>1, SumIsTable
<1> QED BY <1>1, <1>2 DEF Spending!Spent, TotalOf

\* Nothing of it shows.
LEMMA Unshown ==
    ASSUME UNCHANGED <<preview, txn, available>>, Judged' = Judged
    PROVE  UNCHANGED Spending!spendingVars
BY DEF Spending!spendingVars, OfferStatus, PaymentStatus

LEMMA JudgedStays ==
    ASSUME NEW a \in Actors, \A b \in Actors : b # a => proc'[b] = proc[b],
           a \in Requests => (a \in Judged' <=> a \in Judged)
    PROVE  Judged' = Judged
BY DEF Judged, Actors

\* A confirmation that ends without a commit is turned down if it was being judged at all.
LEMMA EndsTurnedDown ==
    ASSUME IInv, NEW a \in Actors, End(a), UNCHANGED <<preview, txn, available>>
    PROVE  [Spending!Next]_Spending!spendingVars
<1>1. proc'[a] = Ended /\ \A b \in Actors : b # a => proc'[b] = proc[b]
  BY EndType
<1>2. CASE a \in Judged
  <2>1. a \in Requests /\ Judged' = Judged \ {a}
    BY <1>1, <1>2 DEF Judged, Ended, Actors
  <2>2. Spending!TurnDown(a)
    BY <1>2, <2>1 DEF Spending!TurnDown, OfferStatus, PaymentStatus
  <2> QED BY <2>1, <2>2 DEF Spending!Next
<1>3. CASE a \notin Judged
  <2>1. a \in Requests => (a \in Judged' <=> a \in Judged)
    BY <1>1, <1>3 DEF Judged, Ended
  <2> QED BY <1>1, <2>1, JudgedStays, Unshown
<1> QED BY <1>2, <1>3

LEMMA LockPreviewAsks ==
    ASSUME IInv, NEW r \in Requests, LockPreview(r)
    PROVE  [Spending!Next]_Spending!spendingVars
<1>0. r \in Actors /\ UNCHANGED <<preview, txn, available>>
  BY DEF Actors, LockPreview, store
<1>1. CASE preview[Quote[r].preview] = "open"
  <2>1. proc[r].stage = "preview" /\ proc' = [proc EXCEPT ![r].stage = "entitlement"]
    BY <1>1 DEF LockPreview, Goto
  <2>2. r \notin Judged /\ Judged' = Judged \cup {r}
    BY <1>0, <2>1 DEF IInv, TypeOK, Judged, Actors
  <2>3. Quote[r].preview \in Previews /\ OfferStatus(Quote[r].preview) = "open"
    BY <1>1 DEF Previews, OfferStatus
  <2>4. Spending!Ask(r)
    BY <1>0, <2>2, <2>3 DEF Spending!Ask, OfferStatus, PaymentStatus
  <2> QED BY <2>4 DEF Spending!Next
<1>2. CASE preview[Quote[r].preview] # "open"
  <2>1. End(r)
    BY <1>2 DEF LockPreview
  <2> QED BY <1>0, <2>1, EndsTurnedDown
<1> QED BY <1>1, <1>2

\* Looking at the guards, the balance and the floats shows only where it turns a request down.
LEMMA LooksUnseen ==
    ASSUME IInv, NEW a \in Actors,
           \/ a \in Requests /\ (CheckGuards(a) \/ Reserve(a))
           \/ LockFloat(a) \/ FloatShort(a) \/ Abort(a)
    PROVE  [Spending!Next]_Spending!spendingVars
<1>0. UNCHANGED <<preview, txn, available>>
  BY DEF CheckGuards, Reserve, LockFloat, FloatShort, Abort, store
<1>1. CASE End(a)
  BY <1>0, <1>1, EndsTurnedDown
<1>2. CASE ~End(a)
  <2>1. \A b \in Actors : b # a => proc'[b] = proc[b]
    BY <1>2 DEF IInv, TypeOK, CheckGuards, Reserve, LockFloat, FloatShort, Abort, Goto
  <2>2. /\ proc[a].stage \in {"entitlement", "reserve", "float", "open"}
        /\ proc'[a].stage \in {"reserve", "float", "open"}
    BY <1>2 DEF IInv, TypeOK, CheckGuards, Reserve, LockFloat, FloatShort, Abort, Goto
  <2>3. a \in Requests => (a \in Judged' <=> a \in Judged)
    BY <2>2 DEF Judged
  <2> QED BY <1>0, <2>1, <2>3, JudgedStays, Unshown
<1> QED BY <1>1, <1>2

\* The commit: everything the contract asks of an acceptance still holds.
LEMMA ConfirmAccepts ==
    ASSUME IInv, VelocityInv, BalanceKept, NEW r \in Requests, Confirm(r)
    PROVE  Spending!Accept(r)
<1>0. /\ r \in Actors /\ Opened(r) /\ Checked(r) /\ Reserved(r) /\ End(r)
      /\ Quote[r].preview \in Previews /\ Quote[r].project \in Projects
  BY ConfirmationOK DEF Actors, Confirm, Opened, Checked, Reserved, Previews
<1>1. proc'[r] = Ended /\ \A b \in Actors : b # r => proc'[b] = proc[b]
  BY <1>0, EndType
<1>2. r \in Judged /\ Judged' = Judged \ {r}
  BY <1>0, <1>1 DEF Judged, Opened, Ended, Actors
<1>3. OfferStatus(Quote[r].preview) # "taken"
  BY <1>0 DEF IInv, Guarded, OfferStatus
<1>4. \A q \in Requests : Terms(q) = Terms(r) => PaymentStatus(q) # "open"
  <2> SUFFICES ASSUME NEW q \in Requests, Terms(q) = Terms(r) PROVE PaymentStatus(q) # "open"
    OBVIOUS
  <2>1. txn[q].state \notin OpenStates
    BY <1>0 DEF IInv, Guarded, Similar
  <2> QED BY <2>1 DEF PaymentStatus, IInv, TypeOK
<1>5. Spending!Spent(Entitlement(r)) + Amount(r) <= ValueCap[Entitlement(r)]
  <2>1. TotalOf(Consuming(Entitlement(r))) + Amount(r) <= ValueCap[Entitlement(r)]
    BY <1>0 DEF VelocityInv, CapKept, WithinCap
  <2> QED BY <2>1, SpentIsConsuming DEF IInv
<1>6. Amount(r) <= available[Quote[r].project]
  <2>1. available[Quote[r].project] >= Amount(r) /\ Amount(r) \in Nat
    BY <1>0, AmountIsNat DEF BalanceKept
  <2>2. available[Quote[r].project] \in Int
    BY <1>0 DEF IInv, TypeOK
  <2> QED BY <2>1, <2>2
<1>7. \A p \in Previews : OfferStatus(p)' = IF p = Quote[r].preview THEN "taken" ELSE OfferStatus(p)
  BY <1>0 DEF Confirm, OfferStatus, IInv, TypeOK
<1>8. \A q \in Requests : PaymentStatus(q)' = IF q = r THEN "open" ELSE PaymentStatus(q)
  <2>1. txn'[r].state = "created" /\ \A q \in Requests : q # r => txn'[q] = txn[q]
    BY DEF Confirm, IInv, TypeOK
  <2> QED BY <2>1 DEF PaymentStatus, OpenStates
<1>9. available' = [available EXCEPT ![Quote[r].project] = @ - Amount(r)]
  BY DEF Confirm
<1> DEFINE offers == [p \in Previews |-> OfferStatus(p)]
           states == [q \in Requests |-> PaymentStatus(q)]
<1>10. offers' = [offers EXCEPT ![Quote[r].preview] = "taken"]
  BY <1>0, <1>7
<1>11. states' = [states EXCEPT ![r] = "open"]
  BY <1>8
<1> QED BY <1>0, <1>2, <1>3, <1>4, <1>5, <1>6, <1>9, <1>10, <1>11 DEF Spending!Accept

\* What becomes of a payment afterwards, and the windows that close.
LEMMA AfterwardsShown ==
    ASSUME IInv, NEW r \in Requests, FallBack(r) \/ Settle(r) \/ Fail(r) \/ \E f \in Floats : Submit(r, f)
    PROVE  [Spending!Next]_Spending!spendingVars
<1> DEFINE states == [q \in Requests |-> PaymentStatus(q)]
<1>0. UNCHANGED <<preview, proc>> /\ Judged' = Judged /\ PaymentStatus(r) = "open"
  BY DEF FallBack, Settle, Fail, Submit, Judged, PaymentStatus, OpenStates
<1>1. \A q \in Requests : q # r => PaymentStatus(q)' = PaymentStatus(q)
  BY DEF FallBack, Settle, Fail, Submit, PaymentStatus, IInv, TypeOK
<1>2. CASE Settle(r)
  <2>1. PaymentStatus(r)' = "succeeded" /\ UNCHANGED available
    BY <1>2 DEF Settle, PaymentStatus, OpenStates, IInv, TypeOK
  <2>2. states' = [states EXCEPT ![r] = "succeeded"]
    BY <1>1, <2>1
  <2>3. Spending!Succeed(r)
    BY <1>0, <2>1, <2>2 DEF Spending!Succeed, OfferStatus
  <2> QED BY <2>3 DEF Spending!Next
<1>3. CASE Fail(r)
  <2>1. PaymentStatus(r)' = "failed"
    BY <1>3 DEF Fail, PaymentStatus, OpenStates, IInv, TypeOK
  <2>2. states' = [states EXCEPT ![r] = "failed"]
    BY <1>1, <2>1
  <2>3. available' = [available EXCEPT ![Quote[r].project] = @ + Amount(r)]
    BY <1>3 DEF Fail
  <2>4. Spending!Fail(r)
    BY <1>0, <2>2, <2>3 DEF Spending!Fail, OfferStatus
  <2> QED BY <2>4 DEF Spending!Next
<1>4. CASE FallBack(r) \/ \E f \in Floats : Submit(r, f)
  <2>1. PaymentStatus(r)' = "open" /\ UNCHANGED available
    BY <1>4 DEF FallBack, Submit, PaymentStatus, OpenStates, IInv, TypeOK
  <2>2. states' = states
    BY <1>0, <1>1, <2>1
  <2> QED BY <1>0, <2>1, <2>2 DEF Spending!spendingVars, OfferStatus
<1> QED BY <1>2, <1>3, <1>4

LEMMA WindowShown ==
    ASSUME IInv, NEW p \in Previews, WindowCloses(p)
    PROVE  [Spending!Next]_Spending!spendingVars
<1> DEFINE offers == [q \in Previews |-> OfferStatus(q)]
<1>1. OfferStatus(p) = "open" /\ UNCHANGED <<txn, available, proc>> /\ Judged' = Judged
  BY DEF WindowCloses, OfferStatus, Judged
<1>2. offers' = [offers EXCEPT ![p] = "closed"]
  BY DEF WindowCloses, OfferStatus, IInv, TypeOK
<1>3. Spending!Close(p)
  BY <1>1, <1>2 DEF Spending!Close, PaymentStatus
<1> QED BY <1>3 DEF Spending!Next

LEMMA SpendingSteps ==
    ASSUME IInv, VelocityInv, BalanceKept, [Next]_vars
    PROVE  [Spending!Next]_Spending!spendingVars
<1>1. CASE \E r \in Requests : LockPreview(r) \/ CheckGuards(r) \/ Reserve(r) \/ Confirm(r)
  BY <1>1, LockPreviewAsks, LooksUnseen, ConfirmAccepts DEF Actors, Spending!Next
<1>2. CASE \E t \in Transfers : RegisterTransfer(t)
  <2>1. PICK t \in Transfers : RegisterTransfer(t)
    BY <1>2
  <2> QED BY <2>1, EndsTurnedDown DEF RegisterTransfer, Actors
<1>3. CASE \E a \in Actors : LockFloat(a) \/ FloatShort(a) \/ Abort(a)
  BY <1>3, LooksUnseen
<1>4. CASE \E p \in Previews : WindowCloses(p)
  BY <1>4, WindowShown
<1>5. CASE \E r \in Requests : FallBack(r) \/ Settle(r) \/ Fail(r) \/ \E f \in Floats : Submit(r, f)
  BY <1>5, AfterwardsShown
<1>6. CASE UNCHANGED vars
  BY <1>6, Unshown DEF vars, store, Judged
<1> QED BY <1>1, <1>2, <1>3, <1>4, <1>5, <1>6 DEF Next

LEMMA SpendingStarts == Init => Spending!Init
<1> SUFFICES ASSUME Init PROVE Spending!Init
  OBVIOUS
<1>1. Judged = {}
  BY DEF Init, Judged, Begin, First, Actors
<1>2. \A p \in Previews : OfferStatus(p) = "open"
  BY DEF Init, OfferStatus
<1>3. \A r \in Requests : PaymentStatus(r) = "absent"
  BY DEF Init, PaymentStatus, NoTxn, OpenStates
<1>4. {[r \in Requests |-> Quote[r].preview][q] : q \in Requests} = Previews
  BY DEF Previews
<1> QED BY <1>1, <1>2, <1>3, <1>4 DEF Spending!Init, Init

\* However the locks, reads and commits of TransactionService.confirm interleave under READ COMMITTED,
\* each confirmation is accepted as at one instant at which its preview is unconfirmed, no like payment
\* is open, and its amount is within the cap and within what is available to its project.
THEOREM ConfirmationImplementsSpending == Spec => ImplementsSpending
<1>1. IInv /\ IInv' /\ VelocityInv /\ [Next]_vars => VelocityInv'
  BY ConfirmVelocity, OthersVelocity
<1>2. Spec => [](IInv /\ VelocityInv /\ BalanceKept)
  BY <1>1, InitVelocity, InitBalance, NextBalance, InvariantHolds, PTL DEF Spec
<1>3. IInv /\ VelocityInv /\ BalanceKept /\ [Next]_vars => [Spending!Next]_Spending!spendingVars
  BY SpendingSteps
<1>4. Spec => Spending!Spec
  BY <1>2, <1>3, SpendingStarts, PTL DEF Spec, Spending!Spec
<1> QED BY <1>4 DEF ImplementsSpending

-----------------------------------------------------------------------------
(***************************************************************************)
(* Previews under a project's own references.                              *)
(***************************************************************************)

Call == [stage : {"asking", "not_open", "not_confirmed", "inserting", "answered", "refused"},
         reference : References, intent : Intents, answer : Callers \cup {None}]
PreviewRow == [status : {"none", "open", "confirmed", "expired"}, over : BOOLEAN]

ReferencesTyped ==
    /\ caller \in [Callers -> Call]
    /\ offered \in [Callers -> PreviewRow]
    /\ payments \in [Callers -> {"none", "open", "concluded"}]
    /\ payerAlerts \subseteq Intents

\* A call inserts a preview, if any, with its answer, and an answer is a preview of what was asked.
Answered ==
    \A c \in Callers :
        /\ offered[c].status # "none" => AtStage(c, "answered")
        /\ AtStage(c, "answered") => /\ caller[c].answer \in Of(c) /\ Alike(c, caller[c].answer)

\* What the two unique indexes keep: of a reference one preview is open, and one was confirmed.
Indexed ==
    \A p, q \in Callers : caller[p].reference = caller[q].reference =>
        /\ offered[p].status = "open" /\ offered[q].status = "open" => p = q
        /\ payments[p] # "none" /\ payments[q] # "none" => p = q

ConfirmedIsPaid == \A p \in Callers : offered[p].status = "confirmed" <=> payments[p] # "none"

ReferencesInv == ReferencesTyped /\ Answered /\ Indexed /\ ConfirmedIsPaid

\* A call that is not answered goes on without an answer.
LEMMA AdvanceKeeps ==
    ASSUME ReferencesInv, NEW c \in Callers,
           NEW s \in {"asking", "not_open", "not_confirmed", "inserting", "refused"},
           ~AtStage(c, "answered"), Advance(c, s), UNCHANGED <<offered, payments, payerAlerts>>
    PROVE  ReferencesInv'
<1>1. /\ caller' \in [Callers -> Call] /\ caller'[c].stage = s
      /\ \A d \in Callers : d # c => caller'[d] = caller[d]
      /\ \A d \in Callers : caller'[d].reference = caller[d].reference /\ caller'[d].intent = caller[d].intent
  BY DEF ReferencesInv, ReferencesTyped, Call, Advance
<1>2. Answered'
  BY <1>1 DEF ReferencesInv, Answered, AtStage, Of, Alike
<1> QED
  BY <1>1, <1>2 DEF ReferencesInv, ReferencesTyped, Indexed, ConfirmedIsPaid

\* A call is answered, with an open preview of what was asked or with the one it inserts.
LEMMA AnswerKeeps ==
    ASSUME ReferencesInv, NEW c \in Callers, NEW p \in Of(c), Alike(c, p), Answer(c, p)
    PROVE  /\ caller' \in [Callers -> Call]
           /\ \A d \in Callers : caller'[d].reference = caller[d].reference /\ caller'[d].intent = caller[d].intent
           /\ \A d \in Callers : d # c => caller'[d] = caller[d]
           /\ caller'[c].stage = "answered" /\ caller'[c].answer = p
  BY DEF ReferencesInv, ReferencesTyped, Call, Answer, Of, Alike

LEMMA ReadOpenKeeps == ASSUME ReferencesInv, NEW c \in Callers, ReadOpen(c) PROVE ReferencesInv'
<1> DEFINE open == {p \in Of(c) : offered[p].status = "open"}
<1>1. CASE \E p \in open : Retried(c, p)
  <2> DEFINE q == CHOOSE p \in open : Retried(c, p)
  <2>1. q \in Of(c) /\ Alike(c, q) /\ Answer(c, q)
    BY <1>1 DEF ReadOpen, Retried
  <2>2. UNCHANGED <<offered, payments, payerAlerts>>
    BY DEF ReadOpen
  <2> HIDE DEF q
  <2>3. /\ caller' \in [Callers -> Call]
        /\ \A d \in Callers : caller'[d].reference = caller[d].reference /\ caller'[d].intent = caller[d].intent
        /\ \A d \in Callers : d # c => caller'[d] = caller[d]
        /\ caller'[c].stage = "answered" /\ caller'[c].answer = q
    BY <2>1, AnswerKeeps
  <2>4. Answered'
    BY <2>1, <2>2, <2>3 DEF ReferencesInv, Answered, AtStage, Of, Alike
  <2> QED
    BY <2>2, <2>3, <2>4 DEF ReferencesInv, ReferencesTyped, Indexed, ConfirmedIsPaid
<1>2. CASE ~\E p \in open : Retried(c, p)
  <2>1. Advance(c, IF \E p \in open : ~Alike(c, p) THEN "refused" ELSE "not_open")
    BY <1>2 DEF ReadOpen
  <2>2. ~AtStage(c, "answered") /\ UNCHANGED <<offered, payments, payerAlerts>>
    BY DEF ReadOpen, AtStage
  <2> QED
    BY <2>1, <2>2, AdvanceKeeps
<1> QED
  BY <1>1, <1>2

LEMMA ReadsKeep == ASSUME ReferencesInv, NEW c \in Callers, ReadConfirmed(c) \/ ReadPending(c) PROVE ReferencesInv'
<1>1. ~AtStage(c, "answered") /\ UNCHANGED <<offered, payments, payerAlerts>>
  BY DEF ReadConfirmed, ReadPending, AtStage
<1>2. \E s \in {"not_confirmed", "inserting", "refused"} : Advance(c, s)
  BY DEF ReadConfirmed, ReadPending
<1> QED
  BY <1>1, <1>2, AdvanceKeeps

\* The index refuses an insertion where another preview of the reference is open.
LEMMA InsertKeeps == ASSUME ReferencesInv, NEW c \in Callers, InsertPreview(c) PROVE ReferencesInv'
<1>1. ~AtStage(c, "answered") /\ UNCHANGED <<payments, payerAlerts>>
  BY DEF InsertPreview, AtStage
<1>2. CASE \E p \in Of(c) : offered[p].status = "open"
  BY <1>1, <1>2, AdvanceKeeps DEF InsertPreview
<1>3. CASE ~\E p \in Of(c) : offered[p].status = "open"
  <2>1. offered' = [offered EXCEPT ![c].status = "open"] /\ Answer(c, c)
    BY <1>3 DEF InsertPreview
  <2>2. /\ caller' \in [Callers -> Call]
        /\ \A d \in Callers : caller'[d].reference = caller[d].reference /\ caller'[d].intent = caller[d].intent
        /\ \A d \in Callers : d # c => caller'[d] = caller[d]
        /\ caller'[c].stage = "answered" /\ caller'[c].answer = c
    BY <2>1, AnswerKeeps DEF Of, Alike
  <2>3. /\ offered' \in [Callers -> PreviewRow]
        /\ offered'[c].status = "open" /\ offered[c].status = "none"
        /\ \A d \in Callers : d # c => offered'[d] = offered[d]
    <3>1. offered[c].status = "none"
      BY <1>1 DEF ReferencesInv, ReferencesTyped, PreviewRow, Answered
    <3> QED
      BY <3>1, <2>1 DEF ReferencesInv, ReferencesTyped, PreviewRow
  <2>4. Answered'
    BY <1>1, <2>2, <2>3 DEF ReferencesInv, Answered, AtStage, Of, Alike
  <2>5. Indexed' /\ ConfirmedIsPaid'
    BY <1>1, <1>3, <2>2, <2>3 DEF ReferencesInv, Indexed, ConfirmedIsPaid, Of
  <2> QED
    BY <1>1, <2>2, <2>3, <2>4, <2>5 DEF ReferencesInv, ReferencesTyped
<1> QED
  BY <1>2, <1>3

\* What happens to previews and payments leaves the calls alone; no preview comes or is opened again.
LEMMA PreviewsMove ==
    ASSUME ReferencesInv, UNCHANGED caller,
           offered' \in [Callers -> PreviewRow], payments' \in [Callers -> {"none", "open", "concluded"}],
           payerAlerts' \subseteq Intents, Indexed', ConfirmedIsPaid',
           \A p \in Callers : offered'[p].status # "none" => offered[p].status # "none"
    PROVE  ReferencesInv'
  BY DEF ReferencesInv, ReferencesTyped, Answered, AtStage, Of, Alike

LEMMA ConfirmKeeps == ASSUME ReferencesInv, NEW p \in Callers, ConfirmPreview(p) PROVE ReferencesInv'
<1> USE DEF ReferencesInv, ReferencesTyped
<1>1. UNCHANGED <<caller, payerAlerts>> /\ offered[p].status = "open"
  BY DEF ConfirmPreview
<1>2. /\ offered' \in [Callers -> PreviewRow] /\ offered'[p].status = "confirmed"
      /\ \A q \in Callers : q # p => offered'[q] = offered[q]
  BY DEF PreviewRow, ConfirmPreview
<1>3. /\ payments' \in [Callers -> {"none", "open", "concluded"}] /\ payments'[p] = "open"
      /\ \A q \in Callers : q # p => payments'[q] = payments[q]
  BY DEF ConfirmPreview
<1>4. \A q \in Callers : caller[q].reference = caller[p].reference => payments[q] = "none"
  BY DEF ConfirmPreview, Of
<1>5. Indexed'
  BY <1>1, <1>2, <1>3, <1>4 DEF Indexed
<1>6. ConfirmedIsPaid'
  BY <1>2, <1>3 DEF ConfirmedIsPaid
<1> QED
  BY <1>1, <1>2, <1>3, <1>5, <1>6, PreviewsMove

LEMMA OthersKeep ==
    ASSUME ReferencesInv, NEW p \in Callers, Concludes(p) \/ ClosesWindow(p)
    PROVE  ReferencesInv'
<1> USE DEF ReferencesInv, ReferencesTyped
<1>1. /\ UNCHANGED <<caller, payerAlerts>>
      /\ offered' \in [Callers -> PreviewRow] /\ payments' \in [Callers -> {"none", "open", "concluded"}]
      /\ \A q \in Callers : offered'[q].status = offered[q].status /\ (payments'[q] = "none" <=> payments[q] = "none")
  <2>1. CASE Concludes(p)
    BY <2>1 DEF Concludes, Pends
  <2>2. CASE ClosesWindow(p)
    BY <2>2 DEF PreviewRow, ClosesWindow
  <2> QED BY <2>1, <2>2
<1>2. Indexed' /\ ConfirmedIsPaid'
  BY <1>1 DEF Indexed, ConfirmedIsPaid
<1> QED
  BY <1>1, <1>2, PreviewsMove

LEMMA ExpireKeeps == ASSUME ReferencesInv, ExpireOpen PROVE ReferencesInv'
<1> USE DEF ReferencesInv, ReferencesTyped
<1>1. UNCHANGED <<caller, payments>>
  BY DEF ExpireOpen
<1> DEFINE closed == {p \in Callers : offered[p].status = "open" /\ offered[p].over}
           expired(q) == [offered[q] EXCEPT !.status = "expired"]
<1>2. /\ offered' \in [Callers -> PreviewRow]
      /\ \A q \in Callers : offered'[q] = offered[q] \/ (offered[q].status = "open" /\ offered'[q].status = "expired")
  <2>1. \A q \in Callers : expired(q) \in PreviewRow /\ expired(q).status = "expired"
    BY DEF PreviewRow
  <2>2. offered' = [p \in Callers |-> IF p \in closed THEN expired(p) ELSE offered[p]]
    BY DEF ExpireOpen
  <2> HIDE DEF expired
  <2> QED
    BY <2>1, <2>2
<1>3. \A p \in Callers : caller[p].intent \in Intents
  BY DEF Call
<1>4. payerAlerts' \subseteq Intents
  BY <1>3 DEF ExpireOpen
<1>5. Indexed' /\ ConfirmedIsPaid'
  BY <1>1, <1>2 DEF Indexed, ConfirmedIsPaid
<1> QED
  BY <1>1, <1>2, <1>4, <1>5, PreviewsMove

LEMMA ReferencesStart == ReferencesInit => ReferencesInv
  BY DEF ReferencesInit, NotOffered, ReferencesInv, ReferencesTyped, Call, PreviewRow, Answered, Indexed, ConfirmedIsPaid, AtStage

LEMMA ReferencesGoOn == ReferencesInv /\ [ReferencesNext]_referenceVars => ReferencesInv'
<1> SUFFICES ASSUME ReferencesInv, [ReferencesNext]_referenceVars PROVE ReferencesInv'
  OBVIOUS
<1>1. ASSUME NEW c \in Callers, CallerStep(c) PROVE ReferencesInv'
  BY <1>1, ReadOpenKeeps, ReadsKeep, InsertKeeps DEF CallerStep
<1>2. ASSUME NEW p \in Callers, ConfirmPreview(p) PROVE ReferencesInv'
  BY <1>2, ConfirmKeeps
<1>3. ASSUME NEW p \in Callers, Concludes(p) \/ ClosesWindow(p) PROVE ReferencesInv'
  BY <1>3, OthersKeep
<1>4. CASE UNCHANGED referenceVars
  BY <1>4 DEF referenceVars, ReferencesInv, ReferencesTyped, Answered, Indexed, ConfirmedIsPaid, AtStage, Of, Alike
<1> QED
  BY <1>1, <1>2, <1>3, <1>4, ExpireKeeps DEF ReferencesNext

\* A reference of a project has one payment, and who retries it is answered with a preview of what was
\* asked, whatever the calls read before they wrote: the unique indexes of preview and transaction
\* decide what the reads of PreviewService.create cannot.
THEOREM ReferencesAlwaysHold == ReferencesSpec => []ReferencesHold
<1>1. ReferencesInv => ReferencesHold
  <2> SUFFICES ASSUME ReferencesInv PROVE ReferencesHold
    OBVIOUS
  <2> USE DEF ReferencesInv
  <2>1. ReferencesTypeOK
    BY DEF Call, PreviewRow, ReferencesTyped, ReferencesTypeOK
  <2>2. ASSUME NEW c \in Callers, NEW d \in Callers, AtStage(c, "answered"), AtStage(d, "answered"), d \in Of(c),
               {offered[caller[c].answer].status, offered[caller[d].answer].status} \in {{"open"}, {"confirmed"}}
        PROVE  caller[c].answer = caller[d].answer
    <3> DEFINE p == caller[c].answer
               q == caller[d].answer
    <3>1. p \in Callers /\ q \in Callers /\ caller[p].reference = caller[q].reference
      BY <2>2 DEF Answered, Of
    <3> HIDE DEF p, q
    <3>2. \/ offered[p].status = "open" /\ offered[q].status = "open"
          \/ offered[p].status = "confirmed" /\ offered[q].status = "confirmed"
      BY <2>2 DEF p, q
    <3>3. p = q
      BY <3>1, <3>2 DEF Indexed, ConfirmedIsPaid
    <3> QED
      BY <3>3 DEF p, q
  <2>3. ReferenceHolds
    BY <2>2 DEF ReferenceHolds, Answered
  <2> QED
    BY <2>1, <2>3 DEF ReferencesHold
<1> QED
  BY <1>1, ReferencesStart, ReferencesGoOn, PTL DEF ReferencesSpec

-----------------------------------------------------------------------------
(***************************************************************************)
(* Amounts that are stepped to.  A loop that moves an amount by one while  *)
(* a condition holds ends where it first does not; as a recursive function *)
(* it is the only solution of its equation.                                *)
(***************************************************************************)
Ahead(a, n, d) == IF d = 1 THEN a + n ELSE a - n
IsWalk(f, P, d) == f = [a \in Int |-> IF a \in P THEN f[Ahead(a, 1, d)] ELSE a]
Stops(P, d, a, n) == Ahead(a, n, d) \notin P /\ \A m \in 0 .. n - 1 : Ahead(a, m, d) \in P

LEMMA SmallestNumber ==
    ASSUME NEW S \in SUBSET Nat, S # {}
    PROVE  \E n \in S : \A m \in S : n <= m
<1>1. PICK n \in S : \A m \in S : ~ (<<m, n>> \in OpToRel(<, Nat))
  BY NatLessThanWellFounded, WFMin
<1>2. \A m \in S : ~ (m < n)
  BY <1>1 DEF OpToRel
<1> QED
  BY <1>2

LEMMA StopsFirst ==
    ASSUME NEW P, NEW d \in {1, -1}, NEW a \in Int, NEW n \in Nat, Ahead(a, n, d) \notin P
    PROVE  \E k \in Nat : Stops(P, d, a, k)
<1> DEFINE S == {k \in Nat : Ahead(a, k, d) \notin P}
<1>1. PICK k \in S : \A m \in S : k <= m
  <2> n \in S /\ S \in SUBSET Nat
    OBVIOUS
  <2> HIDE DEF S
  <2> QED BY SmallestNumber
<1>2. \A m \in 0 .. k - 1 : Ahead(a, m, d) \in P
  BY <1>1
<1> QED
  BY <1>1, <1>2 DEF Stops

LEMMA StopsOnce ==
    ASSUME NEW P, NEW d \in {1, -1}, NEW a \in Int, NEW k \in Nat, NEW n \in Nat, Stops(P, d, a, k), Stops(P, d, a, n)
    PROVE  k = n
BY DEF Stops

\* Where every walk comes to an end the equation has a solution.
LEMMA WalkExists ==
    ASSUME NEW P, NEW d \in {1, -1}, \A a \in Int : \E n \in Nat : Ahead(a, n, d) \notin P
    PROVE  \E f : IsWalk(f, P, d)
<1> DEFINE count(a) == CHOOSE k \in Nat : Stops(P, d, a, k)
           f == [a \in Int |-> Ahead(a, count(a), d)]
<1>1. \A a \in Int : count(a) \in Nat /\ Stops(P, d, a, count(a))
  BY StopsFirst
<1> HIDE DEF count
<1>2. \A a \in Int : Ahead(a, 1, d) \in Int /\ \A m \in Nat : Ahead(Ahead(a, 1, d), m, d) = Ahead(a, m + 1, d)
  BY DEF Ahead
<1>3. ASSUME NEW a \in Int PROVE f[a] = IF a \in P THEN f[Ahead(a, 1, d)] ELSE a
  <2>1. CASE a \notin P
    <3>1. Stops(P, d, a, 0) /\ Ahead(a, 0, d) = a
      BY <2>1 DEF Stops, Ahead
    <3>2. count(a) = 0
      BY <1>1, <3>1, StopsOnce
    <3> QED BY <2>1, <3>1, <3>2
  <2>2. CASE a \in P
    <3> DEFINE b == Ahead(a, 1, d)
               k == count(b)
    <3>1. b \in Int /\ k \in Nat /\ Stops(P, d, b, k) /\ Ahead(a, 0, d) = a
      BY <1>1, <1>2 DEF Ahead
    <3>2. Ahead(a, k + 1, d) = Ahead(b, k, d)
      BY <1>2, <3>1
    <3> HIDE DEF k
    <3>3. ASSUME NEW m \in 0 .. (k + 1) - 1 PROVE Ahead(a, m, d) \in P
      <4>1. CASE m = 0
        BY <4>1, <3>1, <2>2
      <4>2. CASE m # 0
        <5>1. m - 1 \in 0 .. k - 1 /\ m - 1 \in Nat /\ (m - 1) + 1 = m
          BY <4>2, <3>1
        <5>2. Ahead(b, m - 1, d) = Ahead(a, m, d)
          BY <5>1, <1>2
        <5> HIDE DEF b
        <5> QED BY <5>1, <5>2, <3>1 DEF Stops
      <4> QED BY <4>1, <4>2
    <3>4. Stops(P, d, a, k + 1)
      BY <3>1, <3>2, <3>3 DEF Stops
    <3>5. count(a) = k + 1
      <4> k + 1 \in Nat /\ count(a) \in Nat /\ Stops(P, d, a, count(a))
        BY <1>1, <3>1
      <4> QED BY <3>4, StopsOnce
    <3> QED BY <2>2, <3>1, <3>2, <3>5 DEF k
  <2> QED BY <2>1, <2>2
<1>4. IsWalk(f, P, d)
  <2> HIDE DEF f
  <2>1. f = [a \in Int |-> f[a]]
    BY DEF f
  <2> QED BY <1>3, <2>1 DEF IsWalk
<1> QED
  BY <1>4

\* A solution leads from an amount to where its walk first stops.
LEMMA WalkEnds ==
    ASSUME NEW P, NEW d \in {1, -1}, NEW f, IsWalk(f, P, d), NEW a \in Int, NEW n \in Nat, Ahead(a, n, d) \notin P
    PROVE  \E k \in Nat : Stops(P, d, a, k) /\ f[a] = Ahead(a, k, d)
<1>1. PICK k \in Nat : Stops(P, d, a, k)
  BY StopsFirst
<1>2. \A c \in Int : f[c] = IF c \in P THEN f[Ahead(c, 1, d)] ELSE c
  BY DEF IsWalk
<1> DEFINE S == {m \in 0 .. k : f[Ahead(a, k - m, d)] # Ahead(a, k, d)}
<1>3. ASSUME S # {} PROVE FALSE
  <2>1. PICK m \in S : \A i \in S : m <= i
    <3> S \in SUBSET Nat
      OBVIOUS
    <3> HIDE DEF S
    <3> QED BY <1>3, SmallestNumber
  <2> DEFINE c == Ahead(a, k - m, d)
  <2>2. m \in 0 .. k /\ k - m \in 0 .. k /\ c \in Int /\ f[c] # Ahead(a, k, d)
    BY <2>1 DEF Ahead
  <2>3. CASE m = 0
    BY <2>2, <2>3, <1>1, <1>2 DEF Stops
  <2>4. CASE m # 0
    <3>1. m - 1 \in 0 .. k /\ k - m \in 0 .. k - 1 /\ ~(m <= m - 1) /\ k - (m - 1) = (k - m) + 1
      BY <2>2, <2>4
    <3>2. f[Ahead(a, k - (m - 1), d)] = Ahead(a, k, d)
      BY <2>1, <3>1
    <3>3. Ahead(c, 1, d) = Ahead(a, k - (m - 1), d)
      BY <2>2, <3>1 DEF Ahead
    <3>4. c \in P
      BY <1>1, <3>1 DEF Stops
    <3> HIDE DEF c
    <3> QED BY <1>2, <2>2, <3>2, <3>3, <3>4
  <2> QED BY <2>3, <2>4
<1>4. k \in 0 .. k /\ k - k = 0 /\ Ahead(a, 0, d) = a
  BY DEF Ahead
<1>5. f[a] = Ahead(a, k, d)
  BY <1>3, <1>4
<1> QED
  BY <1>1, <1>5

-----------------------------------------------------------------------------
(***************************************************************************)
(* What a provider debits, unit by unit.                                   *)
(***************************************************************************)
FeeOf(terms) == terms.bps \in Nat /\ terms.fixed \in Nat /\ terms.floor = None /\ terms.ceiling = None

\* Both ways of rounding are a division, of the product raised by a half or by all but one.
LEMMA RoundedUp ==
    ASSUME NEW p \in Int
    PROVE  /\ Down(p) + (IF 2 * Left(p) >= Whole THEN 1 ELSE 0) = Down(p + 5000)
           /\ Down(p) + (IF Left(p) > 0 THEN 1 ELSE 0) = Down(p + 9999)
           /\ Down(p) \in Int /\ Down(p + 5000) \in Int /\ Down(p + 9999) \in Int
BY DEF Down, Left, Whole

LEMMA DownStep ==
    ASSUME NEW p \in Int, NEW q \in Nat, q <= Whole
    PROVE  Down(p + q) - Down(p) \in {0, 1}
BY DEF Down, Whole

LEMMA DownIsNat == ASSUME NEW p \in Nat PROVE Down(p) \in Nat
BY DEF Down, Whole

Offset(rounding) == IF rounding = "half_up" THEN 5000 ELSE 9999

LEMMA FeeIs ==
    ASSUME NEW a \in Int, NEW terms, FeeOf(terms), NEW rounding \in {"ceil", "half_up"}
    PROVE  ProviderFee(a, terms, rounding) = Down(a * terms.bps + Offset(rounding)) + terms.fixed
<1>1. a * terms.bps \in Int
  BY DEF FeeOf
<1> DEFINE p == a * terms.bps
<1>2. CASE rounding = "half_up"
  <2>1. ProviderFee(a, terms, rounding) = AtMost(terms.ceiling, AtLeast(terms.floor, Down(p) + (IF 2 * Left(p) >= Whole THEN 1 ELSE 0) + terms.fixed))
    BY <1>2 DEF ProviderFee, ComputeFee
  <2>2. ProviderFee(a, terms, rounding) = Down(p) + (IF 2 * Left(p) >= Whole THEN 1 ELSE 0) + terms.fixed
    BY <2>1 DEF AtMost, AtLeast, FeeOf
  <2> HIDE DEF p
  <2> QED BY <2>2, <1>1, <1>2, RoundedUp DEF Offset, p
<1>3. CASE rounding = "ceil"
  <2>1. ProviderFee(a, terms, rounding) = Down(p) + (IF Left(p) > 0 THEN 1 ELSE 0) + terms.fixed
    BY <1>3 DEF ProviderFee
  <2> HIDE DEF p
  <2> QED BY <2>1, <1>1, <1>3, RoundedUp DEF Offset, p
<1> QED BY <1>2, <1>3

LEMMA DebitIsInt ==
    ASSUME NEW a \in Int, NEW terms, FeeOf(terms), NEW rounding \in {"ceil", "half_up"}
    PROVE  Debit(a, terms, rounding) \in Int /\ (a >= 0 => Debit(a, terms, rounding) >= a)
<1> DEFINE p == a * terms.bps
<1>1. p \in Int /\ (a >= 0 => p \in Nat) /\ Offset(rounding) \in Nat /\ terms.fixed \in Nat
  BY DEF FeeOf, Offset
<1>2. Debit(a, terms, rounding) = a + (Down(p + Offset(rounding)) + terms.fixed)
  BY FeeIs DEF Debit
<1> HIDE DEF p
<1>3. Down(p + Offset(rounding)) \in Int
  BY <1>1 DEF Down, Whole
<1>4. a >= 0 => Down(p + Offset(rounding)) \in Nat
  <2>1. a >= 0 => p + Offset(rounding) \in Nat
    BY <1>1
  <2> QED BY <2>1, DownIsNat
<1> QED BY <1>1, <1>2, <1>3, <1>4

\* One unit more is debited as one or two units more by a provider that takes part of a unit of each.
LEMMA DebitStep ==
    ASSUME NEW a \in Int, NEW terms, FeeOf(terms), NEW rounding \in {"ceil", "half_up"}, terms.bps <= Whole
    PROVE  Debit(a + 1, terms, rounding) - Debit(a, terms, rounding) \in {1, 2}
<1> DEFINE p == a * terms.bps + Offset(rounding)
<1>1. a + 1 \in Int /\ (a + 1) * terms.bps = a * terms.bps + terms.bps /\ terms.fixed \in Nat /\ terms.bps \in Nat
  BY DEF FeeOf
<1>2. p \in Int /\ (a + 1) * terms.bps + Offset(rounding) = p + terms.bps
  BY <1>1 DEF Offset
<1>3. Debit(a, terms, rounding) = a + (Down(p) + terms.fixed)
  BY FeeIs DEF Debit
<1>4. Debit(a + 1, terms, rounding) = (a + 1) + (Down(p + terms.bps) + terms.fixed)
  BY FeeIs, <1>1, <1>2 DEF Debit
<1> HIDE DEF p
<1>5. Down(p + terms.bps) - Down(p) \in {0, 1}
  BY <1>1, <1>2, DownStep
<1> DEFINE low == Down(p)
           high == Down(p + terms.bps)
<1>6. low \in Int /\ high \in Int
  BY <1>1, <1>2, p + terms.bps \in Int, RoundedUp
<1>7. high - low \in {0, 1}
  BY <1>5
<1> HIDE DEF low, high
<1>8. ((a + 1) + (high + terms.fixed)) - (a + (low + terms.fixed)) = 1 + (high - low)
  <2> DEFINE fixed == terms.fixed
  <2>1. fixed \in Int
    BY <1>1
  <2> HIDE DEF fixed
  <2>2. ((a + 1) + (high + fixed)) - (a + (low + fixed)) = 1 + (high - low)
    BY <2>1, <1>6
  <2> QED BY <2>2 DEF fixed
<1> QED BY <1>3, <1>4, <1>6, <1>7, <1>8 DEF low, high

-----------------------------------------------------------------------------
(***************************************************************************)
(* The amount sent within a quote.                                         *)
(***************************************************************************)
DownWalk(target, terms, rounding) ==
    CHOOSE f : f = [a \in Int |-> IF a > 0 /\ ~ (Debit(a, terms, rounding) <= target) THEN f[a - 1] ELSE a]
UpWalk(target, terms, rounding) ==
    CHOOSE f : f = [a \in Int |-> IF Debit(a + 1, terms, rounding) <= target THEN f[a + 1] ELSE a]
StartWithin(target, terms) == ((target - terms.fixed) * Whole) \div (Whole + terms.bps)

LEMMA WithinIsWalks ==
    ASSUME NEW target, NEW terms, NEW rounding
    PROVE  ProviderAmountWithin(target, terms, rounding)
             = UpWalk(target, terms, rounding)[DownWalk(target, terms, rounding)[StartWithin(target, terms)]]
BY Zenon DEF ProviderAmountWithin, UpWalk, DownWalk, StartWithin

TooMuch(target, terms, rounding) == {a \in Int : a > 0 /\ ~ (Debit(a, terms, rounding) <= target)}
Spare(target, terms, rounding) == {a \in Int : Debit(a + 1, terms, rounding) <= target}

LEMMA DownWalks ==
    ASSUME NEW target \in Int, NEW terms, NEW rounding, NEW a \in Int
    PROVE  \E k \in Nat : /\ Stops(TooMuch(target, terms, rounding), -1, a, k)
                          /\ DownWalk(target, terms, rounding)[a] = a - k
<1> DEFINE P == TooMuch(target, terms, rounding)
           f == DownWalk(target, terms, rounding)
<1>1. \A c \in Int : \E n \in Nat : Ahead(c, n, -1) \notin P
  <2> TAKE c \in Int
  <2>1. CASE c <= 0
    <3> Ahead(c, 0, -1) = c
      BY DEF Ahead
    <3> QED BY <2>1 DEF TooMuch
  <2>2. CASE c > 0
    <3> c \in Nat /\ Ahead(c, c, -1) = 0
      BY <2>2 DEF Ahead
    <3> QED BY DEF TooMuch
  <2> QED BY <2>1, <2>2
<1>2. PICK g : IsWalk(g, P, -1)
  <2> HIDE DEF P
  <2> QED BY <1>1, WalkExists
<1>3. \A c \in Int : (c \in P <=> c > 0 /\ ~ (Debit(c, terms, rounding) <= target)) /\ Ahead(c, 1, -1) = c - 1
  BY DEF TooMuch, Ahead
<1>4. \A h : IsWalk(h, P, -1) <=> h = [c \in Int |-> IF c > 0 /\ ~ (Debit(c, terms, rounding) <= target) THEN h[c - 1] ELSE c]
  <2> HIDE DEF P
  <2> QED BY <1>3 DEF IsWalk
<1>5. IsWalk(f, P, -1)
  <2> HIDE DEF P
  <2> QED BY <1>2, <1>4 DEF DownWalk
<1>6. PICK n \in Nat : Ahead(a, n, -1) \notin P
  BY <1>1
<1>7. \A k \in Nat : Ahead(a, k, -1) = a - k
  BY DEF Ahead
<1> HIDE DEF P, f
<1>8. \E k \in Nat : Stops(P, -1, a, k) /\ f[a] = Ahead(a, k, -1)
  BY <1>5, <1>6, WalkEnds
<1> QED BY <1>7, <1>8 DEF P, f

LEMMA UpWalks ==
    ASSUME NEW target \in Int, NEW terms, FeeOf(terms), NEW rounding \in {"ceil", "half_up"}, NEW a \in Int
    PROVE  \E k \in Nat : /\ Stops(Spare(target, terms, rounding), 1, a, k)
                          /\ UpWalk(target, terms, rounding)[a] = Ahead(a, k, 1)
<1> DEFINE P == Spare(target, terms, rounding)
           f == UpWalk(target, terms, rounding)
<1>1. \A c \in Int : \E n \in Nat : Ahead(c, n, 1) \notin P
  <2> TAKE c \in Int
  <2>1. PICK n \in Nat : c + n >= 0 /\ c + n >= target
    <3>1. \E n \in Nat : c + n >= 0 /\ c + n >= target
      <4>1. CASE c >= 0 /\ c >= target
        BY <4>1, 0 \in Nat
      <4>2. CASE c < 0 /\ target <= 0
        BY <4>2, -c \in Nat, c + (-c) = 0
      <4>3. CASE c < target /\ target > 0
        <5> DEFINE m == target - c
        <5>1. m \in Nat /\ c + m = target
          BY <4>3
        <5> HIDE DEF m
        <5> QED BY <4>3, <5>1
      <4> QED BY <4>1, <4>2, <4>3
    <3> QED BY <3>1
  <2>2. c + n \in Int /\ (c + n) + 1 \in Int /\ (c + n) + 1 >= 0 /\ (c + n) + 1 > target
    BY <2>1
  <2> DEFINE e == (c + n) + 1
  <2>3. Debit(e, terms, rounding) \in Int /\ Debit(e, terms, rounding) >= e
    BY <2>2, DebitIsInt
  <2>4. e > target /\ e \in Int
    BY <2>2
  <2>5. ~ (Debit(e, terms, rounding) <= target)
    <3> HIDE DEF e
    <3> QED BY <2>3, <2>4
  <2>6. Ahead(c, n, 1) = c + n
    BY DEF Ahead
  <2> QED BY <2>5, <2>6 DEF Spare
<1>2. PICK g : IsWalk(g, P, 1)
  <2> HIDE DEF P
  <2> QED BY <1>1, WalkExists
<1>3. \A c \in Int : (c \in P <=> Debit(c + 1, terms, rounding) <= target) /\ Ahead(c, 1, 1) = c + 1
  BY DEF Spare, Ahead
<1>4. \A h : IsWalk(h, P, 1) <=> h = [c \in Int |-> IF Debit(c + 1, terms, rounding) <= target THEN h[c + 1] ELSE c]
  <2> HIDE DEF P
  <2> QED BY <1>3 DEF IsWalk
<1>5. IsWalk(f, P, 1)
  <2> HIDE DEF P
  <2> QED BY <1>2, <1>4 DEF UpWalk
<1>6. PICK n \in Nat : Ahead(a, n, 1) \notin P
  BY <1>1
<1> HIDE DEF P, f
<1>8. \E k \in Nat : Stops(P, 1, a, k) /\ f[a] = Ahead(a, k, 1)
  BY <1>5, <1>6, WalkEnds
<1> QED BY <1>8 DEF P, f

\* An amount sent on a collection is debited as what was quoted or as one unit less.
LEMMA SentWithin ==
    ASSUME NEW target \in Int, NEW terms, FeeOf(terms), NEW rounding \in {"ceil", "half_up"}
    PROVE  LET sent == ProviderAmountWithin(target, terms, rounding)
           IN  /\ sent \in Int
               /\ sent > 0 /\ terms.bps <= Whole => Debit(sent, terms, rounding) \in {target - 1, target}
<1> DEFINE start == StartWithin(target, terms)
           D == TooMuch(target, terms, rounding)
           U == Spare(target, terms, rounding)
           sent == ProviderAmountWithin(target, terms, rounding)
<1>1. start \in Int
  BY DEF StartWithin, FeeOf, Whole
<1> HIDE DEF start
<1>2. PICK k \in Nat : Stops(D, -1, start, k) /\ DownWalk(target, terms, rounding)[start] = start - k
  BY <1>1, DownWalks
<1> DEFINE low == start - k
<1>3. low \in Int /\ low \notin D
  BY <1>1, <1>2 DEF Stops, Ahead
<1> HIDE DEF low, D, U
<1>4. PICK n \in Nat : Stops(U, 1, low, n) /\ UpWalk(target, terms, rounding)[low] = Ahead(low, n, 1)
  BY <1>3, UpWalks DEF U
<1>5. sent = low + n /\ low + n \in Int
  <2>1. sent = UpWalk(target, terms, rounding)[DownWalk(target, terms, rounding)[start]]
    BY WithinIsWalks DEF start
  <2>2. Ahead(low, n, 1) = low + n
    BY DEF Ahead
  <2> QED BY <2>1, <2>2, <1>2, <1>3, <1>4 DEF low
<1>6. ~ (Debit(sent + 1, terms, rounding) <= target)
  BY <1>3, <1>4, <1>5 DEF Stops, Ahead, U, Spare
<1> HIDE DEF sent
<1>7. ASSUME sent > 0 PROVE Debit(sent, terms, rounding) <= target
  <2>1. CASE n = 0
    BY <2>1, <1>3, <1>5, <1>7 DEF D, TooMuch
  <2>2. CASE n # 0
    <3>1. n - 1 \in 0 .. n - 1 /\ low + (n - 1) \in Int /\ (low + (n - 1)) + 1 = sent
      BY <2>2, <1>3, <1>5
    <3>2. low + (n - 1) \in U
      BY <3>1, <1>3, <1>4 DEF Stops, Ahead
    <3> QED BY <3>1, <3>2 DEF U, Spare
  <2> QED BY <2>1, <2>2
<1>8. ASSUME sent > 0, terms.bps <= Whole PROVE Debit(sent, terms, rounding) \in {target - 1, target}
  <2> DEFINE x1 == Debit(sent, terms, rounding)
             x2 == Debit(sent + 1, terms, rounding)
  <2>1. x1 \in Int /\ x2 \in Int
    BY <1>5, sent + 1 \in Int, DebitIsInt
  <2>2. x2 - x1 \in {1, 2}
    BY <1>5, <1>8, DebitStep
  <2>3. x1 <= target /\ ~ (x2 <= target)
    BY <1>6, <1>7, <1>8
  <2> HIDE DEF x1, x2
  <2>4. x1 \in {target - 1, target}
    BY <2>1, <2>2, <2>3
  <2> QED BY <2>4 DEF x1
<1> QED BY <1>5, <1>8 DEF sent

-----------------------------------------------------------------------------
(***************************************************************************)
(* The amount sent to deliver what was promised.                           *)
(***************************************************************************)
UpToEnough(target, terms) ==
    CHOOSE f : f = [s \in Int |-> IF Delivered(s, terms) >= target THEN s ELSE f[s + 1]]
DownToEnough(target, terms) ==
    CHOOSE f : f = [s \in Int |-> IF s > 1 /\ Delivered(s - 1, terms) >= target THEN f[s - 1] ELSE s]
StartDelivering(target, terms) == -((-(target + terms.fixed) * Whole) \div (Whole - terms.bps))

LEMMA DeliveringIsWalks ==
    ASSUME NEW target, NEW terms
    PROVE  ProviderAmountDelivering(target, terms) = DownToEnough(target, terms)[UpToEnough(target, terms)[StartDelivering(target, terms)]]
BY Zenon DEF ProviderAmountDelivering, UpToEnough, DownToEnough, StartDelivering

LEMMA Quotient ==
    ASSUME NEW n \in Int, NEW w \in Nat \ {0}
    PROVE  n \div w \in Int /\ w * (n \div w) <= n /\ n < w * (n \div w) + w
OBVIOUS

LEMMA ProductGrows ==
    ASSUME NEW a \in Int, NEW b \in Int, NEW w \in Nat, a <= b
    PROVE  a * w \in Int /\ b * w \in Int /\ a * w <= b * w
<1>1. (b - a) \in Nat /\ (b - a) * w \in Nat
  OBVIOUS
<1>2. (b - a) * w = b * w - a * w
  OBVIOUS
<1> QED BY <1>1, <1>2

\* The starting point delivers the target, and one unit less does not.
LEMMA StartIsEnough ==
    ASSUME NEW target \in Int, NEW terms, FeeOf(terms), terms.bps < Whole
    PROVE  LET start == StartDelivering(target, terms)
           IN  /\ start \in Int
               /\ Delivered(start, terms) = target
               /\ ~ (Delivered(start - 1, terms) >= target)
               /\ \A s \in Int : s >= start => Delivered(s, terms) >= target
<1> DEFINE w == Whole - terms.bps
           t == target + terms.fixed
           start == StartDelivering(target, terms)
           q == (-t * Whole) \div w
<1>1. w \in Nat \ {0} /\ w <= Whole /\ t \in Int /\ terms.fixed \in Int /\ start = -q /\ target = t - terms.fixed
  BY DEF FeeOf, Whole, StartDelivering
<1>2. \A s \in Int : s * w \in Int /\ Delivered(s, terms) = Down(s * w) - terms.fixed
  BY <1>1 DEF Delivered
<1> HIDE DEF w, t, start
<1>3. q \in Int /\ w * q <= -t * Whole /\ -t * Whole < w * q + w
  BY <1>1, Quotient, -t * Whole \in Int DEF Whole
<1> HIDE DEF q
<1>4. start \in Int /\ start - 1 \in Int
  BY <1>1, <1>3
<1>5. start * w = -(w * q) /\ (start - 1) * w = start * w - w
  BY <1>1, <1>3
<1>6. w * q \in Int /\ -t * Whole = -(t * 10000)
  BY <1>1, <1>3 DEF Whole
<1> DEFINE p == start * w
<1>7. p \in Int /\ p >= t * 10000 /\ p - w < t * 10000
  BY <1>1, <1>3, <1>5, <1>6
<1> HIDE DEF p
<1>8. ASSUME NEW n \in Int PROVE (Down(n) >= t <=> n >= t * 10000) /\ Down(n) \in Int
  BY <1>1 DEF Down, Whole
<1>9. Down(p) = t
  BY <1>1, <1>7 DEF Down, Whole
<1>10. Delivered(start, terms) = target
  BY <1>1, <1>2, <1>4, <1>9 DEF p
<1>11. ~ (Delivered(start - 1, terms) >= target)
  <2> DEFINE n == (start - 1) * w
  <2>1. n \in Int /\ n = p - w /\ Delivered(start - 1, terms) = Down(n) - terms.fixed
    BY <1>2, <1>4, <1>5 DEF p
  <2> HIDE DEF n
  <2>2. ~ (Down(n) >= t) /\ Down(n) \in Int
    BY <2>1, <1>1, <1>7, <1>8
  <2> QED BY <2>1, <2>2, <1>1
<1>12. ASSUME NEW s \in Int, s >= start PROVE Delivered(s, terms) >= target
  <2> DEFINE n == s * w
  <2>1. n \in Int /\ Delivered(s, terms) = Down(n) - terms.fixed
    BY <1>2
  <2>2. n >= p
    BY <1>1, <1>4, <1>12, ProductGrows DEF p
  <2> HIDE DEF n
  <2>3. Down(n) >= t /\ Down(n) \in Int
    BY <2>1, <2>2, <1>1, <1>7, <1>8
  <2> QED BY <2>1, <2>3, <1>1
<1> QED BY <1>4, <1>10, <1>11, <1>12 DEF start

Short(target, terms) == {s \in Int : ~ (Delivered(s, terms) >= target)}
Spared(target, terms) == {s \in Int : s > 1 /\ Delivered(s - 1, terms) >= target}

LEMMA UpStays ==
    ASSUME NEW target \in Int, NEW terms, FeeOf(terms), terms.bps < Whole
    PROVE  UpToEnough(target, terms)[StartDelivering(target, terms)] = StartDelivering(target, terms)
<1> DEFINE P == Short(target, terms)
           f == UpToEnough(target, terms)
           start == StartDelivering(target, terms)
<1>0. start \in Int /\ Delivered(start, terms) >= target /\ \A s \in Int : s >= start => Delivered(s, terms) >= target
  BY StartIsEnough
<1> HIDE DEF start
<1>1. \A c \in Int : \E n \in Nat : Ahead(c, n, 1) \notin P
  <2> TAKE c \in Int
  <2>1. \A n \in Nat : Ahead(c, n, 1) = c + n
    BY DEF Ahead
  <2>2. CASE c >= start
    <3> 0 \in Nat /\ c + 0 = c
      OBVIOUS
    <3> QED BY <2>1, <2>2, <1>0 DEF Short
  <2>3. CASE c < start
    <3> DEFINE n == start - c
    <3>1. n \in Nat /\ c + n = start
      BY <2>3, <1>0
    <3> HIDE DEF n
    <3> QED BY <3>1, <2>1, <1>0 DEF Short
  <2> QED BY <2>2, <2>3, <1>0
<1>2. PICK g : IsWalk(g, P, 1)
  <2> HIDE DEF P
  <2> QED BY <1>1, WalkExists
<1>3. \A s \in Int : (s \in P <=> ~ (Delivered(s, terms) >= target)) /\ Ahead(s, 1, 1) = s + 1
  BY DEF Short, Ahead
<1>4. \A h : IsWalk(h, P, 1) <=> h = [s \in Int |-> IF Delivered(s, terms) >= target THEN s ELSE h[s + 1]]
  <2> HIDE DEF P
  <2> QED BY <1>3 DEF IsWalk
<1>5. IsWalk(f, P, 1)
  <2> HIDE DEF P
  <2> QED BY <1>2, <1>4 DEF UpToEnough
<1>6. start \notin P
  BY <1>0 DEF Short
<1> HIDE DEF P, f
<1>7. f[start] = start
  BY <1>0, <1>5, <1>6 DEF IsWalk
<1> QED BY <1>7 DEF f, start

LEMMA DownStays ==
    ASSUME NEW target \in Int, NEW terms, FeeOf(terms), terms.bps < Whole
    PROVE  DownToEnough(target, terms)[StartDelivering(target, terms)] = StartDelivering(target, terms)
<1> DEFINE P == Spared(target, terms)
           f == DownToEnough(target, terms)
           start == StartDelivering(target, terms)
<1>0. start \in Int /\ ~ (Delivered(start - 1, terms) >= target)
  BY StartIsEnough
<1> HIDE DEF start
<1>1. \A c \in Int : \E n \in Nat : Ahead(c, n, -1) \notin P
  <2> TAKE c \in Int
  <2>1. CASE c <= 0
    <3> Ahead(c, 0, -1) = c
      BY DEF Ahead
    <3> QED BY <2>1 DEF Spared
  <2>2. CASE c > 0
    <3> c \in Nat /\ Ahead(c, c, -1) = 0
      BY <2>2 DEF Ahead
    <3> QED BY DEF Spared
  <2> QED BY <2>1, <2>2
<1>2. PICK g : IsWalk(g, P, -1)
  <2> HIDE DEF P
  <2> QED BY <1>1, WalkExists
<1>3. \A s \in Int : (s \in P <=> s > 1 /\ Delivered(s - 1, terms) >= target) /\ Ahead(s, 1, -1) = s - 1
  BY DEF Spared, Ahead
<1>4. \A h : IsWalk(h, P, -1) <=> h = [s \in Int |-> IF s > 1 /\ Delivered(s - 1, terms) >= target THEN h[s - 1] ELSE s]
  <2> HIDE DEF P
  <2> QED BY <1>3 DEF IsWalk
<1>5. IsWalk(f, P, -1)
  <2> HIDE DEF P
  <2> QED BY <1>2, <1>4 DEF DownToEnough
<1>6. start \notin P
  BY <1>0 DEF Spared
<1> HIDE DEF P, f
<1>7. f[start] = start
  BY <1>0, <1>5, <1>6 DEF IsWalk
<1> QED BY <1>7 DEF f, start

\* A provider that deducts its fee delivers what was promised of what it is sent.
LEMMA SentDelivers ==
    ASSUME NEW target \in Int, NEW terms, FeeOf(terms), terms.bps < Whole
    PROVE  /\ ProviderAmountDelivering(target, terms) \in Int
           /\ Delivered(ProviderAmountDelivering(target, terms), terms) = target
<1>1. ProviderAmountDelivering(target, terms) = StartDelivering(target, terms)
  BY DeliveringIsWalks, UpStays, DownStays
<1> QED BY <1>1, StartIsEnough

-----------------------------------------------------------------------------
(***************************************************************************)
(* Prices.  What a preview quotes is a sum of whole amounts; what is sent  *)
(* is computed from it as above; and the amount a refusal names was tried. *)
(***************************************************************************)
Quotes == [processing : Int, platform : Int, charged : Int, settled : Int]

PaymentTyped ==
    payment \in [stage : {"asked", "refused", "told", "quoted", "sent", "failed"}, requested : Amounts,
                 figures : Quotes \cup {None}, binding : Bindings \cup {None}, sent : Int, does : Int]

PricesInv ==
    /\ offer \in Offers /\ PaymentTyped /\ down \subseteq Bindings
    /\ payment.stage \in {"quoted", "sent"} => payment.figures \in Quotes
    /\ QuoteKept
    /\ RefusalIsUsable

\* Providers that add their fee to a collection take at most a unit of each.
FeesTakeAPart ==
    \A o \in Offers : o.direction = "collection" => \A b \in DOMAIN o.bindings : o.bindings[b].fee.bps <= Whole

\* An amount within the route's limits that a provider takes.
Usable(n) == n \in Limits.minimum .. Limits.maximum /\ AvailableBindings(CounterpartyAmount(Figures(n))) # {}

LEMMA LeastOf ==
    ASSUME NEW a \in Int, NEW b \in Int, NEW S \in SUBSET (a .. b), S # {}
    PROVE  \E r \in S : \A s \in S : r <= s
<1> DEFINE N == {n \in Nat : a + n \in S}
<1>1. N \in SUBSET Nat /\ N # {}
  <2>1. PICK s \in S : TRUE
    OBVIOUS
  <2>2. s - a \in Nat /\ a + (s - a) = s
    OBVIOUS
  <2> QED BY <2>1, <2>2
<1>2. PICK n \in N : \A m \in N : n <= m
  <2> HIDE DEF N
  <2> QED BY <1>1, SmallestNumber
<1>3. ASSUME NEW s \in S PROVE a + n <= s
  <2>1. s \in Int /\ s - a \in Nat /\ a + (s - a) = s
    OBVIOUS
  <2>2. n <= s - a /\ n \in Nat
    BY <1>2, <2>1
  <2> QED BY <2>1, <2>2
<1> QED BY <1>2, <1>3

LEMMA GreatestOf ==
    ASSUME NEW a \in Int, NEW b \in Int, NEW S \in SUBSET (a .. b), S # {}
    PROVE  \E r \in S : \A s \in S : s <= r
<1> DEFINE N == {n \in Nat : b - n \in S}
<1>1. N \in SUBSET Nat /\ N # {}
  <2>1. PICK s \in S : TRUE
    OBVIOUS
  <2>2. b - s \in Nat /\ b - (b - s) = s
    OBVIOUS
  <2> QED BY <2>1, <2>2
<1>2. PICK n \in N : \A m \in N : n <= m
  <2> HIDE DEF N
  <2> QED BY <1>1, SmallestNumber
<1>3. ASSUME NEW s \in S PROVE s <= b - n
  <2>1. s \in Int /\ b - s \in Nat /\ b - (b - s) = s
    OBVIOUS
  <2>2. n <= b - s /\ n \in Nat
    BY <1>2, <2>1
  <2> QED BY <2>1, <2>2
<1> QED BY <1>2, <1>3

LEMMA LimitsAreNat == ASSUME offer \in Offers PROVE Limits.minimum \in Nat /\ Limits.maximum \in Nat
<1>1. /\ offer.route.minimum \in Nat /\ offer.route.maximum \in Nat
      /\ offer.grant.minimum \in Nat \cup {None} /\ offer.grant.maximum \in Nat \cup {None}
  BY PricingOK
<1> QED BY <1>1 DEF Limits, ResolveLimits, AtLeast, AtMost

LEMMA TermsAreTerms ==
    ASSUME offer \in Offers, NEW kind \in {"processing", "platform"}
    PROVE  TermsOf(kind) \in FeeTerms
<1>1. offer.route[kind] \in FeeTerms /\ offer.grant[kind] \in OwnTerms
  BY PricingOK
<1> DEFINE route == offer.route[kind]
           grant == offer.grant[kind]
<1>2. TermsOf(kind) = ResolveTerms(route, grant)
  BY DEF TermsOf
<1> HIDE DEF route, grant
<1>3. route \in FeeTerms /\ grant \in OwnTerms
  BY <1>1 DEF route, grant
<1>4. Or(grant.fixed, 0) \in Nat /\ (grant.bps # None => grant.bps \in Nat)
  BY <1>3 DEF Or, OwnTerms
<1>5. ResolveTerms(route, grant) \in FeeTerms
  BY <1>3, <1>4 DEF ResolveTerms, FeeTerms
<1> QED BY <1>2, <1>5

LEMMA FeeIsInt == ASSUME NEW base \in Int, NEW terms \in FeeTerms PROVE ComputeFee(base, terms).amount \in Int
<1> DEFINE p == base * terms.bps
           n == Down(p) + (IF 2 * Left(p) >= Whole THEN 1 ELSE 0) + terms.fixed
<1>1. p \in Int /\ terms.fixed \in Nat /\ terms.floor \in Nat \cup {None} /\ terms.ceiling \in Nat \cup {None}
  BY DEF FeeTerms
<1>2. ComputeFee(base, terms).amount = AtMost(terms.ceiling, AtLeast(terms.floor, n))
  BY DEF ComputeFee
<1> HIDE DEF p
<1>3. n \in Int
  BY <1>1 DEF Down, Left, Whole
<1> HIDE DEF n
<1>4. AtLeast(terms.floor, n) \in Int
  BY <1>1, <1>3 DEF AtLeast
<1> QED BY <1>1, <1>2, <1>4 DEF AtMost

\* What one side gives is what the other receives and the fees, whoever bears them.
LEMMA FiguresAreQuotes ==
    ASSUME offer \in Offers, NEW r \in Int
    PROVE  /\ Figures(r) \in Quotes
           /\ Figures(r).charged = Figures(r).settled + Figures(r).processing + Figures(r).platform
<1> DEFINE x1 == ComputeFee(r, TermsOf("processing")).amount
           x2 == ComputeFee(r, TermsOf("platform")).amount
           b1 == Bearer("processing")
           b2 == Bearer("platform")
           fees == [processing |-> x1, platform |-> x2]
           bearers == [processing |-> b1, platform |-> b2]
           c == Compose(Direction, r, fees, bearers)
<1>1. x1 \in Int /\ x2 \in Int
  BY TermsAreTerms, FeeIsInt
<1>2. b1 \in Sides /\ b2 \in Sides
  <2>1. /\ offer.route.bearers \in [processing : Sides, platform : Sides]
        /\ offer.grant.bearers \in [processing : Sides \cup {None}, platform : Sides \cup {None}]
    BY PricingOK
  <2> QED BY <2>1 DEF Bearer, Or
<1>3. Direction \in {"collection", "disbursement"}
  BY PricingOK DEF Direction
<1>4. Figures(r) = [processing |-> x1, platform |-> x2,
                    charged |-> IF Direction = "collection" THEN c.counterparty ELSE c.project,
                    settled |-> IF Direction = "collection" THEN c.project ELSE c.counterparty]
  BY DEF Figures
<1> HIDE DEF x1, x2, b1, b2
<1>5. fees.processing = x1 /\ fees.platform = x2 /\ bearers.processing = b1 /\ bearers.platform = b2
  OBVIOUS
<1> HIDE DEF fees, bearers
<1> DEFINE y1 == (IF b1 = "counterparty" THEN x1 ELSE 0) + (IF b2 = "counterparty" THEN x2 ELSE 0)
           y2 == (IF b1 = "project" THEN x1 ELSE 0) + (IF b2 = "project" THEN x2 ELSE 0)
           sign == IF Direction = "collection" THEN 1 ELSE -1
<1>6. c = [counterparty |-> r + sign * y1, project |-> r - sign * y2]
  BY <1>5 DEF Compose
<1>7. c.counterparty = r + sign * y1 /\ c.project = r - sign * y2
  BY <1>6
<1>8. y1 \in Int /\ y2 \in Int /\ y1 + y2 = x1 + x2
  BY <1>1, <1>2 DEF Sides
<1> HIDE DEF y1, y2, c
<1>9. CASE Direction = "collection"
  <2>1. c.counterparty = r + y1 /\ c.project = r - y2
    BY <1>7, <1>8, <1>9
  <2>2. Figures(r) = [processing |-> x1, platform |-> x2, charged |-> r + y1, settled |-> r - y2]
    BY <1>4, <1>9, <2>1
  <2> QED BY <2>2, <1>1, <1>8 DEF Quotes
<1>10. CASE Direction = "disbursement"
  <2>1. c.counterparty = r - y1 /\ c.project = r + y2
    BY <1>7, <1>8, <1>10
  <2>2. Figures(r) = [processing |-> x1, platform |-> x2, charged |-> r + y2, settled |-> r - y1]
    BY <1>4, <1>10, <2>1
  <2> QED BY <2>2, <1>1, <1>8 DEF Quotes
<1> QED BY <1>3, <1>9, <1>10

\* The amount a refusal names is one that was found to clear.
LEMMA RefusalClears ==
    ASSUME offer \in Offers, NEW r \in Limits.minimum .. Limits.maximum, ProviderLimitRefusal(r) # None
    PROVE  Usable(ProviderLimitRefusal(r)) /\ ProviderLimitRefusal(r) \in Int
<1> DEFINE low == Limits.minimum
           high == Limits.maximum
           above == {n \in r + 1 .. high : Clears(n)}
           below == {n \in low .. r - 1 : Clears(n)}
           least == CHOOSE n \in above : \A m \in above : n <= m
           greatest == CHOOSE n \in below : \A m \in below : m <= n
           told == ProviderLimitRefusal(r)
<1>1. low \in Int /\ high \in Int /\ r \in Int /\ low <= r /\ r <= high
  BY LimitsAreNat
<1>2. told = IF Clears(r) \/ (above = {} /\ below = {}) THEN None ELSE IF above # {} THEN least ELSE greatest
  BY Zenon DEF ProviderLimitRefusal
<1>3. above \in SUBSET (r + 1 .. high) /\ below \in SUBSET (low .. r - 1) /\ \A n \in above \cup below : Clears(n)
  OBVIOUS
<1>0. told # None
  OBVIOUS
<1> HIDE DEF above, below, told
<1>4. ASSUME above # {} PROVE told \in above
  <2>1. \E n \in above : \A m \in above : n <= m
    BY <1>1, r + 1 \in Int, <1>3, <1>4, LeastOf
  <2>2. least \in above
    BY <2>1
  <2> QED BY <1>0, <1>2, <1>4, <2>2
<1>5. ASSUME above = {}, below # {} PROVE told \in below
  <2>1. \E n \in below : \A m \in below : m <= n
    BY <1>1, r - 1 \in Int, <1>3, <1>5, GreatestOf
  <2>2. greatest \in below
    BY <2>1
  <2> QED BY <1>0, <1>2, <1>5, <2>2
<1> HIDE DEF low, high, least, greatest
<1>6. told \in above \cup below
  BY <1>0, <1>2, <1>4, <1>5
<1>7. told \in low .. high /\ told \in Int
  BY <1>1, <1>3, <1>6
<1>8. Clears(told)
  BY <1>3, <1>6
<1>9. AvailableBindings(CounterpartyAmount(Figures(told))) # {}
  BY <1>8 DEF Clears, AvailableBindings
<1> QED BY <1>7, <1>9 DEF Usable, told, low, high

-----------------------------------------------------------------------------
LEMMA PricesStart == PricingInit => PricesInv
<1> SUFFICES ASSUME PricingInit PROVE PricesInv
  OBVIOUS
<1>1. PICK r \in Amounts : payment = [stage |-> "asked", requested |-> r, figures |-> None, binding |-> None, sent |-> 0, does |-> 0]
  BY DEF PricingInit
<1>2. offer \in Offers /\ down \subseteq Bindings /\ payment.stage = "asked"
  BY <1>1 DEF PricingInit, Bindings
<1>3. PaymentTyped
  BY <1>1 DEF PaymentTyped
<1> QED BY <1>2, <1>3 DEF PricesInv, QuoteKept, RefusalIsUsable

LEMMA UsableKept ==
    ASSUME NEW n, UNCHANGED <<offer, down>>
    PROVE  Usable(n)' = Usable(n)
BY DEF Usable, Limits, AvailableBindings, Bindings, Admits, Binding, CounterpartyAmount, Figures, Direction, TermsOf, Bearer

LEMMA PreviewKeeps == ASSUME PricesInv, Preview PROVE PricesInv'
<1> USE DEF PricesInv
<1> DEFINE r == payment.requested
           f == Figures(r)
           told == ProviderLimitRefusal(r)
<1>1. offer' = offer /\ down' = down /\ payment.stage = "asked"
  BY DEF Preview
<1>2. offer' \in Offers /\ down' \subseteq Bindings' /\ Bindings' = Bindings /\ Direction' = Direction
  BY <1>1 DEF Bindings, Direction
<1>3. r \in Int /\ f \in Quotes /\ f.charged = f.settled + f.processing + f.platform
  <2>0. Amounts \subseteq Nat
    BY PricingOK
  <2>1. r \in Int
    <3> HIDE DEF f, told, PricesInv
    <3>1. PaymentTyped
      BY DEF PricesInv
    <3>2. payment.requested \in Amounts
      BY <3>1 DEF PaymentTyped
    <3>3. payment.requested \in Nat
      BY <2>0, <3>2
    <3> QED BY <3>3
  <2> HIDE DEF r
  <2> QED BY <2>1, FiguresAreQuotes
<1>4. CASE payment' = [payment EXCEPT !.stage = "refused"]
  <2>1. PaymentTyped' /\ payment'.stage = "refused"
    BY <1>2, <1>4 DEF PaymentTyped
  <2> QED BY <1>2, <2>1 DEF QuoteKept, RefusalIsUsable
<1>5. CASE /\ ~ (r < Limits.minimum \/ r > Limits.maximum) /\ told # None
           /\ payment' = [payment EXCEPT !.stage = "told", !.sent = told]
  <2>1. r \in Limits.minimum .. Limits.maximum
    BY <1>3, <1>5, LimitsAreNat
  <2>2. Usable(told) /\ told \in Int
    <3> HIDE DEF r
    <3> QED BY <1>5, <2>1, RefusalClears
  <2> HIDE DEF told
  <2>3. PaymentTyped' /\ payment'.stage = "told" /\ payment'.sent = told
    BY <1>2, <1>5, <2>2 DEF PaymentTyped
  <2>4. Usable(payment.sent)'
    <3>1. \A n : Usable(n)' = Usable(n)
      BY <1>1, UsableKept
    <3> QED BY <2>2, <2>3, <3>1 DEF Usable
  <2>5. RefusalIsUsable'
    BY <2>4 DEF RefusalIsUsable, Usable
  <2> QED BY <1>2, <2>3, <2>5 DEF QuoteKept
<1>6. CASE payment' = [payment EXCEPT !.stage = "quoted", !.figures = f]
  <2> HIDE DEF f
  <2>1. PaymentTyped' /\ payment'.stage = "quoted" /\ payment'.figures = f
    BY <1>2, <1>3, <1>6 DEF PaymentTyped
  <2> QED BY <1>2, <1>3, <2>1 DEF QuoteKept, RefusalIsUsable
<1>7. \/ payment' = [payment EXCEPT !.stage = "refused"]
      \/ /\ ~ (r < Limits.minimum \/ r > Limits.maximum) /\ told # None
         /\ payment' = [payment EXCEPT !.stage = "told", !.sent = told]
      \/ payment' = [payment EXCEPT !.stage = "quoted", !.figures = f]
  BY DEF Preview
<1> QED BY <1>4, <1>5, <1>6, <1>7

\* What a binding is sent, and what its provider makes of it.
LEMMA SentIsKept ==
    ASSUME FeesTakeAPart, offer \in Offers, NEW b \in Bindings, NEW f \in Quotes, ~ TakesWhole(b),
           Direction = "collection" => AmountToSend(b, f) > 0
    PROVE  LET sent == AmountToSend(b, f)
               does == Experience(b, sent)
           IN  /\ sent \in Int /\ does \in Int
               /\ Direction = "collection" => does \in {f.charged - 1, f.charged}
               /\ Direction = "disbursement" => does = f.settled
<1> DEFINE fee == Binding(b).fee
           rounding == Binding(b).rounding
           sent == AmountToSend(b, f)
           does == Experience(b, sent)
<1>1. FeeOf(fee) /\ rounding \in {"ceil", "half_up"} /\ Direction \in {"collection", "disbursement"}
  <2>1. /\ offer.bindings[b].fee \in FeeTerms /\ offer.bindings[b].fee.floor = None /\ offer.bindings[b].fee.ceiling = None
        /\ offer.bindings[b].rounding \in {"ceil", "half_up"} /\ offer.direction \in {"collection", "disbursement"}
    BY PricingOK DEF Bindings
  <2> QED BY <2>1 DEF FeeOf, FeeTerms, Binding, Direction
<1>2. f.charged \in Int /\ f.settled \in Int
  BY DEF Quotes
<1>3. CASE Direction = "collection"
  <2>1. fee.bps <= Whole
    BY <1>3 DEF FeesTakeAPart, Direction, Bindings, Binding
  <2>2. sent = ProviderAmountWithin(f.charged, fee, rounding) /\ does = Debit(sent, fee, rounding) /\ sent > 0
    BY <1>3 DEF AmountToSend, Experience
  <2> HIDE DEF fee, rounding, sent, does
  <2>3. sent \in Int /\ does \in {f.charged - 1, f.charged}
    BY <1>1, <1>2, <2>1, <2>2, SentWithin
  <2> QED BY <1>2, <1>3, <2>3 DEF sent, does
<1>4. CASE Direction = "disbursement" /\ Binding(b).payout = "deducted"
  <2>1. fee.bps < Whole
    BY <1>1, <1>4 DEF TakesWhole, FeeOf, Whole
  <2>2. sent = ProviderAmountDelivering(f.settled, fee) /\ does = Delivered(sent, fee)
    BY <1>4 DEF AmountToSend, Experience
  <2> HIDE DEF fee, rounding, sent, does
  <2>3. sent \in Int /\ does = f.settled
    BY <1>1, <1>2, <2>1, <2>2, SentDelivers
  <2> QED BY <1>2, <1>4, <2>3 DEF sent, does
<1>5. CASE Direction = "disbursement" /\ Binding(b).payout # "deducted"
  BY <1>2, <1>5 DEF AmountToSend, Experience
<1> QED BY <1>1, <1>3, <1>4, <1>5

LEMMA SubmitKeeps == ASSUME PricesInv, FeesTakeAPart, NEW b \in Bindings, SubmitTo(b) PROVE PricesInv'
<1> USE DEF PricesInv
<1> DEFINE f == payment.figures
           sent == AmountToSend(b, f)
           does == Experience(b, sent)
<1>1. offer' = offer /\ down' = down /\ payment.stage = "quoted" /\ f \in Quotes
  BY DEF SubmitTo
<1>2. offer' \in Offers /\ down' \subseteq Bindings' /\ Bindings' = Bindings /\ Direction' = Direction
  BY <1>1 DEF Bindings, Direction
<1>3. CASE payment' = [payment EXCEPT !.stage = "failed"]
  <2>1. PaymentTyped' /\ payment'.stage = "failed"
    BY <1>2, <1>3 DEF PaymentTyped
  <2> QED BY <1>2, <2>1 DEF QuoteKept, RefusalIsUsable
<1>4. CASE /\ ~ TakesWhole(b) /\ ~ (Direction = "collection" /\ sent <= 0)
           /\ payment' = [payment EXCEPT !.stage = "sent", !.binding = b, !.sent = sent, !.does = does]
  <2>0. f.charged = f.settled + f.processing + f.platform
    BY <1>1 DEF QuoteKept
  <2> HIDE DEF f
  <2>1. Direction = "collection" => sent > 0
    <3>1. CASE Direction = "collection"
      <4>1. sent \in Int
        <5>1. offer.bindings[b].fee \in FeeTerms /\ offer.bindings[b].fee.floor = None /\ offer.bindings[b].fee.ceiling = None
              /\ offer.bindings[b].rounding \in {"ceil", "half_up"}
          BY PricingOK DEF Bindings
        <5>2. FeeOf(Binding(b).fee) /\ Binding(b).rounding \in {"ceil", "half_up"} /\ f.charged \in Int
          BY <1>1, <5>1 DEF FeeOf, FeeTerms, Binding, Quotes
        <5> QED BY <3>1, <5>2, SentWithin DEF AmountToSend
      <4> QED BY <4>1, <1>4
    <3> QED BY <3>1
  <2>2. /\ sent \in Int /\ does \in Int
        /\ Direction = "collection" => does \in {f.charged - 1, f.charged}
        /\ Direction = "disbursement" => does = f.settled
    BY <1>1, <1>4, <2>1, SentIsKept
  <2> HIDE DEF sent, does
  <2>3. /\ PaymentTyped' /\ payment'.stage = "sent" /\ payment'.does = does /\ payment'.figures = f
    BY <1>1, <1>2, <1>4, <2>2 DEF PaymentTyped, f
  <2>4. QuoteKept'
    BY <1>2, <2>0, <2>2, <2>3 DEF QuoteKept
  <2> QED BY <1>1, <1>2, <2>3, <2>4 DEF RefusalIsUsable
<1>5. \/ payment' = [payment EXCEPT !.stage = "failed"]
      \/ /\ ~ TakesWhole(b) /\ ~ (Direction = "collection" /\ sent <= 0)
         /\ payment' = [payment EXCEPT !.stage = "sent", !.binding = b, !.sent = sent, !.does = does]
  BY DEF SubmitTo
<1> QED BY <1>3, <1>4, <1>5

LEMMA MovesKeep == ASSUME PricesInv, NEW b \in Bindings, ProviderMoves(b) PROVE PricesInv'
<1> USE DEF PricesInv
<1>1. offer' = offer /\ payment' = payment /\ payment.stage = "quoted" /\ down' \subseteq Bindings
  BY DEF ProviderMoves
<1> QED BY <1>1 DEF PaymentTyped, Bindings, QuoteKept, Direction, RefusalIsUsable

LEMMA PricesGoOn == ASSUME PricesInv, FeesTakeAPart, [PricingNext]_pricingVars PROVE PricesInv'
<1>1. CASE UNCHANGED pricingVars
  <2>1. offer' = offer /\ payment' = payment /\ down' = down
    BY <1>1 DEF pricingVars
  <2>2. \A n : Usable(n)' = Usable(n)
    BY <2>1, UsableKept
  <2>3. RefusalIsUsable'
    BY <2>1, <2>2 DEF PricesInv, RefusalIsUsable, Usable
  <2> QED BY <2>1, <2>3 DEF PricesInv, PaymentTyped, Bindings, QuoteKept, Direction
<1> QED BY <1>1, PreviewKeeps, SubmitKeeps, MovesKeep DEF PricingNext

\* The gates are held one by one, the listing by a join: both let the same offers through.
LEMMA GatesAgree == offer \in Offers => ListedIsPayable
<1> SUFFICES ASSUME offer \in Offers PROVE ListedIsPayable
  OBVIOUS
<1>1. /\ offer.gates.country \in BOOLEAN /\ offer.gates.version \in {"none", "inactive", "active"}
      /\ offer.gates.grant \in {"none", "closed", "inactive", "active"}
  BY PricingOK
<1> DEFINE country == offer.gates.country
           version == offer.gates.version
           grant == offer.gates.grant
<1>2. CASE ~ country
  BY <1>2 DEF ListedIsPayable, Listed, Gate
<1>3. CASE country /\ version # "active"
  BY <1>1, <1>3 DEF ListedIsPayable, Listed, Gate
<1>4. CASE country /\ version = "active"
  BY <1>1, <1>4 DEF ListedIsPayable, Listed, Gate
<1> QED BY <1>1, <1>2, <1>3, <1>4

\* Whichever binding a payment goes to, both sides get what they were quoted, the payer of a collection
\* at most a unit less; the amount a refusal names is taken; and what a project is shown it may do is
\* what the gates let through (money.ts, preview.service.ts, route-resolver.ts).  A provider that adds
\* more than a unit to each unit collected could fall further behind the quote: the hypothesis.
THEOREM PaidAlwaysAsQuoted == FeesTakeAPart => (SceneSpec => []PaidAsQuoted)
<1> DEFINE J == scene = "prices" => PricesInv
<1> SUFFICES ASSUME FeesTakeAPart PROVE SceneSpec => []PaidAsQuoted
  OBVIOUS
<1>1. SceneInit => J
  BY PricesStart DEF SceneInit
<1>2. J /\ [SceneNext]_<<scene, vars, pricingVars, referenceVars>> => J'
  <2>1. ASSUME J, [SceneNext]_<<scene, vars, pricingVars, referenceVars>>, scene' = "prices" PROVE PricesInv'
    <3>1. scene = "prices" /\ [PricingNext]_pricingVars
      BY <2>1 DEF SceneNext
    <3> QED BY <2>1, <3>1, PricesGoOn
  <2> QED BY <2>1
<1>3. J => PaidAsQuoted
  <2>1. PricesInv => PricingTypeOK
    BY PricingOK DEF PricesInv, PricingTypeOK, PaymentTyped
  <2> QED BY <2>1, GatesAgree DEF PricesInv, PaidAsQuoted
<1> QED BY <1>1, <1>2, <1>3, PTL DEF SceneSpec
===============================================================================

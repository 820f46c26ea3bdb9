------------------------ MODULE LedgerCheckpointProofs ------------------------
(***************************************************************************)
(* What holds of the ledger account for every number of postings, debits,  *)
(* reservations and checkpoints.  The argument: checkpoints are recorded   *)
(* under the account's lock, so that each extends the latest one by what   *)
(* was posted since (Reading), and reservations are made under it too, so  *)
(* that none is in flight while a checkpoint is made (LockOrder).          *)
(***************************************************************************)
EXTENDS LedgerCheckpoint, FiniteSetTheorems, TLAPS

\* Ids are handed out once: a posting not committed yet has one nobody else has, and no reservation
\* has that of a credit.
IdsApart ==
    /\ credits \cap reservations = {}
    /\ Postings \subseteq 1..lastId
    /\ \A s \in Sessions : session[s].stage = "posted" => session[s].id \in (1..lastId) \ Postings
    /\ \A r, s \in Sessions : /\ session[r].stage = "posted" /\ session[s].stage = "posted"
                              /\ session[r].id = session[s].id
                              => r = s

\* Who reserves or checkpoints holds the account's lock from the first read to the commit.
LockOrder ==
    \A s \in Sessions :
        /\ s \in Spenders \cup Checkpointers /\ session[s].stage # "idle" => lock = s
        /\ session[s].stage = "locked" => s \in Spenders \cup Checkpointers
        /\ session[s].stage = "summed" => s \in Checkpointers
        /\ session[s].stage = "posted" => s \notin Checkpointers

\* The greatest mark and the greatest posting exist, and a mark is that of a posting.
Marks ==
    /\ \E c \in checkpoints : \A d \in checkpoints : d.through <= c.through
    /\ Postings # {} => \E i \in Postings : \A j \in Postings : j <= i
    /\ \A c \in checkpoints : c.through = 0 \/ c.through \in Postings

\* What a later checkpoint counted up to the mark of an earlier one, the earlier one counted.
Chain ==
    \A c, d \in checkpoints :
        c.through <= d.through => \A i \in d.counted : i <= c.through => i \in c.counted

\* A checkpoint in the making adds to the latest one what was posted since, every reservation with it.
Reading ==
    \A s \in Sessions : session[s].stage = "summed" =>
        /\ session[s].counted \subseteq Postings
        /\ session[s].balance = Net(session[s].counted)
        /\ Latest.counted \subseteq session[s].counted
        /\ \A i \in session[s].counted : i <= Latest.through => i \in Latest.counted
        /\ reservations \subseteq session[s].counted

\* A reservation to be committed is beyond every mark and covered by a credit of its own.
Spending ==
    \A s \in Spenders : session[s].stage = "posted" =>
        /\ \A c \in checkpoints : c.through < session[s].id
        /\ Cardinality(reservations) < Cardinality(credits)

IInv == /\ TypeOK /\ IdsApart /\ LockOrder /\ Marks
        /\ CountedOnce /\ Chain /\ ReservationsAreSeen /\ Reading
        /\ Spending /\ NeverOverspent

-----------------------------------------------------------------------------
(***************************************************************************)
(* The operators.                                                          *)
(***************************************************************************)
LEMMA FiniteIds ==
    ASSUME TypeOK, NEW S, S \subseteq Ids
    PROVE  IsFiniteSet(S)
<1>1. IsFiniteSet(Ids)
  BY FS_Interval, SessionsOK DEF Ids
<1> QED BY <1>1, FS_Subset

LEMMA LatestIsMax ==
    ASSUME Marks
    PROVE  Latest \in checkpoints /\ \A d \in checkpoints : d.through <= Latest.through
BY DEF Marks, Latest

LEMMA LastIsMax ==
    ASSUME Marks, Postings # {}
    PROVE  LastPosting \in Postings /\ \A j \in Postings : j <= LastPosting
BY DEF Marks, LastPosting

\* Postings that are not of the set do not change what it amounts to.
LEMMA NetKept ==
    ASSUME NEW n, n \cap credits' = n \cap credits
    PROVE  Net(n)' = Net(n)
<1>1. n \ credits' = n \ credits
  OBVIOUS
<1> QED BY <1>1 DEF Net

LEMMA NetOfUnion ==
    ASSUME TypeOK, NEW m, NEW n, m \subseteq Ids, n \subseteq Ids, m \cap n = {}
    PROVE  /\ Net(m) \in Int /\ Net(n) \in Int
           /\ Net(m \cup n) = Net(m) + Net(n)
<1> DEFINE mc == m \cap credits
           nc == n \cap credits
           md == m \ credits
           nd == n \ credits
<1>1. IsFiniteSet(mc) /\ IsFiniteSet(nc) /\ IsFiniteSet(md) /\ IsFiniteSet(nd)
  BY FiniteIds
<1>2. /\ Cardinality(mc) \in Nat /\ Cardinality(nc) \in Nat
      /\ Cardinality(md) \in Nat /\ Cardinality(nd) \in Nat
  BY <1>1, FS_CardinalityType
<1>3. mc \cap nc = {} /\ md \cap nd = {}
  OBVIOUS
<1>4. Cardinality(mc \cap nc) = 0 /\ Cardinality(md \cap nd) = 0
  BY <1>3, FS_EmptySet, Zenon
<1> HIDE DEF mc, nc, md, nd
<1>5. Cardinality(mc \cup nc) = Cardinality(mc) + Cardinality(nc)
  <2>1. Cardinality(mc \cup nc) = Cardinality(mc) + Cardinality(nc) - Cardinality(mc \cap nc)
    BY <1>1, FS_Union
  <2> QED BY <2>1, <1>2, <1>4
<1>6. Cardinality(md \cup nd) = Cardinality(md) + Cardinality(nd)
  <2>1. Cardinality(md \cup nd) = Cardinality(md) + Cardinality(nd) - Cardinality(md \cap nd)
    BY <1>1, FS_Union
  <2> QED BY <2>1, <1>2, <1>4
<1>7. (m \cup n) \cap credits = mc \cup nc /\ (m \cup n) \ credits = md \cup nd
  BY DEF mc, nc, md, nd
<1>8. /\ Net(m) = Cardinality(mc) - Cardinality(md)
      /\ Net(n) = Cardinality(nc) - Cardinality(nd)
      /\ Net(m \cup n) = Cardinality(mc \cup nc) - Cardinality(md \cup nd)
  BY <1>7 DEF Net, mc, nc, md, nd
<1> QED BY <1>2, <1>5, <1>6, <1>8

\* What a balance read takes for the sum of all postings.
Read == Latest.counted \cup Since(Postings)

\* A balance read amounts to distinct postings and to every reservation among them.
LEMMA BalanceOfRead ==
    ASSUME IInv
    PROVE  /\ Read \subseteq Postings /\ Read \subseteq Ids
           /\ Balance = Net(Read) /\ Balance \in Int
           /\ reservations \subseteq Read
           /\ \A i \in Read : i <= Latest.through => i \in Latest.counted
<1> DEFINE l == Latest
<1>1. /\ l \in checkpoints /\ l \in Checkpoint
      /\ l.counted \subseteq Through(l.through) /\ l.balance = Net(l.counted)
  BY LatestIsMax DEF IInv, TypeOK, CountedOnce
<1>2. Postings \subseteq Ids
  BY DEF IInv, TypeOK, Postings
<1>3. Since(Postings) = {i \in Postings : i > l.through}
  BY DEF Since
<1>4. l.through \in Int /\ \A i \in Postings : i \in Int
  BY <1>1, <1>2 DEF Checkpoint, Ids
<1>5. l.counted \subseteq Postings /\ \A i \in l.counted : i <= l.through
  BY <1>1 DEF Through
<1>6. l.counted \cap Since(Postings) = {}
  BY <1>3, <1>4, <1>5
<1>7. Read \subseteq Postings
  BY <1>3, <1>5 DEF Read
<1>8. Balance = Net(Read) /\ Balance \in Int
  <2>1. l.counted \subseteq Ids /\ Since(Postings) \subseteq Ids
    BY <1>2, <1>3, <1>5
  <2>2. /\ Net(l.counted) \in Int /\ Net(Since(Postings)) \in Int
        /\ Net(Read) = Net(l.counted) + Net(Since(Postings))
    BY <2>1, <1>6, NetOfUnion DEF IInv, Read
  <2>3. Balance = l.balance + Net(Since(Postings))
    BY DEF Balance
  <2> QED BY <1>1, <2>2, <2>3
<1>9. reservations \subseteq Read
  <2> SUFFICES ASSUME NEW i \in reservations PROVE i \in Read
    OBVIOUS
  <2>1. i \in Postings
    BY DEF Postings
  <2>2. CASE i <= l.through
    BY <1>1, <2>1, <2>2 DEF IInv, ReservationsAreSeen, Missed, Through, Read
  <2>3. CASE i > l.through
    BY <1>3, <2>1, <2>3 DEF Read
  <2> QED BY <1>4, <2>1, <2>2, <2>3
<1>10. \A i \in Read : i <= l.through => i \in l.counted
  BY <1>3, <1>4 DEF Read
<1> QED BY <1>2, <1>7, <1>8, <1>9, <1>10

-----------------------------------------------------------------------------
(***************************************************************************)
(* Parts of the invariant that a step leaves alone.                        *)
(***************************************************************************)
LEMMA InitIInv == Init => IInv
<1> SUFFICES ASSUME Init PROVE IInv
  OBVIOUS
<1> USE DEF Init, NoCheckpoint, Idle
<1>1. TypeOK
  BY SessionsOK DEF TypeOK, Session, Checkpoint, Ids
<1>2. IdsApart /\ Marks /\ Chain
  BY DEF IdsApart, Marks, Chain, Postings
<1>5. LockOrder /\ Reading /\ Spending
  BY DEF LockOrder, Reading, Spending, Sessions
<1>3. CountedOnce
  <2>1. Net({}) = 0
    <3>1. {} \cap credits = {} /\ {} \ credits = {}
      OBVIOUS
    <3>2. Net({}) = Cardinality({}) - Cardinality({})
      BY <3>1, Zenon DEF Net
    <3> QED BY <3>2, FS_EmptySet
  <2> QED BY <2>1 DEF CountedOnce, Through
<1>4. ReservationsAreSeen /\ NeverOverspent
  BY FS_EmptySet DEF ReservationsAreSeen, NeverOverspent, Missed, Through, Postings
<1> QED BY <1>1, <1>2, <1>3, <1>4, <1>5 DEF IInv

LEMMA BookKept ==
    ASSUME IInv, UNCHANGED <<book, checkpoints>>
    PROVE  Marks' /\ CountedOnce' /\ Chain' /\ ReservationsAreSeen' /\ NeverOverspent'
BY DEF IInv, book, Marks, CountedOnce, Chain, ReservationsAreSeen, NeverOverspent, Missed, Through,
       Net, Postings, Latest

LEMMA ReadingKept ==
    ASSUME IInv, UNCHANGED <<book, checkpoints>>,
           \A r \in Sessions : session'[r].stage = "summed" => session'[r] = session[r]
    PROVE  Reading'
<1>1. Latest' = Latest /\ Postings' = Postings
  BY DEF Latest, Postings, book
<1>2. \A n : Net(n)' = Net(n)
  BY DEF Net, book
<1> QED BY <1>1, <1>2 DEF IInv, Reading, book

LEMMA SpendingKept ==
    ASSUME IInv, UNCHANGED <<book, checkpoints>>,
           \A r \in Spenders : session'[r].stage = "posted" => session'[r] = session[r]
    PROVE  Spending'
BY DEF IInv, Spending, book

\* Every session but one is as it was.
LEMMA OthersKept ==
    ASSUME IInv, NEW s \in Sessions, NEW x \in Session, session' = [session EXCEPT ![s] = x]
    PROVE  /\ session' \in [Sessions -> Session]
           /\ session'[s] = x
           /\ \A r \in Sessions : r # s => session'[r] = session[r]
BY DEF IInv, TypeOK

LEMMA EndStep ==
    ASSUME IInv, NEW s \in Sessions, End(s)
    PROVE  /\ session' \in [Sessions -> Session]
           /\ session'[s] = Idle
           /\ \A r \in Sessions : r # s => session'[r] = session[r]
           /\ lock' \in Spenders \cup Checkpointers \cup {None}
           /\ LockOrder'
<1>1. Idle \in Session
  BY SessionsOK DEF Idle, Session
<1>2. /\ session' \in [Sessions -> Session]
      /\ session'[s] = Idle
      /\ \A r \in Sessions : r # s => session'[r] = session[r]
  BY <1>1, OthersKept DEF End
<1>3. lock' \in Spenders \cup Checkpointers \cup {None}
  BY DEF End, IInv, TypeOK
<1>4. LockOrder'
  BY <1>2 DEF End, IInv, LockOrder, Idle
<1> QED BY <1>2, <1>3, <1>4

-----------------------------------------------------------------------------
(***************************************************************************)
(* The actions.                                                            *)
(***************************************************************************)
LEMMA InsertStep ==
    ASSUME IInv, NEW s \in Sessions, Insert(s), UNCHANGED <<book, lock, checkpoints>>,
           s \notin Checkpointers,
           s \in Spenders => /\ lock = s
                             /\ Cardinality(reservations) < Cardinality(credits)
    PROVE  IInv'
<1> DEFINE x == [session[s] EXCEPT !.stage = "posted", !.id = lastId + 1]
<1>4. lastId \in Nat /\ lastId + 1 \in 0..MaxPostings /\ lastId' = lastId + 1
  BY SessionsOK DEF Insert, IInv, TypeOK
<1>1. x \in Session /\ x.stage = "posted" /\ x.id = lastId + 1
  BY <1>4 DEF IInv, TypeOK, Session
<1>2. session' = [session EXCEPT ![s] = x]
  BY <1>4 DEF Insert, IInv, TypeOK, Session
<1> HIDE DEF x
<1>3. /\ session' \in [Sessions -> Session] /\ session'[s] = x
      /\ \A r \in Sessions : r # s => session'[r] = session[r]
  BY <1>1, <1>2, OthersKept
<1>5. TypeOK'
  BY <1>1, <1>3, <1>4 DEF IInv, TypeOK, book
<1>6. Postings' = Postings
  BY DEF Postings, book
<1>7. IdsApart'
  BY <1>1, <1>3, <1>4, <1>6 DEF IInv, IdsApart, book
<1>8. LockOrder'
  BY <1>1, <1>3 DEF IInv, LockOrder
<1>9. Marks' /\ CountedOnce' /\ Chain' /\ ReservationsAreSeen' /\ NeverOverspent'
  BY BookKept
<1>10. Reading'
  BY <1>1, <1>3, ReadingKept
<1>11. Spending'
  <2> SUFFICES ASSUME NEW r \in Spenders, session'[r].stage = "posted"
               PROVE  /\ \A c \in checkpoints : c.through < session'[r].id
                      /\ Cardinality(reservations) < Cardinality(credits)
    BY DEF Spending, book
  <2>1. CASE r = s
    <3>1. \A c \in checkpoints : c.through <= lastId
      <4>1. Postings \subseteq 1..lastId /\ \A c \in checkpoints : c.through = 0 \/ c.through \in Postings
        BY DEF IInv, Marks, IdsApart
      <4> SUFFICES ASSUME NEW c \in checkpoints PROVE c.through <= lastId
        OBVIOUS
      <4>2. CASE c.through = 0
        BY <1>4, <4>2
      <4>3. CASE c.through \in Postings
        <5>1. c.through \in 1..lastId
          BY <4>1, <4>3, Zenon
        <5> QED BY <1>4, <5>1
      <4> QED BY <4>1, <4>2, <4>3
    <3>2. \A c \in checkpoints : c.through \in Int
      BY DEF IInv, TypeOK, Checkpoint
    <3> QED BY <1>1, <1>3, <1>4, <2>1, <3>1, <3>2
  <2>2. CASE r # s
    BY <1>3, <2>2 DEF IInv, Spending, Sessions
  <2> QED BY <2>1, <2>2
<1> QED BY <1>5, <1>7, <1>8, <1>9, <1>10, <1>11 DEF IInv

LEMMA PostStep ==
    ASSUME IInv, NEW s \in Sessions, Post(s)
    PROVE  IInv'
BY InsertStep, SessionsOK DEF Post

\* The balance read under the lock counts every reservation, so there is a credit for one more.
LEMMA ReserveStep ==
    ASSUME IInv, NEW s \in Sessions, Reserve(s)
    PROVE  IInv'
<1>1. Read \subseteq Ids /\ Balance = Net(Read) /\ reservations \subseteq Read
  BY BalanceOfRead
<1> DEFINE plus == Read \cap credits
           minus == Read \ credits
<1>2. /\ IsFiniteSet(plus) /\ IsFiniteSet(minus) /\ IsFiniteSet(credits) /\ IsFiniteSet(reservations)
  BY <1>1, FiniteIds DEF IInv, TypeOK
<1>3. /\ Cardinality(plus) \in Nat /\ Cardinality(minus) \in Nat
      /\ Cardinality(credits) \in Nat /\ Cardinality(reservations) \in Nat
  BY <1>2, FS_CardinalityType
<1>4. Cardinality(plus) <= Cardinality(credits)
  BY <1>2, FS_Subset
<1>5. Cardinality(reservations) <= Cardinality(minus)
  <2>1. reservations \subseteq minus
    BY <1>1 DEF IInv, IdsApart
  <2> QED BY <1>2, <2>1, FS_Subset
<1>6. Cardinality(plus) - Cardinality(minus) >= 1
  BY <1>1 DEF Reserve, Net
<1> HIDE DEF plus, minus
<1>7. Cardinality(reservations) < Cardinality(credits)
  BY <1>3, <1>4, <1>5, <1>6
<1>8. lock = s /\ s \notin Checkpointers
  BY SessionsOK DEF Reserve, IInv, LockOrder
<1> QED BY <1>7, <1>8, InsertStep DEF Reserve

LEMMA LockAccountStep ==
    ASSUME IInv, NEW s \in Sessions, LockAccount(s)
    PROVE  IInv'
<1> DEFINE x == [session[s] EXCEPT !.stage = "locked"]
<1>1. x \in Session /\ x.stage = "locked"
  BY DEF IInv, TypeOK, Session
<1>2. session' = [session EXCEPT ![s] = x]
  BY DEF LockAccount, IInv, TypeOK, Session
<1> HIDE DEF x
<1>3. /\ session' \in [Sessions -> Session] /\ session'[s] = x
      /\ \A r \in Sessions : r # s => session'[r] = session[r]
  BY <1>1, <1>2, OthersKept
<1>4. UNCHANGED <<book, checkpoints, lastId>> /\ lock = None /\ lock' = s /\ s \in Spenders \cup Checkpointers
  BY DEF LockAccount
<1>5. TypeOK'
  BY <1>3, <1>4 DEF IInv, TypeOK, book
<1>6. IdsApart'
  BY <1>1, <1>3, <1>4 DEF IInv, IdsApart, book, Postings
<1>7. LockOrder'
  BY <1>1, <1>3, <1>4, SessionsOK DEF IInv, LockOrder
<1>8. Marks' /\ CountedOnce' /\ Chain' /\ ReservationsAreSeen' /\ NeverOverspent'
  BY <1>4, BookKept
<1>9. Reading' /\ Spending'
  BY <1>1, <1>3, <1>4, ReadingKept, SpendingKept DEF Sessions
<1> QED BY <1>5, <1>6, <1>7, <1>8, <1>9 DEF IInv

LEMMA RollbackStep ==
    ASSUME IInv, NEW s \in Sessions, Rollback(s)
    PROVE  IInv'
<1>1. /\ session' \in [Sessions -> Session] /\ session'[s] = Idle
      /\ \A r \in Sessions : r # s => session'[r] = session[r]
      /\ lock' \in Spenders \cup Checkpointers \cup {None}
      /\ LockOrder'
  BY EndStep DEF Rollback
<1>2. UNCHANGED <<book, checkpoints, lastId>>
  BY DEF Rollback
<1>3. TypeOK'
  BY <1>1, <1>2 DEF IInv, TypeOK, book
<1>4. IdsApart'
  BY <1>1, <1>2 DEF IInv, IdsApart, book, Postings, Idle
<1>5. Marks' /\ CountedOnce' /\ Chain' /\ ReservationsAreSeen' /\ NeverOverspent'
  BY <1>2, BookKept
<1>6. Reading' /\ Spending'
  BY <1>1, <1>2, ReadingKept, SpendingKept DEF Sessions, Idle
<1> QED BY <1>1, <1>3, <1>4, <1>5, <1>6 DEF IInv

LEMMA SumPostingsStep ==
    ASSUME IInv, NEW s \in Sessions, SumPostings(s)
    PROVE  IInv'
<1> DEFINE x == [session[s] EXCEPT !.stage = "summed", !.balance = Balance, !.counted = Read]
<1>1. /\ Read \subseteq Postings /\ Read \subseteq Ids /\ Balance = Net(Read) /\ Balance \in Int
      /\ reservations \subseteq Read
      /\ \A i \in Read : i <= Latest.through => i \in Latest.counted
  BY BalanceOfRead
<1>2. x \in Session /\ x.stage = "summed" /\ x.balance = Balance /\ x.counted = Read
  BY <1>1 DEF IInv, TypeOK, Session
<1>3. session' = [session EXCEPT ![s] = x]
  BY DEF SumPostings, IInv, TypeOK, Session, Read
<1> HIDE DEF x
<1>4. /\ session' \in [Sessions -> Session] /\ session'[s] = x
      /\ \A r \in Sessions : r # s => session'[r] = session[r]
  BY <1>2, <1>3, OthersKept
<1>5. UNCHANGED <<book, checkpoints, lastId, lock>> /\ s \in Checkpointers /\ session[s].stage = "locked"
  BY DEF SumPostings
<1>6. TypeOK'
  BY <1>4, <1>5 DEF IInv, TypeOK, book
<1>7. IdsApart'
  BY <1>2, <1>4, <1>5 DEF IInv, IdsApart, book, Postings
<1>8. LockOrder'
  BY <1>2, <1>4, <1>5 DEF IInv, LockOrder
<1>9. Marks' /\ CountedOnce' /\ Chain' /\ ReservationsAreSeen' /\ NeverOverspent'
  BY <1>5, BookKept
<1>10. Spending'
  BY <1>2, <1>4, <1>5, SpendingKept DEF Sessions
<1>11. Reading'
  <2>1. Latest' = Latest /\ Postings' = Postings /\ reservations' = reservations /\ \A n : Net(n)' = Net(n)
    BY <1>5 DEF Latest, Postings, book, Net
  <2>2. Latest.counted \subseteq Read
    BY DEF Read
  <2> SUFFICES ASSUME NEW r \in Sessions, session'[r].stage = "summed"
               PROVE  /\ session'[r].counted \subseteq Postings
                      /\ session'[r].balance = Net(session'[r].counted)
                      /\ Latest.counted \subseteq session'[r].counted
                      /\ \A i \in session'[r].counted : i <= Latest.through => i \in Latest.counted
                      /\ reservations \subseteq session'[r].counted
    BY <2>1 DEF Reading
  <2>3. CASE r = s
    BY <1>1, <1>2, <1>4, <2>2, <2>3
  <2>4. CASE r # s
    BY <1>4, <2>4 DEF IInv, Reading
  <2> QED BY <2>3, <2>4
<1> QED BY <1>6, <1>7, <1>8, <1>9, <1>10, <1>11 DEF IInv

\* Committing makes the posting visible: up to now nobody counted it.
LEMMA CommitStep ==
    ASSUME IInv, NEW s \in Sessions, Commit(s)
    PROVE  IInv'
<1> DEFINE n == session[s].id
<1>1. /\ session' \in [Sessions -> Session] /\ session'[s] = Idle
      /\ \A r \in Sessions : r # s => session'[r] = session[r]
      /\ lock' \in Spenders \cup Checkpointers \cup {None}
      /\ LockOrder'
  BY EndStep DEF Commit
<1>2. /\ n \in 1..lastId /\ n \in Ids /\ n \notin Postings /\ s \notin Checkpointers
      /\ UNCHANGED <<checkpoints, lastId>>
  BY SessionsOK DEF Commit, IInv, TypeOK, IdsApart, LockOrder, Ids
<1>3. /\ credits' = IF s \in Creditors THEN credits \cup {n} ELSE credits
      /\ debits' = IF s \in Debtors THEN debits \cup {n} ELSE debits
      /\ reservations' = IF s \in Spenders THEN reservations \cup {n} ELSE reservations
  BY DEF Commit
<1> HIDE DEF n
<1>4. Postings' = Postings \cup {n}
  BY <1>2, <1>3 DEF Postings, Sessions
<1>5. TypeOK'
  BY <1>1, <1>2, <1>3 DEF IInv, TypeOK
<1>6. IdsApart'
  <2>1. credits' \cap reservations' = {}
    BY <1>2, <1>3, SessionsOK DEF IInv, IdsApart, Postings
  <2>2. \A r \in Sessions : session'[r].stage = "posted" =>
            session'[r].id \in (1..lastId) \ (Postings \cup {n})
    <3> SUFFICES ASSUME NEW r \in Sessions, session'[r].stage = "posted"
                 PROVE  session'[r].id \in (1..lastId) \ (Postings \cup {n})
      OBVIOUS
    <3>1. r # s /\ session'[r] = session[r]
      BY <1>1 DEF Idle
    <3> QED BY <3>1 DEF IInv, IdsApart, Commit, n
  <2>3. \A q, r \in Sessions : /\ session'[q].stage = "posted" /\ session'[r].stage = "posted"
                               /\ session'[q].id = session'[r].id
                               => q = r
    BY <1>1 DEF IInv, IdsApart, Idle
  <2> QED BY <1>2, <1>4, <2>1, <2>2, <2>3 DEF IInv, IdsApart
<1>7. Marks'
  <2>1. \A i \in Postings : i \in Int
    BY DEF IInv, TypeOK, Postings, Ids
  <2>2. \E i \in Postings \cup {n} : \A j \in Postings \cup {n} : j <= i
    <3>1. CASE Postings = {}
      BY <1>2, <3>1
    <3>2. CASE Postings # {}
      <4>1. PICK i \in Postings : \A j \in Postings : j <= i
        BY <3>2 DEF IInv, Marks
      <4>2. CASE n <= i
        BY <4>1, <4>2
      <4>3. CASE i <= n
        BY <1>2, <2>1, <4>1, <4>3
      <4> QED BY <1>2, <2>1, <4>1, <4>2, <4>3
    <3> QED BY <3>1, <3>2
  <2> QED BY <1>2, <1>4, <2>2 DEF IInv, Marks
<1>8. \A m : m \subseteq Postings => Net(m)' = Net(m)
  <2> SUFFICES ASSUME NEW m, m \subseteq Postings PROVE Net(m)' = Net(m)
    OBVIOUS
  <2>1. m \cap credits' = m \cap credits
    BY <1>2, <1>3
  <2> QED BY <2>1, NetKept
<1>9. CountedOnce'
  <2> SUFFICES ASSUME NEW c \in checkpoints
               PROVE  c.counted \subseteq Through(c.through)' /\ c.balance = Net(c.counted)'
    BY <1>2 DEF CountedOnce
  <2>1. c.counted \subseteq Through(c.through) /\ c.balance = Net(c.counted)
    BY DEF IInv, CountedOnce
  <2>2. c.counted \subseteq Postings
    BY <2>1 DEF Through
  <2> QED BY <1>4, <1>8, <2>1, <2>2 DEF Through
<1>10. Chain'
  BY <1>2 DEF IInv, Chain
<1>11. s \in Spenders => /\ \A c \in checkpoints : c.through < n
                         /\ Cardinality(reservations) < Cardinality(credits)
                         /\ \A r \in Sessions : r \in Spenders \cup Checkpointers /\ r # s
                                                   => session[r].stage = "idle"
  BY DEF IInv, Spending, LockOrder, Commit, n
<1>12. ReservationsAreSeen'
  <2> SUFFICES ASSUME NEW c \in checkpoints, NEW i \in reservations', i <= c.through
               PROVE  i \in c.counted
    BY <1>2 DEF ReservationsAreSeen, Missed, Through
  <2>1. c.through \in Int /\ n \in Int
    BY <1>2 DEF IInv, TypeOK, Checkpoint
  <2>2. i \in reservations
    BY <1>3, <1>11, <2>1
  <2> QED BY <2>2 DEF IInv, ReservationsAreSeen, Missed, Through, Postings
<1>13. Reading'
  <2>1. Latest' = Latest
    BY <1>2 DEF Latest
  <2> SUFFICES ASSUME NEW r \in Sessions, session'[r].stage = "summed"
               PROVE  /\ session'[r].counted \subseteq Postings'
                      /\ session'[r].balance = Net(session[r].counted)'
                      /\ Latest.counted \subseteq session'[r].counted
                      /\ \A i \in session'[r].counted : i <= Latest.through => i \in Latest.counted
                      /\ reservations' \subseteq session'[r].counted
    <3>1. \A r \in Sessions : session'[r].stage = "summed" => session'[r] = session[r]
      BY <1>1 DEF Idle
    <3> QED BY <2>1, <3>1 DEF Reading, Net
  <2>2. r # s /\ session'[r] = session[r]
    BY <1>1 DEF Idle
  <2>3. s \notin Spenders
    BY <1>11, <2>2 DEF IInv, LockOrder
  <2>4. PICK m : m = session[r].counted
    OBVIOUS
  <2>5. m \subseteq Postings /\ session[r].balance = Net(m)
    BY <2>2, <2>4 DEF IInv, Reading
  <2>6. session[r].balance = Net(m)'
    BY <1>8, <2>5
  <2>7. Net(session[r].counted)' = Net(m)'
    BY <2>2, <2>4 DEF Net
  <2> QED BY <1>3, <1>4, <2>2, <2>3, <2>6, <2>7 DEF IInv, Reading
<1>14. /\ IsFiniteSet(credits) /\ IsFiniteSet(reservations)
       /\ Cardinality(credits) \in Nat /\ Cardinality(reservations) \in Nat
  <2>1. IsFiniteSet(credits) /\ IsFiniteSet(reservations)
    BY FiniteIds DEF IInv, TypeOK
  <2> QED BY <2>1, FS_CardinalityType
<1>15. /\ Cardinality(credits') \in Nat /\ Cardinality(reservations') \in Nat
       /\ Cardinality(credits) <= Cardinality(credits')
       /\ s \notin Spenders => Cardinality(reservations') = Cardinality(reservations)
       /\ s \in Spenders => Cardinality(reservations') <= Cardinality(reservations) + 1
  <2>1. Cardinality(credits \cup {n}) \in {Cardinality(credits), Cardinality(credits) + 1}
    BY <1>14, FS_AddElement
  <2>2. Cardinality(reservations \cup {n}) \in {Cardinality(reservations), Cardinality(reservations) + 1}
    BY <1>14, FS_AddElement
  <2> QED BY <1>3, <1>14, <2>1, <2>2
<1>16. Spending'
  <2> SUFFICES ASSUME NEW r \in Spenders, session'[r].stage = "posted"
               PROVE  /\ \A c \in checkpoints : c.through < session'[r].id
                      /\ Cardinality(reservations') < Cardinality(credits')
    BY <1>2 DEF Spending
  <2>1. r \in Sessions /\ r # s /\ session'[r] = session[r]
    BY <1>1 DEF Idle, Sessions
  <2>2. s \notin Spenders
    BY <1>11, <2>1
  <2>3. /\ \A c \in checkpoints : c.through < session[r].id
        /\ Cardinality(reservations) < Cardinality(credits)
    BY <2>1 DEF IInv, Spending
  <2> QED BY <1>14, <1>15, <2>1, <2>2, <2>3
<1>17. NeverOverspent'
  <2>1. Cardinality(reservations) <= Cardinality(credits)
    BY DEF IInv, NeverOverspent
  <2> QED BY <1>11, <1>14, <1>15, <2>1 DEF NeverOverspent
<1> QED BY <1>1, <1>5, <1>6, <1>7, <1>9, <1>10, <1>12, <1>13, <1>16, <1>17 DEF IInv

\* A recorded checkpoint extends the latest one, which nobody replaced since it was read.
LEMMA RecordCheckpointStep ==
    ASSUME IInv, NEW s \in Sessions, RecordCheckpoint(s)
    PROVE  IInv'
<1> DEFINE n == session[s].counted
           l == Latest
           new == [through |-> LastPosting, balance |-> session[s].balance, counted |-> n]
<1>1. /\ session' \in [Sessions -> Session] /\ session'[s] = Idle
      /\ \A r \in Sessions : r # s => session'[r] = session[r]
      /\ lock' \in Spenders \cup Checkpointers \cup {None}
      /\ LockOrder'
  BY EndStep DEF RecordCheckpoint
<1>2. checkpoints' = checkpoints \cup {new} /\ UNCHANGED <<book, lastId>>
  BY DEF RecordCheckpoint
<1>3. /\ n \subseteq Postings /\ session[s].balance = Net(n) /\ reservations \subseteq n
      /\ l.counted \subseteq n
      /\ \A i \in n : i <= l.through => i \in l.counted
  BY DEF RecordCheckpoint, IInv, Reading
<1>4. /\ Postings' = Postings /\ reservations' = reservations /\ \A m : Net(m)' = Net(m)
  BY <1>2 DEF book, Postings, Net
<1>5. /\ l \in checkpoints /\ \A d \in checkpoints : d.through <= l.through
  BY LatestIsMax DEF IInv
<1>6. /\ \A i \in Postings : i \in Int /\ i > 0
      /\ \A c \in checkpoints : c.through \in Int /\ (c.through = 0 \/ c.through \in Postings)
  BY DEF IInv, TypeOK, Checkpoint, Postings, Ids, Marks
<1>7. /\ new.through \in {0} \cup Postings /\ new.through \in Int
      /\ \A i \in Postings : i <= new.through
      /\ \A c \in checkpoints : c.through <= new.through
  <2>1. CASE Postings = {}
    BY <1>6, <2>1 DEF LastPosting
  <2>2. CASE Postings # {}
    BY <1>6, <2>2, LastIsMax DEF IInv
  <2> QED BY <2>1, <2>2
<1>8. new \in Checkpoint /\ new.counted = n /\ new.balance = session[s].balance
  BY <1>3, <1>7, SessionsOK DEF Checkpoint, IInv, TypeOK, Session, Postings, Ids
<1> HIDE DEF new, l
<1>9. TypeOK'
  BY <1>1, <1>2, <1>8 DEF IInv, TypeOK, book
<1>10. IdsApart'
  BY <1>1, <1>2, <1>4 DEF IInv, IdsApart, book, Idle
<1>11. Marks'
  <2>1. \A d \in checkpoints' : d.through <= new.through
    BY <1>2, <1>7
  <2>2. new \in checkpoints'
    BY <1>2
  <2> QED BY <1>2, <1>4, <1>6, <1>7, <2>1, <2>2 DEF IInv, Marks
<1>12. CountedOnce'
  <2>1. \A c \in checkpoints : c.counted \subseteq Through(c.through) /\ c.balance = Net(c.counted)
    BY DEF IInv, CountedOnce
  <2>2. new.counted \subseteq Through(new.through) /\ new.balance = Net(new.counted)
    BY <1>3, <1>7, <1>8 DEF Through
  <2>3. \A m : Through(m)' = Through(m)
    BY <1>4 DEF Through
  <2> QED BY <1>2, <1>4, <2>1, <2>2, <2>3 DEF CountedOnce
<1>13. \A d \in checkpoints : \A i \in n : i <= d.through => i \in d.counted
  BY <1>3, <1>5, <1>6 DEF IInv, Chain
<1>14. \A d \in checkpoints : new.through <= d.through => \A i \in d.counted : i \in n
  <2> SUFFICES ASSUME NEW d \in checkpoints, new.through <= d.through, NEW i \in d.counted
               PROVE  i \in n
    OBVIOUS
  <2>1. i <= d.through /\ i \in Postings
    BY DEF IInv, CountedOnce, Through
  <2>2. d.through = l.through
    BY <1>5, <1>6, <1>7
  <2>3. i \in l.counted
    BY <1>5, <1>6, <2>1, <2>2 DEF IInv, Chain
  <2> QED BY <1>3, <2>3
<1>15. Chain'
  BY <1>2, <1>8, <1>13, <1>14 DEF IInv, Chain
<1>16. ReservationsAreSeen'
  BY <1>2, <1>3, <1>4, <1>8 DEF IInv, ReservationsAreSeen, Missed, Through
<1>17. \A r \in Sessions : r \in Spenders \cup Checkpointers /\ r # s => session'[r].stage = "idle"
  BY <1>1 DEF IInv, LockOrder, RecordCheckpoint
<1>18. Reading' /\ Spending'
  BY <1>1, <1>17 DEF Reading, Spending, Idle, IInv, LockOrder, Sessions
<1>19. NeverOverspent'
  BY <1>2 DEF IInv, NeverOverspent, book
<1> QED BY <1>1, <1>9, <1>10, <1>11, <1>12, <1>15, <1>16, <1>18, <1>19 DEF IInv

LEMMA NextIInv == IInv /\ [Next]_vars => IInv'
<1> SUFFICES ASSUME IInv, [Next]_vars PROVE IInv'
  OBVIOUS
<1>1. ASSUME NEW s \in Sessions,
             \/ Post(s) \/ LockAccount(s) \/ Reserve(s) \/ Commit(s) \/ Rollback(s)
             \/ SumPostings(s) \/ RecordCheckpoint(s)
      PROVE  IInv'
  BY <1>1, PostStep, LockAccountStep, ReserveStep, CommitStep, RollbackStep, SumPostingsStep,
     RecordCheckpointStep
<1>2. CASE UNCHANGED vars
  <2>1. UNCHANGED <<book, checkpoints, lastId, lock, session>>
    BY <1>2 DEF vars, book
  <2>2. TypeOK' /\ IdsApart' /\ LockOrder'
    BY <2>1 DEF IInv, TypeOK, IdsApart, LockOrder, Postings, book
  <2> QED BY <2>1, <2>2, BookKept, ReadingKept, SpendingKept DEF IInv
<1> QED BY <1>1, <1>2 DEF Next

-----------------------------------------------------------------------------
(***************************************************************************)
(* The theorems.                                                           *)
(***************************************************************************)
LEMMA Inductive == Spec => []IInv
<1> QED BY InitIInv, NextIInv, PTL DEF Spec

\* Every variable of the account keeps its type.
THEOREM AccountTypeCorrect == Spec => []TypeOK
<1>1. IInv => TypeOK
  BY DEF IInv
<1> QED BY <1>1, Inductive, PTL

\* What LedgerService.checkpoint records is the sum of distinct committed postings up to its mark,
\* although each checkpoint starts from the one before.
THEOREM CheckpointsCountOnce == Spec => []CountedOnce
<1>1. IInv => CountedOnce
  BY DEF IInv
<1> QED BY <1>1, Inductive, PTL

\* Two checkpoints with one mark hold one balance, so that balance may start from either: the query
\* for the latest one orders by the mark alone.
THEOREM CheckpointTiesAgree == Spec => []TiesAgree
<1>1. IInv => TiesAgree
  <2> SUFFICES ASSUME IInv, NEW c \in checkpoints, NEW d \in checkpoints, c.through = d.through
               PROVE  c.balance = d.balance
    BY DEF TiesAgree
  <2>1. /\ \A i \in c.counted : i <= c.through
        /\ \A i \in d.counted : i <= d.through
        /\ c.balance = Net(c.counted) /\ d.balance = Net(d.counted)
        /\ c.through \in Int
    BY DEF IInv, CountedOnce, Through, TypeOK, Checkpoint
  <2>2. c.counted = d.counted
    <3>1. c.through <= d.through /\ d.through <= c.through
      BY <2>1
    <3> QED BY <2>1, <3>1 DEF IInv, Chain
  <2> QED BY <2>1, <2>2
<1> QED BY <1>1, Inductive, PTL

\* A posting that some checkpoint missed is missing from the latest one too, where verifyCheckpoints
\* compares: no later checkpoint hides a loss.
THEOREM LossesStayVisible == Spec => []LatestShowsEveryLoss
<1>1. IInv => LatestShowsEveryLoss
  <2> SUFFICES ASSUME IInv, NEW c \in checkpoints, NEW i \in Missed(c)
               PROVE  i \in Missed(Latest)
    BY DEF LatestShowsEveryLoss
  <2>1. Latest \in checkpoints /\ c.through <= Latest.through
    BY LatestIsMax DEF IInv
  <2>2. i \in Postings /\ i <= c.through /\ i \notin c.counted
    BY DEF Missed, Through
  <2>3. i \in Int /\ c.through \in Int /\ Latest.through \in Int
    BY <2>1, <2>2 DEF IInv, TypeOK, Postings, Ids, Checkpoint
  <2>4. i \notin Latest.counted
    BY <2>1, <2>2 DEF IInv, Chain
  <2> QED BY <2>1, <2>2, <2>3, <2>4 DEF Missed, Through
<1> QED BY <1>1, Inductive, PTL

\* No checkpoint misses a reservation that reserve made under the account's lock.
THEOREM ReservationsAlwaysSeen == Spec => []ReservationsAreSeen
<1>1. IInv => ReservationsAreSeen
  BY DEF IInv
<1> QED BY <1>1, Inductive, PTL

\* The solvency check of reserve holds to the commit: what is reserved never exceeds what was credited,
\* whatever the checkpoints its balance started from.
THEOREM SolvencyKept == Spec => []NeverOverspent
<1>1. IInv => NeverOverspent
  BY DEF IInv
<1> QED BY <1>1, Inductive, PTL
=============================================================================

------------------------- MODULE ConfirmedOperations -------------------------
(***************************************************************************)
(* Operations of the console that take a one-time code: the code is issued *)
(* for an administrator, an operation and its values, and consumed in the  *)
(* transaction of the operation under a lock on the code's row.            *)
(*                                                                         *)
(* A call locks the row FOR UPDATE until it commits or rolls back.  Most   *)
(* operations write in that transaction.  Deciding an approval or a        *)
(* discrepancy and changing a role open one of their own, whose audit      *)
(* record refers to the code's row: the store checks the reference with a  *)
(* key-share lock on that row, which waits for the lock FOR UPDATE.        *)
(***************************************************************************)
EXTENDS Nullable, Sequences, FiniteSets

CONSTANTS
    Calls,     \* requests that present a code
    Asked,     \* for each its administrator, operation and values
    Nested,    \* operations with a transaction of their own
    Attempts,  \* wrong codes a code admits
    MaxCodes   \* bound: codes issued

ASSUME ConfirmedOK ==
    /\ \A k \in Calls : {"administrator", "operation", "values"} \subseteq DOMAIN Asked[k]
    /\ Attempts \in Nat \ {0}
    /\ None \notin Calls

VARIABLES
    code,     \* codes issued, in order: what for, attempts made, outcome, whether it is past its time
    locked,   \* call that holds the row of each code, None when free
    call,     \* each call's stage, code and whether what was typed is right
    wrong     \* history: wrong attempts on each code whose call came to record them

codeVars == <<code, locked, call, wrong>>

CodeIds == DOMAIN code
At(k, stage) == call[k].stage = stage
CodeOf(k) == call[k].code

ConfirmedInit ==
    /\ code = <<>> /\ locked = <<>> /\ wrong = <<>>
    /\ call = [k \in Calls |-> [stage |-> "idle", code |-> None, right |-> FALSE, exhausted |-> FALSE]]

\* Any earlier code of the administrator that is pending is abandoned.
RequestCode(k) ==
    LET earlier == {c \in CodeIds : code[c].issued.administrator = Asked[k].administrator /\ code[c].outcome = "pending"}
    IN  /\ Len(code) < MaxCodes
        /\ \A c \in earlier : locked[c] = None
        /\ code' = Append([c \in CodeIds |-> IF c \in earlier THEN [code[c] EXCEPT !.outcome = "abandoned"] ELSE code[c]],
                          [issued |-> Asked[k], attempts |-> 0, outcome |-> "pending", late |-> FALSE])
        /\ locked' = Append(locked, None)
        /\ wrong' = Append(wrong, 0)
        /\ UNCHANGED call

CodeExpires(c) ==
    /\ c \in CodeIds /\ ~code[c].late
    /\ code' = [code EXCEPT ![c].late = TRUE]
    /\ UNCHANGED <<locked, call, wrong>>

Present(k, c, right) ==
    /\ At(k, "idle") /\ c \in CodeIds
    /\ code[c].issued.administrator = Asked[k].administrator
    /\ call' = [call EXCEPT ![k] = [stage |-> "waiting", code |-> c, right |-> right, exhausted |-> FALSE]]
    /\ UNCHANGED <<code, locked, wrong>>

-----------------------------------------------------------------------------
(* consume, under the lock of the row.                                     *)

\* Mutant: a code that was consumed by the time its row is locked is taken.
AcceptableStill(k) == code[CodeOf(k)].outcome \in {"pending", "confirmed"} /\ ~code[CodeOf(k)].late
                      /\ code[CodeOf(k)].issued = Asked[k]

Acceptable(k) ==
    LET c == code[CodeOf(k)]
    IN  c.outcome = "pending" /\ ~c.late /\ c.issued = Asked[k]

\* Expired and abandoned marks are rolled back with the call.
Refuse(k) ==
    /\ At(k, "waiting") /\ locked[CodeOf(k)] = None /\ ~Acceptable(k)
    /\ call' = [call EXCEPT ![k].stage = "refused"]
    /\ UNCHANGED <<code, locked, wrong>>

RefuseCode(k) ==
    /\ At(k, "waiting") /\ locked[CodeOf(k)] = None /\ Acceptable(k) /\ ~call[k].right
    /\ call' = [call EXCEPT ![k].stage = "wrong", ![k].exhausted = code[CodeOf(k)].attempts + 1 >= Attempts]
    /\ UNCHANGED <<code, locked, wrong>>

AcceptCode(k) ==
    /\ At(k, "waiting") /\ locked[CodeOf(k)] = None /\ Acceptable(k) /\ call[k].right
    /\ call' = [call EXCEPT ![k].stage = "operating"]
    /\ locked' = [locked EXCEPT ![CodeOf(k)] = k]
    /\ UNCHANGED <<code, wrong>>

\* An operation of its own transaction refers to the row the call has locked.
MayWrite(k) == Asked[k].operation \in Nested => locked[CodeOf(k)] = None

Perform(k) ==
    /\ At(k, "operating") /\ MayWrite(k)
    /\ call' = [call EXCEPT ![k].stage = "performed"]
    /\ code' = [code EXCEPT ![CodeOf(k)].outcome = "confirmed", ![CodeOf(k)].attempts = @ + 1]
    /\ locked' = [locked EXCEPT ![CodeOf(k)] = None]
    /\ UNCHANGED wrong

\* The operation is refused: everything rolls back and the code can be used again.
Abort(k) ==
    /\ At(k, "operating")
    /\ call' = [call EXCEPT ![k].stage = "refused"]
    /\ locked' = [locked EXCEPT ![CodeOf(k)] = None]
    /\ UNCHANGED <<code, wrong>>

\* Mutant: the attempts that were read with the code are written.
RecordFailedStale(k) ==
    /\ At(k, "wrong") /\ locked[CodeOf(k)] = None
    /\ call' = [call EXCEPT ![k].stage = "refused"]
    /\ wrong' = [wrong EXCEPT ![CodeOf(k)] = @ + 1]
    /\ code' = IF code[CodeOf(k)].outcome # "pending" THEN code
               ELSE [code EXCEPT ![CodeOf(k)].attempts = IF call[k].exhausted THEN Attempts ELSE 1,
                                 ![CodeOf(k)].outcome = IF call[k].exhausted THEN "exhausted" ELSE @]
    /\ UNCHANGED locked

\* In a transaction of its own after the rollback: the count is read again, the verdict is not.
RecordFailedAttempt(k) ==
    /\ At(k, "wrong") /\ locked[CodeOf(k)] = None
    /\ call' = [call EXCEPT ![k].stage = "refused"]
    /\ wrong' = [wrong EXCEPT ![CodeOf(k)] = @ + 1]
    /\ code' = IF code[CodeOf(k)].outcome # "pending" THEN code
               ELSE [code EXCEPT ![CodeOf(k)].attempts = @ + 1,
                                 ![CodeOf(k)].outcome = IF call[k].exhausted THEN "exhausted" ELSE @]
    /\ UNCHANGED locked

\* The process dies: its transaction rolls back and its locks go.
DieInCall(k) ==
    /\ \/ At(k, "waiting") \/ At(k, "operating") \/ At(k, "wrong")
    /\ call' = [call EXCEPT ![k].stage = "refused"]
    /\ locked' = [c \in CodeIds |-> IF locked[c] = k THEN None ELSE locked[c]]
    /\ UNCHANGED <<code, wrong>>

Answer(k) == Refuse(k) \/ RefuseCode(k) \/ AcceptCode(k) \/ Perform(k) \/ RecordFailedAttempt(k)

ConfirmedNext ==
    \/ \E k \in Calls : RequestCode(k) \/ Answer(k) \/ Abort(k) \/ DieInCall(k)
    \/ \E k \in Calls, c \in CodeIds, right \in BOOLEAN : Present(k, c, right)
    \/ \E c \in CodeIds : CodeExpires(c)

\* A call that can go on does.
ConfirmedFairness == \A k \in Calls : WF_codeVars(Answer(k))

ConfirmedSpec == ConfirmedInit /\ [][ConfirmedNext]_codeVars /\ ConfirmedFairness

-----------------------------------------------------------------------------
\* Every variable has its type.
ConfirmedTypeOK ==
    /\ \A c \in CodeIds : /\ code[c].outcome \in {"pending", "confirmed", "abandoned", "exhausted"}
                          /\ locked[c] \in Calls \cup {None}
    /\ \A k \in Calls : call[k].stage \in {"idle", "waiting", "operating", "wrong", "performed", "refused"}

Performed(c) == {k \in Calls : At(k, "performed") /\ CodeOf(k) = c}

\* However many calls present a code at once, it is used for one operation, the one it was issued
\* for; and calls that record wrong attempts at once lose none of them, though the verdict each brings
\* is of the count it read, so a code may be pending with its attempts used up.
CodesHold ==
    \A c \in CodeIds :
        /\ Cardinality(Performed(c)) <= 1
        /\ \A k \in Performed(c) : code[c].issued = Asked[k] /\ code[c].outcome = "confirmed"
        /\ code[c].outcome = "pending" => code[c].attempts = wrong[c]

\* A code serves one operation, the one it was issued for, and no wrong attempt on it is lost
\* (confirmation.service.ts).
CodesServe == ConfirmedTypeOK /\ CodesHold

\* What the code does not keep for nested calls, "Approving executes the request": a call whose code was
\* accepted comes to an end.
CallsConclude == \A k \in Calls : At(k, "operating") ~> ~At(k, "operating")
==============================================================================

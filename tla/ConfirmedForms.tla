---------------------------- MODULE ConfirmedForms ----------------------------
(***************************************************************************)
(* The console's forms whose operations take a one-time code: the fields   *)
(* stay editable throughout, a code is asked for with the values they hold *)
(* then, and what is posted is the values they hold when it is confirmed.  *)
(*                                                                         *)
(* The forms are one administrator's, in one tab or several: a code asked  *)
(* for by one abandons the code another waits for.  A call whose answer is *)
(* lost, or whose form is left, goes on without it.  On the server a call  *)
(* is one step here; ConfirmedOperations has what happens between.         *)
(***************************************************************************)
EXTENDS Nullable, Sequences, FiniteSets

CONSTANTS
    Forms,     \* each with an operation of its own
    Values,    \* what a form's fields may hold
    Fresh,     \* and what they hold when its page opens
    Parsed,    \* what the server makes of values: blanks are trimmed off
    Held,      \* values above the threshold, which a second administrator approves
    Attempts,  \* wrong codes a code admits
    MaxCalls   \* bound: calls made

Errors == {"invalid", "exhausted", "refused", "failed"}
Answers == [error : Errors \cup {None}, code : Nat \cup {None}, how : {None, "done", "pending_approval"}]

ASSUME FormsOK ==
    /\ Fresh \in Values /\ Parsed \in [Values -> Values] /\ Held \subseteq Values /\ Attempts \in Nat \ {0}
    /\ None \notin Nat \cup Answers \cup Errors

VARIABLES
    form,    \* each form: what it shows, its code, the call it awaits and what it last told
    calls,   \* calls made, in order, each until it is done with
    codes,   \* codes issued, in order: the form and values, attempts, outcome
    written  \* operations performed: by which code, with what values, and how

formVars == <<form, calls, codes, written>>

Blank == [values |-> Fresh, stage |-> "idle", code |-> None, awaits |-> None, error |-> None, told |-> None]

FormsInit ==
    /\ form = [f \in Forms |-> Blank]
    /\ calls = <<>> /\ codes = <<>> /\ written = {}

Over == [does |-> "over"]
Answered(n) == calls[n].does # "over" /\ calls[n].answer # None

\* The form no longer awaits its call, which the server may still have to answer.
Forget(f) ==
    LET n == form[f].awaits
    IN  calls' = IF n # None /\ Answered(n) THEN [calls EXCEPT ![n] = Over] ELSE calls

-----------------------------------------------------------------------------
(* The form.                                                               *)

Edit(f, v) ==
    /\ form[f].values # v
    /\ form' = [form EXCEPT ![f].values = v]
    /\ UNCHANGED <<calls, codes, written>>

Send(f, call) ==
    /\ Len(calls) < MaxCalls
    /\ calls' = Append(calls, call)
    /\ form' = [form EXCEPT ![f].stage = "busy", ![f].awaits = Len(calls'), ![f].error = None,
                            ![f].told = IF call.does = "ask" THEN None ELSE @]
    /\ UNCHANGED <<codes, written>>

BeginForm(f) ==
    /\ form[f].stage = "idle"
    /\ Send(f, [does |-> "ask", form |-> f, values |-> form[f].values, code |-> None, typed |-> None, answer |-> None])

\* What is typed is the code of some mail received, or none.
CommitForm(f, typed) ==
    /\ form[f].stage = "code"
    /\ Send(f, [does |-> "post", form |-> f, values |-> form[f].values, code |-> form[f].code, typed |-> typed, answer |-> None])

CancelForm(f) ==
    /\ form[f].stage = "code"
    /\ form' = [form EXCEPT ![f].stage = "idle"]
    /\ UNCHANGED <<calls, codes, written>>

\* The page is left and opened again.
LeaveForm(f) ==
    /\ form[f] # Blank
    /\ form' = [form EXCEPT ![f] = Blank]
    /\ Forget(f)
    /\ UNCHANGED <<codes, written>>

\* Mutant: a call whose answer is lost leaves the form where it can be confirmed again.
StageAfterKept(error) == IF error \in {"invalid", "lost"} THEN "code" ELSE "idle"

\* Only a code that was not accepted, and not for the last time, can be entered again.
StageAfter(error) == IF error = "invalid" THEN "code" ELSE "idle"

ShowFailure(f, error) ==
    [form EXCEPT ![f].awaits = None, ![f].error = error,
                 ![f].stage = IF calls[form[f].awaits].does = "ask" THEN "idle" ELSE StageAfter(error)]

\* The answer to a call never comes: the server may have acted on it, or may yet.
LoseCall(f) ==
    /\ form[f].awaits # None
    /\ form' = ShowFailure(f, "lost")
    /\ Forget(f)
    /\ UNCHANGED <<codes, written>>

\* What was posted is told, whatever the fields hold by now; onDone empties most forms.
TakeAnswer(f) ==
    LET n == form[f].awaits
    IN  /\ n # None /\ Answered(n)
        /\ Forget(f)
        /\ LET answer == calls[n].answer
           IN  form' = IF answer.error # None THEN ShowFailure(f, answer.error)
                       ELSE IF calls[n].does = "ask"
                       THEN [form EXCEPT ![f].awaits = None, ![f].stage = "code", ![f].code = answer.code]
                       ELSE [form EXCEPT ![f].awaits = None, ![f].stage = "idle",
                                         ![f].told = [code |-> calls[n].code, values |-> calls[n].values, how |-> answer.how]]
        /\ UNCHANGED <<codes, written>>

-----------------------------------------------------------------------------
(* The server.                                                             *)

Unanswered(n, does) == n \in DOMAIN calls /\ calls[n].does = does /\ calls[n].answer = None
AnswerTo(n, error, code, how) ==
    calls' = IF form[calls[n].form].awaits = n
             THEN [calls EXCEPT ![n].answer = [error |-> error, code |-> code, how |-> how]]
             ELSE [calls EXCEPT ![n] = Over]

\* Mutant: the codes asked for before stand.
AbandonNone == codes

AbandonEarlier == [c \in DOMAIN codes |-> IF codes[c].outcome = "pending" THEN [codes[c] EXCEPT !.outcome = "abandoned"] ELSE codes[c]]

\* The code is committed before its mail is sent, and mailing it may fail.
IssueCode(n, mailed) ==
    /\ Unanswered(n, "ask")
    /\ codes' = Append(AbandonEarlier, [form |-> calls[n].form, values |-> calls[n].values,
                                        attempts |-> 0, outcome |-> "pending", late |-> FALSE])
    /\ AnswerTo(n, IF mailed THEN None ELSE "failed", Len(codes'), None)
    /\ UNCHANGED <<form, written>>

FormCodeExpires(c) ==
    /\ c \in DOMAIN codes /\ codes[c].outcome = "pending" /\ ~codes[c].late
    /\ codes' = [codes EXCEPT ![c].late = TRUE]
    /\ UNCHANGED <<form, calls, written>>

\* Mutant: the values are compared as they came, before the schema trims them.
FingerprintsRaw(values, issued) == values = issued

Fingerprints(values, issued) == Parsed[values] = issued

Matches(n) ==
    LET c == codes[calls[n].code]
    IN  c.outcome = "pending" /\ ~c.late /\ Fingerprints(calls[n].values, c.values)

\* No pending code, one too late, or other values: nothing of it is kept.
RefuseForm(n) ==
    /\ Unanswered(n, "post") /\ ~Matches(n)
    /\ AnswerTo(n, "invalid", None, None)
    /\ UNCHANGED <<form, codes, written>>

RefuseTyped(n) ==
    LET c == calls[n].code
        exhausted == codes[c].attempts + 1 >= Attempts
    IN  /\ Unanswered(n, "post") /\ Matches(n) /\ calls[n].typed # c
        /\ codes' = [codes EXCEPT ![c].attempts = @ + 1, ![c].outcome = IF exhausted THEN "exhausted" ELSE @]
        /\ AnswerTo(n, IF exhausted THEN "exhausted" ELSE "invalid", None, None)
        /\ UNCHANGED <<form, written>>

\* The operation refuses: everything rolls back, and the code is pending again.
RefuseOperation(n) ==
    /\ Unanswered(n, "post") /\ Matches(n) /\ calls[n].typed = calls[n].code
    /\ AnswerTo(n, "refused", None, None)
    /\ UNCHANGED <<form, codes, written>>

How(values) == IF values \in Held THEN "pending_approval" ELSE "done"

\* What the handler does once it has committed may fail, and the call with it.
PerformForm(n, concluded) ==
    LET c == calls[n].code
        did == Parsed[calls[n].values]
    IN  /\ Unanswered(n, "post") /\ Matches(n) /\ calls[n].typed = c
        /\ codes' = [codes EXCEPT ![c].outcome = "confirmed", ![c].attempts = @ + 1]
        /\ written' = written \cup {[code |-> c, call |-> n, form |-> calls[n].form, values |-> did, how |-> How(did)]}
        /\ AnswerTo(n, IF concluded THEN None ELSE "failed", None, How(did))
        /\ UNCHANGED form

FormsNext ==
    \/ \E f \in Forms : BeginForm(f) \/ CancelForm(f) \/ LoseCall(f) \/ TakeAnswer(f) \/ LeaveForm(f)
    \/ \E f \in Forms, v \in Values : Edit(f, v)
    \/ \E f \in Forms, typed \in DOMAIN codes \cup {None} : CommitForm(f, typed)
    \/ \E n \in DOMAIN calls, sound \in BOOLEAN : IssueCode(n, sound) \/ PerformForm(n, sound)
    \/ \E n \in DOMAIN calls : RefuseForm(n) \/ RefuseTyped(n) \/ RefuseOperation(n)
    \/ \E c \in DOMAIN codes : FormCodeExpires(c)

FormsSpec == FormsInit /\ [][FormsNext]_formVars

-----------------------------------------------------------------------------
\* Every variable has its type.
FormsTypeOK ==
    \A f \in Forms :
        /\ form[f].stage \in {"idle", "busy", "code"} /\ (form[f].stage = "busy") = (form[f].awaits # None)
        /\ form[f].error \in {None, "invalid", "exhausted", "refused", "failed", "lost"}

WrittenBy(c) == {w \in written : w.code = c}

\* "The code is bound to the submitted values": whatever is edited between asking and confirming and
\* whichever form a mail's code is typed into, a code performs one operation at most, its form's with
\* the values asked for; and only the latest code asked for can still perform one.
CodesBindForms ==
    /\ \A c \in DOMAIN codes :
        /\ Cardinality(WrittenBy(c)) <= 1
        /\ \A w \in WrittenBy(c) : w.form = codes[c].form /\ w.values = codes[c].values
        /\ codes[c].outcome = "pending" => c = Len(codes)

\* A form that says an operation is done says so of one that was, with those values but for blanks and
\* in that way; and a form that offers to enter its code again has performed nothing by it yet.
FormsTellTruth ==
    \A f \in Forms :
        /\ LET told == form[f].told
           IN  told # None => \E w \in WrittenBy(told.code) : w.form = f /\ w.values = Parsed[told.values] /\ w.how = told.how
        /\ form[f].stage = "code" => WrittenBy(form[f].code) = {}
==============================================================================

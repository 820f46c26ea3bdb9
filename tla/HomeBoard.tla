------------------------------ MODULE HomeBoard ------------------------------
(***************************************************************************)
(* The console's home: the verdict, which groups live alerts into problems,*)
(* and the chart of the routes' success rates, hour by hour.  The answer   *)
(* is put together from several statements while transactions end, alerts  *)
(* come and go and the hour turns; the page draws what it was told.        *)
(*                                                                         *)
(* A route is its place in the series' order.  Rates are whole percents.   *)
(***************************************************************************)
EXTENDS Nullable, SequencesExt, Orders

CONSTANTS
    Charted, ChartedAs,     \* 1..n, and the direction and country of each
    Alerts, AlertOf,     \* the kind, subject, severity and moment of each alert that may be raised
    Accounts, Since,     \* provider accounts that may be suspended, and since when
    Histories, Figures,  \* transactions ended in each hour; success of the last hour and before it
    Shown,               \* hours on the chart, 24 in the code
    MinPoint, MinSample, \* transactions an hour needs to be drawn, and a rate to be judged
    LastHour, MaxMoves   \* bounds

Counts == [terminal : Nat, succeeded : Nat]
Ranges == [lo : Int, hi : Int]

ASSUME BoardOK ==
    /\ IsFiniteSet(Charted) /\ Charted = 1..Cardinality(Charted) /\ Shown \in Nat \ {0}
    /\ LastHour \in Nat /\ LastHour >= Shown /\ MaxMoves \in Nat /\ MinPoint \in Nat
    /\ IsFiniteSet(Alerts) /\ IsFiniteSet(Accounts) /\ Since \in [Accounts -> Nat]
    /\ \A a \in Alerts : AlertOf[a].severity \in {"critical", "warning", "informational"} /\ AlertOf[a].raised \in Nat
    /\ Histories \subseteq [1..LastHour -> Counts] /\ Figures \subseteq [recent : Counts, base : Counts]
    /\ None \notin Int \cup Ranges \cup [1..Shown -> Ranges \cup {None}]

VARIABLES
    ended,     \* transactions of each route that ended in each hour
    hour,
    live,      \* alerts open or acknowledged
    suspended, \* provider accounts
    may,       \* what the administrator may read
    load,      \* how far the answer has got, what it read, and history: what was live all along, and which
               \* routes' hours changed since they were read
    moves

boardVars == <<ended, hour, live, suspended, may, load, moves>>

NoLoad == [stage |-> "idle", held |-> {}, verdict |-> None, rates |-> None, hours |-> None, from |-> 0,
           read |-> 0, late |-> {}, alerted |-> {}, series |-> None, at |-> 0]

BoardInit ==
    /\ ended \in [Charted -> Histories] /\ hour = Shown
    /\ live \in SUBSET Alerts /\ suspended \in SUBSET Accounts
    /\ may \in SUBSET {"alerts", "providers"}
    /\ load = NoLoad /\ moves = 0

-----------------------------------------------------------------------------
(* The verdict.                                                            *)

AlertKind(a) == AlertOf[a].kind
Collapsed(a) == AlertOf[a].type \in {"transaction", "payer"}

ProblemKey(a) == IF Collapsed(a) THEN <<AlertKind(a)>> ELSE <<AlertKind(a), AlertOf[a].type, AlertOf[a].subject>>

Older(a, b) == AlertOf[a].raised <= AlertOf[b].raised
Oldest(group) == CHOOSE a \in group : \A b \in group : Older(a, b)

\* Mutant: a problem is as severe as its oldest alert.
ProblemOfOldest(group) ==
    LET a == Oldest(group)
    IN  [severity |-> AlertOf[a].severity, kind |-> AlertKind(a), type |-> AlertOf[a].type,
         subject |-> IF Collapsed(a) THEN None ELSE AlertOf[a].subject,
         count |-> Cardinality(group), since |-> AlertOf[a].raised]

ProblemOf(group) ==
    LET a == Oldest(group)
    IN  [severity |-> IF \E b \in group : AlertOf[b].severity = "critical" THEN "critical" ELSE "warning",
         kind |-> AlertKind(a), type |-> AlertOf[a].type, subject |-> IF Collapsed(a) THEN None ELSE AlertOf[a].subject,
         count |-> Cardinality(group), since |-> AlertOf[a].raised]

GroupProblems(alerts) ==
    LET heard == {a \in alerts : AlertOf[a].severity # "informational"}
    IN  {ProblemOf({b \in heard : ProblemKey(b) = ProblemKey(a)}) : a \in heard}

Suspension(p) == [severity |-> "critical", kind |-> "provider_suspended", type |-> "provider_account",
                  subject |-> p, count |-> 1, since |-> Since[p]]

Sooner(x, y) == IF x.severity # y.severity THEN x.severity = "critical" ELSE x.since < y.since
NotLater(x, y) == ~Sooner(y, x)

Problems ==
    InOrder((IF "alerts" \in may THEN GroupProblems(live) ELSE {})
            \cup (IF "providers" \in may THEN {Suspension(p) : p \in suspended} ELSE {}), NotLater)

-----------------------------------------------------------------------------
(* The series.                                                             *)

Rate(succeeded, terminal) == IF terminal = 0 THEN None ELSE (100 * succeeded) \div terminal

\* Five points under the baseline on a sample big enough, or an alert.
IsDeparting(figures, alerted) ==
    \/ alerted
    \/ /\ figures.recent.terminal >= MinSample /\ figures.base.terminal >= MinSample
       /\ 100 * (figures.base.succeeded * figures.recent.terminal - figures.recent.succeeded * figures.base.terminal)
              >= 5 * figures.base.terminal * figures.recent.terminal

Listed(rates) == {r \in Charted : rates[r].recent.terminal + rates[r].base.terminal > 0}

-----------------------------------------------------------------------------
(* The surroundings.                                                       *)

Moves == moves < MaxMoves /\ moves' = moves + 1

One(ok) == IF ok THEN 1 ELSE 0
Counting(c, ok) == [terminal |-> c.terminal + 1, succeeded |-> c.succeeded + One(ok)]
Discounting(c, ok) == [terminal |-> c.terminal - 1, succeeded |-> c.succeeded - One(ok)]
Counted(c, ok) == c.terminal > 0 /\ IF ok THEN c.succeeded > 0 ELSE c.succeeded < c.terminal

\* The hours of a route with one more ended transaction in one of them, and with one fewer.
Ending(hours, h, ok) == [hours EXCEPT ![h] = Counting(hours[h], ok)]
Reopening(hours, h, ok) == [hours EXCEPT ![h] = Discounting(hours[h], ok)]

\* The end is stamped with the hour its database transaction began in, which may be over when the end
\* is seen.
TransactionEnds(r, h, ok) ==
    /\ Moves /\ h <= hour
    /\ ended' = [ended EXCEPT ![r] = Ending(ended[r], h, ok)]
    /\ load' = [load EXCEPT !.late = @ \cup {<<r, h>>}]
    /\ UNCHANGED <<hour, live, suspended, may>>

\* A correction turns the outcome of a transaction that had ended, which ends anew.
CorrectionApplies(r, from, to, ok) ==
    /\ Moves /\ to <= hour /\ Counted(ended[r][from], ~ok)
    /\ ended' = [ended EXCEPT ![r] = Ending(Reopening(ended[r], from, ~ok), to, ok)]
    /\ load' = [load EXCEPT !.late = @ \cup {<<r, from>>, <<r, to>>}]
    /\ UNCHANGED <<hour, live, suspended, may>>

HourTurns == Moves /\ hour < LastHour /\ hour' = hour + 1 /\ UNCHANGED <<ended, live, suspended, may, load>>

AlertMoves(a) ==
    /\ Moves
    /\ live' = IF a \in live THEN live \ {a} ELSE live \cup {a}
    /\ load' = [load EXCEPT !.held = @ \ {a}]
    /\ UNCHANGED <<ended, hour, suspended, may>>

AccountMoves(p) ==
    /\ Moves
    /\ suspended' = IF p \in suspended THEN suspended \ {p} ELSE suspended \cup {p}
    /\ UNCHANGED <<ended, hour, live, may, load>>

-----------------------------------------------------------------------------
(* The answer, statement by statement.                                     *)

\* There is a verdict for whoever may see one of its sources.
LoadVerdict ==
    /\ load.stage \in {"idle", "drawn"}
    /\ load' = [NoLoad EXCEPT !.stage = "rates", !.held = live, !.verdict = IF may = {} THEN None ELSE Problems]
    /\ UNCHANGED <<ended, hour, live, suspended, may, moves>>

\* The last hour and the days before it are any of Figures: they do not begin with the hour.
ReadRates(rates) ==
    /\ load.stage = "rates"
    /\ load' = [load EXCEPT !.stage = "hours", !.rates = rates]
    /\ UNCHANGED <<ended, hour, live, suspended, may, moves>>

\* Mutant: the hours begin where the clock stands, the first one having passed in part.
ReadHoursRolling ==
    /\ load.stage = "hours"
    /\ load' = [load EXCEPT !.stage = "alerted", !.hours = ended, !.late = {},
                            !.from = hour - Shown + 2, !.read = hour]
    /\ UNCHANGED <<ended, hour, live, suspended, may, moves>>

ReadHours ==
    /\ load.stage = "hours"
    /\ load' = [load EXCEPT !.stage = "alerted", !.hours = ended, !.late = {},
                            !.from = hour - Shown + 1, !.read = hour]
    /\ UNCHANGED <<ended, hour, live, suspended, may, moves>>

ReadAlerted ==
    /\ load.stage = "alerted"
    /\ load' = [load EXCEPT !.stage = "build", !.alerted =
            IF "alerts" \in may THEN {AlertOf[a].subject : a \in {b \in live : AlertOf[b].kind = "health:success_rate:route"}}
            ELSE {}]
    /\ UNCHANGED <<ended, hour, live, suspended, may, moves>>

\* Every hour up to the one the server's clock says, empty where nothing was read of it.
Bucket(r, h) == IF h >= load.from /\ h <= load.read THEN load.hours[r][h] ELSE [terminal |-> 0, succeeded |-> 0]

RouteSeries ==
    /\ load.stage = "build"
    /\ load' = [load EXCEPT !.stage = "drawn", !.at = hour, !.series =
            [r \in Listed(load.rates) |->
                [departing |-> IsDeparting(load.rates[r], r \in load.alerted),
                 hours |-> [i \in 1..Shown |-> Bucket(r, hour - Shown + i)]]]]
    /\ UNCHANGED <<ended, hour, live, suspended, may, moves>>

BoardNext ==
    \/ \E r \in Charted, h \in 1..LastHour, ok \in BOOLEAN :
           TransactionEnds(r, h, ok) \/ \E from \in 1..LastHour : CorrectionApplies(r, from, h, ok)
    \/ HourTurns \/ (\E a \in Alerts : AlertMoves(a)) \/ (\E p \in Accounts : AccountMoves(p))
    \/ LoadVerdict \/ ReadHours \/ ReadAlerted \/ RouteSeries
    \/ \E rates \in [Charted -> Figures] : ReadRates(rates)

BoardSpec == BoardInit /\ [][BoardNext]_boardVars

-----------------------------------------------------------------------------
(* The chart.                                                              *)

Points(s) == [i \in 1..Shown |-> IF s.hours[i].terminal < MinPoint THEN None ELSE Rate(s.hours[i].succeeded, s.hours[i].terminal)]

Pool(direction) == {r \in DOMAIN load.series : ChartedAs[r].direction = direction}

CountryChips(direction) ==
    [c \in {ChartedAs[r].country : r \in Pool(direction)} |->
        Cardinality({r \in Pool(direction) : ChartedAs[r].country = c /\ load.series[r].departing})]

Lines(direction, country) ==
    {r \in Pool(direction) : IF country = "all" THEN load.series[r].departing ELSE ChartedAs[r].country = country}

\* Mutant: the band is of the calm routes of either direction.
BandOfAll(direction, country) ==
    LET calm == {r \in DOMAIN load.series : ~load.series[r].departing}
        at(i) == {Points(load.series[r])[i] : r \in calm} \ {None}
    IN  IF country # "all" \/ calm = {} THEN None
        ELSE [i \in 1..Shown |-> IF at(i) = {} THEN None ELSE [lo |-> Min(at(i)), hi |-> Max(at(i))]]

\* What the calm routes of a direction range over, hour by hour.
Band(direction, country) ==
    LET calm == {r \in Pool(direction) : ~load.series[r].departing}
        at(i) == {Points(load.series[r])[i] : r \in calm} \ {None}
    IN  IF country # "all" \/ calm = {} THEN None
        ELSE [i \in 1..Shown |-> IF at(i) = {} THEN None ELSE [lo |-> Min(at(i)), hi |-> Max(at(i))]]

LastIndex(ps) == Max({0} \cup {i \in DOMAIN ps : ps[i] # None})

\* Rates below a half are drawn on the axis.
Height(v) == 8 + ((100 - AtLeast(50, v)) * 206) \div 50

\* Where a label would stand: beside the end of each line that has one, and under that of the band.
Wanted(direction, country) ==
    LET ps(r) == Points(load.series[r])
        ending == {r \in Lines(direction, country) : LastIndex(ps(r)) > 0}
        band == Band(direction, country)
        hi == IF band = None THEN <<>> ELSE [i \in 1..Shown |-> IF band[i] = None THEN None ELSE band[i].hi]
        lines == InOrder(ending, <)
    IN  [k \in DOMAIN lines |-> Height(ps(lines[k])[LastIndex(ps(lines[k]))]) + 4]
        \o IF hi = <<>> \/ LastIndex(hi) = 0 THEN <<>> ELSE << Height(hi[LastIndex(hi)]) + 16 >>

Gap == 14

\* Mutant: labels are pushed down in the order of the lines.
SpreadInTurn(ys) ==
    LET out[i \in DOMAIN ys] == IF i = 1 THEN ys[1] ELSE AtLeast(out[i - 1] + Gap, ys[i]) IN [i \in DOMAIN ys |-> out[i]]

\* From the highest down, each at least a gap under the one before.
SpreadLabels(ys) ==
    LET order == InOrder(DOMAIN ys, LAMBDA i, j : ys[i] < ys[j] \/ (ys[i] = ys[j] /\ i < j))
        out[k \in DOMAIN ys] == IF k = 1 THEN ys[order[1]] ELSE AtLeast(out[k - 1] + Gap, ys[order[k]])
    IN  [i \in DOMAIN ys |-> out[CHOOSE k \in DOMAIN ys : order[k] = i]]

-----------------------------------------------------------------------------
\* Every variable has its type.
BoardTypeOK ==
    /\ ended \in [Charted -> [1..LastHour -> Counts]]
    /\ hour \in 1..LastHour /\ live \subseteq Alerts /\ suspended \subseteq Accounts
    /\ load.stage \in {"idle", "rates", "hours", "alerted", "build", "drawn"} /\ moves \in 0..MaxMoves

\* An alert that was live from the first statement of an answer to its last is told twice over: the
\* verdict has a problem of its kind that is about its subject, or about all of them, as severe and as
\* old at least, and the chart sets its route apart, whatever came and went between the statements.
BoardTellsAlerts ==
    load.stage = "drawn" /\ "alerts" \in may => \A a \in load.held :
        /\ AlertOf[a].severity # "informational" => \E i \in DOMAIN load.verdict : LET p == load.verdict[i] IN
               /\ p.kind = AlertOf[a].kind /\ p.subject \in {None, AlertOf[a].subject}
               /\ p.since <= AlertOf[a].raised /\ (AlertOf[a].severity = "critical" => p.severity = "critical")
        /\ AlertOf[a].kind = "health:success_rate:route" /\ AlertOf[a].subject \in DOMAIN load.series =>
               load.series[AlertOf[a].subject].departing

\* The chart over all countries leaves no rate out: what a route of the direction did in an hour long
\* enough is drawn as its line or lies within the band, whose edges are rates of such routes; and each
\* hour, though the hour turned since they were read, shows what the store holds of it, unless since
\* then a transaction ended in it, late as it may be, or a correction moved one there or away.
ChartIsWhole ==
    load.stage = "drawn" => \A d \in {"collection", "disbursement"} :
        LET band == Band(d, "all") IN
        /\ \A r \in Pool(d) \ Lines(d, "all"), i \in 1..Shown : LET v == Points(load.series[r])[i] IN
               v # None => band # None /\ band[i] # None /\ band[i].lo <= v /\ v <= band[i].hi
        /\ band # None => \A i \in 1..Shown : band[i] # None => \A edge \in {band[i].lo, band[i].hi} :
               \E r \in Pool(d) \ Lines(d, "all") : Points(load.series[r])[i] = edge
        /\ \A r \in Pool(d), i \in 1..Shown : LET h == load.at - Shown + i IN
               h <= load.read /\ <<r, h>> \notin load.late => load.series[r].hours[i] = ended[r][h]

\* Labels keep the order of the rates they name and a gap between them, and none is moved unless the
\* one above pushes it.
LabelsApart ==
    load.stage = "drawn" => \A d \in {"collection", "disbursement"}, c \in {"all"} \cup DOMAIN CountryChips("collection") :
        LET ys == Wanted(d, c) out == SpreadLabels(ys) IN
        /\ \A i, j \in DOMAIN ys : ys[i] < ys[j] => out[i] < out[j]
        /\ \A i, j \in DOMAIN ys : i # j => out[i] - out[j] >= Gap \/ out[j] - out[i] >= Gap
        /\ \A i \in DOMAIN ys : out[i] = ys[i] \/ (out[i] > ys[i] /\ \E j \in DOMAIN ys : out[i] = out[j] + Gap)
==============================================================================

-------------------------------- MODULE Star --------------------------------
(***************************************************************************)
(* opl.gold.facts, opl.gold.fx and the calendar of opl.gold.conformed, over *)
(* the dim_company of Dimension: one fact row per payment, its two          *)
(* counterparties resolved as of its own event_time, its rate the last one  *)
(* published before it.  A fact row is never resolved again; the dimension  *)
(* it points into may be dropped and rebuilt under it.                      *)
(*                                                                         *)
(* A payment's business attributes are abstracted to its counterparties and *)
(* its currency; foreign payments are in the one currency PTAX quotes.      *)
(***************************************************************************)
EXTENDS Dimension

CONSTANTS
  PaymentLoads,   \* what one promoted batch appends to bronze_payments
  QuoteLoads      \* what one promoted batch appends to bronze_ptax

VARIABLES
  payments,       \* rows of bronze_payments, one per delivery
  quotes,         \* rows of bronze_ptax
  calendar,       \* days of dim_date; no day: no table
  fact,           \* rows of fact_payment
  factBuild,      \* the build: how far it is, its derived rows and identities
  factVerdict,    \* how the last build ended
  meant           \* history: the surrogate keys a fact build resolved to, each
                  \* with the attributes it named then

starVars == <<payments, quotes, calendar, fact, factBuild, factVerdict, meant>>
vars     == <<hub, satellite, dim, dimBuild, dimVerdict,
              payments, quotes, calendar, fact, factBuild, factVerdict, meant>>

Payment == UNION PaymentLoads
Id      == {p.id : p \in Payment}
Quote   == UNION QuoteLoads
Rate    == {q.rate : q \in Quote}

Domestic == 1   \* fx_rate of a payment in the reporting currency
NoRate   == 0   \* NULL: no quote precedes the payment

ASSUME StarAssumption ==
  /\ \A batch \in PaymentLoads : IsFiniteSet(batch)
  /\ \A p \in Payment :
       /\ p = [id |-> p.id, payer |-> p.payer, payee |-> p.payee,
               foreign |-> p.foreign, at |-> p.at, file |-> p.file]
       /\ p.payer \in Company /\ p.payee \in Company /\ p.foreign \in BOOLEAN
       /\ p.at \in Floor..(Ceiling - 1) /\ DayOf(p.at) \in Day
  /\ \A q \in Quote :
       /\ q = [day |-> q.day, published |-> q.published, rate |-> q.rate]
       /\ q.day \in Day /\ q.published \in Floor..(Ceiling - 1)
       /\ q.day <= DayOf(q.published)   \* quotes_in refuses one published before its day
       /\ q.rate \in Nat \ {NoRate, Domestic}

FactRow ==
  [id : Id, payer : Version \cup {Ghost}, payee : Version \cup {Ghost},
   rate : Rate \cup {Domestic}, rateDay : Day,
   at : Floor..(Ceiling - 1), file : {p.file : p \in Payment}]

IdleFact == [at |-> "idle", rows |-> {}, ids |-> {}]

TypeOK ==
  /\ DimTypeOK
  /\ payments \subseteq Payment /\ quotes \subseteq Quote
  /\ calendar \subseteq Day
  /\ fact \subseteq FactRow
  /\ factBuild \in [at : {"idle", "derived", "written"},
                    rows : SUBSET FactRow, ids : SUBSET Id]
  /\ factVerdict \in Verdict
  /\ meant \subseteq (Version \cup {Ghost}) \X (Version \cup {Ghost})

Init ==
  /\ DimInit
  /\ payments = {} /\ quotes = {} /\ calendar = {} /\ fact = {}
  /\ factBuild = IdleFact /\ factVerdict = "none" /\ meant = {}

----------------------------------------------------------------------------
\* The bronze tables the builds read.

LandPayments(batch) ==
  /\ ~ batch \subseteq payments
  /\ payments' = payments \cup batch
  /\ UNCHANGED <<quotes, calendar, fact, factBuild, factVerdict, meant>>

LandQuotes(batch) ==
  /\ ~ batch \subseteq quotes
  /\ quotes' = quotes \cup batch
  /\ UNCHANGED <<payments, calendar, fact, factBuild, factVerdict, meant>>

----------------------------------------------------------------------------
\* load_conformed_dimension for dim_date.

\* The dates the calendar must cover: the payments' own days, as bronze_payments
\* has them, and the days versions of the dimension open on.
SpanEnds == {DayOf(p.at) : p \in payments} \cup SnapshotDates(satellite)

\* The days of the span that the table does not hold are appended.
LoadCalendar ==
  /\ SpanEnds # {}
  /\ calendar' = calendar \cup (Min(SpanEnds)..Max(SpanEnds))
  /\ UNCHANGED <<payments, quotes, fact, factBuild, factVerdict, meant>>

----------------------------------------------------------------------------
\* opl.gold.fx.

QuotesOf(Q, d) == {q \in Q : q.day = d}

\* A quote date may be landed more than once, but with one rate; an empty
\* series is refused too.
Reduces(Q) ==
  /\ Q # {}
  /\ \A q, r \in Q : q.day = r.day => q.rate = r.rate

\* One quote per quote date, published when its first row was.
Reduced(Q) ==
  {[day       |-> q.day,
    rate      |-> Min({r.rate : r \in QuotesOf(Q, q.day)}),
    published |-> Min({r.published : r \in QuotesOf(Q, q.day)})] : q \in Q}

\* q is before r in the series.
Precedes(q, r) ==
  \/ q.published < r.published
  \/ q.published = r.published /\ q.day < r.day

\* Each quote is in force until the next one is published.
RateIntervals(Q) ==
  LET later(q) == {r \in Reduced(Q) : Precedes(q, r)}
  IN  {[day  |-> q.day, rate |-> q.rate, from |-> q.published,
        to   |-> IF later(q) = {} THEN Ceiling
                 ELSE Min({r.published : r \in later(q)})] : q \in Reduced(Q)}

----------------------------------------------------------------------------
\* The rows of the fact.

\* Bug: BETWEEN, inclusive at both ends.
Between(x, t) == x.from <= t /\ t <= x.to

\* Half-open: an instant on a boundary belongs to the interval that opens there.
InForce(x, t) == x.from <= t /\ t < x.to

\* Bug: the current version, whenever the payment happened.
Current(D, c, t) ==
  LET hits == {r.key : r \in {x \in D : x.company = c /\ x.to = Ceiling}}
  IN  IF hits = {} THEN {Ghost} ELSE hits

\* The surrogate keys a counterparty resolves to, the ghost if none.
Resolved(D, c, t) ==
  LET hits == {r.key : r \in {x \in D : x.company = c /\ InForce(x, t)}}
  IN  IF hits = {} THEN {Ghost} ELSE hits

\* Rate and rate date of a payment: its own day at 1 in the reporting currency,
\* else the quote in force, if one is.
Converted(p, intervals) ==
  LET hits == {[rate |-> x.rate, day |-> x.day] :
                 x \in {y \in intervals : InForce(y, p.at)}}
  IN  IF ~ p.foreign THEN {[rate |-> Domestic, day |-> DayOf(p.at)]}
      ELSE IF hits = {} THEN {[rate |-> NoRate, day |-> DayOf(p.at)]} ELSE hits

Tuple(p) == [payer |-> p.payer, payee |-> p.payee, foreign |-> p.foreign]

\* One delivery of each payment, chosen by a total order on its columns.
Deduplicated(P) == {CHOOSE q \in P : q.id = p.id : p \in P}

FactRows(P, D, intervals) ==
  UNION {{[id |-> p.id, payer |-> x, payee |-> y, rate |-> z.rate,
           rateDay |-> z.day, at |-> p.at, file |-> p.file] :
            x \in Resolved(D, p.payer, p.at), y \in Resolved(D, p.payee, p.at),
            z \in Converted(p, intervals)} : p \in Deduplicated(P)}

----------------------------------------------------------------------------
\* load_fact.

\* Everything that can stop the build before it writes, and the frames the
\* append will read.  A table that is not there stops it too.
FactRead ==
  LET rows == FactRows(payments, dim, RateIntervals(quotes))
  IN  /\ factBuild.at = "idle"
      /\ calendar # {} /\ dim # {} /\ payments # {}
      /\ Reduces(quotes)
      /\ Cardinality({Tuple(p) : p \in payments})
           = Cardinality({Tuple(p) : p \in Deduplicated(payments)})
      /\ \A r \in rows : r.rate # NoRate
      /\ factBuild' = [at |-> "derived", rows |-> rows,
                       ids |-> {p.id : p \in payments}]
      /\ factVerdict' = "none"
      /\ meant' = meant \cup {<<x.key, x.attributes>> :
                    x \in {y \in dim : \E r \in rows : y.key \in {r.payer, r.payee}}}
      /\ UNCHANGED <<payments, quotes, calendar, fact>>

\* Rows of payments the target does not hold; the others are not looked at.
FactWrite ==
  /\ factBuild.at = "derived"
  /\ fact' = fact \cup {r \in factBuild.rows : \A f \in fact : f.id # r.id}
  /\ factBuild' = [factBuild EXCEPT !.at = "written", !.rows = {}]
  /\ UNCHANGED <<payments, quotes, calendar, factVerdict, meant>>

\* One row per delivered identity, counted on the rows on disk.
FactVerify ==
  /\ factBuild.at = "written"
  /\ factBuild' = IdleFact
  /\ factVerdict' = IF Cardinality(fact) = Cardinality(factBuild.ids)
                      THEN "accepted" ELSE "drop_it"
  /\ UNCHANGED <<payments, quotes, calendar, fact, meant>>

FactCrash ==
  /\ factBuild.at # "idle"
  /\ factBuild' = IdleFact
  /\ UNCHANGED <<payments, quotes, calendar, fact, factVerdict, meant>>

StarNext ==
  \/ \E batch \in PaymentLoads : LandPayments(batch)
  \/ \E batch \in QuoteLoads : LandQuotes(batch)
  \/ LoadCalendar
  \/ FactRead \/ FactWrite \/ FactVerify \/ FactCrash

Next ==
  \/ DimNext /\ UNCHANGED starVars
  \/ StarNext /\ UNCHANGED dimVars

Spec == Init /\ [][Next]_vars
----------------------------------------------------------------------------
\* Properties.

\* One row per payment event, however often a build died, was run again or met
\* another batch: no payment resolves to two versions or two rates, so the count
\* taken after the append never has a table to refuse.
FactGrain ==
  /\ \A f, g \in fact : f.id = g.id => f = g
  /\ factVerdict # "drop_it"

\* A fact stores surrogate keys and is never resolved again.  In every dimension
\* accepted later each of them names the version it named then, whatever snapshots
\* it was rebuilt over and in whatever order they came, one before the first included.
FactKeysSurviveRebuilds ==
  dimVerdict = "accepted" =>
    \A m \in meant : \E r \in dim : r.key = m[1] /\ r.attributes = m[2]

\* A row of the fact is one payment's, and means later what it meant when written.
FactRowsStand == FactGrain /\ FactKeysSurviveRebuilds

\* The version of company c at instant t among those the dimension holds: the
\* last one dated no later, or the first when all are later.
VersionAsOf(c, t) ==
  LET days == {r.attributes[2] : r \in {x \in dim : x.company = c}}
      past == {d \in days : Midnight(d) <= t}
  IN  IF days = {} THEN Ghost
      ELSE IF past = {} THEN <<c, Min(days)>> ELSE <<c, Max(past)>>

\* Quote date d has the last quote published by instant t.
LastQuoteAt(d, t) ==
  LET known    == {q.day : q \in {x \in quotes : x.published <= t}}
      first(e) == Min({q.published : q \in QuotesOf(quotes, e)})
  IN  /\ d \in known
      /\ \A e \in known \ {d} :
           first(e) < first(d) \/ (first(e) = first(d) /\ e < d)

\* Each row derived is of a payment as it was delivered, both counterparties at
\* the version in force when it happened and not at the current one, converted
\* at the last rate published before it.
ResolvedAsOfThePayment ==
  [][factBuild.at = "idle" /\ factBuild'.at = "derived" =>
       \A r \in factBuild'.rows : \E p \in payments :
         /\ r.id = p.id /\ r.at = p.at /\ r.file = p.file
         /\ r.payer = VersionAsOf(p.payer, p.at)
         /\ r.payee = VersionAsOf(p.payee, p.at)
         /\ p.foreign => /\ LastQuoteAt(r.rateDay, p.at)
                         /\ \E q \in QuotesOf(quotes, r.rateDay) : q.rate = r.rate]_vars

\* Two payments converted at the quote of one date were converted at one rate,
\* though bronze_ptax may gain a second rate for that date between two builds.
OneRatePerQuoteDate ==
  \A f, g \in fact :
    f.rateDay = g.rateDay /\ Domestic \notin {f.rate, g.rate} => f.rate = g.rate

\* Another build of the calendar would append nothing.
CalendarIsCurrent ==
  SpanEnds # {} /\ Min(SpanEnds)..Max(SpanEnds) \subseteq calendar

\* Over a current calendar no payment's day is an orphan, and a rate date is one
\* only when it is before the whole calendar.
OrphansPrecedeTheCalendar ==
  CalendarIsCurrent => \A f \in fact :
    /\ DayOf(f.at) \in calendar
    /\ f.rateDay \in calendar \/ f.rateDay < Min(calendar)

\* The remedy gold_load_fact.py:170 prints beside an orphan count: re-running the
\* conformed build appends the missing members and the fact needs no repair.
RebuiltCalendarHealsOrphans ==
  CalendarIsCurrent => \A f \in fact : {DayOf(f.at), f.rateDay} \subseteq calendar

\* A fact's row is resolved as of its payment: the versions, the rate, one rate for
\* a quote date, and days a current calendar has.
FactTellsThePayment ==
  ResolvedAsOfThePayment /\ []OneRatePerQuoteDate /\ []OrphansPrecedeTheCalendar
=============================================================================

----------------------------- MODULE ApiLanding -----------------------------
(***************************************************************************)
(* databricks/src/fetch_ptax.py over opl.extraction.ptax_source and        *)
(* opl.bronze.generated_landing.emit_records_file: the dollar quotes of a  *)
(* declared window are read from the central bank's API one calendar day   *)
(* at a time and put into the landing Volume as one file, staged and       *)
(* renamed.  Auto Loader tracks that file by its path.                     *)
(*                                                                         *)
(* The bank publishes, re-publishes and revises while a fetch is under     *)
(* way; a fetch may be killed anywhere and run again, and two may overlap. *)
(***************************************************************************)
EXTENDS Naturals, FiniteSets, FiniteSetsExt

CONSTANTS
  LastDay,       \* the window is the days 1..LastDay: WINDOW_FIRST .. WINDOW_LAST
  DayLength,     \* the instants of a day
  Spread,        \* MAX_PUBLICATION_SPREAD
  Rate,          \* the rates; 0 stands for one that is not a price
  Fetcher,       \* the task runs that may be under way together
  MaxEvents,     \* bound: what the bank does
  MaxFetches     \* bound: fetches started

ASSUME ApiAssumption ==
  /\ {LastDay, DayLength} \subseteq Nat \ {0} /\ Spread \in Nat
  /\ Rate \subseteq Nat /\ IsFiniteSet(Fetcher) /\ {MaxEvents, MaxFetches} \subseteq Nat

QuoteDates == 1..LastDay
Midnight(d) == d * DayLength
Instants == 0..Midnight(LastDay + 1)
PtaxRow == [at : Instants, rate : Rate]
PtaxQuote == [day : QuoteDates, at : Instants, rate : Rate \ {0}]

Absent  == {[gone |-> TRUE]}      \* no file
Partial == {[partial |-> TRUE]}   \* a file that is not the payload
Files   == (SUBSET PtaxQuote) \cup {Absent, Partial}

VARIABLES
  series,   \* series[d]: the rows the API answers for day d
  edition,  \* how often the answer changed other than by a re-publication
  events,   \* what the bank did so far
  fetches,  \* fetches started so far
  fetcher,  \* fetcher[f]: a run of the task
  stagedFile, \* stagedFile[f]: <tmp>/<pid>-<filename>
  landedFile, \* <landing>/<filename>
  bronzeFile  \* what Auto Loader read under that path, Absent before

bank == <<series, edition, events>>
apiVars == <<bank, fetches, fetcher, stagedFile, landedFile, bronzeFile>>

\* A run: where it is, the day it asks next, its quotes, the editions at its
\* first and last request, and those behind the file it found or put.
Fetch == [at : {"off", "fetch", "look", "write", "check", "move",
                "landed", "already", "refused", "failed"},
          day : 1..(LastDay + 1), quotes : SUBSET PtaxQuote,
          first : 0..MaxEvents, last : 0..MaxEvents, sawAbsent : BOOLEAN]

Off == [at |-> "off", day |-> 1, quotes |-> {}, first |-> 0, last |-> 0, sawAbsent |-> FALSE]
Failed == [Off EXCEPT !.at = "failed"]

ApiTypeOK ==
  /\ series \in [QuoteDates -> SUBSET PtaxRow]
  /\ edition \in 0..MaxEvents /\ events \in 0..MaxEvents /\ fetches \in 0..MaxFetches
  /\ fetcher \in [Fetcher -> Fetch]
  /\ stagedFile \in [Fetcher -> Files] /\ {landedFile, bronzeFile} \subseteq Files

ApiInit ==
  /\ series = [d \in QuoteDates |-> {}]
  /\ edition = 0 /\ events = 0 /\ fetches = 0
  /\ fetcher = [f \in Fetcher |-> Off]
  /\ stagedFile = [f \in Fetcher |-> Absent]
  /\ landedFile = Absent /\ bronzeFile = Absent

-----------------------------------------------------------------------------
(* The bank.                                                               *)

Happens(d, rows, counts) ==
  /\ events < MaxEvents
  /\ events' = events + 1 /\ edition' = edition + counts
  /\ series' = [series EXCEPT ![d] = rows]
  /\ UNCHANGED <<fetches, fetcher, stagedFile, landedFile, bronzeFile>>

\* A row for a day, be it a quote or a mistake.
Publish == \E d \in QuoteDates, row \in PtaxRow :
             row \notin series[d] /\ Happens(d, series[d] \cup {row}, 1)

\* The same quote again, a moment later.
Republication == \E d \in QuoteDates : \E old \in series[d], t \in Instants :
                   /\ old.at < t
                   /\ \A row \in series[d] : t <= row.at + Spread /\ row.rate = old.rate
                   /\ Happens(d, series[d] \cup {[old EXCEPT !.at = t]}, 0)

\* A day's rows are replaced by another one.
Revise == \E d \in QuoteDates, row \in PtaxRow :
            series[d] # {} /\ series[d] # {row} /\ Happens(d, {row}, 1)

-----------------------------------------------------------------------------
(* ptax_source: one response reduced to one quote.                         *)

\* quotes_in: a row that is not a price, or published before its day, is refused.
Readable(d, rows) == \A row \in rows : row.rate > 0 /\ row.at >= Midnight(d)

OnePublication(rows) == \A a, b \in rows : a.at <= b.at + Spread /\ a.rate = b.rate

EarliestOf(d, rows) == [day |-> d, at |-> Min({row.at : row \in rows}),
                        rate |-> (CHOOSE row \in rows : TRUE).rate]

SoleQuote(d, rows) == IF rows = {} THEN {} ELSE {EarliestOf(d, rows)}

-----------------------------------------------------------------------------
(* A run of the task.                                                      *)

Moves(f, run) == fetcher' = [fetcher EXCEPT ![f] = run]

Launch(f) ==
  /\ fetcher[f].at \in {"off", "landed", "already", "refused", "failed"}
  /\ fetches < MaxFetches /\ fetches' = fetches + 1
  /\ Moves(f, [Off EXCEPT !.at = "fetch", !.first = edition, !.last = edition])
  /\ UNCHANGED <<bank, stagedFile, landedFile, bronzeFile>>

Idle == UNCHANGED <<bank, fetches, stagedFile, landedFile, bronzeFile>>

\* One request for one calendar day: fetch_quote.
FetchDay(f) ==
  LET run == fetcher[f]  d == run.day  rows == series[d]
  IN  /\ run.at = "fetch" /\ d <= LastDay
      /\ IF Readable(d, rows) /\ OnePublication(rows)
           THEN Moves(f, [run EXCEPT !.day = d + 1, !.last = edition,
                                     !.quotes = @ \cup SoleQuote(d, rows)])
           ELSE Moves(f, Failed)
      /\ Idle

\* A span without a quote is refused.
Fetched(f) ==
  /\ fetcher[f].at = "fetch" /\ fetcher[f].day > LastDay
  /\ Moves(f, IF fetcher[f].quotes = {} THEN Failed ELSE [fetcher[f] EXCEPT !.at = "look"])
  /\ Idle

\* mutant: a landed file that differs is written over, not refused
LooksPastIt(f) ==
  /\ fetcher[f].at = "look"
  /\ Moves(f, [fetcher[f] EXCEPT !.sawAbsent = (landedFile = Absent),
                 !.at = IF landedFile = fetcher[f].quotes THEN "already" ELSE "write"])
  /\ Idle

\* destination.exists(): the same bytes are a no-op, other bytes are refused.
Look(f) ==
  /\ fetcher[f].at = "look"
  /\ Moves(f, [fetcher[f] EXCEPT !.sawAbsent = (landedFile = Absent),
                 !.at = IF landedFile = Absent THEN "write"
                        ELSE IF landedFile = fetcher[f].quotes THEN "already" ELSE "refused"])
  /\ Idle

WriteStaged(f) ==
  /\ fetcher[f].at = "write"
  /\ Moves(f, [fetcher[f] EXCEPT !.at = "check"])
  /\ \E content \in {fetcher[f].quotes, Partial} : stagedFile' = [stagedFile EXCEPT ![f] = content]
  /\ UNCHANGED <<bank, fetches, landedFile, bronzeFile>>

ReadBack(f) ==
  /\ fetcher[f].at = "check"
  /\ Moves(f, IF stagedFile[f] = fetcher[f].quotes THEN [fetcher[f] EXCEPT !.at = "move"] ELSE Failed)
  /\ Idle

\* os.replace: whatever is at the destination by now is gone.
Rename(f) ==
  /\ fetcher[f].at = "move"
  /\ Moves(f, [fetcher[f] EXCEPT !.at = "landed"])
  /\ landedFile' = stagedFile[f]
  /\ stagedFile' = [stagedFile EXCEPT ![f] = Absent]
  /\ UNCHANGED <<bank, fetches, bronzeFile>>

\* The process is killed, a request answers other than 200, or a body is unreadable.
FetchFails(f) ==
  /\ fetcher[f].at \in {"fetch", "look", "write", "check", "move"}
  /\ Moves(f, Failed)
  /\ Idle

\* Auto Loader reads a path once.
AutoLoad ==
  /\ bronzeFile = Absent /\ landedFile # Absent
  /\ bronzeFile' = landedFile
  /\ UNCHANGED <<bank, fetches, fetcher, stagedFile, landedFile>>

ApiNext ==
  \/ Publish \/ Republication \/ Revise \/ AutoLoad
  \/ \E f \in Fetcher : \/ Launch(f) \/ FetchDay(f) \/ Fetched(f) \/ Look(f) \/ WriteStaged(f)
                        \/ ReadBack(f) \/ Rename(f) \/ FetchFails(f)

ApiSpec == ApiInit /\ [][ApiNext]_apiVars

-----------------------------------------------------------------------------

\* Auto Loader never finds a half-written file under the landing name, whatever
\* was killed or misread in between.
NeverHalf == landedFile # Partial /\ bronzeFile # Partial

\* A re-run is a no-op until the bank changes its answer: two fetches that read
\* one edition derive the same bytes, re-publications and all.
ReproducibleUntilRevised ==
  \A f, g \in Fetcher :
    LET a == fetcher[f]  b == fetcher[g]
        done == {"look", "write", "check", "move", "landed", "already", "refused"}
    IN  {a.at, b.at} \subseteq done /\ Cardinality({a.first, a.last, b.first, b.last}) = 1
          => a.quotes = b.quotes

\* A file is replaced only by a run that looked before it was there.
OnlyUnseenReplaced ==
  [][\A f \in Fetcher : landedFile' # landedFile /\ fetcher'[f] # fetcher[f]
       => fetcher[f].sawAbsent]_apiVars

\* "Two overlapping runs write identical bytes, so nothing downstream is wrong":
\* what Auto Loader read under the name is what the name holds.
BronzeIsTheLandedFile == bronzeFile # Absent => bronzeFile = landedFile
=============================================================================

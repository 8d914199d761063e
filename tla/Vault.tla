------------------------------- MODULE Vault -------------------------------
(***************************************************************************)
(* opl.vault: one vault job over one bronze source.  A hub and a link by   *)
(* anti-join, a satellite of the hub and an effectivity satellite of the   *)
(* link by change of value, all insert-only; the effectivity satellite     *)
(* also by what the observation ledger says was not seen.                  *)
(*                                                                         *)
(* A relationship is a link's business key; its parent is the hub key it   *)
(* hangs off.  Snapshots of the source are numbered in the order of their  *)
(* axis, which is also the order of applied_date.  A payload stands for    *)
(* its hash_diff.  What bronze and quarantine hold comes from BronzeFlow:  *)
(* here a month is gated, its rejects in quarantine, and then promoted.    *)
(***************************************************************************)
EXTENDS Naturals, FiniteSets, FiniteSetsExt

CONSTANTS
  Rel,          \* relationships
  Parent,       \* Parent[r]: the hub key of relationship r
  Payload,      \* payloads, by their hash_diff
  Months,       \* the last snapshot
  File,         \* what a month can be published as: accepted rows, rejected keys
  Orders,       \* the orders operators keep
  MaxRuns       \* bound: launches of the job

Month == 1..Months
Key   == {Parent[r] : r \in Rel}

\* A month is promoted before a run covers it; months are loaded in their
\* order; a window not loaded before goes on to the newest month covered.
OrderKinds == {"promote_first", "in_order", "to_newest"}

ASSUME VaultAssumption ==
  /\ Months \in Nat /\ MaxRuns \in Nat /\ Payload \subseteq Nat
  /\ Orders \subseteq OrderKinds
  /\ File \subseteq [accepted : SUBSET [rel : Rel, payload : Payload], rejected : SUBSET Rel]

RunTask == {"hub", "sat", "link", "eff"}

VARIABLES
  file,       \* file[m]: what month m was published as
  phase,      \* phase[m]: how far bronze is with it
  hub,        \* rows of the hub
  link,       \* rows of the link
  sat,        \* rows of the satellite: value is the hash_diff
  eff,        \* rows of the effectivity satellite: value is is_active
  satMonths,  \* months a satellite load has covered
  effWindows, \* windows the effectivity satellite was loaded over
  loads,      \* launches so far; the load_date of the current one
  window,     \* the months the current run was launched for
  done        \* its tasks that succeeded

bronzeVars == <<file, phase>>
run        == <<loads, window>>
vars       == <<file, phase, hub, link, sat, eff, satMonths, effWindows, loads, window, done>>

NoFile == [accepted |-> {}, rejected |-> {}]

HubRow  == [key : Key, load : 1..MaxRuns]
LinkRow == [key : Rel, load : 1..MaxRuns]
SatRow  == [key : Key, month : Month, value : Payload, load : 1..MaxRuns]
EffRow  == [key : Rel, month : Month, value : BOOLEAN, last : 0..Months, load : 1..MaxRuns]

\* Types; a row that closes names a month before its own, or none.
TypeOK ==
  /\ file \in [Month -> File \cup {NoFile}]
  /\ phase \in [Month -> {"unpublished", "gated", "promoted"}]
  /\ hub \subseteq HubRow /\ link \subseteq LinkRow
  /\ sat \subseteq SatRow /\ eff \subseteq EffRow
  /\ \A e \in eff : e.last < e.month
  /\ satMonths \subseteq Month /\ effWindows \subseteq SUBSET Month
  /\ loads \in 0..MaxRuns
  /\ window \subseteq Month
  /\ done \subseteq RunTask

Init ==
  /\ file = [m \in Month |-> NoFile]
  /\ phase = [m \in Month |-> "unpublished"]
  /\ hub = {} /\ link = {} /\ sat = {} /\ eff = {}
  /\ satMonths = {} /\ effWindows = {}
  /\ loads = 0 /\ window = {} /\ done = RunTask

-----------------------------------------------------------------------------
(* What the source tables show.                                            *)

Bronze(m)     == IF phase[m] = "promoted" THEN file[m].accepted ELSE {}
InBronze(m)   == {row.rel : row \in Bronze(m)}
InQuarantine(m) == IF phase[m] = "unpublished" THEN {} ELSE file[m].rejected

\* The hash_diffs of a hub key in a month; the lowest is the one chosen.
Payloads(k, m) == {row.payload : row \in {b \in Bronze(m) : Parent[b.rel] = k}}

Chosen(k, m) == Min(Payloads(k, m))

\* A month neither table shows is refused.
Seen(m) == InBronze(m) \cup InQuarantine(m) # {}

-----------------------------------------------------------------------------
(* The observation ledger, over the window it is asked about.              *)

Presence(r, w) == {m \in w : r \in InBronze(m) \cup InQuarantine(m)}

State(r, m, w) ==
  CASE r \in InBronze(m) \cap InQuarantine(m) -> "observed_with_rejected_siblings"
    [] r \in InBronze(m) \ InQuarantine(m)    -> "observed"
    [] r \in InQuarantine(m) \ InBronze(m)    -> "rejected_by_our_gate"
    [] m \notin Presence(r, w) /\ m < Min(Presence(r, w)) -> "absent_before_first_observation"
    [] OTHER                                  -> "absent_after_observation"

\* mutant: a close for any month bronze lacks the relationship
NotInBronze(r, m, w) ==
  m \notin {x \in w : r \in InBronze(x)} /\ m > Min(Presence(r, w))

Closes(r, m, w) == State(r, m, w) = "absent_after_observation"

-----------------------------------------------------------------------------
(* Change detection, shared by the two satellites.                         *)

\* mutant: what is already persisted is not dropped first
ChangedKeepingPersisted(candidates, existing) ==
  {c \in candidates :
     LET before == {x \in candidates \cup existing : x.key = c.key /\ x.month < c.month}
     IN \A x \in before : (\A y \in before : y.month <= x.month) => x.value # c.value}

\* mutant: a value the key ever had is not a change
ChangedFromAllEarlier(candidates, existing) ==
  LET fresh == {c \in candidates : \A e \in existing : <<e.key, e.month>> # <<c.key, c.month>>}
  IN {c \in fresh : \A x \in fresh \cup existing :
        x.key = c.key /\ x.month < c.month => x.value # c.value}

\* The candidates not persisted at their (key, month) whose value differs from
\* the one before it for the same key, persisted or not.
Changed(candidates, existing) ==
  LET fresh == {c \in candidates : \A e \in existing : <<e.key, e.month>> # <<c.key, c.month>>}
  IN {c \in fresh :
        LET before == {x \in fresh \cup existing : x.key = c.key /\ x.month < c.month}
        IN \A x \in before : (\A y \in before : y.month <= x.month) => x.value # c.value}

Values(rows) == {[key |-> x.key, month |-> x.month, value |-> x.value] : x \in rows}

-----------------------------------------------------------------------------
(* Bronze: a month is gated, and promoted, perhaps after triage.           *)

Gate(m, f) ==
  /\ phase[m] = "unpublished"
  /\ "promote_first" \in Orders => m \notin window \/ done = RunTask
  /\ file' = [file EXCEPT ![m] = f]
  /\ phase' = [phase EXCEPT ![m] = "gated"]
  /\ UNCHANGED <<hub, link, sat, eff, satMonths, effWindows, run, done>>

Promote(m) ==
  /\ phase[m] = "gated"
  /\ phase' = [phase EXCEPT ![m] = "promoted"]
  /\ UNCHANGED <<file, hub, link, sat, eff, satMonths, effWindows, run, done>>

-----------------------------------------------------------------------------
(* The job.  A task that fails may be repaired; a run left unfinished is   *)
(* abandoned by the next launch.                                           *)

effMonths == UNION effWindows

Follows(m, covered) == m \in covered \/ \A c \in covered : c < m

GoesOn(w) == w \in effWindows \/ \A m \in w, c \in effMonths : m < c => c \in w

Launch(w) ==
  /\ loads < MaxRuns
  /\ w # {}
  /\ "promote_first" \in Orders => \A m \in w : phase[m] # "gated"
  /\ "in_order" \in Orders => \A m \in w : Follows(m, satMonths) /\ Follows(m, effMonths)
  /\ "to_newest" \in Orders => GoesOn(w)
  /\ loads' = loads + 1 /\ window' = w /\ done' = {}
  /\ UNCHANGED <<bronzeVars, hub, link, sat, eff, satMonths, effWindows>>

DependsOn(t) ==
  CASE t = "hub" -> {} [] t = "eff" -> {"link"} [] OTHER -> {"hub"}

\* A task dies before it is marked as done, or succeeds.
Task(t) ==
  /\ t \notin done /\ DependsOn(t) \subseteq done
  /\ done' = done \/ done' = done \cup {t}
  /\ UNCHANGED <<bronzeVars, run>>

RelsInWindow == UNION {InBronze(m) : m \in window}

LoadHub ==
  /\ Task("hub")
  /\ hub' = hub \cup {[key |-> k, load |-> loads] :
                        k \in {Parent[r] : r \in RelsInWindow} \ {h.key : h \in hub}}
  /\ UNCHANGED <<link, sat, eff, satMonths, effWindows>>

\* Refused while a hub it references is empty.
LoadLink ==
  /\ Task("link")
  /\ hub # {}
  /\ link' = link \cup {[key |-> r, load |-> loads] : r \in RelsInWindow \ {l.key : l \in link}}
  /\ UNCHANGED <<hub, sat, eff, satMonths, effWindows>>

SatelliteCandidates ==
  {c \in [key : Key, month : window, value : Payload] :
     Payloads(c.key, c.month) # {} /\ c.value = Chosen(c.key, c.month)}

LoadSatellite ==
  /\ Task("sat")
  /\ \A m \in window : Seen(m)
  /\ sat' = sat \cup {[key |-> c.key, month |-> c.month, value |-> c.value, load |-> loads] :
                        c \in Changed(SatelliteCandidates, Values(sat))}
  /\ satMonths' = satMonths \cup window
  /\ UNCHANGED <<hub, link, eff, effWindows>>

\* One statement per relationship and month: seen active, or closed.
Statements(w) ==
  {c \in [key : Rel, month : w, value : BOOLEAN] :
     IF c.value THEN c.key \in InBronze(c.month)
                ELSE Presence(c.key, w) # {} /\ Closes(c.key, c.month, w)}

\* last_observed_on of a close: the last month of the window, up to its own,
\* that bronze shows the relationship in; 0 stands for NULL.
LastObserved(c) ==
  LET seen == {m \in window : m <= c.month /\ c.key \in InBronze(m)}
  IN IF c.value \/ seen = {} THEN 0 ELSE Max(seen)

\* A window of one month is refused.
LoadEffectivity ==
  /\ Task("eff")
  /\ Cardinality(window) >= 2
  /\ \A m \in window : Seen(m)
  /\ eff' = eff \cup {[key |-> c.key, month |-> c.month, value |-> c.value,
                       last |-> LastObserved(c), load |-> loads] :
                        c \in Changed(Statements(window), Values(eff))}
  /\ effWindows' = effWindows \cup {window}
  /\ UNCHANGED <<hub, link, sat, satMonths>>

Next ==
  \/ \E m \in Month, f \in File : Gate(m, f)
  \/ \E m \in Month : Promote(m)
  \/ \E w \in SUBSET Month : Launch(w)
  \/ LoadHub \/ LoadLink \/ LoadSatellite \/ LoadEffectivity

Spec == Init /\ [][Next]_vars

-----------------------------------------------------------------------------

UpTo(rows, k, m) == {x \in rows : x.key = k /\ x.month <= m}

\* What a table says of a key as of a month: the value of its latest row.
Says(rows, k, m, value) ==
  \E x \in UpTo(rows, k, m) : x.value = value /\ \A y \in UpTo(rows, k, m) : y.month <= x.month

\* The satellite reconstructs the source's history: as of every month a load
\* has covered, it says what the source said of a key that month showed.
SatelliteTellsHistory ==
  \A k \in Key, m \in satMonths :
    Payloads(k, m) # {} => Says(sat, k, m, Chosen(k, m))

\* So does the effectivity satellite: whatever a load stated of a relationship
\* in a month, active or departed, it still says as of that month.
EffectivityTellsHistory ==
  \A w \in effWindows : \A c \in Statements(w) : Says(eff, c.key, c.month, c.value)

OneRowPerMonth(rows) == \A x, y \in rows : x.key = y.key /\ x.month = y.month => x = y

\* A row of the satellite is a change of value from the key's row before it,
\* and no re-run or overlapping window gives a key two rows of one month.
EachRowIsAChange ==
  /\ OneRowPerMonth(sat) /\ OneRowPerMonth(eff)
  /\ \A x, y \in sat : x.key = y.key /\ x.month < y.month /\ x.value = y.value =>
       \E z \in sat : z.key = x.key /\ x.month < z.month /\ z.month < y.month

\* A re-run appends nothing, whatever was loaded since: the satellite's over
\* months it has covered, the effectivity satellite's over a window it has.
RepeatAppendsNothing ==
  [][/\ LoadSatellite /\ window \subseteq satMonths => UNCHANGED sat
     /\ LoadEffectivity /\ window \in effWindows => UNCHANGED eff]_vars

\* No row references a hub or link row that does not exist: a link's and a
\* satellite's key is in the hub, an open relationship is in the link.
NothingDangles ==
  /\ \A l \in link : \E h \in hub : h.key = Parent[l.key]
  /\ \A s \in sat : \E h \in hub : h.key = s.key
  /\ \A e \in eff : e.value => \E l \in link : l.key = e.key

\* What is closed left the source: a row our gate rejected closes nothing.
ClosesAreDepartures ==
  \A e \in eff : ~e.value =>
    /\ \A row \in file[e.month].accepted : row.rel # e.key
    /\ e.key \notin file[e.month].rejected

\* Every close carries the last month the relationship was seen in.
ClosesCarryTheirOpen == \A e \in eff : ~e.value => e.last # 0

\* A satellite's rows hang off rows that are loaded, each of them is a change, and
\* read back they are the source's history.
VersionsTellHistory == NothingDangles /\ EachRowIsAChange /\ SatelliteTellsHistory

\* An effectivity satellite closes what left the source and nothing else, and read
\* back it is the source's history.
DeparturesTellHistory == ClosesAreDepartures /\ EffectivityTellsHistory
=============================================================================

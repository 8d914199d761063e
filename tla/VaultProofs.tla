---------------------------- MODULE VaultProofs ----------------------------
(***************************************************************************)
(* Proofs about Vault, for every set of relationships, months, published   *)
(* files and launches.                                                     *)
(***************************************************************************)
EXTENDS Vault, WellFoundedInduction, TLAPS

-----------------------------------------------------------------------------
(* Least and greatest months.                                              *)

\* A set of naturals has a least element.
LEMMA HasLeast ==
  ASSUME NEW S \in SUBSET Nat, S # {}
  PROVE  \E x \in S : \A y \in S : x <= y
<1> DEFINE Less == {ss \in Nat \X Nat : ss[1] < ss[2]}
<1>1. IsWellFoundedOn(Less, Nat)
  BY NatLessThanWellFounded, Zenon DEF OpToRel
<1>2. PICK x \in S : \A y \in S : ~ (<<y, x>> \in Less)
  BY <1>1, WFMin
<1>3. ASSUME NEW y \in S PROVE x <= y
  <2>1. x \in Nat /\ y \in Nat
    OBVIOUS
  <2>2. y < x => <<y, x>> \in Less
    BY <2>1
  <2> QED
    BY <1>2, <2>1, <2>2
<1> QED
  BY <1>3

\* A set of months has a greatest one.
LEMMA HasGreatest ==
  ASSUME NEW S \in SUBSET Month, S # {}
  PROVE  \E x \in S : \A y \in S : y <= x
<1> DEFINE below == {Months - x : x \in S}
<1>1. below \in SUBSET Nat /\ below # {}
  BY VaultAssumption DEF Month
<1>2. PICK n \in below : \A k \in below : n <= k
  BY <1>1, HasLeast
<1>3. PICK x \in S : n = Months - x
  OBVIOUS
<1>4. ASSUME NEW y \in S PROVE y <= x
  <2>1. Months - x <= Months - y
    BY <1>2, <1>3
  <2> QED
    BY <2>1, VaultAssumption DEF Month
<1> QED
  BY <1>4

-----------------------------------------------------------------------------
(* Change detection.                                                       *)

Fresh(C, E) == {c \in C : \A e \in E : <<e.key, e.month>> # <<c.key, c.month>>}

Before(c, C, E) == {x \in Fresh(C, E) \cup E : x.key = c.key /\ x.month < c.month}

\* What Changed says of one candidate.
LEMMA ChangedMember ==
  ASSUME NEW C, NEW E, NEW c
  PROVE  c \in Changed(C, E) <=>
           /\ c \in Fresh(C, E)
           /\ \A x \in Before(c, C, E) :
                (\A y \in Before(c, C, E) : y.month <= x.month) => x.value # c.value
BY DEF Changed, Fresh, Before

Dated(rows) == \A x \in rows : x.month \in Month

\* At one key and month, one value.
Agree(X, Y) == \A x \in X, y \in Y : x.key = y.key /\ x.month = y.month => x.value = y.value

\* After the append the table says what every candidate says, whatever it
\* held before, as long as it does not contradict them.
LEMMA ChangedTells ==
  ASSUME NEW C, NEW E, Dated(C), Dated(E), Agree(C, C), Agree(C, E), NEW c \in C
  PROVE  Says(E \cup Changed(C, E), c.key, c.month, c.value)
<1> DEFINE N == Changed(C, E)
           T == E \cup N
           Told(d) == Says(T, d.key, d.month, d.value)
           Bad == {d \in Fresh(C, E) : ~Told(d)}
<1>1. N \subseteq Fresh(C, E) /\ Fresh(C, E) \subseteq C
  BY ChangedMember DEF Fresh
<1>2. Dated(T)
  BY <1>1 DEF Dated
<1>3. Bad = {}
  <2> SUFFICES ASSUME Bad # {} PROVE FALSE
    OBVIOUS
  <2>1. PICK d \in Bad : \A b \in Bad : d.month <= b.month
    <3> DEFINE S == {b.month : b \in Bad}
    <3>1. S \in SUBSET Nat /\ S # {}
      <4>1. \A d \in Bad : d.month \in Nat
        BY <1>1, VaultAssumption DEF Dated, Month
      <4> QED
        BY <4>1
    <3>2. PICK m \in S : \A k \in S : m <= k
      BY <3>1, HasLeast
    <3> QED
      BY <3>2
  <2>2. d \in C /\ d \in Fresh(C, E) /\ d.month \in Nat
    BY <1>1, VaultAssumption DEF Dated, Month
  <2>3. d \notin N
    <3> SUFFICES ASSUME d \in N PROVE Told(d)
      OBVIOUS
    <3>1. d \in UpTo(T, d.key, d.month)
      BY <2>2 DEF UpTo
    <3> QED
      BY <3>1 DEF Says, UpTo
  <2>4. PICK x \in Before(d, C, E) :
          (\A y \in Before(d, C, E) : y.month <= x.month) /\ x.value = d.value
    BY <2>2, <2>3, ChangedMember
  <2>5. x.key = d.key /\ x.month < d.month /\ x.month \in Nat
    BY <1>1, VaultAssumption DEF Before, Dated, Month
  <2>6. ASSUME NEW y \in UpTo(T, d.key, d.month) PROVE y.month <= x.month
    <3>1. y \in T /\ y.key = d.key /\ y.month <= d.month /\ y.month \in Nat
      BY <1>2, VaultAssumption DEF UpTo, Dated, Month
    <3>2. CASE y.month < d.month
      BY <1>1, <2>4, <3>1, <3>2 DEF Before
    <3>3. CASE y.month = d.month
      <4>1. y \in N
        BY <2>2, <3>1, <3>3 DEF Fresh
      <4>2. y.value = d.value
        BY <1>1, <2>2, <3>1, <3>3, <4>1 DEF Agree
      <4>3. Before(y, C, E) = Before(d, C, E)
        BY <3>1, <3>3 DEF Before
      <4> QED
        BY <2>4, <4>1, <4>2, <4>3, ChangedMember
    <3> QED
      BY <2>2, <3>1, <3>2, <3>3
  <2>7. CASE x \in E
    <3>1. x \in UpTo(T, d.key, d.month)
      BY <2>2, <2>5, <2>7 DEF UpTo
    <3> QED
      BY <2>4, <2>6, <3>1 DEF Says
  <2>8. CASE x \in Fresh(C, E)
    <3>1. Told(x)
      <4>1. x \notin Bad
        <5> HIDE DEF Bad
        <5> QED
          BY <2>1, <2>2, <2>5
      <4> QED
        BY <2>8, <4>1
    <3>2. PICK z \in UpTo(T, x.key, x.month) :
            z.value = x.value /\ \A y \in UpTo(T, x.key, x.month) : y.month <= z.month
      BY <3>1 DEF Says
    <3>3. z \in UpTo(T, d.key, d.month)
      BY <1>2, <2>2, <2>5, <3>2, VaultAssumption DEF UpTo, Dated, Month
    <3>4. ASSUME NEW y \in UpTo(T, d.key, d.month) PROVE y.month <= z.month
      BY <2>5, <2>6, <3>2 DEF UpTo
    <3> QED
      BY <2>4, <3>2, <3>3, <3>4 DEF Says
  <2> QED
    BY <2>4, <2>7, <2>8 DEF Before
<1>4. CASE c \in Fresh(C, E)
  BY <1>3, <1>4
<1>5. CASE c \notin Fresh(C, E)
  <2>1. PICK e \in E : e.key = c.key /\ e.month = c.month
    BY <1>5 DEF Fresh
  <2>2. e.value = c.value
    BY <2>1 DEF Agree
  <2>3. e \in UpTo(T, c.key, c.month)
    BY <2>1, VaultAssumption DEF UpTo, Dated, Month
  <2> QED
    BY <2>1, <2>2, <2>3 DEF Says, UpTo
<1> QED
  BY <1>4, <1>5

\* The rows before a candidate, if there are any, have a latest one.
LEMMA LatestBefore ==
  ASSUME NEW C, NEW E, Dated(C), Dated(E), NEW c, Before(c, C, E) # {}
  PROVE  \E y \in Before(c, C, E) : \A x \in Before(c, C, E) : x.month <= y.month
<1> DEFINE S == {x.month : x \in Before(c, C, E)}
<1>1. S \in SUBSET Month /\ S # {}
  <2>1. \A x \in Before(c, C, E) : x.month \in Month
    BY DEF Before, Fresh, Dated
  <2> QED
    BY <2>1
<1>2. PICK m \in S : \A k \in S : k <= m
  BY <1>1, HasGreatest
<1> QED
  BY <1>2

\* A candidate the table already tells, along with every earlier candidate of
\* its key, is not appended.
LEMMA ToldAlready ==
  ASSUME NEW C, NEW E, Dated(C), Dated(E), Agree(E, E), NEW c \in C,
         \A d \in C : d.key = c.key /\ d.month <= c.month => Says(E, d.key, d.month, d.value)
  PROVE  c \notin Changed(C, E)
<1> SUFFICES ASSUME c \in Changed(C, E) PROVE FALSE
  OBVIOUS
<1>1. c \in Fresh(C, E) /\ c.month \in Nat
  BY ChangedMember, VaultAssumption DEF Dated, Month
<1>2. PICK x \in UpTo(E, c.key, c.month) :
        x.value = c.value /\ \A y \in UpTo(E, c.key, c.month) : y.month <= x.month
  BY <1>1 DEF Says
<1>3. x \in E /\ x.key = c.key /\ x.month \in Nat /\ x.month <= c.month /\ x.month # c.month
  BY <1>1, <1>2, VaultAssumption DEF UpTo, Fresh, Dated, Month
<1>4. x \in Before(c, C, E)
  BY <1>1, <1>3 DEF Before
<1>5. PICK y \in Before(c, C, E) : \A z \in Before(c, C, E) : z.month <= y.month
  BY <1>4, LatestBefore
<1>6. y.key = c.key /\ y.month < c.month /\ y.month \in Nat /\ x.month <= y.month
  BY <1>4, <1>5, VaultAssumption DEF Before, Fresh, Dated, Month
<1>7. y.value = x.value
  <2>1. CASE y \in E
    <3>1. y \in UpTo(E, c.key, c.month)
      BY <1>1, <1>6, <2>1 DEF UpTo
    <3>2. y.month = x.month
      BY <1>2, <1>3, <1>6, <3>1
    <3> QED
      BY <1>3, <1>6, <2>1, <3>2 DEF Agree
  <2>2. CASE y \in Fresh(C, E)
    <3>1. Says(E, y.key, y.month, y.value)
      BY <1>1, <1>6, <2>2 DEF Fresh
    <3>2. PICK z \in UpTo(E, y.key, y.month) :
            z.value = y.value /\ \A w \in UpTo(E, y.key, y.month) : w.month <= z.month
      BY <3>1 DEF Says
    <3>3. z \in E /\ z.key = c.key /\ z.month \in Nat /\ z.month <= y.month
      BY <1>6, <3>2, VaultAssumption DEF UpTo, Dated, Month
    <3>4. z \in UpTo(E, c.key, c.month) /\ x \in UpTo(E, y.key, y.month)
      BY <1>1, <1>3, <1>6, <3>3 DEF UpTo
    <3>5. z.month = x.month
      BY <1>2, <1>3, <3>2, <3>3, <3>4
    <3> QED
      BY <1>3, <3>2, <3>3, <3>5 DEF Agree
  <2> QED
    BY <2>1, <2>2 DEF Before
<1> QED
  BY <1>2, <1>5, <1>7, ChangedMember

\* An appended row does not repeat the value of the key's row before it.
LEMMA ChangedIsAChange ==
  ASSUME NEW C, NEW E, Dated(C), Dated(E), Agree(C, C), Agree(C, E), Agree(E, E),
         NEW c \in Changed(C, E), NEW x \in E \cup Changed(C, E),
         x.key = c.key, x.month < c.month, x.value = c.value
  PROVE  \E z \in E \cup Changed(C, E) :
           z.key = c.key /\ x.month < z.month /\ z.month < c.month
<1> DEFINE T == E \cup Changed(C, E)
<1> SUFFICES ASSUME \A z \in T : z.key = c.key /\ z.month < c.month => ~(x.month < z.month)
             PROVE  FALSE
  OBVIOUS
<1>1. Changed(C, E) \subseteq Fresh(C, E) /\ Fresh(C, E) \subseteq C
  BY ChangedMember DEF Fresh
<1>2. Dated(T) /\ c.month \in Nat /\ x.month \in Nat
  BY <1>1, VaultAssumption DEF Dated, Month
<1>3. x \in Before(c, C, E)
  BY <1>1 DEF Before
<1>4. PICK b \in Before(c, C, E) : \A z \in Before(c, C, E) : z.month <= b.month
  BY <1>3, LatestBefore
<1>5. b.key = c.key /\ b.month < c.month /\ b.month \in Nat /\ x.month <= b.month
  BY <1>1, <1>3, <1>4, VaultAssumption DEF Before, Dated, Month
<1>6. b.value = x.value
  <2>1. CASE b \in E
    <3>1. b.month = x.month
      BY <1>2, <1>5, <2>1
    <3>2. CASE x \in E
      BY <1>5, <2>1, <3>1, <3>2 DEF Agree
    <3>3. CASE x \in Changed(C, E)
      BY <1>1, <1>5, <2>1, <3>1, <3>3 DEF Agree
    <3> QED
      BY <3>2, <3>3
  <2>2. CASE b \in Fresh(C, E)
    <3>1. Says(T, b.key, b.month, b.value)
      BY <1>1, <2>2, ChangedTells
    <3>2. PICK z \in UpTo(T, b.key, b.month) :
            z.value = b.value /\ \A w \in UpTo(T, b.key, b.month) : w.month <= z.month
      BY <3>1 DEF Says
    <3>3. z \in T /\ z.key = c.key /\ z.month \in Nat /\ z.month <= b.month
      BY <1>2, <1>5, <3>2, VaultAssumption DEF UpTo, Dated, Month
    <3>4. x \in UpTo(T, b.key, b.month)
      BY <1>5 DEF UpTo
    <3>5. z.month = x.month
      BY <1>2, <1>5, <3>2, <3>3, <3>4
    <3>6. CASE z \in E /\ x \in E
      BY <3>2, <3>3, <3>5, <3>6 DEF Agree
    <3>7. CASE z \in C /\ x \in C
      BY <3>2, <3>3, <3>5, <3>7 DEF Agree
    <3>8. CASE z \in C /\ x \in E
      BY <3>2, <3>3, <3>5, <3>8 DEF Agree
    <3>9. CASE z \in E /\ x \in C
      BY <3>2, <3>3, <3>5, <3>9 DEF Agree
    <3> QED
      BY <1>1, <3>3, <3>6, <3>7, <3>8, <3>9
  <2> QED
    BY <2>1, <2>2 DEF Before
<1> QED
  BY <1>4, <1>6, ChangedMember

-----------------------------------------------------------------------------
(* The rows of a table and what they say, their load and dates left out.   *)

Candidate(c) == c = [key |-> c.key, month |-> c.month, value |-> c.value]

\* A table says what its rows' values say.
LEMMA SaysByValues ==
  ASSUME NEW rows, NEW k, NEW m, NEW v
  PROVE  Says(rows, k, m, v) <=> Says(Values(rows), k, m, v)
<1>1. ASSUME Says(rows, k, m, v) PROVE Says(Values(rows), k, m, v)
  <2>1. PICK x \in UpTo(rows, k, m) :
          x.value = v /\ \A y \in UpTo(rows, k, m) : y.month <= x.month
    BY <1>1 DEF Says
  <2> DEFINE p == [key |-> x.key, month |-> x.month, value |-> x.value]
  <2>2. p \in UpTo(Values(rows), k, m) /\ p.value = v
    BY <2>1 DEF UpTo, Values
  <2>3. ASSUME NEW y \in UpTo(Values(rows), k, m) PROVE y.month <= p.month
    <3>1. PICK z \in rows : y = [key |-> z.key, month |-> z.month, value |-> z.value]
      BY DEF UpTo, Values
    <3> QED
      BY <2>1, <3>1 DEF UpTo
  <2> QED
    BY <2>2, <2>3 DEF Says
<1>2. ASSUME Says(Values(rows), k, m, v) PROVE Says(rows, k, m, v)
  <2>1. PICK x \in UpTo(Values(rows), k, m) :
          x.value = v /\ \A y \in UpTo(Values(rows), k, m) : y.month <= x.month
    BY <1>2 DEF Says
  <2>2. PICK p \in rows : x = [key |-> p.key, month |-> p.month, value |-> p.value]
    BY DEF UpTo, Values
  <2>3. p \in UpTo(rows, k, m) /\ p.value = v
    BY <2>1, <2>2 DEF UpTo
  <2>4. ASSUME NEW y \in UpTo(rows, k, m) PROVE y.month <= p.month
    <3>1. [key |-> y.key, month |-> y.month, value |-> y.value] \in UpTo(Values(rows), k, m)
      BY DEF UpTo, Values
    <3> QED
      BY <2>1, <2>2, <3>1
  <2> QED
    BY <2>3, <2>4 DEF Says
<1> QED
  BY <1>1, <1>2

\* The rows an append leaves have the values of the old rows and of the
\* candidates it wrote.
LEMMA ValuesAppended ==
  ASSUME NEW rows, NEW C, NEW new,
         \A c \in C : Candidate(c),
         \A x \in new : \E c \in C : x.key = c.key /\ x.month = c.month /\ x.value = c.value,
         \A c \in C : \E x \in new : x.key = c.key /\ x.month = c.month /\ x.value = c.value
  PROVE  Values(rows \cup new) = Values(rows) \cup C
<1>1. ASSUME NEW v \in Values(rows \cup new) PROVE v \in Values(rows) \cup C
  BY DEF Values, Candidate
<1>2. Values(rows) \subseteq Values(rows \cup new)
  BY DEF Values
<1>3. ASSUME NEW c \in C PROVE c \in Values(rows \cup new)
  BY DEF Values, Candidate
<1> QED
  BY <1>1, <1>2, <1>3

-----------------------------------------------------------------------------
(* What the source tables and the observation ledger show.                 *)

\* Files hold rows of the model's relationships and payloads.
LEMMA BronzeTypes ==
  ASSUME TypeOK, NEW m \in Month
  PROVE  /\ Bronze(m) \subseteq [rel : Rel, payload : Payload]
         /\ InBronze(m) \subseteq Rel /\ InQuarantine(m) \subseteq Rel
<1>1. file[m] \in File \cup {NoFile} /\ file[m].accepted \subseteq [rel : Rel, payload : Payload]
      /\ file[m].rejected \subseteq Rel
  BY VaultAssumption DEF TypeOK, NoFile
<1> QED
  BY <1>1 DEF Bronze, InBronze, InQuarantine

\* The chosen hash_diff is one of the key's.
LEMMA ChosenIsSeen ==
  ASSUME TypeOK, NEW k, NEW m \in Month, Payloads(k, m) # {}
  PROVE  Chosen(k, m) \in Payloads(k, m) /\ Chosen(k, m) \in Payload
<1>1. Payloads(k, m) \subseteq Payload
  BY BronzeTypes DEF Payloads
<1>2. \E x \in Payloads(k, m) : \A y \in Payloads(k, m) : x <= y
  BY <1>1, HasLeast, VaultAssumption
<1> QED
  BY <1>1, <1>2 DEF Chosen, Min

\* The first month of a window a relationship was seen in.
LEMMA FirstPresence ==
  ASSUME NEW r, NEW w \in SUBSET Month, Presence(r, w) # {}
  PROVE  /\ Min(Presence(r, w)) \in Presence(r, w)
         /\ \A x \in Presence(r, w) : Min(Presence(r, w)) <= x
<1>1. Presence(r, w) \in SUBSET Nat
  <2>1. \A x \in w : x \in Nat
    BY VaultAssumption DEF Month
  <2> QED
    BY <2>1 DEF Presence
<1>2. \E x \in Presence(r, w) : \A y \in Presence(r, w) : x <= y
  BY <1>1, HasLeast
<1> QED
  BY <1>2 DEF Min

\* A close is of a month the relationship is in neither table, after one of
\* the window it is in.
LEMMA WhatCloses ==
  ASSUME NEW r, NEW w \in SUBSET Month, NEW m \in w, Presence(r, w) # {}
  PROVE  Closes(r, m, w) <=>
           /\ r \notin InBronze(m) /\ r \notin InQuarantine(m)
           /\ \E x \in Presence(r, w) : x < m
<1> DEFINE first == Min(Presence(r, w))
<1>1. first \in Presence(r, w) /\ \A x \in Presence(r, w) : first <= x
  BY FirstPresence
<1>2. first \in Nat /\ m \in Nat /\ \A x \in Presence(r, w) : x \in Nat
  <2>1. \A x \in w : x \in Nat
    BY VaultAssumption DEF Month
  <2>2. \A x \in Presence(r, w) : x \in Nat
    BY <2>1 DEF Presence
  <2> QED
    BY <1>1, <2>1, <2>2
<1>3. m \in Presence(r, w) <=> r \in InBronze(m) \/ r \in InQuarantine(m)
  BY DEF Presence
<1>4. (\E x \in Presence(r, w) : x < m) <=> first < m
  <2> HIDE DEF first
  <2> QED
    BY <1>1, <1>2
<1>5. CASE r \in InBronze(m) \/ r \in InQuarantine(m)
  <2>1. State(r, m, w) # "absent_after_observation"
    <3>1. CASE r \in InBronze(m) /\ r \in InQuarantine(m)
      BY <3>1 DEF State
    <3>2. CASE r \in InBronze(m) /\ r \notin InQuarantine(m)
      BY <3>2 DEF State
    <3>3. CASE r \notin InBronze(m) /\ r \in InQuarantine(m)
      BY <3>3 DEF State
    <3> QED
      BY <1>5, <3>1, <3>2, <3>3
  <2> QED
    BY <1>5, <2>1 DEF Closes
<1>6. CASE r \notin InBronze(m) /\ r \notin InQuarantine(m)
  <2>1. m \notin Presence(r, w)
    BY <1>3, <1>6
  <2>2. m # first
    BY <1>1, <2>1
  <2>3. CASE first < m
    <3>1. State(r, m, w) = "absent_after_observation"
      <4>1. ~(m < Min(Presence(r, w))) /\ m > Min(Presence(r, w))
        <5> HIDE DEF first
        <5>1. ~(m < first) /\ m > first
          BY <1>2, <2>3
        <5> QED
          BY <5>1 DEF first
      <4> QED
        BY <1>6, <2>1, <4>1 DEF State
    <3> QED
      BY <1>4, <1>6, <2>3, <3>1 DEF Closes
  <2>4. CASE m < first
    <3>1. State(r, m, w) = "absent_before_first_observation"
      <4>1. m < Min(Presence(r, w)) /\ ~(m > Min(Presence(r, w)))
        <5> HIDE DEF first
        <5>1. m < first /\ ~(m > first)
          BY <1>2, <2>4
        <5> QED
          BY <5>1 DEF first
      <4> QED
        BY <1>6, <2>1, <4>1 DEF State
    <3>2. ~(first < m)
      <4> HIDE DEF first
      <4> QED
        BY <1>2, <2>4
    <3> QED
      BY <1>4, <3>1, <3>2 DEF Closes
  <2>5. first < m \/ m < first
    <3> HIDE DEF first
    <3> QED
      BY <1>2, <2>2
  <2> QED
    BY <2>3, <2>4, <2>5
<1> QED
  BY <1>5, <1>6

\* The candidates of the satellite: one of a key and month.
LEMMA SatelliteCandidateFacts ==
  ASSUME TypeOK
  PROVE  /\ \A c \in SatelliteCandidates :
              /\ Candidate(c) /\ c.key \in Key /\ c.month \in window /\ c.value \in Payload
              /\ Payloads(c.key, c.month) # {} /\ c.value = Chosen(c.key, c.month)
         /\ Dated(SatelliteCandidates)
         /\ Agree(SatelliteCandidates, SatelliteCandidates)
<1>1. ASSUME NEW c \in SatelliteCandidates
      PROVE  /\ Candidate(c) /\ c.key \in Key /\ c.month \in window /\ c.value \in Payload
             /\ Payloads(c.key, c.month) # {} /\ c.value = Chosen(c.key, c.month)
  BY DEF SatelliteCandidates, Candidate
<1>2. Dated(SatelliteCandidates)
  BY <1>1 DEF Dated, TypeOK
<1>3. Agree(SatelliteCandidates, SatelliteCandidates)
  BY <1>1 DEF Agree
<1> QED
  BY <1>1, <1>2, <1>3

\* The statements over a window: what they state of a relationship is whether
\* bronze has it.
LEMMA StatementFacts ==
  ASSUME NEW w \in SUBSET Month
  PROVE  /\ \A c \in Statements(w) :
              /\ Candidate(c) /\ c.key \in Rel /\ c.month \in w /\ c.value \in BOOLEAN
              /\ c.value = (c.key \in InBronze(c.month))
              /\ ~c.value => Presence(c.key, w) # {} /\ Closes(c.key, c.month, w)
         /\ Dated(Statements(w))
         /\ Agree(Statements(w), Statements(w))
<1>1. ASSUME NEW c \in Statements(w)
      PROVE  /\ Candidate(c) /\ c.key \in Rel /\ c.month \in w /\ c.value \in BOOLEAN
             /\ c.value = (c.key \in InBronze(c.month))
             /\ ~c.value => Presence(c.key, w) # {} /\ Closes(c.key, c.month, w)
  <2>1. Candidate(c) /\ c.key \in Rel /\ c.month \in w /\ c.value \in BOOLEAN
    BY DEF Statements, Candidate
  <2>2. IF c.value THEN c.key \in InBronze(c.month)
                   ELSE Presence(c.key, w) # {} /\ Closes(c.key, c.month, w)
    BY DEF Statements
  <2>3. CASE c.value
    BY <2>1, <2>2, <2>3
  <2>4. CASE ~c.value
    <3>1. c.key \notin InBronze(c.month)
      BY <2>1, <2>2, <2>4, WhatCloses
    <3> QED
      BY <2>1, <2>2, <2>4, <3>1
  <2> QED
    BY <2>3, <2>4
<1>2. Dated(Statements(w))
  BY <1>1 DEF Dated
<1>3. Agree(Statements(w), Statements(w))
  BY <1>1 DEF Agree
<1> QED
  BY <1>1, <1>2, <1>3

\* The date of a close is of a month before its own.
LEMMA LastObservedBefore ==
  ASSUME TypeOK, NEW c \in Statements(window)
  PROVE  LastObserved(c) \in 0..Months /\ LastObserved(c) < c.month
<1> DEFINE seen == {m \in window : m <= c.month /\ c.key \in InBronze(m)}
<1>1. window \in SUBSET Month
  BY DEF TypeOK
<1>2. c.month \in window /\ c.value = (c.key \in InBronze(c.month))
  BY <1>1, StatementFacts
<1>3. c.month \in 1..Months
  BY <1>1, <1>2 DEF Month
<1>4. CASE c.value \/ seen = {}
  <2>1. LastObserved(c) = 0
    BY <1>4 DEF LastObserved
  <2> QED
    BY <1>3, <2>1, VaultAssumption
<1>5. CASE ~c.value /\ seen # {}
  <2>1. LastObserved(c) = Max(seen)
    BY <1>5 DEF LastObserved
  <2>2. seen \in SUBSET Month
    BY <1>1
  <2>3. PICK x \in seen : \A y \in seen : y <= x
    BY <1>5, <2>2, HasGreatest
  <2>4. \A y \in seen : x >= y
    BY <2>2, <2>3, VaultAssumption DEF Month
  <2>5. Max(seen) \in seen
    <3> HIDE DEF seen
    <3> QED
      BY <2>4 DEF Max
  <2>6. Max(seen) \in window /\ Max(seen) <= c.month /\ Max(seen) # c.month
    BY <1>2, <1>5, <2>5
  <2>7. Max(seen) \in 1..Months
    BY <2>2, <2>5 DEF Month
  <2> HIDE DEF seen
  <2> QED
    BY <1>3, <2>1, <2>6, <2>7, VaultAssumption
<1> QED
  BY <1>4, <1>5

-----------------------------------------------------------------------------
(* Types.                                                                  *)

\* The load a task writes under is one of the launches.
Launched == done # RunTask => loads # 0

TypeInv == TypeOK /\ Launched

LEMMA TaskRuns ==
  ASSUME TypeInv, NEW t \in RunTask, Task(t)
  PROVE  /\ done # RunTask /\ DependsOn(t) \subseteq done
         /\ done' \subseteq RunTask
         /\ loads \in 1..MaxRuns
         /\ window \in SUBSET Month
         /\ file' = file /\ phase' = phase /\ loads' = loads /\ window' = window
<1>1. t \notin done /\ DependsOn(t) \subseteq done
      /\ (done' = done \/ done' = done \cup {t})
      /\ file' = file /\ phase' = phase /\ loads' = loads /\ window' = window
  BY DEF Task, bronzeVars, run
<1>2. done # RunTask
  BY <1>1
<1>3. loads \in 1..MaxRuns
  BY <1>2, VaultAssumption DEF TypeInv, TypeOK, Launched
<1> QED
  BY <1>1, <1>2, <1>3 DEF TypeInv, TypeOK

LEMMA TypesInit == Init => TypeInv
<1> SUFFICES ASSUME Init PROVE TypeInv
  OBVIOUS
<1>1. 0 \in 0..MaxRuns
  BY VaultAssumption
<1>2. file \in [Month -> File \cup {NoFile}]
  BY DEF Init
<1> QED
  BY <1>1, <1>2 DEF Init, TypeInv, TypeOK, Launched

LEMMA TypesStep == TypeInv /\ [Next]_vars => TypeInv'
<1> SUFFICES ASSUME TypeInv, [Next]_vars PROVE TypeInv'
  OBVIOUS
<1> USE DEF TypeInv, Launched
<1>1. CASE \E m \in Month, f \in File : Gate(m, f)
  <2>1. PICK m \in Month, f \in File : Gate(m, f)
    BY <1>1
  <2> QED
    BY <2>1 DEF Gate, run, TypeOK
<1>2. CASE \E m \in Month : Promote(m)
  <2>1. PICK m \in Month : Promote(m)
    BY <1>2
  <2> QED
    BY <2>1 DEF Promote, run, TypeOK
<1>3. CASE \E w \in SUBSET Month : Launch(w)
  <2>1. PICK w \in SUBSET Month : Launch(w)
    BY <1>3
  <2>2. loads' \in 0..MaxRuns /\ loads' # 0
    BY <2>1, VaultAssumption DEF Launch, TypeOK
  <2> QED
    BY <2>1, <2>2 DEF Launch, bronzeVars, TypeOK
<1>4. CASE LoadHub
  <2>1. Task("hub") /\ UNCHANGED <<link, sat, eff, satMonths, effWindows>>
    BY <1>4 DEF LoadHub
  <2>2. done' \subseteq RunTask /\ loads \in 1..MaxRuns /\ window \in SUBSET Month
        /\ file' = file /\ phase' = phase /\ loads' = loads /\ window' = window
    BY <2>1, TaskRuns DEF RunTask
  <2>3. RelsInWindow \subseteq Rel
    BY <2>2, BronzeTypes DEF RelsInWindow
  <2>4. {Parent[r] : r \in RelsInWindow} \subseteq Key
    BY <2>3 DEF Key
  <2>5. hub' \subseteq HubRow
    <3> DEFINE new == {Parent[r] : r \in RelsInWindow} \ {h.key : h \in hub}
    <3>1. hub' = hub \cup {[key |-> k, load |-> loads] : k \in new}
      BY <1>4 DEF LoadHub
    <3>2. new \subseteq Key
      BY <2>4
    <3> HIDE DEF new
    <3>3. \A k \in new : [key |-> k, load |-> loads] \in HubRow
      BY <2>2, <3>2 DEF HubRow
    <3> QED
      BY <3>1, <3>3 DEF TypeOK
  <2> QED
    BY <2>1, <2>2, <2>5 DEF TypeOK
<1>5. CASE LoadLink
  <2>1. Task("link") /\ UNCHANGED <<hub, sat, eff, satMonths, effWindows>>
    BY <1>5 DEF LoadLink
  <2>2. done' \subseteq RunTask /\ loads \in 1..MaxRuns /\ window \in SUBSET Month
        /\ file' = file /\ phase' = phase /\ loads' = loads /\ window' = window
    BY <2>1, TaskRuns DEF RunTask
  <2>3. RelsInWindow \subseteq Rel
    BY <2>2, BronzeTypes DEF RelsInWindow
  <2>4. link' \subseteq LinkRow
    <3> DEFINE new == RelsInWindow \ {l.key : l \in link}
    <3>1. link' = link \cup {[key |-> r, load |-> loads] : r \in new}
      BY <1>5 DEF LoadLink
    <3>2. new \subseteq Rel
      BY <2>3
    <3> HIDE DEF new
    <3>3. \A r \in new : [key |-> r, load |-> loads] \in LinkRow
      BY <2>2, <3>2 DEF LinkRow
    <3> QED
      BY <3>1, <3>3 DEF TypeOK
  <2> QED
    BY <2>1, <2>2, <2>4 DEF TypeOK
<1>6. CASE LoadSatellite
  <2>1. Task("sat") /\ satMonths' = satMonths \cup window
        /\ UNCHANGED <<hub, link, eff, effWindows>>
    BY <1>6 DEF LoadSatellite
  <2>2. done' \subseteq RunTask /\ loads \in 1..MaxRuns /\ window \in SUBSET Month
        /\ file' = file /\ phase' = phase /\ loads' = loads /\ window' = window
    BY <2>1, TaskRuns DEF RunTask
  <2>3. sat' \subseteq SatRow
    <3> DEFINE new == Changed(SatelliteCandidates, Values(sat))
    <3>1. sat' = sat \cup {[key |-> c.key, month |-> c.month, value |-> c.value, load |-> loads] :
                             c \in new}
      BY <1>6 DEF LoadSatellite
    <3>2. \A c \in new : c.key \in Key /\ c.month \in window /\ c.value \in Payload
      BY SatelliteCandidateFacts DEF Changed
    <3> HIDE DEF new
    <3>3. \A c \in new :
            [key |-> c.key, month |-> c.month, value |-> c.value, load |-> loads] \in SatRow
      BY <2>2, <3>2 DEF SatRow
    <3> QED
      BY <3>1, <3>3 DEF TypeOK
  <2> QED
    BY <2>1, <2>2, <2>3 DEF TypeOK
<1>7. CASE LoadEffectivity
  <2>1. Task("eff") /\ effWindows' = effWindows \cup {window}
        /\ UNCHANGED <<hub, link, sat, satMonths>>
    BY <1>7 DEF LoadEffectivity
  <2>2. done' \subseteq RunTask /\ loads \in 1..MaxRuns /\ window \in SUBSET Month
        /\ file' = file /\ phase' = phase /\ loads' = loads /\ window' = window
    BY <2>1, TaskRuns DEF RunTask
  <2>3. eff' \subseteq EffRow /\ \A e \in eff' : e.last < e.month
    <3> DEFINE new == Changed(Statements(window), Values(eff))
               row(c) == [key |-> c.key, month |-> c.month, value |-> c.value,
                          last |-> LastObserved(c), load |-> loads]
    <3>1. eff' = eff \cup {row(c) : c \in new}
      BY <1>7 DEF LoadEffectivity
    <3>2. \A c \in new : /\ c.key \in Rel /\ c.month \in window /\ c.value \in BOOLEAN
                         /\ LastObserved(c) \in 0..Months /\ LastObserved(c) < c.month
      BY <2>2, StatementFacts, LastObservedBefore DEF Changed
    <3> HIDE DEF new
    <3>3. \A c \in new : row(c) \in EffRow /\ row(c).last < row(c).month
      BY <2>2, <3>2 DEF EffRow
    <3> QED
      BY <3>1, <3>3 DEF TypeOK
  <2> QED
    BY <2>1, <2>2, <2>3 DEF TypeOK
<1>8. CASE UNCHANGED vars
  BY <1>8 DEF vars, TypeOK
<1> QED
  BY <1>1, <1>2, <1>3, <1>4, <1>5, <1>6, <1>7, <1>8 DEF Next

\* Every row has its type, and a close its date before its month.
THEOREM TypeCorrect == Spec => []TypeOK
<1>1. TypeInv => TypeOK
  BY DEF TypeInv
<1> QED
  BY <1>1, TypesInit, TypesStep, PTL DEF Spec

LEMMA TypesHold == Spec => []TypeInv
BY TypesInit, TypesStep, PTL DEF Spec

-----------------------------------------------------------------------------
(* A month is promoted before a run covers it: what the tasks of a run     *)
(* read does not change under them, nor after.                             *)

Running == done # RunTask => \A m \in window : phase[m] # "gated"

Settled ==
  /\ \A m \in satMonths : phase[m] = "promoted"
  /\ \A w \in effWindows : \A m \in w : phase[m] = "promoted"

SettledInv == Running /\ Settled

\* A month bronze has promoted stays as it is.
LEMMA BronzeStays ==
  ASSUME TypeInv, [Next]_vars, NEW m \in Month, phase[m] = "promoted"
  PROVE  phase'[m] = "promoted" /\ file'[m] = file[m]
<1>1. CASE \E n \in Month, f \in File : Gate(n, f)
  <2>1. PICK n \in Month, f \in File : Gate(n, f)
    BY <1>1
  <2>2. n # m
    BY <2>1 DEF Gate
  <2> QED
    BY <2>1, <2>2 DEF Gate, TypeInv, TypeOK
<1>2. CASE \E n \in Month : Promote(n)
  <2>1. PICK n \in Month : Promote(n)
    BY <1>2
  <2> QED
    BY <2>1 DEF Promote, TypeInv, TypeOK
<1>3. CASE \E w \in SUBSET Month : Launch(w)
  BY <1>3 DEF Launch, bronzeVars
<1>4. CASE LoadHub \/ LoadLink \/ LoadSatellite \/ LoadEffectivity
  BY <1>4 DEF LoadHub, LoadLink, LoadSatellite, LoadEffectivity, Task, bronzeVars
<1>5. CASE UNCHANGED vars
  BY <1>5 DEF vars
<1> QED
  BY <1>1, <1>2, <1>3, <1>4, <1>5 DEF Next

\* A month a running task sees is promoted.
LEMMA SeenIsPromoted ==
  ASSUME TypeInv, Running, done # RunTask, NEW m \in window, Seen(m)
  PROVE  phase[m] = "promoted"
<1>1. m \in Month /\ phase[m] \in {"unpublished", "gated", "promoted"}
  BY DEF TypeInv, TypeOK
<1>2. phase[m] # "gated"
  BY DEF Running
<1>3. phase[m] # "unpublished"
  BY DEF Seen, InBronze, Bronze, InQuarantine
<1> QED
  BY <1>1, <1>2, <1>3

LEMMA SettledInit == Init => SettledInv
BY DEF Init, SettledInv, Running, Settled

LEMMA SettledStep ==
  ASSUME "promote_first" \in Orders, TypeInv, SettledInv, [Next]_vars
  PROVE  SettledInv'
<1> USE DEF SettledInv
<1>a. window \in SUBSET Month /\ satMonths \in SUBSET Month /\ effWindows \in SUBSET SUBSET Month
  BY DEF TypeInv, TypeOK
<1>1. CASE \E m \in Month, f \in File : Gate(m, f)
  <2>1. PICK m \in Month, f \in File : Gate(m, f)
    BY <1>1
  <2>2. /\ phase[m] = "unpublished" /\ (m \notin window \/ done = RunTask)
        /\ phase' = [phase EXCEPT ![m] = "gated"]
        /\ satMonths' = satMonths /\ effWindows' = effWindows /\ window' = window /\ done' = done
    BY <2>1 DEF Gate, run
  <2>3. \A n \in Month : n # m => phase'[n] = phase[n]
    BY <2>2 DEF TypeInv, TypeOK
  <2>4. Running'
    BY <1>a, <2>2, <2>3 DEF Running
  <2>5. Settled'
    BY <1>a, <2>2, <2>3 DEF Settled
  <2> QED
    BY <2>4, <2>5
<1>2. CASE \E m \in Month : Promote(m)
  <2>1. PICK m \in Month : Promote(m)
    BY <1>2
  <2>2. /\ phase' = [phase EXCEPT ![m] = "promoted"]
        /\ satMonths' = satMonths /\ effWindows' = effWindows /\ window' = window /\ done' = done
    BY <2>1 DEF Promote, run
  <2>3. phase'[m] = "promoted" /\ \A n \in Month : n # m => phase'[n] = phase[n]
    BY <2>2 DEF TypeInv, TypeOK
  <2>4. Running'
    BY <1>a, <2>2, <2>3 DEF Running
  <2>5. Settled'
    BY <1>a, <2>2, <2>3 DEF Settled
  <2> QED
    BY <2>4, <2>5
<1>3. CASE \E w \in SUBSET Month : Launch(w)
  <2>1. PICK w \in SUBSET Month : Launch(w)
    BY <1>3
  <2>2. /\ \A m \in w : phase[m] # "gated"
        /\ window' = w /\ phase' = phase /\ satMonths' = satMonths /\ effWindows' = effWindows
    BY <2>1 DEF Launch, bronzeVars
  <2> QED
    BY <2>2 DEF Running, Settled
<1>4. CASE LoadHub \/ LoadLink
  <2>1. \E t \in RunTask : Task(t)
    BY <1>4 DEF LoadHub, LoadLink, RunTask
  <2>2. done # RunTask /\ phase' = phase /\ window' = window
    BY <2>1, TaskRuns
  <2>3. satMonths' = satMonths /\ effWindows' = effWindows
    BY <1>4 DEF LoadHub, LoadLink
  <2> QED
    BY <2>2, <2>3 DEF Running, Settled
<1>5. CASE LoadSatellite
  <2>1. Task("sat") /\ (\A m \in window : Seen(m)) /\ satMonths' = satMonths \cup window
        /\ effWindows' = effWindows
    BY <1>5 DEF LoadSatellite
  <2>2. done # RunTask /\ phase' = phase /\ window' = window
    BY <2>1, TaskRuns DEF RunTask
  <2>3. \A m \in window : phase[m] = "promoted"
    BY <2>1, <2>2, SeenIsPromoted
  <2> QED
    BY <2>1, <2>2, <2>3 DEF Running, Settled
<1>6. CASE LoadEffectivity
  <2>1. Task("eff") /\ (\A m \in window : Seen(m)) /\ effWindows' = effWindows \cup {window}
        /\ satMonths' = satMonths
    BY <1>6 DEF LoadEffectivity
  <2>2. done # RunTask /\ phase' = phase /\ window' = window
    BY <2>1, TaskRuns DEF RunTask
  <2>3. \A m \in window : phase[m] = "promoted"
    BY <2>1, <2>2, SeenIsPromoted
  <2> QED
    BY <2>1, <2>2, <2>3 DEF Running, Settled
<1>7. CASE UNCHANGED vars
  BY <1>7 DEF vars, Running, Settled
<1> QED
  BY <1>1, <1>2, <1>3, <1>4, <1>5, <1>6, <1>7 DEF Next

-----------------------------------------------------------------------------
(* What a row references exists.                                           *)

HubCovers ==
  "hub" \in done /\ done # RunTask => \A r \in RelsInWindow : \E h \in hub : h.key = Parent[r]

LinkCovers ==
  "link" \in done /\ done # RunTask => \A r \in RelsInWindow : \E l \in link : l.key = r

GroundedInv == NothingDangles /\ HubCovers /\ LinkCovers

\* Bronze does not move under a run.
LEMMA WindowStays ==
  ASSUME "promote_first" \in Orders, TypeInv, SettledInv, [Next]_vars,
         window' = window, done' = done, done # RunTask
  PROVE  RelsInWindow' = RelsInWindow
<1>a. window \in SUBSET Month
  BY DEF TypeInv, TypeOK
<1>1. ASSUME NEW m \in window PROVE InBronze(m)' = InBronze(m)
  <2>1. CASE phase[m] = "promoted"
    BY <1>a, <2>1, BronzeStays DEF InBronze, Bronze
  <2>2. CASE phase[m] # "promoted"
    <3>1. phase[m] = "unpublished"
      BY <1>a, <2>2 DEF SettledInv, Running, TypeInv, TypeOK
    <3>2. phase'[m] # "promoted"
      <4>2. CASE \E n \in Month, f \in File : Gate(n, f)
        <5>1. PICK n \in Month, f \in File : Gate(n, f)
          BY <4>2
        <5> QED
          BY <1>a, <2>2, <5>1 DEF Gate, TypeInv, TypeOK
      <4>3. CASE \E n \in Month : Promote(n)
        <5>1. PICK n \in Month : Promote(n)
          BY <4>3
        <5>2. n # m
          BY <3>1, <5>1 DEF Promote
        <5> QED
          BY <1>a, <2>2, <5>1, <5>2 DEF Promote, TypeInv, TypeOK
      <4>4. CASE \E w \in SUBSET Month : Launch(w)
        BY <2>2, <4>4 DEF Launch, bronzeVars
      <4>5. CASE LoadHub \/ LoadLink \/ LoadSatellite \/ LoadEffectivity
        BY <2>2, <4>5 DEF LoadHub, LoadLink, LoadSatellite, LoadEffectivity, Task, bronzeVars
      <4>6. CASE UNCHANGED vars
        BY <2>2, <4>6 DEF vars
      <4> QED
        BY <4>2, <4>3, <4>4, <4>5, <4>6 DEF Next
    <3> QED
      BY <2>2, <3>2 DEF InBronze, Bronze
  <2> QED
    BY <2>1, <2>2
<1> QED
  BY <1>1 DEF RelsInWindow

LEMMA GroundedInit == Init => GroundedInv
BY DEF Init, GroundedInv, NothingDangles, HubCovers, LinkCovers

LEMMA GroundedStep ==
  ASSUME "promote_first" \in Orders, TypeInv, SettledInv, GroundedInv, [Next]_vars
  PROVE  GroundedInv'
<1> USE DEF GroundedInv
<1>a. window \in SUBSET Month
  BY DEF TypeInv, TypeOK
<1>1. CASE (\E m \in Month, f \in File : Gate(m, f)) \/ (\E m \in Month : Promote(m))
  <2>1. /\ hub' = hub /\ link' = link /\ sat' = sat /\ eff' = eff
        /\ window' = window /\ done' = done
    BY <1>1 DEF Gate, Promote, run
  <2>2. done # RunTask => RelsInWindow' = RelsInWindow
    BY <2>1, WindowStays
  <2> QED
    BY <2>1, <2>2 DEF NothingDangles, HubCovers, LinkCovers
<1>2. CASE \E w \in SUBSET Month : Launch(w)
  <2>1. done' = {} /\ hub' = hub /\ link' = link /\ sat' = sat /\ eff' = eff
    BY <1>2 DEF Launch
  <2> QED
    BY <2>1 DEF NothingDangles, HubCovers, LinkCovers
<1>3. CASE LoadHub
  <2>1. Task("hub") /\ link' = link /\ sat' = sat /\ eff' = eff
    BY <1>3 DEF LoadHub
  <2>2. done # RunTask /\ file' = file /\ phase' = phase /\ window' = window
    BY <2>1, TaskRuns DEF RunTask
  <2>3. RelsInWindow' = RelsInWindow
    BY <2>2 DEF RelsInWindow, InBronze, Bronze
  <2>4. hub \subseteq hub' /\ \A r \in RelsInWindow : \E h \in hub' : h.key = Parent[r]
    <3> DEFINE new == {Parent[r] : r \in RelsInWindow} \ {h.key : h \in hub}
    <3>1. hub' = hub \cup {[key |-> k, load |-> loads] : k \in new}
      BY <1>3 DEF LoadHub
    <3>2. ASSUME NEW r \in RelsInWindow PROVE \E h \in hub' : h.key = Parent[r]
      <4>1. CASE Parent[r] \in new
        <5> HIDE DEF new
        <5>1. [key |-> Parent[r], load |-> loads] \in hub'
          BY <3>1, <4>1
        <5> QED
          BY <5>1
      <4>2. CASE Parent[r] \notin new
        BY <3>1, <4>2
      <4> QED
        BY <4>1, <4>2
    <3> QED
      BY <3>1, <3>2
  <2>5. NothingDangles'
    BY <2>1, <2>4 DEF NothingDangles
  <2>6. HubCovers'
    BY <2>3, <2>4 DEF HubCovers
  <2>7. "link" \in done' => "link" \in done
    BY <2>1 DEF Task
  <2>8. LinkCovers'
    BY <2>1, <2>2, <2>3, <2>7 DEF LinkCovers
  <2> QED
    BY <2>5, <2>6, <2>8
<1>4. CASE LoadLink
  <2>1. Task("link") /\ hub' = hub /\ sat' = sat /\ eff' = eff
    BY <1>4 DEF LoadLink
  <2>2. done # RunTask /\ file' = file /\ phase' = phase /\ window' = window
        /\ DependsOn("link") \subseteq done
    BY <2>1, TaskRuns DEF RunTask
  <2>3. RelsInWindow' = RelsInWindow
    BY <2>2 DEF RelsInWindow, InBronze, Bronze
  <2>4. \A r \in RelsInWindow : \E h \in hub : h.key = Parent[r]
    BY <2>2 DEF HubCovers, DependsOn
  <2> DEFINE new == RelsInWindow \ {l.key : l \in link}
  <2>5. link' = link \cup {[key |-> r, load |-> loads] : r \in new}
    BY <1>4 DEF LoadLink
  <2>6. \A r \in RelsInWindow : \E l \in link' : l.key = r
    <3>1. ASSUME NEW r \in RelsInWindow PROVE \E l \in link' : l.key = r
      <4>1. CASE r \in new
        <5> HIDE DEF new
        <5>1. [key |-> r, load |-> loads] \in link'
          BY <2>5, <4>1
        <5> QED
          BY <5>1
      <4>2. CASE r \notin new
        BY <2>5, <4>2
      <4> QED
        BY <4>1, <4>2
    <3> QED
      BY <3>1
  <2>7. NothingDangles'
    BY <2>1, <2>4, <2>5 DEF NothingDangles
  <2>8. "hub" \in done' => "hub" \in done
    BY <2>1 DEF Task
  <2>9. HubCovers'
    BY <2>1, <2>2, <2>3, <2>8 DEF HubCovers
  <2>10. LinkCovers'
    BY <2>3, <2>6 DEF LinkCovers
  <2> QED
    BY <2>7, <2>9, <2>10
<1>5. CASE LoadSatellite
  <2>1. Task("sat") /\ hub' = hub /\ link' = link /\ eff' = eff
    BY <1>5 DEF LoadSatellite
  <2>2. done # RunTask /\ file' = file /\ phase' = phase /\ window' = window
        /\ DependsOn("sat") \subseteq done
    BY <2>1, TaskRuns DEF RunTask
  <2>3. RelsInWindow' = RelsInWindow
    BY <2>2 DEF RelsInWindow, InBronze, Bronze
  <2>4. \A r \in RelsInWindow : \E h \in hub : h.key = Parent[r]
    BY <2>2 DEF HubCovers, DependsOn
  <2> DEFINE new == Changed(SatelliteCandidates, Values(sat))
  <2>5. sat' = sat \cup {[key |-> c.key, month |-> c.month, value |-> c.value, load |-> loads] :
                           c \in new}
    BY <1>5 DEF LoadSatellite
  <2>6. ASSUME NEW c \in new PROVE \E h \in hub : h.key = c.key
    <3>1. c.month \in window /\ Payloads(c.key, c.month) # {}
      BY SatelliteCandidateFacts DEF Changed, TypeInv
    <3>2. PICK b \in Bronze(c.month) : Parent[b.rel] = c.key
      BY <3>1 DEF Payloads
    <3>3. b.rel \in RelsInWindow
      BY <3>1, <3>2 DEF RelsInWindow, InBronze
    <3> QED
      BY <2>4, <3>2, <3>3
  <2> HIDE DEF new
  <2>7. NothingDangles'
    BY <2>1, <2>5, <2>6 DEF NothingDangles
  <2>8. ("hub" \in done' => "hub" \in done) /\ ("link" \in done' => "link" \in done)
    BY <2>1 DEF Task
  <2>9. HubCovers' /\ LinkCovers'
    BY <2>1, <2>2, <2>3, <2>8 DEF HubCovers, LinkCovers
  <2> QED
    BY <2>7, <2>9
<1>6. CASE LoadEffectivity
  <2>1. Task("eff") /\ hub' = hub /\ link' = link /\ sat' = sat
    BY <1>6 DEF LoadEffectivity
  <2>2. done # RunTask /\ file' = file /\ phase' = phase /\ window' = window
        /\ DependsOn("eff") \subseteq done
    BY <2>1, TaskRuns DEF RunTask
  <2>3. RelsInWindow' = RelsInWindow
    BY <2>2 DEF RelsInWindow, InBronze, Bronze
  <2>4. \A r \in RelsInWindow : \E l \in link : l.key = r
    BY <2>2 DEF LinkCovers, DependsOn
  <2> DEFINE new == Changed(Statements(window), Values(eff))
  <2>5. eff' = eff \cup {[key |-> c.key, month |-> c.month, value |-> c.value,
                          last |-> LastObserved(c), load |-> loads] : c \in new}
    BY <1>6 DEF LoadEffectivity
  <2>6. ASSUME NEW c \in new, c.value PROVE \E l \in link : l.key = c.key
    <3>1. c.month \in window /\ c.key \in InBronze(c.month)
      BY <1>a, <2>6, StatementFacts DEF Changed
    <3>2. c.key \in RelsInWindow
      BY <3>1 DEF RelsInWindow
    <3> QED
      BY <2>4, <3>2
  <2> HIDE DEF new
  <2>7. NothingDangles'
    BY <2>1, <2>5, <2>6 DEF NothingDangles
  <2>8. ("hub" \in done' => "hub" \in done) /\ ("link" \in done' => "link" \in done)
    BY <2>1 DEF Task
  <2>9. HubCovers' /\ LinkCovers'
    BY <2>1, <2>2, <2>3, <2>8 DEF HubCovers, LinkCovers
  <2> QED
    BY <2>7, <2>9
<1>7. CASE UNCHANGED vars
  <2>1. RelsInWindow' = RelsInWindow
    BY <1>7 DEF vars, RelsInWindow, InBronze, Bronze
  <2> QED
    BY <1>7, <2>1 DEF vars, NothingDangles, HubCovers, LinkCovers
<1> QED
  BY <1>1, <1>2, <1>3, <1>4, <1>5, <1>6, <1>7 DEF Next

\* Where months are promoted before a run covers them, whatever order they are
\* loaded in and whichever task fails, no row references a missing one.
THEOREM NoRowDangles ==
  ASSUME "promote_first" \in Orders
  PROVE  Spec => []NothingDangles
<1> DEFINE Inv == TypeInv /\ SettledInv /\ GroundedInv
<1>1. Init => Inv
  BY TypesInit, SettledInit, GroundedInit
<1>2. Inv /\ [Next]_vars => Inv'
  BY TypesStep, SettledStep, GroundedStep
<1>3. Inv => NothingDangles
  BY DEF GroundedInv
<1> QED
  BY <1>1, <1>2, <1>3, PTL DEF Spec

-----------------------------------------------------------------------------
(* Every row says what its month showed, and a key has one of a month.     *)

\* So does what the tables show of it.
LEMMA SnapshotStays ==
  ASSUME TypeInv, [Next]_vars, NEW m \in Month, phase[m] = "promoted"
  PROVE  /\ Bronze(m)' = Bronze(m)
         /\ InBronze(m)' = InBronze(m) /\ InQuarantine(m)' = InQuarantine(m)
         /\ \A k : Payloads(k, m)' = Payloads(k, m) /\ Chosen(k, m)' = Chosen(k, m)
<1>1. phase'[m] = "promoted" /\ file'[m] = file[m]
  BY BronzeStays
<1>2. Bronze(m)' = Bronze(m)
  BY <1>1 DEF Bronze
<1>3. InBronze(m)' = InBronze(m) /\ InQuarantine(m)' = InQuarantine(m)
  BY <1>1, <1>2 DEF InBronze, InQuarantine
<1>4. \A k : Payloads(k, m)' = Payloads(k, m)
  BY <1>2 DEF Payloads
<1> QED
  BY <1>2, <1>3, <1>4 DEF Chosen

SatRowsTrue ==
  \A s \in sat :
    s.month \in satMonths /\ Payloads(s.key, s.month) # {} /\ s.value = Chosen(s.key, s.month)

EffRowsTrue ==
  \A e \in eff :
    /\ \E w \in effWindows : e.month \in w
    /\ e.value = (e.key \in InBronze(e.month))
    /\ ~e.value => e.key \notin InQuarantine(e.month)

RowsInv == OneRowPerMonth(sat) /\ OneRowPerMonth(eff) /\ SatRowsTrue /\ EffRowsTrue

\* The values of a table of months, one row of each.
LEMMA ValuesFacts ==
  ASSUME NEW rows, \A x \in rows : x.month \in Month, OneRowPerMonth(rows)
  PROVE  Dated(Values(rows)) /\ Agree(Values(rows), Values(rows))
<1>1. \A v \in Values(rows) : \E x \in rows : v.key = x.key /\ v.month = x.month /\ v.value = x.value
  BY DEF Values
<1>2. Dated(Values(rows))
  BY <1>1 DEF Dated
<1>3. ASSUME NEW v \in Values(rows), NEW w \in Values(rows), v.key = w.key, v.month = w.month
      PROVE  v.value = w.value
  <2>1. PICK x \in rows : v.key = x.key /\ v.month = x.month /\ v.value = x.value
    BY <1>1
  <2>2. PICK y \in rows : w.key = y.key /\ w.month = y.month /\ w.value = y.value
    BY <1>1
  <2> QED
    BY <1>3, <2>1, <2>2 DEF OneRowPerMonth
<1> QED
  BY <1>2, <1>3 DEF Agree

\* An append of changes leaves one row of each month.
LEMMA AppendKeepsOneRow ==
  ASSUME NEW rows, NEW C, NEW new, OneRowPerMonth(rows),
         \A x \in new : \E c \in Changed(C, Values(rows)) : x.key = c.key /\ x.month = c.month,
         OneRowPerMonth(new)
  PROVE  OneRowPerMonth(rows \cup new)
<1>1. ASSUME NEW n \in new, NEW x \in rows PROVE ~(x.key = n.key /\ x.month = n.month)
  <2>1. PICK c \in Changed(C, Values(rows)) : n.key = c.key /\ n.month = c.month
    OBVIOUS
  <2>2. c \in Fresh(C, Values(rows))
    BY <2>1, ChangedMember
  <2> DEFINE v == [key |-> x.key, month |-> x.month, value |-> x.value]
  <2>3. v \in Values(rows) /\ v.key = x.key /\ v.month = x.month
    BY DEF Values
  <2>4. <<v.key, v.month>> # <<c.key, c.month>>
    BY <2>2, <2>3 DEF Fresh
  <2> QED
    BY <2>1, <2>3, <2>4
<1> QED
  BY <1>1 DEF OneRowPerMonth

LEMMA RowsInit == Init => RowsInv
BY DEF Init, RowsInv, OneRowPerMonth, SatRowsTrue, EffRowsTrue

\* What a satellite load appends.
LEMMA SatelliteAppends ==
  ASSUME TypeInv, LoadSatellite
  PROVE  /\ sat \subseteq sat'
         /\ \A x \in sat' : x \in sat \/ \E c \in Changed(SatelliteCandidates, Values(sat)) :
              x.key = c.key /\ x.month = c.month /\ x.value = c.value
         /\ Values(sat') = Values(sat) \cup Changed(SatelliteCandidates, Values(sat))
         /\ OneRowPerMonth(sat) => OneRowPerMonth(sat')
<1> DEFINE C == SatelliteCandidates
           N == Changed(C, Values(sat))
           row(c) == [key |-> c.key, month |-> c.month, value |-> c.value, load |-> loads]
           new == {row(c) : c \in N}
<1>1. sat' = sat \cup new
  BY DEF LoadSatellite
<1>2. N \subseteq C /\ \A c \in C : Candidate(c)
  BY SatelliteCandidateFacts DEF Changed, TypeInv
<1>3. /\ \A x \in new : \E c \in N : x = row(c)
      /\ \A c \in N : row(c) \in new
      /\ \A c : row(c).key = c.key /\ row(c).month = c.month /\ row(c).value = c.value
  OBVIOUS
<1>4. OneRowPerMonth(new)
  <2>1. Agree(C, C)
    BY SatelliteCandidateFacts DEF TypeInv
  <2>2. ASSUME NEW x \in new, NEW y \in new, x.key = y.key, x.month = y.month PROVE x = y
    <3>1. PICK c \in N : x = row(c)
      BY <1>3
    <3>2. PICK d \in N : y = row(d)
      BY <1>3
    <3>3. c.key = d.key /\ c.month = d.month
      BY <2>2, <3>1, <3>2
    <3>4. c.value = d.value
      BY <1>2, <2>1, <3>3 DEF Agree
    <3> QED
      BY <3>1, <3>2, <3>3, <3>4
  <2> QED
    BY <2>2 DEF OneRowPerMonth
<1>5. Values(sat \cup new) = Values(sat) \cup N
  <2>1. \A c \in N : Candidate(c)
    BY <1>2
  <2>2. \A x \in new : \E c \in N : x.key = c.key /\ x.month = c.month /\ x.value = c.value
    BY <1>3
  <2>3. \A c \in N : \E x \in new : x.key = c.key /\ x.month = c.month /\ x.value = c.value
    <3> HIDE DEF new
    <3> QED
      BY <1>3
  <2> HIDE DEF new, N
  <2> QED
    BY <2>1, <2>2, <2>3, ValuesAppended
<1>6. OneRowPerMonth(sat) => OneRowPerMonth(sat \cup new)
  <2>1. \A x \in new : \E c \in N : x.key = c.key /\ x.month = c.month
    BY <1>3
  <2> HIDE DEF new
  <2> QED
    BY <1>4, <2>1, AppendKeepsOneRow
<1> QED
  BY <1>1, <1>3, <1>5, <1>6

\* What an effectivity load appends.
LEMMA EffectivityAppends ==
  ASSUME TypeInv, LoadEffectivity
  PROVE  /\ eff \subseteq eff'
         /\ \A x \in eff' : x \in eff \/ \E c \in Changed(Statements(window), Values(eff)) :
              x.key = c.key /\ x.month = c.month /\ x.value = c.value
         /\ Values(eff') = Values(eff) \cup Changed(Statements(window), Values(eff))
         /\ OneRowPerMonth(eff) => OneRowPerMonth(eff')
<1> DEFINE C == Statements(window)
           N == Changed(C, Values(eff))
           row(c) == [key |-> c.key, month |-> c.month, value |-> c.value,
                      last |-> LastObserved(c), load |-> loads]
           new == {row(c) : c \in N}
<1>a. window \in SUBSET Month
  BY DEF TypeInv, TypeOK
<1>1. eff' = eff \cup new
  BY DEF LoadEffectivity
<1>2. N \subseteq C /\ \A c \in C : Candidate(c)
  BY <1>a, StatementFacts DEF Changed
<1>3. /\ \A x \in new : \E c \in N : x = row(c)
      /\ \A c \in N : row(c) \in new
      /\ \A c : row(c).key = c.key /\ row(c).month = c.month /\ row(c).value = c.value
  OBVIOUS
<1>4. OneRowPerMonth(new)
  <2>1. Agree(C, C)
    BY <1>a, StatementFacts
  <2>2. ASSUME NEW x \in new, NEW y \in new, x.key = y.key, x.month = y.month PROVE x = y
    <3>1. PICK c \in N : x = row(c)
      BY <1>3
    <3>2. PICK d \in N : y = row(d)
      BY <1>3
    <3>3. c.key = d.key /\ c.month = d.month
      BY <2>2, <3>1, <3>2
    <3>4. c.value = d.value
      BY <1>2, <2>1, <3>3 DEF Agree
    <3>5. c = d
      BY <1>2, <3>3, <3>4 DEF Candidate
    <3> QED
      BY <3>1, <3>2, <3>5
  <2> QED
    BY <2>2 DEF OneRowPerMonth
<1>5. Values(eff \cup new) = Values(eff) \cup N
  <2>1. \A c \in N : Candidate(c)
    BY <1>2
  <2>2. \A x \in new : \E c \in N : x.key = c.key /\ x.month = c.month /\ x.value = c.value
    BY <1>3
  <2>3. \A c \in N : \E x \in new : x.key = c.key /\ x.month = c.month /\ x.value = c.value
    <3> HIDE DEF new
    <3> QED
      BY <1>3
  <2> HIDE DEF new, N
  <2> QED
    BY <2>1, <2>2, <2>3, ValuesAppended
<1>6. OneRowPerMonth(eff) => OneRowPerMonth(eff \cup new)
  <2>1. \A x \in new : \E c \in N : x.key = c.key /\ x.month = c.month
    BY <1>3
  <2> HIDE DEF new
  <2> QED
    BY <1>4, <2>1, AppendKeepsOneRow
<1> QED
  BY <1>1, <1>3, <1>5, <1>6

\* Rows already written stay true: their months are promoted.
LEMMA OldRowsStayTrue ==
  ASSUME TypeInv, SettledInv, RowsInv, [Next]_vars
  PROVE  /\ \A s \in sat : (Payloads(s.key, s.month) # {})' /\ s.value = Chosen(s.key, s.month)'
         /\ \A e \in eff : /\ e.value = (e.key \in InBronze(e.month)')
                           /\ ~e.value => e.key \notin InQuarantine(e.month)'
<1>1. ASSUME NEW s \in sat
      PROVE  (Payloads(s.key, s.month) # {})' /\ s.value = Chosen(s.key, s.month)'
  <2>1. PICK k, m : k = s.key /\ m = s.month
    OBVIOUS
  <2>2. m \in Month /\ phase[m] = "promoted"
    BY <2>1 DEF RowsInv, SatRowsTrue, SettledInv, Settled, TypeInv, TypeOK
  <2>3. Payloads(k, m)' = Payloads(k, m) /\ Chosen(k, m)' = Chosen(k, m)
    BY <2>2, SnapshotStays
  <2> QED
    BY <2>1, <2>3 DEF RowsInv, SatRowsTrue
<1>2. ASSUME NEW e \in eff
      PROVE  /\ e.value = (e.key \in InBronze(e.month)')
             /\ ~e.value => e.key \notin InQuarantine(e.month)'
  <2>1. PICK k, m : k = e.key /\ m = e.month
    OBVIOUS
  <2>2. PICK w \in effWindows : m \in w
    BY <2>1 DEF RowsInv, EffRowsTrue
  <2>3. m \in Month /\ phase[m] = "promoted"
    BY <2>2 DEF SettledInv, Settled, TypeInv, TypeOK
  <2>4. InBronze(m)' = InBronze(m) /\ InQuarantine(m)' = InQuarantine(m)
    BY <2>3, SnapshotStays
  <2> QED
    BY <2>1, <2>4 DEF RowsInv, EffRowsTrue
<1> QED
  BY <1>1, <1>2

LEMMA RowsStep ==
  ASSUME TypeInv, SettledInv, RowsInv, [Next]_vars
  PROVE  RowsInv'
<1>1. CASE UNCHANGED <<sat, eff, satMonths, effWindows>>
  <2>1. OneRowPerMonth(sat)' /\ OneRowPerMonth(eff)'
    BY <1>1 DEF RowsInv, OneRowPerMonth
  <2>2. SatRowsTrue'
    BY <1>1, OldRowsStayTrue DEF RowsInv, SatRowsTrue
  <2>3. EffRowsTrue'
    BY <1>1, OldRowsStayTrue DEF RowsInv, EffRowsTrue
  <2> QED
    BY <2>1, <2>2, <2>3 DEF RowsInv
<1>2. CASE LoadSatellite
  <2>1. Task("sat") /\ satMonths' = satMonths \cup window /\ UNCHANGED <<eff, effWindows>>
    BY <1>2 DEF LoadSatellite
  <2>2. file' = file /\ phase' = phase
    BY <2>1, TaskRuns DEF RunTask
  <2>3. OneRowPerMonth(sat)' /\ OneRowPerMonth(eff)'
    BY <1>2, <2>1, SatelliteAppends DEF RowsInv, OneRowPerMonth
  <2>4. ASSUME NEW x \in sat'
        PROVE  x.month \in satMonths' /\ Payloads(x.key, x.month) # {}
               /\ x.value = Chosen(x.key, x.month)
    <3>1. CASE x \in sat
      BY <2>1, <3>1 DEF RowsInv, SatRowsTrue
    <3>2. CASE x \notin sat
      <4>1. PICK c \in Changed(SatelliteCandidates, Values(sat)) :
              x.key = c.key /\ x.month = c.month /\ x.value = c.value
        BY <1>2, <3>2, SatelliteAppends
      <4>2. c.month \in window /\ Payloads(c.key, c.month) # {} /\ c.value = Chosen(c.key, c.month)
        BY SatelliteCandidateFacts DEF Changed, TypeInv
      <4> QED
        BY <2>1, <4>1, <4>2
    <3> QED
      BY <3>1, <3>2
  <2>5. SatRowsTrue'
    BY <2>2, <2>4 DEF SatRowsTrue, Chosen, Payloads, Bronze
  <2>6. EffRowsTrue'
    BY <2>1, OldRowsStayTrue DEF RowsInv, EffRowsTrue
  <2> QED
    BY <2>3, <2>5, <2>6 DEF RowsInv
<1>3. CASE LoadEffectivity
  <2>1. Task("eff") /\ effWindows' = effWindows \cup {window} /\ UNCHANGED <<sat, satMonths>>
    BY <1>3 DEF LoadEffectivity
  <2>2. file' = file /\ phase' = phase /\ window \in SUBSET Month
    BY <2>1, TaskRuns DEF RunTask
  <2>3. OneRowPerMonth(sat)' /\ OneRowPerMonth(eff)'
    BY <1>3, <2>1, EffectivityAppends DEF RowsInv, OneRowPerMonth
  <2>4. ASSUME NEW x \in eff'
        PROVE  /\ \E w \in effWindows' : x.month \in w
               /\ x.value = (x.key \in InBronze(x.month))
               /\ ~x.value => x.key \notin InQuarantine(x.month)
    <3>1. CASE x \in eff
      BY <2>1, <3>1 DEF RowsInv, EffRowsTrue
    <3>2. CASE x \notin eff
      <4>1. PICK c \in Changed(Statements(window), Values(eff)) :
              x.key = c.key /\ x.month = c.month /\ x.value = c.value
        BY <1>3, <3>2, EffectivityAppends
      <4>2. c \in Statements(window)
        BY DEF Changed
      <4>3. /\ c.month \in window /\ c.value = (c.key \in InBronze(c.month))
            /\ ~c.value => Presence(c.key, window) # {} /\ Closes(c.key, c.month, window)
        BY <2>2, <4>2, StatementFacts
      <4>4. ~c.value => c.key \notin InQuarantine(c.month)
        BY <2>2, <4>3, WhatCloses
      <4> QED
        BY <2>1, <4>1, <4>3, <4>4
    <3> QED
      BY <3>1, <3>2
  <2>5. EffRowsTrue'
    BY <2>2, <2>4 DEF EffRowsTrue, InBronze, Bronze, InQuarantine
  <2>6. SatRowsTrue'
    BY <2>1, OldRowsStayTrue DEF RowsInv, SatRowsTrue
  <2> QED
    BY <2>3, <2>5, <2>6 DEF RowsInv
<1>4. CASE \/ \E m \in Month, f \in File : Gate(m, f)
           \/ \E m \in Month : Promote(m)
           \/ \E w \in SUBSET Month : Launch(w)
           \/ LoadHub \/ LoadLink \/ UNCHANGED vars
  BY <1>1, <1>4 DEF Gate, Promote, Launch, LoadHub, LoadLink, vars
<1> QED
  BY <1>2, <1>3, <1>4 DEF Next

\* Where months are promoted before a run covers them, what the effectivity
\* satellite closes left the source: our gate's rejection closes nothing.
THEOREM ClosesDeparted ==
  ASSUME "promote_first" \in Orders
  PROVE  Spec => []ClosesAreDepartures
<1> DEFINE Inv == TypeInv /\ SettledInv /\ RowsInv
<1>1. Init => Inv
  BY TypesInit, SettledInit, RowsInit
<1>2. Inv /\ [Next]_vars => Inv'
  BY TypesStep, SettledStep, RowsStep
<1>3. ASSUME Inv PROVE ClosesAreDepartures
  <2> SUFFICES ASSUME NEW e \in eff, ~e.value
               PROVE  /\ \A row \in file[e.month].accepted : row.rel # e.key
                      /\ e.key \notin file[e.month].rejected
    BY DEF ClosesAreDepartures
  <2>1. e.key \notin InBronze(e.month) /\ e.key \notin InQuarantine(e.month)
    BY <1>3 DEF RowsInv, EffRowsTrue
  <2>2. phase[e.month] = "promoted"
    BY <1>3 DEF RowsInv, EffRowsTrue, SettledInv, Settled
  <2> QED
    BY <2>1, <2>2 DEF InBronze, Bronze, InQuarantine
<1> QED
  BY <1>1, <1>2, <1>3, PTL DEF Spec

-----------------------------------------------------------------------------
(* Months loaded in their order: the satellite tells the source's history. *)

InOrder == done # RunTask => \A m \in window : Follows(m, satMonths)

\* The satellite's rows are changes of value.
SatChanges ==
  \A x, y \in sat : x.key = y.key /\ x.month < y.month /\ x.value = y.value =>
    \E z \in sat : z.key = x.key /\ x.month < z.month /\ z.month < y.month

LEMMA InOrderStep ==
  ASSUME "in_order" \in Orders, TypeInv, InOrder, [Next]_vars
  PROVE  InOrder'
<1>1. CASE \/ \E m \in Month, f \in File : Gate(m, f)
           \/ \E m \in Month : Promote(m)
           \/ UNCHANGED vars
  BY <1>1 DEF Gate, Promote, run, vars, InOrder, Follows
<1>2. CASE \E w \in SUBSET Month : Launch(w)
  BY <1>2 DEF Launch, InOrder, Follows
<1>3. CASE LoadHub \/ LoadLink \/ LoadEffectivity
  <2>1. \E t \in RunTask : Task(t)
    BY <1>3 DEF LoadHub, LoadLink, LoadEffectivity, RunTask
  <2>2. done # RunTask /\ window' = window
    BY <2>1, TaskRuns
  <2>3. satMonths' = satMonths
    BY <1>3 DEF LoadHub, LoadLink, LoadEffectivity
  <2> QED
    BY <2>2, <2>3 DEF InOrder, Follows
<1>4. CASE LoadSatellite
  <2>1. Task("sat") /\ satMonths' = satMonths \cup window
    BY <1>4 DEF LoadSatellite
  <2>2. window' = window
    BY <2>1, TaskRuns DEF RunTask
  <2> QED
    BY <2>1, <2>2 DEF InOrder, Follows
<1> QED
  BY <1>1, <1>2, <1>3, <1>4 DEF Next

\* What the satellite's candidates meet in the table.
LEMMA SatelliteMeets ==
  ASSUME TypeInv, RowsInv
  PROVE  /\ Dated(Values(sat)) /\ Agree(Values(sat), Values(sat))
         /\ Agree(SatelliteCandidates, Values(sat))
<1>1. Dated(Values(sat)) /\ Agree(Values(sat), Values(sat))
  <2>1. \A x \in sat : x.month \in Month
    BY DEF TypeInv, TypeOK, SatRow
  <2> QED
    BY <2>1, ValuesFacts DEF RowsInv
<1>2. ASSUME NEW c \in SatelliteCandidates, NEW v \in Values(sat),
             c.key = v.key, c.month = v.month
      PROVE  c.value = v.value
  <2>1. PICK s \in sat : v = [key |-> s.key, month |-> s.month, value |-> s.value]
    BY DEF Values
  <2>2. s.value = Chosen(s.key, s.month)
    BY DEF RowsInv, SatRowsTrue
  <2>3. c.value = Chosen(c.key, c.month)
    BY SatelliteCandidateFacts DEF TypeInv
  <2> QED
    BY <1>2, <2>1, <2>2, <2>3
<1> QED
  BY <1>1, <1>2 DEF Agree

\* A load writes no row of a month the satellite has covered.
LEMMA SatelliteWritesNewMonths ==
  ASSUME TypeInv, RowsInv, InOrder, SatelliteTellsHistory, done # RunTask,
         NEW c \in Changed(SatelliteCandidates, Values(sat))
  PROVE  c.month \in window /\ c.month \notin satMonths /\ \A m \in satMonths : m < c.month
<1> DEFINE C == SatelliteCandidates
<1>1. c \in C /\ c.month \in window /\ c.month \in Month
  BY SatelliteCandidateFacts DEF Changed, TypeInv, TypeOK
<1>2. c.month \notin satMonths
  <2> SUFFICES ASSUME c.month \in satMonths PROVE FALSE
    OBVIOUS
  <2>1. ASSUME NEW d \in C, d.key = c.key, d.month <= c.month
        PROVE  Says(Values(sat), d.key, d.month, d.value)
    <3>1. /\ d.key \in Key /\ d.month \in window /\ d.month \in Month
          /\ Payloads(d.key, d.month) # {} /\ d.value = Chosen(d.key, d.month)
      BY SatelliteCandidateFacts DEF TypeInv, TypeOK
    <3>2. d.month \in satMonths
      <4>1. d.month \in satMonths \/ c.month < d.month
        BY <3>1 DEF InOrder, Follows
      <4> QED
        BY <1>1, <2>1, <3>1, <4>1, VaultAssumption DEF Month
    <3>3. Says(sat, d.key, d.month, d.value)
      BY <3>1, <3>2 DEF SatelliteTellsHistory
    <3> QED
      BY <3>3, SaysByValues
  <2>2. Dated(C) /\ Dated(Values(sat)) /\ Agree(Values(sat), Values(sat))
    BY SatelliteCandidateFacts, SatelliteMeets DEF TypeInv
  <2> HIDE DEF C
  <2> QED
    BY <1>1, <2>1, <2>2, ToldAlready DEF C
<1>3. \A m \in satMonths : m < c.month
  BY <1>1, <1>2 DEF InOrder, Follows
<1> QED
  BY <1>1, <1>2, <1>3

\* A table appended to only after a month says what it said as of that month.
LEMMA LaterRowsDoNotMatter ==
  ASSUME NEW old, NEW rows, NEW k, NEW m \in Month, NEW v, old \subseteq rows,
         \A x \in rows : x.month \in Month,
         \A x \in rows : x \in old \/ x.key # k \/ m < x.month,
         Says(old, k, m, v)
  PROVE  Says(rows, k, m, v)
<1>1. UpTo(rows, k, m) = UpTo(old, k, m)
  <2>1. ASSUME NEW x \in rows, x.key = k, x.month <= m PROVE x \in old
    BY <2>1, VaultAssumption DEF Month
  <2> QED
    BY <2>1 DEF UpTo
<1> QED
  BY <1>1 DEF Says

LEMMA SatelliteTellsStep ==
  ASSUME TypeInv, TypeInv', SettledInv, RowsInv, InOrder, SatelliteTellsHistory, [Next]_vars
  PROVE  SatelliteTellsHistory'
<1>1. CASE LoadSatellite
  <2>1. Task("sat") /\ satMonths' = satMonths \cup window
    BY <1>1 DEF LoadSatellite
  <2>2. file' = file /\ phase' = phase /\ done # RunTask
    BY <2>1, TaskRuns DEF RunTask
  <2>a. satMonths \in SUBSET Month /\ window \in SUBSET Month
    BY DEF TypeInv, TypeOK
  <2> DEFINE C == SatelliteCandidates
             N == Changed(C, Values(sat))
  <2>3. ASSUME NEW k \in Key, NEW m \in satMonths \cup window, Payloads(k, m) # {}
        PROVE  Says(sat', k, m, Chosen(k, m))
    <3>1. CASE m \in window
      <4> DEFINE c == [key |-> k, month |-> m, value |-> Chosen(k, m)]
      <4>1. Chosen(k, m) \in Payload
        BY <2>a, <2>3, ChosenIsSeen DEF TypeInv
      <4>2. c \in C
        BY <2>3, <3>1, <4>1 DEF SatelliteCandidates
      <4>3. /\ Dated(C) /\ Dated(Values(sat)) /\ Agree(C, C) /\ Agree(C, Values(sat))
        BY SatelliteCandidateFacts, SatelliteMeets DEF TypeInv
      <4>4. Says(Values(sat) \cup N, c.key, c.month, c.value)
        <5> HIDE DEF C, c
        <5> QED
          BY <4>2, <4>3, ChangedTells
      <4>5. Says(Values(sat'), k, m, Chosen(k, m))
        BY <1>1, <4>4, SatelliteAppends
      <4> QED
        BY <4>5, SaysByValues
    <3>2. CASE m \in satMonths \ window
      <4>1. Says(sat, k, m, Chosen(k, m))
        BY <2>3, <3>2 DEF SatelliteTellsHistory
      <4>2. \A x \in sat' : x \in sat \/ x.key # k \/ m < x.month
        <5>1. \A c \in N : m < c.month
          BY <2>2, <3>2, SatelliteWritesNewMonths
        <5> QED
          BY <1>1, <5>1, SatelliteAppends
      <4>3. sat \subseteq sat' /\ m \in Month
        BY <1>1, <2>a, <3>2, SatelliteAppends
      <4>4. \A x \in sat' : x.month \in Month
        BY DEF TypeInv, TypeOK, SatRow
      <4> QED
        BY <4>1, <4>2, <4>3, <4>4, LaterRowsDoNotMatter
    <3> QED
      BY <2>3, <3>1, <3>2
  <2> QED
    BY <2>1, <2>2, <2>3 DEF SatelliteTellsHistory, Chosen, Payloads, Bronze
<1>2. CASE UNCHANGED <<sat, satMonths>>
  <2> SUFFICES ASSUME NEW k \in Key, NEW m \in satMonths, (Payloads(k, m) # {})'
               PROVE  Says(sat, k, m, Chosen(k, m)')
    BY <1>2 DEF SatelliteTellsHistory, Says, UpTo
  <2>1. Payloads(k, m)' = Payloads(k, m) /\ Chosen(k, m)' = Chosen(k, m)
    BY SnapshotStays DEF SettledInv, Settled, TypeInv, TypeOK
  <2> QED
    BY <2>1 DEF SatelliteTellsHistory
<1>3. CASE ~LoadSatellite
  BY <1>2, <1>3 DEF Next, Gate, Promote, Launch, LoadHub, LoadLink, LoadEffectivity, vars
<1> QED
  BY <1>1, <1>3

LEMMA SatChangesStep ==
  ASSUME TypeInv, RowsInv, InOrder, SatelliteTellsHistory, SatChanges, [Next]_vars
  PROVE  SatChanges'
<1>1. CASE LoadSatellite
  <2> DEFINE C == SatelliteCandidates
             N == Changed(C, Values(sat))
             valued(x) == [key |-> x.key, month |-> x.month, value |-> x.value]
  <2>1. /\ sat \subseteq sat'
        /\ \A x \in sat' : x \in sat \/ \E c \in N :
             x.key = c.key /\ x.month = c.month /\ x.value = c.value
        /\ Values(sat') = Values(sat) \cup N
    BY <1>1, SatelliteAppends
  <2>2. Task("sat")
    BY <1>1 DEF LoadSatellite
  <2>3. done # RunTask
    BY <2>2, TaskRuns DEF RunTask
  <2>4. \A c \in N : c.month \in Month /\ \A m \in satMonths : m < c.month
    BY <2>3, SatelliteWritesNewMonths DEF TypeInv, TypeOK
  <2>5. \A x \in sat : x.month \in satMonths /\ x.month \in Month
    BY DEF RowsInv, SatRowsTrue, TypeInv, TypeOK
  <2>6. \A x \in sat' : valued(x) \in Values(sat')
    BY DEF Values
  <2>7. \A v \in Values(sat') : \E x \in sat' : v.key = x.key /\ v.month = x.month
    BY DEF Values
  <2>8. ASSUME NEW x \in sat', NEW y \in sat',
               x.key = y.key, x.month < y.month, x.value = y.value
        PROVE  \E z \in sat' : z.key = x.key /\ x.month < z.month /\ z.month < y.month
    <3>1. CASE y \in sat
      <4>1. x \in sat
        <5> SUFFICES ASSUME x \notin sat PROVE FALSE
          OBVIOUS
        <5>1. PICK c \in N : x.month = c.month
          BY <2>1
        <5>2. y.month < x.month
          BY <2>4, <2>5, <3>1, <5>1
        <5>3. x.month \in Nat /\ y.month \in Nat
          BY <2>4, <2>5, <3>1, <5>1, VaultAssumption DEF Month
        <5> QED
          BY <2>8, <5>2, <5>3
      <4> QED
        BY <2>1, <2>8, <3>1, <4>1 DEF SatChanges
    <3>2. CASE y \notin sat
      <4>1. PICK c \in N : y.key = c.key /\ y.month = c.month /\ y.value = c.value
        BY <2>1, <3>2
      <4>2. valued(x) \in Values(sat) \cup N
        BY <2>1, <2>6
      <4>3. valued(x).key = c.key /\ valued(x).month < c.month /\ valued(x).value = c.value
        BY <2>8, <4>1
      <4>4. Dated(C) /\ Dated(Values(sat)) /\ Agree(C, C) /\ Agree(C, Values(sat))
            /\ Agree(Values(sat), Values(sat))
        BY SatelliteCandidateFacts, SatelliteMeets DEF TypeInv
      <4>5. \E z \in Values(sat) \cup N :
              z.key = c.key /\ valued(x).month < z.month /\ z.month < c.month
        <5> HIDE DEF C, valued
        <5> QED
          BY <4>2, <4>3, <4>4, ChangedIsAChange
      <4>6. PICK z \in sat' : z.key = c.key /\ x.month < z.month /\ z.month < c.month
        BY <2>1, <2>7, <4>5
      <4> QED
        BY <2>8, <4>1, <4>6
    <3> QED
      BY <3>1, <3>2
  <2> QED
    BY <2>8 DEF SatChanges
<1>2. CASE UNCHANGED sat
  BY <1>2 DEF SatChanges
<1>3. CASE ~LoadSatellite
  BY <1>2, <1>3 DEF Next, Gate, Promote, Launch, LoadHub, LoadLink, LoadEffectivity, vars
<1> QED
  BY <1>1, <1>3

SatInv ==
  TypeInv /\ SettledInv /\ RowsInv /\ InOrder /\ SatelliteTellsHistory /\ SatChanges

LEMMA SatInvHolds ==
  ASSUME "promote_first" \in Orders, "in_order" \in Orders
  PROVE  Spec => []SatInv
<1>1. Init => SatInv
  <2>1. Init => InOrder /\ SatelliteTellsHistory /\ SatChanges
    BY DEF Init, InOrder, SatelliteTellsHistory, SatChanges
  <2> QED
    BY <2>1, TypesInit, SettledInit, RowsInit DEF SatInv
<1>2. SatInv /\ [Next]_vars => SatInv'
  BY TypesStep, SettledStep, RowsStep, InOrderStep, SatelliteTellsStep, SatChangesStep DEF SatInv
<1> QED
  BY <1>1, <1>2, PTL DEF Spec

\* Where months are promoted before a run covers them and loaded in their
\* order, as of every month loaded the satellite says what the source said.
THEOREM SatelliteHistory ==
  ASSUME "promote_first" \in Orders, "in_order" \in Orders
  PROVE  Spec => []SatelliteTellsHistory
<1>1. SatInv => SatelliteTellsHistory
  BY DEF SatInv
<1> QED
  BY <1>1, SatInvHolds, PTL

\* There, too, every row of the satellite is a change of value, and neither
\* satellite has two rows of a key and month.
THEOREM RowsAreChanges ==
  ASSUME "promote_first" \in Orders, "in_order" \in Orders
  PROVE  Spec => []EachRowIsAChange
<1>1. SatInv => EachRowIsAChange
  BY DEF SatInv, RowsInv, SatChanges, EachRowIsAChange
<1> QED
  BY <1>1, SatInvHolds, PTL

-----------------------------------------------------------------------------
(* Windows that go on to the newest month: the effectivity satellite tells *)
(* what its loads stated.                                                  *)

ToNewest == done # RunTask => GoesOn(window)

LEMMA ToNewestStep ==
  ASSUME "to_newest" \in Orders, TypeInv, ToNewest, [Next]_vars
  PROVE  ToNewest'
<1>1. CASE \/ \E m \in Month, f \in File : Gate(m, f)
           \/ \E m \in Month : Promote(m)
           \/ UNCHANGED vars
  BY <1>1 DEF Gate, Promote, run, vars, ToNewest, GoesOn, effMonths
<1>2. CASE \E w \in SUBSET Month : Launch(w)
  BY <1>2 DEF Launch, ToNewest, GoesOn, effMonths
<1>3. CASE LoadHub \/ LoadLink \/ LoadSatellite
  <2>1. \E t \in RunTask : Task(t)
    BY <1>3 DEF LoadHub, LoadLink, LoadSatellite, RunTask
  <2>2. done # RunTask /\ window' = window
    BY <2>1, TaskRuns
  <2>3. effWindows' = effWindows
    BY <1>3 DEF LoadHub, LoadLink, LoadSatellite
  <2> QED
    BY <2>2, <2>3 DEF ToNewest, GoesOn, effMonths
<1>4. CASE LoadEffectivity
  <2>1. Task("eff") /\ effWindows' = effWindows \cup {window}
    BY <1>4 DEF LoadEffectivity
  <2>2. window' = window
    BY <2>1, TaskRuns DEF RunTask
  <2> QED
    BY <2>1, <2>2 DEF ToNewest, GoesOn
<1> QED
  BY <1>1, <1>2, <1>3, <1>4 DEF Next

\* What is stated over promoted months stays stated.
LEMMA StatementsStay ==
  ASSUME TypeInv, [Next]_vars, NEW w \in SUBSET Month, \A m \in w : phase[m] = "promoted"
  PROVE  Statements(w)' = Statements(w)
<1>1. \A m \in w : InBronze(m)' = InBronze(m) /\ InQuarantine(m)' = InQuarantine(m)
  BY SnapshotStays
<1>2. \A r : Presence(r, w)' = Presence(r, w)
  BY <1>1 DEF Presence
<1>3. ASSUME NEW r, NEW m \in w PROVE Closes(r, m, w)' = Closes(r, m, w)
  <2>1. InBronze(m)' = InBronze(m) /\ InQuarantine(m)' = InQuarantine(m)
        /\ Presence(r, w)' = Presence(r, w)
    BY <1>1, <1>2
  <2>2. State(r, m, w)' = State(r, m, w)
    BY <2>1, Zenon DEF State
  <2> QED
    BY <2>2 DEF Closes
<1>4. ASSUME NEW c \in [key : Rel, month : w, value : BOOLEAN]
      PROVE  (c \in Statements(w)') <=> (c \in Statements(w))
  <2>1. c.month \in w
    OBVIOUS
  <2>2. InBronze(c.month)' = InBronze(c.month) /\ Presence(c.key, w)' = Presence(c.key, w)
        /\ Closes(c.key, c.month, w)' = Closes(c.key, c.month, w)
    BY <1>1, <1>2, <1>3, <2>1
  <2> QED
    BY <2>2, Zenon DEF Statements
<1>5. Statements(w) \subseteq [key : Rel, month : w, value : BOOLEAN]
      /\ Statements(w)' \subseteq [key : Rel, month : w, value : BOOLEAN]
  BY Zenon DEF Statements
<1> QED
  BY <1>4, <1>5, Zenon

\* What the statements of a load meet in the table.
LEMMA EffectivityMeets ==
  ASSUME TypeInv, RowsInv
  PROVE  /\ Dated(Values(eff)) /\ Agree(Values(eff), Values(eff))
         /\ Agree(Statements(window), Values(eff))
<1>1. Dated(Values(eff)) /\ Agree(Values(eff), Values(eff))
  <2>1. \A x \in eff : x.month \in Month
    BY DEF TypeInv, TypeOK, EffRow
  <2> QED
    BY <2>1, ValuesFacts DEF RowsInv
<1>2. ASSUME NEW c \in Statements(window), NEW v \in Values(eff),
             c.key = v.key, c.month = v.month
      PROVE  c.value = v.value
  <2>1. PICK e \in eff : v = [key |-> e.key, month |-> e.month, value |-> e.value]
    BY DEF Values
  <2>2. e.value = (e.key \in InBronze(e.month))
    BY DEF RowsInv, EffRowsTrue
  <2>3. c.value = (c.key \in InBronze(c.month))
    BY StatementFacts DEF TypeInv, TypeOK
  <2> QED
    BY <1>2, <2>1, <2>2, <2>3
<1> QED
  BY <1>1, <1>2 DEF Agree

\* Over a window it was loaded over, the effectivity satellite has nothing to
\* append.
LEMMA RepeatedWindow ==
  ASSUME TypeInv, RowsInv, EffectivityTellsHistory, window \in effWindows
  PROVE  Changed(Statements(window), Values(eff)) = {}
<1> DEFINE C == Statements(window)
<1>1. Dated(C) /\ Dated(Values(eff)) /\ Agree(Values(eff), Values(eff))
  BY StatementFacts, EffectivityMeets DEF TypeInv, TypeOK
<1>2. \A d \in C : Says(Values(eff), d.key, d.month, d.value)
  BY SaysByValues DEF EffectivityTellsHistory
<1>3. ASSUME NEW c \in C PROVE c \notin Changed(C, Values(eff))
  <2> HIDE DEF C
  <2> QED
    BY <1>1, <1>2, ToldAlready
<1> QED
  BY <1>3 DEF Changed

\* What was stated over an earlier window and is not stated over this one lies
\* before every row this load writes of the relationship.
LEMMA UnstatedIsBefore ==
  ASSUME TypeInv, RowsInv, EffectivityTellsHistory, GoesOn(window),
         NEW w \in effWindows, NEW c \in Statements(w), c \notin Statements(window),
         NEW d \in Changed(Statements(window), Values(eff)), d.key = c.key
  PROVE  c.month < d.month
<1>a. window \in SUBSET Month /\ w \in SUBSET Month
  BY DEF TypeInv, TypeOK
<1>1. d \in Statements(window)
  BY DEF Changed
<1>2. /\ d.month \in window /\ d.value \in BOOLEAN /\ d.value = (d.key \in InBronze(d.month))
      /\ ~d.value => Presence(d.key, window) # {} /\ Closes(d.key, d.month, window)
  BY <1>a, <1>1, StatementFacts
<1>3. /\ Candidate(c) /\ c.key \in Rel /\ c.month \in w /\ c.value \in BOOLEAN
      /\ c.value = (c.key \in InBronze(c.month))
      /\ ~c.value => Presence(c.key, w) # {} /\ Closes(c.key, c.month, w)
  BY <1>a, StatementFacts
<1>4. c.month \in Nat /\ d.month \in Nat /\ \A x \in window : x \in Nat
  <2>1. \A x \in Month : x \in Nat
    BY VaultAssumption DEF Month
  <2> QED
    BY <1>a, <1>2, <1>3, <2>1
<1> SUFFICES ASSUME d.month <= c.month PROVE FALSE
  BY <1>4
<1>5. c.month \in window
  <2>1. window \notin effWindows
    BY RepeatedWindow
  <2>2. c.month \in effMonths
    BY <1>3 DEF effMonths
  <2>3. d.month < c.month => c.month \in window
    BY <1>2, <2>1, <2>2 DEF GoesOn
  <2> QED
    BY <1>2, <1>4, <2>3
<1>6. ~c.value
  <2> SUFFICES ASSUME c.value PROVE c \in Statements(window)
    OBVIOUS
  <2> QED
    BY <1>3, <1>5 DEF Statements, Candidate
<1>7. c.key \notin InBronze(c.month) /\ c.key \notin InQuarantine(c.month)
  BY <1>a, <1>3, <1>6, WhatCloses
<1>8. \E x \in Presence(c.key, window) : x < c.month
  <2>1. CASE d.value
    <3>1. d.month \in Presence(c.key, window)
      BY <1>2, <2>1 DEF Presence
    <3>2. d.month # c.month
      BY <1>2, <1>7, <2>1
    <3> QED
      BY <1>4, <3>1, <3>2
  <2>2. CASE ~d.value
    <3>1. \E x \in Presence(c.key, window) : x < d.month
      BY <1>a, <1>2, <2>2, WhatCloses
    <3>2. \A x \in Presence(c.key, window) : x \in Nat
      BY <1>4 DEF Presence
    <3> QED
      BY <1>4, <3>1, <3>2
  <2> QED
    BY <1>2, <2>1, <2>2
<1>9. Presence(c.key, window) # {} /\ Closes(c.key, c.month, window)
  BY <1>a, <1>5, <1>7, <1>8, WhatCloses
<1> QED
  BY <1>3, <1>5, <1>6, <1>9 DEF Statements, Candidate

LEMMA EffectivityTellsStep ==
  ASSUME TypeInv, TypeInv', SettledInv, SettledInv', RowsInv, ToNewest,
         EffectivityTellsHistory, [Next]_vars
  PROVE  EffectivityTellsHistory'
<1>a. window \in SUBSET Month /\ effWindows \in SUBSET SUBSET Month
  BY DEF TypeInv, TypeOK
<1>1. CASE LoadEffectivity
  <2>1. Task("eff") /\ (\A m \in window : Seen(m)) /\ effWindows' = effWindows \cup {window}
    BY <1>1 DEF LoadEffectivity
  <2>2. done # RunTask
    BY <2>1, TaskRuns DEF RunTask
  <2> DEFINE C == Statements(window)
             N == Changed(C, Values(eff))
  <2>3. ASSUME NEW w \in effWindows \cup {window}, NEW c \in Statements(w)
        PROVE  Says(eff', c.key, c.month, c.value)
    <3>1. CASE c \in C
      <4>1. /\ Dated(C) /\ Dated(Values(eff)) /\ Agree(C, C) /\ Agree(C, Values(eff))
        BY <1>a, StatementFacts, EffectivityMeets
      <4>2. Says(Values(eff) \cup N, c.key, c.month, c.value)
        <5> HIDE DEF C
        <5> QED
          BY <3>1, <4>1, ChangedTells
      <4>3. Says(Values(eff'), c.key, c.month, c.value)
        BY <1>1, <4>2, EffectivityAppends
      <4> QED
        BY <4>3, SaysByValues
    <3>2. CASE c \notin C
      <4>1. w \in effWindows /\ c.month \in Month
        BY <1>a, <3>2, StatementFacts
      <4>2. Says(eff, c.key, c.month, c.value)
        BY <4>1 DEF EffectivityTellsHistory
      <4>3. GoesOn(window)
        BY <2>2 DEF ToNewest
      <4>4. \A d \in N : d.key = c.key => c.month < d.month
        BY <3>2, <4>1, <4>3, UnstatedIsBefore
      <4>5. eff \subseteq eff' /\ \A x \in eff' : x \in eff \/ x.key # c.key \/ c.month < x.month
        BY <1>1, <4>4, EffectivityAppends
      <4>6. \A x \in eff' : x.month \in Month
        BY DEF TypeInv, TypeOK, EffRow
      <4> HIDE DEF C, N
      <4> QED
        BY <4>1, <4>2, <4>5, <4>6, LaterRowsDoNotMatter
    <3> QED
      BY <3>1, <3>2
  <2>4. \A w \in effWindows \cup {window} : Statements(w)' = Statements(w)
    <3>1. \A m \in window : phase[m] = "promoted"
      BY <2>1, <2>2, SeenIsPromoted DEF SettledInv
    <3>2. ASSUME NEW w \in effWindows \cup {window} PROVE Statements(w)' = Statements(w)
      BY <1>a, <3>1, StatementsStay DEF SettledInv, Settled
    <3> QED
      BY <3>2
  <2> QED
    BY <2>1, <2>3, <2>4 DEF EffectivityTellsHistory
<1>2. CASE UNCHANGED <<eff, effWindows>>
  <2>1. \A w \in effWindows : Statements(w)' = Statements(w)
    BY <1>a, StatementsStay DEF SettledInv, Settled
  <2> SUFFICES ASSUME NEW w \in effWindows, NEW c \in Statements(w)'
               PROVE  Says(eff, c.key, c.month, c.value)
    BY <1>2 DEF EffectivityTellsHistory, Says, UpTo
  <2> QED
    BY <2>1 DEF EffectivityTellsHistory
<1>3. CASE ~LoadEffectivity
  BY <1>2, <1>3 DEF Next, Gate, Promote, Launch, LoadHub, LoadLink, LoadSatellite, vars
<1> QED
  BY <1>1, <1>3

EffInv == TypeInv /\ SettledInv /\ RowsInv /\ ToNewest /\ EffectivityTellsHistory

LEMMA EffInvHolds ==
  ASSUME "promote_first" \in Orders, "to_newest" \in Orders
  PROVE  Spec => []EffInv
<1>1. Init => EffInv
  <2>1. Init => ToNewest /\ EffectivityTellsHistory
    BY DEF Init, ToNewest, EffectivityTellsHistory
  <2> QED
    BY <2>1, TypesInit, SettledInit, RowsInit DEF EffInv
<1>2. EffInv /\ [Next]_vars => EffInv'
  BY TypesStep, SettledStep, RowsStep, ToNewestStep, EffectivityTellsStep DEF EffInv
<1> QED
  BY <1>1, <1>2, PTL DEF Spec

\* Where months are promoted before a run covers them and a new window goes on
\* to the newest month covered, the effectivity satellite still says whatever
\* any of its loads stated.
THEOREM EffectivityHistory ==
  ASSUME "promote_first" \in Orders, "to_newest" \in Orders
  PROVE  Spec => []EffectivityTellsHistory
<1>1. EffInv => EffectivityTellsHistory
  BY DEF EffInv
<1> QED
  BY <1>1, EffInvHolds, PTL

\* Where operators keep every order, a re-run appends nothing.
THEOREM RerunsAppendNothing ==
  ASSUME "promote_first" \in Orders, "in_order" \in Orders, "to_newest" \in Orders
  PROVE  Spec => RepeatAppendsNothing
<1> DEFINE Step == /\ LoadSatellite /\ window \subseteq satMonths => UNCHANGED sat
                   /\ LoadEffectivity /\ window \in effWindows => UNCHANGED eff
<1>1. ASSUME SatInv, LoadSatellite, window \subseteq satMonths PROVE sat' = sat
  <2>1. Task("sat")
    BY <1>1 DEF LoadSatellite
  <2>2. done # RunTask
    BY <1>1, <2>1, TaskRuns DEF SatInv, RunTask
  <2>3. Changed(SatelliteCandidates, Values(sat)) = {}
    BY <1>1, <2>2, SatelliteWritesNewMonths DEF SatInv
  <2> QED
    BY <1>1, <2>3 DEF LoadSatellite
<1>2. ASSUME EffInv, LoadEffectivity, window \in effWindows PROVE eff' = eff
  <2>1. Changed(Statements(window), Values(eff)) = {}
    BY <1>2, RepeatedWindow DEF EffInv
  <2> QED
    BY <1>2, <2>1 DEF LoadEffectivity
<1>3. SatInv /\ EffInv /\ [Next]_vars => [Step]_vars
  BY <1>1, <1>2
<1> QED
  BY <1>3, SatInvHolds, EffInvHolds, PTL DEF Spec, RepeatAppendsNothing


\* With months promoted first and loaded in order, no satellite row hangs in the
\* air, each is a change, and the satellite reads back as the source's history.
THEOREM VersionsHistory ==
  ASSUME "promote_first" \in Orders, "in_order" \in Orders
  PROVE  Spec => []VersionsTellHistory
<1>1. NothingDangles /\ EachRowIsAChange /\ SatelliteTellsHistory => VersionsTellHistory
  BY DEF VersionsTellHistory
<1> QED
  BY <1>1, NoRowDangles, RowsAreChanges, SatelliteHistory, PTL

\* With months promoted first and windows that go on to the newest month, what is
\* closed left the source and the satellite reads back as the source's history.
THEOREM DeparturesHistory ==
  ASSUME "promote_first" \in Orders, "to_newest" \in Orders
  PROVE  Spec => []DeparturesTellHistory
<1>1. ClosesAreDepartures /\ EffectivityTellsHistory => DeparturesTellHistory
  BY DEF DeparturesTellHistory
<1> QED
  BY <1>1, ClosesDeparted, EffectivityHistory, PTL
=============================================================================

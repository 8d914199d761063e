------------------------------- MODULE DqRules -------------------------------
(***************************************************************************)
(* opl.bronze.rules, rule_predicates, dq and rule_overlap: the ordered rule *)
(* set of a contract read over a staged frame, by the gate -- which reports *)
(* the first rule that matches -- and by the measurement, which counts them *)
(* all.  Predicates are Spark's, three-valued: "T", "F", and "N" on NULL.  *)
(* A cell is "good" or what is wrong with it: "null", "blank", "misfit"    *)
(* (not the column's shape), "lost" (holds U+FFFD), "divergent" (holds a    *)
(* character two case tables disagree on).                                 *)
(***************************************************************************)
EXTENDS Integers, Sequences, FiniteSets, SequencesExt

CONSTANTS
  ColumnsOf,    \* contract -> its columns
  RequiredOf,   \* contract -> REQUIRED_FIELDS, in order
  ShapesOf,     \* contract -> <<shape, column>>, in the order of its rule set
  Divergence,   \* contracts with a case-divergence rule
  RefDated,     \* contracts with a reference-date rule
  Wear          \* bound: flaws of the first, second ... row of a batch

Shape == {"basico", "iso date", "decimal", "publication", "cnpj", "instant"}

\* The shapes whose rule answers NULL of a NULL are of columns that are required.
ASSUME DqAssumption ==
  /\ \A c \in DOMAIN ColumnsOf :
       /\ IsFiniteSet(ColumnsOf[c])
       /\ RequiredOf[c] \in Seq(ColumnsOf[c]) /\ ShapesOf[c] \in Seq(Shape \X ColumnsOf[c])
       /\ \A s \in ToSet(ShapesOf[c]) :
            s[1] \in {"basico", "cnpj", "instant"} => s[2] \in ToSet(RequiredOf[c])
  /\ Wear \in Seq(Nat)

VARIABLES
  frame,   \* the contract, and which audit columns the staging table has
  batch,   \* its rows, staged
  split    \* [good, bad] positions after the gate, {} before

dqVars == <<frame, batch, split>>

Flaw == {"null", "blank", "misfit", "lost", "divergent"}
Columns == ColumnsOf[frame.contract]

------------------------------------------------------------------------------
(* Spark's predicates. *)

Is(truth) == IF truth THEN "T" ELSE "F"
Of(cell, truth) == IF cell = "null" THEN "N" ELSE Is(truth)

Either(answers) ==
  IF "T" \in answers THEN "T" ELSE IF "N" \in answers THEN "N" ELSE "F"

NullOrBlank(cell) == Either({Is(cell = "null"), Of(cell, cell = "blank")})
BasicoLength(cell) == Of(cell, cell \in {"blank", "misfit"})
BadIsoDate(cell) == Either({Of(cell, cell # "good"), Is(cell # "good")})
UnparseableDecimal(cell) == Is(cell # "good")
UnparseablePublicationInstant(cell) == Either({Of(cell, cell # "good"), Is(cell # "good")})
BadCnpj(cell) == Either({Of(cell, cell \in {"blank", "misfit"}),
                         Of(cell, cell \in {"misfit", "lost", "divergent"})})
BadSnapshotInstant(cell) == Either({Of(cell, cell # "good"), Of(cell, cell \in {"blank", "misfit"})})

Misshapen(shape, cell) ==
  CASE shape = "basico" -> BasicoLength(cell)
    [] shape = "iso date" -> BadIsoDate(cell)
    [] shape = "decimal" -> UnparseableDecimal(cell)
    [] shape = "publication" -> UnparseablePublicationInstant(cell)
    [] shape = "cnpj" -> BadCnpj(cell)
    [] shape = "instant" -> BadSnapshotInstant(cell)

\* mutant: a NULL in any column makes the whole chain NULL.
AnyColumnUnlessNull(row, flaw) ==
  IF \E c \in Columns : row.cells[c] = "null" THEN "N"
  ELSE Either({"F"} \cup {Of(row.cells[c], row.cells[c] = flaw) : c \in Columns})

\* _encoding_check and _case_divergence_check: a chain of ORs that begins at FALSE.
AnyColumn(row, flaw) ==
  Either({"F"} \cup {Of(row.cells[c], row.cells[c] = flaw) : c \in Columns})

EncodingCheck(row) == AnyColumn(row, "lost")
CaseDivergenceCheck(row) == AnyColumn(row, "divergent")
UnprovableRefDate(row) == Is(~row.dated)

------------------------------------------------------------------------------
(* rules_for: a rule is what it asks and of which column. *)

Each(kind, columns) == [i \in DOMAIN columns |-> <<kind, columns[i]>>]
When(contracts, contract, rule) == IF contract \in contracts THEN <<rule>> ELSE <<>>

RulesFor ==
  [contract \in DOMAIN ColumnsOf |->
     Each("required", RequiredOf[contract]) \o ShapesOf[contract] \o <<<<"encoding", "*">>>>
     \o When(Divergence, contract, <<"divergence", "*">>)
     \o When(RefDated, contract, <<"ref date", "*">>)]

\* skipped_rules: the one rule that reads a column of no contract.
Skipped(rule) == rule[1] = "ref date" /\ ~frame.refDated

Rule(i) == RulesFor[frame.contract][i]

\* rule_conditions: the rules that run, by their place in the set.
Rules == {i \in DOMAIN RulesFor[frame.contract] : ~Skipped(Rule(i))}

Condition(rule, row) ==
  CASE rule[1] = "required" -> NullOrBlank(row.cells[rule[2]])
    [] rule[1] = "encoding" -> EncodingCheck(row)
    [] rule[1] = "divergence" -> CaseDivergenceCheck(row)
    [] rule[1] = "ref date" -> UnprovableRefDate(row)
    [] OTHER -> Misshapen(rule[1], row.cells[rule[2]])

RescuedCondition(row) == Is(frame.rescues /\ row.rescued)

\* _reject_reason: the first that is TRUE; 0 is rescued_data_present.
RejectReason(row) ==
  LET matching == {i \in Rules : Condition(Rule(i), row) = "T"}
  IN IF RescuedCondition(row) = "T" THEN {0}
     ELSE {i \in matching : \A j \in matching : i <= j}

------------------------------------------------------------------------------
(* rule_overlap: what every rule matches. *)

\* mutant: what is not false is counted.
HitsUnlessFalse(answer) == answer # "F"

\* _hits
Hits(answer) == answer = "T"

\* aggregate_columns: one pass, every number of it.
Overlap ==
  LET matches == [p \in DOMAIN batch |-> {i \in Rules : Hits(Condition(Rule(i), batch[p]))}]
      rescued == {p \in DOMAIN batch : Hits(RescuedCondition(batch[p]))}
  IN [rescued |-> Cardinality(rescued),
      twoOrMore |-> Cardinality({p \in DOMAIN batch : Cardinality(matches[p]) >= 2}),
      rescuedAndARule |-> Cardinality({p \in rescued : matches[p] # {}}),
      perRule |-> [i \in Rules |-> Cardinality({p \in DOMAIN batch : i \in matches[p]})]]

------------------------------------------------------------------------------
\* How much is wrong with a row, and the rows with no more than n wrong.
Flaws(row) ==
  Cardinality({c \in Columns : row.cells[c] # "good"})
    + (IF row.dated THEN 0 ELSE 1) + (IF row.rescued THEN 1 ELSE 0)

WornIn(S) == {[c \in Columns |-> IF c \in S THEN f[c] ELSE "good"] : f \in [S -> Flaw]}

WornBy(n) ==
  LET cells == UNION {WornIn(S) : S \in {T \in SUBSET Columns : Cardinality(T) <= n}}
  IN  {row \in [cells : cells, dated : BOOLEAN, rescued : BOOLEAN] : Flaws(row) <= n}

DqInit ==
  /\ frame \in [contract : DOMAIN ColumnsOf, refDated : BOOLEAN, rescues : BOOLEAN]
  /\ batch = <<>> /\ split = {}

Stage ==
  /\ split = {} /\ Len(batch) < Len(Wear)
  /\ \E row \in WornBy(Wear[Len(batch) + 1]) : batch' = Append(batch, row)
  /\ UNCHANGED <<frame, split>>

\* dq.split, over what dq.evaluate tagged.
Split ==
  /\ split = {} /\ batch # <<>>
  /\ LET bad == {p \in DOMAIN batch : RejectReason(batch[p]) # {}}
     IN split' = {[good |-> (DOMAIN batch) \ bad, bad |-> bad]}
  /\ UNCHANGED <<frame, batch>>

DqNext == Stage \/ Split

DqSpec == DqInit /\ [][DqNext]_dqVars

------------------------------------------------------------------------------
\* A trimmed width says nothing of the characters.
WellShaped(shape) ==
  IF shape = "basico" THEN {"good", "lost", "divergent"} ELSE {"good"}

\* What a row of bronze is owed, column by column, whatever the rules are: every
\* required column filled, every shaped one well shaped, no lost byte anywhere,
\* no divergent character where the vault hashes, nothing rescued, and a
\* reference date where the frame carries one.
Sound(row) ==
  LET contract == frame.contract
      Cell(c) == row.cells[c]
  IN /\ \A c \in ToSet(RequiredOf[contract]) : Cell(c) \notin {"null", "blank"}
     /\ \A c \in Columns : Cell(c) # "lost"
     /\ contract \in Divergence => \A c \in Columns : Cell(c) # "divergent"
     /\ \A s \in ToSet(ShapesOf[contract]) : Cell(s[2]) \in WellShaped(s[1])
     /\ frame.rescues => ~row.rescued
     /\ contract \in RefDated /\ frame.refDated => row.dated

\* The gate promotes exactly the sound rows: no NULL answer of one predicate, in
\* a column that may be NULL or in one that may not, lets a flaw of another
\* column through (dq._reject_reason).
GatePromotesTheSound ==
  \A s \in split : \A p \in DOMAIN batch : p \in s.good <=> Sound(batch[p])

\* The measurement and the gate cannot disagree (rule_overlap.py: "the two
\* agreeing is the whole value"): a reason is never reported for more rows than
\* the rule matches, and for every rule it is exactly as many when, and only
\* when, no row matches two and no rescued row matches any.
OverlapExplainsTheReasons ==
  \A s \in split :
    LET reason == [p \in s.bad |-> RejectReason(batch[p])]
        overlap == Overlap
        Reported(i) == Cardinality({p \in s.bad : i \in reason[p]})
    IN /\ Reported(0) = overlap.rescued
       /\ \A i \in DOMAIN overlap.perRule : Reported(i) <= overlap.perRule[i]
       /\ (\A i \in DOMAIN overlap.perRule : Reported(i) = overlap.perRule[i])
            <=> overlap.twoOrMore = 0 /\ overlap.rescuedAndARule = 0
=============================================================================

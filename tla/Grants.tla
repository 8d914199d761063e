------------------------------- MODULE Grants -------------------------------
(***************************************************************************)
(* Who may open the socios tables: databricks/src/apply_pii_governance.py  *)
(* brings the catalog's grants to the roster of opl.bronze.pii_governance, *)
(* one statement at a time, while administrators grant and revoke.         *)
(***************************************************************************)
EXTENDS Naturals, FiniteSets

CONSTANTS
  Governed,   \* the bronze, quarantine and staging tables it governs
  Principal,
  Roster,     \* PII_READERS
  MaxAdmin    \* bound: administrators' statements

ASSUME GrantsAssumption == Roster \subseteq Principal /\ MaxAdmin \in Nat

Schema == "schema"   \* the securable a table inherits grants from

Action == {"SELECT", "MODIFY", "ALL PRIVILEGES", "MANAGE"}

\* HARMLESS_ACTIONS: the only ones the task does not settle.
Harmless == {"MODIFY"}

Grant == [on : Governed \cup {Schema}, principal : Principal, action : Action]

\* A row of SHOW GRANTS ON TABLE.
Observed == [table : Governed, grant : Grant]

VARIABLES
  grants,    \* what the catalog holds
  tagged,    \* tables whose classified columns carry their tags
  run,       \* the task: [at, seen (its rows), looked (tables), done (statements)]
  since,     \* history: grants an administrator made since the run saw their table
  admin      \* administrators' statements so far

grantsVars == <<grants, tagged, run, since, admin>>

Idle == [at |-> "off", seen |-> {}, looked |-> {}, done |-> {}]

\* Type correctness of the grants and of the task.
GrantsTypeOK ==
  /\ grants \subseteq Grant /\ tagged \subseteq Governed /\ since \subseteq Grant
  /\ run.at \in {"off", "observe", "revoke", "grant", "tag", "success", "failed"}
  /\ run.seen \subseteq Observed /\ run.looked \subseteq Governed
  /\ run.done \subseteq Governed \X Principal
  /\ admin \in 0..MaxAdmin

\* Nobody was ever granted anything, or somebody was, out of band.
GrantsInit ==
  /\ grants \in {{}} \cup {{g} : g \in Grant} /\ tagged = {}
  /\ run = Idle /\ since = {} /\ admin = 0

\* The grants that apply to t, wherever they were made.
Shown(t) == {g \in grants : g.on \in {t, Schema}}

\* grants_to_settle: by exclusion.
ToSettle(g) == g.action \notin Harmless

\* The one shape a REVOKE SELECT ON TABLE removes.
Revocable(g) == g.action = "SELECT" /\ g.on # Schema

Direct(t, p) == [on |-> t, principal |-> p, action |-> "SELECT"]

\* plan_grants over the rows seen of t, and the reads no plan can close.
Held(t)      == {o.grant.principal : o \in {s \in run.seen : s.table = t /\ Revocable(s.grant)}}
Revokes      == {s \in Governed \X Principal : s[2] \in Held(s[1]) \ Roster}
Grantings    == {s \in Governed \X Principal : s[2] \in Roster \ Held(s[1])}
Escalations  == {o \in run.seen : ~Revocable(o.grant)}

Starts ==
  /\ run.at \in {"off", "success", "failed"}
  /\ run' = [Idle EXCEPT !.at = "observe"] /\ since' = {}
  /\ UNCHANGED <<grants, tagged, admin>>

\* Every table is read before any statement is issued.
Observe ==
  /\ run.at = "observe"
  /\ \E t \in Governed \ run.looked :
       run' = [run EXCEPT !.looked = @ \cup {t},
                          !.seen = @ \cup {[table |-> t, grant |-> g] : g \in {h \in Shown(t) : ToSettle(h)}},
                          !.at = IF run.looked \cup {t} = Governed THEN "revoke" ELSE @]
  /\ UNCHANGED <<grants, tagged, since, admin>>

\* mutant: table by table, so a grant may precede another table's revokes
RevokesOfOneTable ==
  /\ run.at = "revoke"
  /\ \/ \E s \in Revokes \ run.done :
          /\ grants' = grants \ {Direct(s[1], s[2])}
          /\ run' = [run EXCEPT !.done = @ \cup {s}]
     \/ /\ \E t \in Governed : {s \in Revokes : s[1] = t} \subseteq run.done
        /\ run' = [run EXCEPT !.at = "grant"] /\ UNCHANGED grants
  /\ UNCHANGED <<tagged, since, admin>>

Revoke ==
  /\ run.at = "revoke"
  /\ \/ \E s \in Revokes \ run.done :
          /\ grants' = grants \ {Direct(s[1], s[2])}
          /\ run' = [run EXCEPT !.done = @ \cup {s}]
     \/ /\ Revokes \subseteq run.done /\ run' = [run EXCEPT !.at = "grant"]
        /\ UNCHANGED grants
  /\ UNCHANGED <<tagged, since, admin>>

GrantRoster ==
  /\ run.at = "grant"
  /\ \/ \E s \in Grantings \ run.done :
          /\ grants' = grants \cup {Direct(s[1], s[2])}
          /\ run' = [run EXCEPT !.done = @ \cup {s}]
     \/ /\ Grantings \subseteq run.done /\ run' = [run EXCEPT !.at = "tag"]
        /\ UNCHANGED grants
  /\ UNCHANGED <<tagged, since, admin>>

\* The tags, and only then the failure for what could not be withdrawn.
Tag ==
  /\ run.at = "tag"
  /\ \/ \E t \in Governed \ tagged : tagged' = tagged \cup {t} /\ UNCHANGED run
     \/ /\ tagged = Governed /\ UNCHANGED tagged
        /\ run' = [run EXCEPT !.at = IF Escalations = {} THEN "success" ELSE "failed"]
  /\ UNCHANGED <<grants, since, admin>>

\* A statement raises, or the process is killed.
Dies ==
  /\ run.at \in {"observe", "revoke", "grant", "tag"} /\ run' = Idle
  /\ UNCHANGED <<grants, tagged, since, admin>>

\* The securables whose grants the run has already read.
Looked(g) == g.on \in run.looked \/ (g.on = Schema /\ run.looked # {})

Administers ==
  /\ admin < MaxAdmin /\ admin' = admin + 1
  /\ \E g \in Grant :
       \/ /\ g \notin grants /\ grants' = grants \cup {g}
          /\ since' = IF Looked(g) THEN since \cup {g} ELSE since
       \/ g \in grants /\ grants' = grants \ {g} /\ since' = since \ {g}
  /\ UNCHANGED <<tagged, run>>

Task == Starts \/ Observe \/ Revoke \/ GrantRoster \/ Tag \/ Dies

GrantsNext == Task \/ Administers

GrantsSpec == GrantsInit /\ [][GrantsNext]_grantsVars

-----------------------------------------------------------------------------
(* Properties.                                                             *)

\* The task opens a table only when every read it had to withdraw, on every
\* table, is withdrawn, unless an administrator granted it again meanwhile: a
\* run that dies leaves no reader it meant to remove beside one it added
\* (_apply_grants: revokes across every table first, then grants).
RevokesPrecedeGrants ==
  [][GrantRoster /\ grants' # grants =>
       \A s \in Revokes : Direct(s[1], s[2]) \in grants => Direct(s[1], s[2]) \in since]_grantsVars

\* SUCCESS means that nobody outside the roster reads a governed table, or can
\* grant itself the read, except by a grant made after the task had looked
\* (unrevocable_grants and UngovernedRead; MODIFY is the harmless action).
SuccessMeansGoverned ==
  run.at = "success" =>
    \A g \in grants \ since :
      g.action \in {"SELECT", "ALL PRIVILEGES", "MANAGE"} =>
        g.action = "SELECT" /\ g.on \in Governed /\ g.principal \in Roster

\* The roster is granted to only once the task's revokes are through, and SUCCESS
\* means the control holds.
GovernedWhenGranted == RevokesPrecedeGrants /\ []SuccessMeansGoverned
=============================================================================

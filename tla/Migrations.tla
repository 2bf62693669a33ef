----------------------------- MODULE Migrations -----------------------------
(***************************************************************************)
(* RunMigrations (db/migrate.go) on a fresh database, by servers that      *)
(* start, fail, die and are started again, perhaps two at a time.  Each    *)
(* script is meant to run in one transaction with the row that records it. *)
(* A script is named by its version; what it creates matters only where a  *)
(* CREATE would fail because the object is already there.                  *)
(***************************************************************************)
EXTENDS Integers

CONSTANT Server

VARIABLES
    booting,    \* stage of the start of a server: [at, version]
    applied,    \* scripts whose objects are in the database
    recorded    \* rows of schema_migrations

migvars == <<booting, applied, recorded>>

Versions == 1..5

\* Objects a script creates if they are not there ...
CreatesIfMissing == [v \in Versions |-> IF v = 1 THEN {"tables", "audit_logs"} ELSE {}]

\* Seeded fault: the fourth script says IF NOT EXISTS.
CreatesButFourth ==
    <<{"triggers"}, {"uq_bank_accounts"}, {"chat_messages"}, {}, {"bank_fund_requests"}>>

\* ... and objects whose creation fails if they are.
Creates ==
    <<{"triggers"}, {"uq_bank_accounts"}, {"chat_messages"}, {"audit_logs"}, {"bank_fund_requests"}>>

\* Scripts with a BEGIN and COMMIT of their own: the COMMIT ends the
\* transaction RunMigrations has begun, and what follows commits at once.
EndsTransaction == {1}

Objects == UNION {Creates[v] \cup CreatesIfMissing[v] : v \in applied}

MigInit ==
    /\ booting = [s \in Server |-> [at |-> "down", version |-> 0]]
    /\ applied = {}
    /\ recorded = {}

Step(s, at, v) == booting' = [booting EXCEPT ![s] = [at |-> at, version |-> v]]

At(s, at) == booting[s].at = at

Version(s) == booting[s].version

Start(s) ==
    /\ At(s, "down")
    /\ Step(s, "check", 1)
    /\ UNCHANGED <<applied, recorded>>

\* Is the version recorded?  After the last one the server serves.
CheckVersion(s) ==
    /\ At(s, "check")
    /\ \/ Version(s) \notin Versions /\ Step(s, "serving", Version(s))
       \/ Version(s) \in recorded /\ Step(s, "check", Version(s) + 1)
       \/ Version(s) \in Versions \ recorded /\ Step(s, "apply", Version(s))
    /\ UNCHANGED <<applied, recorded>>

\* A server inside a transaction has locks on what it creates.
OpenElsewhere(s) ==
    \E q \in Server \ {s} :
        booting[q].at \in {"record", "commit"} /\ Version(q) \notin EndsTransaction

\* tx.Exec of the script.
Apply(s) ==
    /\ At(s, "apply")
    /\ ~OpenElsewhere(s)
    /\ Creates[Version(s)] \cap Objects = {}
    /\ Step(s, "record", Version(s))
    /\ applied' = IF Version(s) \in EndsTransaction THEN applied \cup {Version(s)} ELSE applied
    /\ UNCHANGED recorded

\* Seeded fault: the version is recorded through the pool.
RecordAtOnce(s) ==
    /\ At(s, "record")
    /\ Version(s) \notin recorded
    /\ Step(s, "commit", Version(s))
    /\ recorded' = recorded \cup {Version(s)}
    /\ UNCHANGED applied

\* tx.Exec of the INSERT; version is the primary key.
Record(s) ==
    /\ At(s, "record")
    /\ Version(s) \notin recorded
    /\ Step(s, "commit", Version(s))
    /\ recorded' = IF Version(s) \in EndsTransaction THEN recorded \cup {Version(s)} ELSE recorded
    /\ UNCHANGED applied

CommitMigration(s) ==
    /\ At(s, "commit")
    /\ Step(s, "check", Version(s) + 1)
    /\ applied' = applied \cup {Version(s)}
    /\ recorded' = recorded \cup {Version(s)}

\* A statement fails, for its own reasons or the database's, and main exits;
\* or the process dies.  An open transaction is rolled back.
Exit(s) ==
    /\ ~At(s, "down")
    /\ Step(s, "down", 0)
    /\ UNCHANGED <<applied, recorded>>

RunMigrations(s) ==
    Start(s) \/ CheckVersion(s) \/ Apply(s) \/ Record(s) \/ CommitMigration(s) \/ Exit(s)

MigNext == \E s \in Server : RunMigrations(s)

MigSpec == MigInit /\ [][MigNext]_migvars

-----------------------------------------------------------------------------

Boots == {"down", "check", "apply", "record", "commit", "serving"}

\* Types of the migrations.
MigTypeOK ==
    /\ booting \in [Server -> [at : Boots, version : 0..6]]
    /\ applied \subseteq Versions
    /\ recorded \subseteq Versions

\* RunMigrations, db/migrate.go:88.  A recorded script has been applied, and
\* an applied one is recorded, wherever a start ends and whoever starts at the
\* same time; except for a script that ends the transaction itself, which a
\* crash before line 98 leaves applied but not recorded (and the next start
\* then fails on its CREATE TRIGGER).
RecordedIsApplied ==
    /\ recorded \subseteq applied
    /\ applied \ recorded \subseteq EndsTransaction

\* main and RunMigrations, db/migrate.go:93.  On a fresh database no server
\* comes to serve: the fourth script creates the audit_logs table the first
\* one has already created.
FreshDatabaseIsNotServed == \A s \in Server : ~At(s, "serving")

=============================================================================

------------------------------ MODULE Startup ------------------------------
(***************************************************************************)
(* The life of the courier process: init_db of src/app/db.py, which brings *)
(* whatever database file it finds to the current schema, the lifespan of  *)
(* src/app/main.py, and crashes, after which systemd starts it again.      *)
(*                                                                         *)
(* Python's sqlite3 opens a transaction before INSERT, UPDATE and DELETE   *)
(* only: outside one, each CREATE, ALTER and DROP is committed by itself.  *)
(* So a stage is one statement, and the rebuild of the challenge table has *)
(* one transaction, at its end.  The other tables are created when absent  *)
(* and never altered; Enrollment has the challenge table's rows at work.   *)
(***************************************************************************)
EXTENDS Naturals, FiniteSets, Sequences

CONSTANTS Challenges,     \* the challenge rows an older courier left in the file
          Bootstrapped,   \* those of controllers with a bootstrap row
          Requests,       \* the requests clients have
          Workloads,      \* the sets of them that come together
          MaxTime,        \* bound on the clock
          MaxEdits        \* bound on crashes and on the operator's edits

ASSUME StartupAssumptions ==
  /\ Bootstrapped \subseteq Challenges
  /\ Workloads \subseteq SUBSET Requests
  /\ MaxTime \in Nat /\ MaxEdits \in Nat

VARIABLES stage,          \* what init_db does next; "down", or "serving"
          table,          \* ember_enrollment_challenges
          legacy,         \* ember_enrollment_challenges_legacy
          index,          \* is there an index of the challenge table?
          found,          \* the rows in the file at first (history)
          clock,
          request,        \* where each request of the workload is
          edits

database == <<table, legacy, index, found>>
startupVars == <<stage, database, clock, request, edits>>

\* The columns that came after the first release: "identity" stands for
\* controller_public_key, hardware_model and retrofit.
AllColumns == {"proof_method", "identity", "grant_id"}

ChallengeTable == [exists: BOOLEAN, columns: SUBSET AllColumns, rows: SUBSET Challenges]

NoTable == [exists |-> FALSE, columns |-> {}, rows |-> {}]

TableOf(columns, rows) == [exists |-> TRUE, columns |-> columns, rows |-> rows]

\* The tables of earlier releases.  Before "identity" a challenge was issued only
\* for a controller that had a bootstrap.
Deployed ==
  {NoTable}
  \cup {TableOf(columns, Bootstrapped) : columns \in {{}, {"proof_method"}}}
  \cup {TableOf(columns, Challenges) : columns \in {{"proof_method", "identity"}, AllColumns}}

Stage == {"down", "tables", "indexes", "proof_method", "drop_index", "rename",
          "recreate", "copy", "grant_id", "lifespan", "serving"}

Idle == [op |-> "idle"]
Lost == [op |-> "lost"]

StartupTypeOK ==
  /\ stage \in Stage
  /\ table \in ChallengeTable /\ legacy \in ChallengeTable
  /\ index \in BOOLEAN
  /\ found \subseteq Challenges
  /\ clock \in 0..MaxTime
  /\ DOMAIN request \in Workloads
  /\ edits \in 0..MaxEdits

StartupInit ==
  /\ stage = "down"
  /\ table \in Deployed /\ legacy = NoTable
  /\ index = table.exists
  /\ found = table.rows
  /\ clock = 0
  /\ \E workload \in Workloads : request = [r \in workload |-> Idle]
  /\ edits = 0

-----------------------------------------------------------------------------
Reach(from, to) == stage = from /\ stage' = to /\ UNCHANGED <<found, clock, request, edits>>

StartProcess == Reach("down", "tables") /\ UNCHANGED <<table, legacy, index>>

\* Mutant: the table is created as it was before "identity".
FreshColumnsOld == {"proof_method"}

FreshColumns == AllColumns

\* CREATE TABLE IF NOT EXISTS, in the script
CreateTables ==
  /\ Reach("tables", "indexes")
  /\ table' = IF table.exists THEN table ELSE TableOf(FreshColumns, {})
  /\ UNCHANGED <<legacy, index>>

CreateIndexes ==
  /\ Reach("indexes", "proof_method")
  /\ index' = TRUE
  /\ UNCHANGED <<table, legacy>>

\* Mutant: a table that has its rebuild behind it gets no other column.
RebuildIsAll(columns) == IF "identity" \in columns THEN "lifespan" ELSE "drop_index"

AfterProofMethod(columns) == IF "identity" \in columns THEN "grant_id" ELSE "drop_index"

\* The columns are read once, and the first missing one is added.
AddProofMethod ==
  /\ Reach("proof_method", AfterProofMethod(table.columns))
  /\ table' = [table EXCEPT !.columns = @ \cup {"proof_method"}]
  /\ UNCHANGED <<legacy, index>>

DropIndex ==
  /\ Reach("drop_index", "rename")
  /\ index' = FALSE
  /\ UNCHANGED <<table, legacy>>

\* A legacy table that is still there makes the statement, and the start, fail.
RenameTable ==
  /\ Reach("rename", IF legacy.exists THEN "down" ELSE "recreate")
  /\ IF legacy.exists THEN UNCHANGED <<table, legacy>>
     ELSE legacy' = table /\ table' = NoTable
  /\ UNCHANGED index

RecreateTable ==
  /\ Reach("recreate", "copy")
  /\ table' = TableOf(AllColumns, {})
  /\ UNCHANGED <<legacy, index>>

\* JOIN ember_controller_bootstraps
CopiedRows == legacy.rows \cap Bootstrapped

\* INSERT ... SELECT opens a transaction; DROP TABLE, CREATE INDEX and the commit
\* at the end of init_db belong to it.
CopyAndDrop ==
  /\ Reach("copy", "lifespan")
  /\ table' = [table EXCEPT !.rows = @ \cup CopiedRows]
  /\ legacy' = NoTable
  /\ index' = TRUE

AddGrantColumn ==
  /\ Reach("grant_id", "lifespan")
  /\ table' = [table EXCEPT !.columns = @ \cup {"grant_id"}]
  /\ UNCHANGED <<legacy, index>>

\* ApnsClient.from_env, with its settings there, and configure_ember_push.
Serve == Reach("lifespan", "serving") /\ UNCHANGED <<table, legacy, index>>

Boot ==
  \/ StartProcess \/ CreateTables \/ CreateIndexes \/ AddProofMethod
  \/ DropIndex \/ RenameTable \/ RecreateTable \/ CopyAndDrop
  \/ AddGrantColumn \/ Serve

\* The process dies, at any stage, and what it has not committed with it.
Crash ==
  /\ stage # "down" /\ stage' = "down"
  /\ edits < MaxEdits /\ edits' = edits + 1
  /\ request' = [r \in DOMAIN request |->
                   IF request[r].op \in {"upload", "push"} THEN Lost ELSE request[r]]
  /\ UNCHANGED <<database, clock>>

\* A request is taken while the process serves.
Accept(r, memory) ==
  /\ stage = "serving"
  /\ request' = [request EXCEPT ![r] = memory]
  /\ UNCHANGED <<stage, database, clock, edits>>

Continue(r, memory) ==
  /\ request' = [request EXCEPT ![r] = memory]
  /\ UNCHANGED <<stage, database, clock, edits>>

-----------------------------------------------------------------------------
\* Whatever release wrote the file and wherever a start was cut off, no challenge
\* is lost from it and none is there twice: each is in the challenge table or,
\* after a crash between RENAME and the copy, still in the legacy one.
ConservesChallenges ==
  /\ table.rows \cup legacy.rows = found
  /\ table.rows \cap legacy.rows = {}

\* Courier never serves with a column or the index missing, and, unless a start
\* was cut off, with every challenge back in its table.
ServesCurrentSchema ==
  stage = "serving" =>
    /\ table.exists /\ table.columns = AllColumns /\ index
    /\ edits = 0 => ~legacy.exists /\ table.rows = found

\* A start that is cut off anywhere does not stand in the way of the next: courier
\* serves again.
ServesAgain == (stage = "down") ~> (stage = "serving")
=============================================================================

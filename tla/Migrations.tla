----------------------------- MODULE Migrations -----------------------------
(***************************************************************************)
(* Opening the database (store/store.go): every process that opens it, the *)
(* daemon as well as `wg-agent import`, first applies the migrations that  *)
(* schema_migrations does not list, each with its row there in one         *)
(* transaction.  The list is read once, before the first of them, so two   *)
(* processes may be after the same migrations.                             *)
(*                                                                         *)
(* None of the migrations can be applied twice (CREATE TABLE, ADD COLUMN,  *)
(* CREATE INDEX without IF NOT EXISTS); UniqueIndex cannot be created over *)
(* two peers with one address.                                             *)
(***************************************************************************)
EXTENDS Integers, Sequences

CONSTANTS Process,      \* that open the database
          Daemon,       \* the one systemd restarts
          LastVersion,  \* of the migrations in the binary
          UniqueIndex,  \* the version that needs the peers' addresses distinct
          MaxTroubles   \* bound: deaths, failing statements, reads cut short

ASSUME ProcessAssumption == Daemon \in Process
ASSUME VersionAssumption == LastVersion \in Nat /\ UniqueIndex \in Nat /\ MaxTroubles \in Nat

Version == 1..LastVersion

VARIABLES
    schema,      \* the migrations that made the schema, in order
    recorded,    \* the rows of schema_migrations
    duplicates,  \* two peers of an interface share an address
    opener,      \* Process -> what it is at
    troubles

schemaVars == <<schema, recorded, duplicates, opener, troubles>>

(* applied: the map of migrate(), which the loop itself does not change;   *)
(* at: the migrations the loop has gone past.                              *)
Closed == [pc |-> "closed", applied |-> {}, at |-> 0]
Migrating(read) == [pc |-> "migrating", applied |-> read, at |-> 0]
Opened == [pc |-> "open", applied |-> {}, at |-> LastVersion]

MigrationsTypeOK ==
    /\ schema \in Seq(Version)
    /\ recorded \subseteq Version
    /\ duplicates \in BOOLEAN
    /\ opener \in [Process -> [pc : {"closed", "migrating", "open"},
                               applied : SUBSET Version, at : 0..LastVersion]]
    /\ troubles \in 0..MaxTroubles

(* A new database, or one an earlier release has left.                     *)
SchemaInit ==
    /\ \E n \in 0..LastVersion :
          /\ schema = [v \in 1..n |-> v]
          /\ recorded = 1..n
          /\ duplicates \in IF n \in 1..(UniqueIndex - 1) THEN BOOLEAN ELSE {FALSE}
    /\ opener = [p \in Process |-> Closed]
    /\ troubles = 0

Trouble == troubles < MaxTroubles /\ troubles' = troubles + 1
NoTrouble == UNCHANGED troubles

Effects == {schema[n] : n \in DOMAIN schema}

(* The SQL of version v, in the schema as it is.                           *)
CanApply(v) == /\ v \notin Effects
               /\ v > 1 => 1 \in Effects
               /\ v = UniqueIndex => ~duplicates

(* What the loop still has to make, and the next of it.                    *)
Missing(o) == {v \in Version : v > o.at} \ o.applied
Upcoming(o) == {v \in Missing(o) : \A w \in Missing(o) : v <= w}

Closes(p) == opener' = [opener EXCEPT ![p] = Closed]

-----------------------------------------------------------------------------
(* SELECT version FROM schema_migrations.  The error that ended the row    *)
(* loop is not looked at, so the list may be a part of the rows.           *)
BeginsToOpen(p) ==
    /\ opener[p].pc = "closed"
    /\ \/ NoTrouble /\ opener' = [opener EXCEPT ![p] = Migrating(recorded)]
       \/ Trouble /\ \E read \in SUBSET recorded : opener' = [opener EXCEPT ![p] = Migrating(read)]
    /\ UNCHANGED <<schema, recorded, duplicates>>

(* Mutant: the row is written after the commit.                            *)
Commits_SchemaOnly(v) ==
    /\ schema' = Append(schema, v)
    /\ \/ NoTrouble /\ recorded' = recorded \cup {v}
       \/ Trouble /\ UNCHANGED recorded

Commits(v) ==
    /\ NoTrouble
    /\ schema' = Append(schema, v)
    /\ recorded' = recorded \cup {v}

(* Mutant: the transaction that failed is passed over.                     *)
RollsBack_GoesOn(p) == opener' = [opener EXCEPT ![p].at = @ + 1]

(* The transaction is rolled back, and Open fails; so does the process.    *)
RollsBack(p) == Closes(p)

Migrates(p) ==
    /\ opener[p].pc = "migrating"
    /\ \E v \in Upcoming(opener[p]) :
          \/ /\ CanApply(v) /\ v \notin recorded
             /\ Commits(v)
             /\ opener' = [opener EXCEPT ![p].at = v]
          \/ /\ ~CanApply(v) \/ v \in recorded
             /\ NoTrouble
             /\ RollsBack(p)
             /\ UNCHANGED <<schema, recorded>>
          \/ /\ Trouble
             /\ RollsBack(p)
             /\ UNCHANGED <<schema, recorded>>
    /\ UNCHANGED duplicates

IsOpen(p) ==
    /\ opener[p].pc = "migrating"
    /\ Missing(opener[p]) = {}
    /\ opener' = [opener EXCEPT ![p] = Opened]
    /\ UNCHANGED <<schema, recorded, duplicates, troubles>>

(* A transaction in progress dies with its process.                        *)
OpenerDies(p) ==
    /\ opener[p].pc # "closed"
    /\ Trouble
    /\ Closes(p)
    /\ UNCHANGED <<schema, recorded, duplicates>>

SchemaNext == \E p \in Process : BeginsToOpen(p) \/ Migrates(p) \/ IsOpen(p) \/ OpenerDies(p)

-----------------------------------------------------------------------------
(* Every migration is made once, in order, and is recorded if and only if  *)
(* it was made, however many processes migrate at a time and wherever they *)
(* die: there is never a database only a human can repair.                 *)
SchemaIsRecorded == schema = [n \in 1..Len(schema) |-> n] /\ recorded = 1..Len(schema)

(* Who has the database open has all of the schema: no failed migration is *)
(* passed over, and no list that was cut short hides one.                  *)
OpenIsMigrated == \A p \in Process : opener[p].pc = "open" => Effects = Version
=============================================================================

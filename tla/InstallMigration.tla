--------------------------- MODULE InstallMigration ---------------------------
(***************************************************************************)
(* The migration of the installer's home, packages/installer/src/          *)
(* migrations: migrate backs the active home up, stages and activates the  *)
(* new one; a failure compensates from the backup and recover does so after*)
(* a crash.                                                                *)
(*                                                                         *)
(* What is abstracted.  A home is its version, or Partial while it is being*)
(* copied.  The gates of a downgrade are checks of the plan alone.  A      *)
(* record of the journal is appended with the state before it and can be   *)
(* what fails after it.                                                    *)
(***************************************************************************)
EXTENDS Integers, FiniteSets

CONSTANTS
  Versions,             \* versions of the installer's home
  MaxGenerations,       \* bound: generations of migrations
  MaxMigrationStops,    \* bound: deaths and failures
  MigrationDeathPoints, \* where the process may die
  MigrationFailPoints,  \* where an operation of a migration may fail
  NoHome,               \* no tree
  Partial               \* a tree that was not copied to its end

ASSUME TreesAssumption == NoHome \notin Versions /\ Partial \notin Versions \cup {NoHome}

VARIABLES
  home,       \* the active home
  backup,     \* the backup of this generation
  nextHome,   \* the staged home of this generation
  state,      \* the durable state of the installer, state.json
  migration,  \* the running command
  breaks,     \* bound: deaths and failures so far
  origin      \* history: the home that the last migration started from

migrationVars == <<home, backup, nextHome, state, migration, breaks, origin>>

-----------------------------------------------------------------------------
Trees == Versions \cup {NoHome, Partial}
MigrationPhases == {"begun", "backup-created", "staged", "compensating", "compensated",
                    "repair-required", "complete"}
InstallerStates == [phase : MigrationPhases, installed : Versions, generation : 1 .. MaxGenerations]
ForwardSteps == {"begun", "copying", "copied", "backup-created", "transformed", "staged", "parted",
                 "switched", "complete"}
BackwardSteps == {"compensating", "recovering", "emptied", "restoring", "restored", "compensated"}
MigrationSteps == {"ready", "failing"} \cup ForwardSteps \cup BackwardSteps
Settled == {"complete", "compensated"}

MigrationGoes(at) == migration' = [migration EXCEPT !.at = at]
MigrationEnds == migration' = [migration EXCEPT !.at = "ready"]
Saves(phase) == state' = [state EXCEPT !.phase = phase]

-----------------------------------------------------------------------------
\* migrate, l. 109-116: after recover has nothing to do.
Migrate(to) ==
  /\ migration.at = "ready" /\ state.phase = "complete"
  /\ state.generation < MaxGenerations
  /\ state' = [state EXCEPT !.phase = "begun", !.generation = @ + 1]
  /\ migration' = [at |-> "begun", from |-> state.installed, to |-> to]
  /\ backup' = NoHome /\ nextHome' = NoHome  \* paths of the new generation
  /\ origin' = home
  /\ UNCHANGED <<home, breaks>>

StartBackup ==
  /\ migration.at = "begun"
  /\ backup' = Partial
  /\ MigrationGoes("copying")
  /\ UNCHANGED <<home, nextHome, state, breaks, origin>>

EndBackup ==
  /\ migration.at = "copying"
  /\ backup' = home
  /\ MigrationGoes("copied")
  /\ UNCHANGED <<home, nextHome, state, breaks, origin>>

\* persist with the record after it.
SaveMigration(from, phase) ==
  /\ migration.at = from
  /\ Saves(phase)
  /\ MigrationGoes(phase)
  /\ UNCHANGED <<home, backup, nextHome, breaks, origin>>

\* plan.transform into the staged home.
Transform ==
  /\ migration.at = "backup-created"
  /\ nextHome' = migration.to
  /\ MigrationGoes("transformed")
  /\ UNCHANGED <<home, backup, state, breaks, origin>>

\* The two renames of the activation.
PartHome ==
  /\ migration.at = "staged"
  /\ home' = NoHome
  /\ MigrationGoes("parted")
  /\ UNCHANGED <<backup, nextHome, state, breaks, origin>>

SwitchHome ==
  /\ migration.at = "parted"
  /\ home' = nextHome /\ nextHome' = NoHome
  /\ MigrationGoes("switched")
  /\ UNCHANGED <<backup, state, breaks, origin>>

CompleteMigration ==
  /\ migration.at = "switched"
  /\ state' = [state EXCEPT !.phase = "complete", !.installed = migration.to]
  /\ MigrationGoes("complete")
  /\ UNCHANGED <<home, backup, nextHome, breaks, origin>>

ReturnMigration ==
  /\ migration.at \in {"complete", "compensated"}
  /\ MigrationEnds
  /\ UNCHANGED <<home, backup, nextHome, state, breaks, origin>>

\* An operation fails, l. 123-128.  A failure of the migration, the record of its
\* completion included, is compensated, and one of the compensation asks for a
\* repair, with the home as it is by then.  What fails outside the two try blocks,
\* or in a recovery, ends the command: the state it saved is what stays.
MigrationFails ==
  /\ migration.at \in MigrationFailPoints
  /\ breaks < MaxMigrationStops /\ breaks' = breaks + 1
  /\ \/ /\ migration.at \in ForwardSteps
        /\ MigrationGoes("failing") /\ UNCHANGED state
     \/ /\ migration.at \in BackwardSteps /\ migration.from \in Versions
        /\ Saves("repair-required") /\ MigrationEnds
     \/ /\ migration.at \in BackwardSteps \cup {"failing"}
        /\ MigrationEnds /\ UNCHANGED state
  /\ UNCHANGED <<home, backup, nextHome, origin>>

\* rm of the active home, by the compensation and by the recovery.
EmptyHome ==
  /\ migration.at \in {"compensating", "recovering"}
  /\ home' = NoHome
  /\ MigrationGoes("emptied")
  /\ UNCHANGED <<backup, nextHome, state, breaks, origin>>

\* cp of the backup: without one it fails, and the compensation asks for a repair.
StartRestore ==
  /\ migration.at = "emptied"
  /\ IF backup = NoHome
       THEN Saves("repair-required") /\ MigrationEnds /\ UNCHANGED home
       ELSE home' = Partial /\ MigrationGoes("restoring") /\ UNCHANGED state
  /\ UNCHANGED <<backup, nextHome, breaks, origin>>

EndRestore ==
  /\ migration.at = "restoring"
  /\ home' = backup
  /\ MigrationGoes("restored")
  /\ UNCHANGED <<backup, nextHome, state, breaks, origin>>

\* Compensated: the compensation names the version it came from, the recovery
\* the one of the state.
Compensated ==
  /\ migration.at = "restored"
  /\ state' = [state EXCEPT !.phase = "compensated",
                            !.installed = IF migration.from \in Versions THEN migration.from ELSE @]
  /\ MigrationGoes("compensated")
  /\ UNCHANGED <<home, backup, nextHome, breaks, origin>>

\* Mutant: the recovery does not ask whether there is a backup.
RecoverBlindly ==
  /\ migration.at = "ready" /\ state.phase \notin Settled
  /\ migration' = [at |-> "recovering", from |-> NoHome, to |-> NoHome]
  /\ UNCHANGED <<home, backup, nextHome, state, breaks, origin>>

\* recover l. 131-139, of a later process.
Recover ==
  /\ migration.at = "ready" /\ state.phase \notin Settled
  /\ IF backup = NoHome
       THEN Saves("repair-required") /\ UNCHANGED migration
       ELSE migration' = [at |-> "recovering", from |-> NoHome, to |-> NoHome] /\ UNCHANGED state
  /\ UNCHANGED <<home, backup, nextHome, breaks, origin>>

MigrationDies ==
  /\ migration.at \in MigrationDeathPoints
  /\ breaks < MaxMigrationStops /\ breaks' = breaks + 1
  /\ MigrationEnds
  /\ UNCHANGED <<home, backup, nextHome, state, origin>>

-----------------------------------------------------------------------------
MigrationInit ==
  /\ \E v \in Versions :
       home = v /\ state = [phase |-> "complete", installed |-> v, generation |-> 1]
  /\ backup = NoHome /\ nextHome = NoHome /\ breaks = 0 /\ origin = home
  /\ migration = [at |-> "ready", from |-> NoHome, to |-> NoHome]

MigrationNext ==
  \/ \E to \in Versions : Migrate(to)
  \/ StartBackup \/ EndBackup \/ SaveMigration("copied", "backup-created")
  \/ Transform \/ SaveMigration("transformed", "staged")
  \/ PartHome \/ SwitchHome \/ CompleteMigration \/ ReturnMigration
  \/ MigrationFails \/ SaveMigration("failing", "compensating")
  \/ EmptyHome \/ StartRestore \/ EndRestore \/ Compensated
  \/ Recover \/ MigrationDies

MigrationSpec == MigrationInit /\ [][MigrationNext]_migrationVars

-----------------------------------------------------------------------------
\* The types of the trees, of the state and of the running command.
MigrationTypeOK ==
  /\ {home, backup, nextHome, origin} \subseteq Trees
  /\ state \in InstallerStates
  /\ migration \in [at : MigrationSteps, from : Trees, to : Trees]
  /\ breaks \in 0 .. MaxMigrationStops

\* No failure and no death costs the home, be it one of the migration, of its
\* compensation, of a recovery or of the recovery of that: a migration that is
\* complete has the home it names, one that was compensated the home it started
\* from, and until then that home is active or in the backup, where the next
\* recovery finds it (migrate l. 117-128, recover l. 131-139).
HomeIsKept ==
  migration.at = "ready" =>
    /\ state.phase = "complete" => home = state.installed
    /\ state.phase = "compensated" => home = origin
    /\ state.phase \notin Settled => origin \in {home, backup}

\* A settled state names the version of the active home (l. 122, 127, 138).
HomeMatchesState == migration.at = "ready" /\ state.phase \in Settled => home = state.installed
=============================================================================

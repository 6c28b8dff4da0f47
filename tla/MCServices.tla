------------------------------- MODULE MCServices -------------------------------
(* Small instances for TLC of the authority store, of the tasks it stores   *)
(* and of the services around it.  They share no state: a behaviour is one  *)
(* of the store, of the task ledger, of the install lifecycle, of its       *)
(* journal, of its migration, of the arbitration of receipts, of the        *)
(* restore of a backup, of the processes of the daemon, of the joins of     *)
(* tasks or of the admission of proposals.                                  *)
EXTENDS AuthorityStore, TaskLedger, InstallLifecycle, InstallJournal,
  InstallMigration, ReceiptArbitration, AuthorityRestore, DaemonLife, TaskJoin, DeltaAdmission, TLC

VARIABLES
  part,  \* the part that moves
  rest   \* how long it rests before

partVars == <<vars, ledgerVars, installVars, journalVars, migrationVars, receiptVars,
  restoreVars, daemonVars, joinVars, admissionVars>>
servicesVars == <<part, rest, partVars>>

\* The parts whose behaviours are short and many rest until TLC, which goes through
\* all behaviours of one length first, has been through the long ones of the others.
LateParts == {"receipts", "join", "admission"}
Rest == 40

ServicesInit ==
  /\ part \in {"store", "ledger", "lifecycle", "journal", "migration", "receipts",
               "restore", "daemon", "join", "admission"}
  /\ rest = IF part \in LateParts THEN Rest ELSE 0
  /\ Init /\ LedgerInit
  /\ InstallInit /\ JournalInit /\ MigrationInit /\ ReceiptInit /\ RestoreInit /\ DaemonInit
  /\ JoinInit /\ AdmissionInit
  /\ part # "restore" => Exists(seen, "database", Live)
  /\ part # "admission" => inForce = CHOOSE e \in PolicyEffects : TRUE
  /\ part # "migration" => home = CHOOSE v \in Versions : TRUE

Waits ==
  /\ rest > 0
  /\ rest' = rest - 1
  /\ UNCHANGED <<part, partVars>>

Moves ==
  /\ rest = 0
  /\ UNCHANGED <<part, rest>>
  /\ \/ part = "store" /\ Next
     \/ part # "store" /\ UNCHANGED vars
  /\ \/ part = "ledger" /\ LedgerNext
     \/ part # "ledger" /\ UNCHANGED ledgerVars
  /\ \/ part = "lifecycle" /\ InstallNext
     \/ part # "lifecycle" /\ UNCHANGED installVars
  /\ \/ part = "journal" /\ JournalNext
     \/ part # "journal" /\ UNCHANGED journalVars
  /\ \/ part = "migration" /\ MigrationNext
     \/ part # "migration" /\ UNCHANGED migrationVars
  /\ \/ part = "receipts" /\ ReceiptNext
     \/ part # "receipts" /\ UNCHANGED receiptVars
  /\ \/ part = "restore" /\ RestoreNext
     \/ part # "restore" /\ UNCHANGED restoreVars
  /\ \/ part = "daemon" /\ DaemonNext
     \/ part # "daemon" /\ UNCHANGED daemonVars
  /\ \/ part = "join" /\ JoinNext
     \/ part # "join" /\ UNCHANGED joinVars
  /\ \/ part = "admission" /\ AdmissionNext
     \/ part # "admission" /\ UNCHANGED admissionVars

ServicesNext == Waits \/ Moves

ServicesSpec == ServicesInit /\ [][ServicesNext]_servicesVars

\* Connections are interchangeable, and so are workflows, installers, daemons and
\* services, which have the same names here.
ServicesSymmetry == Permutations(Connections \cup Workflows \cup Installers \cup Daemons \cup Admitters)

\* The grants change once at most where a process crashes.
OneGrantUpdateBesideCrash == crashes > 0 => db.grants.revision <= 2

\* Plans have interchangeable numbers.
PlansInOrder == plans # {} => 1 \in plans

\* A request adds a dependency or a plan is revised.
FewChanges == Cardinality(plans) + Cardinality(Requested) <= 2

\* One workflow at most breaks the source down.
OneBreakdown == Cardinality({w \in Workflows : flows[w].kind = "breakdown"}) <= 1

\* Takeovers of the journal's lock come one at a time, and an evaluation reads one state.
OneAtATime == EvictionsAlone /\ ReadsAlone

\* Tasks of a join and proposals have interchangeable names: dependencies lead from the
\* first task to the other, and the first proposal is sealed first.
FirstOf(S) == CHOOSE x \in S : TRUE
OneDirection == \A e \in joinEdges : e.from = FirstOf(JoinTasks)
ProposalsInOrder ==
  (\E p \in Proposals : proposals[p] # Unsealed) => proposals[FirstOf(Proposals)] # Unsealed

\* The run resolves one task: in as many events as it has, a second one would lack the
\* evidence to be resolved in the projection.
OneSettles == Cardinality(settled) <= 1

\* An event without evidence reaches no projection.  At most the latest has none yet.
EvidenceIsIssued == Cardinality(evidence) >= head.sequence - 1

\* Beside the decisions, one event moves the heads or one refresh the lineage.
OneMove == heads.run + heads.workspace - 2 * Len(decisions) + Len(pins) <= 2

ServicesBounds ==
  /\ OneGrantUpdateBesideCrash
  /\ PlansInOrder /\ FewChanges /\ OneBreakdown
  /\ OneAtATime
  /\ OneDirection /\ OneSettles /\ EvidenceIsIssued
  /\ ProposalsInOrder /\ OneMove
=============================================================================

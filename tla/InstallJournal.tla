---------------------------- MODULE InstallJournal ----------------------------
(***************************************************************************)
(* The append-only journal of the installer, packages/installer/src/       *)
(* journal: processes append records under a lock directory that names its *)
(* owner, and take over the lock of a process that died.                   *)
(*                                                                         *)
(* What is abstracted.  One generation of the journal.  A record is the    *)
(* append that wrote it; its hash chain is its position.  A process is     *)
(* known by its name and incarnation (pid and start time).  The deadline   *)
(* of five seconds is a choice of giving up.                               *)
(***************************************************************************)
EXTENDS Integers, Sequences, FiniteSets

CONSTANTS
  Installers,    \* processes that use the journal
  MaxAppends,    \* bound: appends of one process
  MaxInstallerDeaths  \* bound: deaths of processes

ASSUME InstallersAssumption == IsFiniteSet(Installers)

VARIABLES
  journalLock,  \* the lock directory
  records,      \* the records of the generation's file
  append,       \* what each process is doing
  incarnation,  \* the incarnation of each process
  appended      \* history: the records whose append returned

journalVars == <<journalLock, records, append, incarnation, appended>>

-----------------------------------------------------------------------------
\* JournalLockOwnerV1: process, incarnation and nonce, one for each append.
Owners == [process : Installers, incarnation : 0 .. MaxInstallerDeaths, nonce : 1 .. MaxAppends]
Me(p) == [process |-> p, incarnation |-> incarnation[p], nonce |-> append[p].nonce]

Absent == [there |-> FALSE, owner |-> {}]
HeldBy(o) == [there |-> TRUE, owner |-> {o}]
Unnamed == [there |-> TRUE, owner |-> {}]
Locks == [there : BOOLEAN, owner : {{}} \cup {{o} : o \in Owners}]

AppendSteps == {"idle", "acquiring", "naming", "observing", "rereading", "evicting",
                "reading", "writing", "releasing", "unlocking"}
AppendIs(p, at) == append' = [append EXCEPT ![p].at = at]

\* An append that ends, with or without its record.
AppendEnds(p) == append' = [append EXCEPT ![p].at = "idle", ![p].seen = {}, ![p].read = <<>>]
Wait(p) == AppendIs(p, "acquiring") \/ AppendEnds(p)

\* Mutant: the start times are compared the wrong way round.
OwnerIsOutdated(o) == incarnation[o.process] # o.incarnation

\* ownerIsLive: the process of the lock has the start time of the lock.
OwnerIsLive(o) == incarnation[o.process] = o.incarnation

-----------------------------------------------------------------------------
StartAppend(p) ==
  /\ append[p].at = "idle" /\ append[p].nonce < MaxAppends
  /\ append' = [append EXCEPT ![p].at = "acquiring", ![p].nonce = @ + 1]
  /\ UNCHANGED <<journalLock, records, incarnation, appended>>

MakeJournalLock(p) ==
  /\ append[p].at = "acquiring"
  /\ IF journalLock.there
       THEN AppendIs(p, "observing") /\ UNCHANGED journalLock
       ELSE AppendIs(p, "naming") /\ journalLock' = Unnamed
  /\ UNCHANGED <<records, incarnation, appended>>

\* owner.json is created and written.  By then the directory may be gone, or be
\* another one whose owner.json is there, which is observed as one that is taken.
NameJournalLock(p) ==
  /\ append[p].at = "naming"
  /\ \/ journalLock = Unnamed /\ AppendIs(p, "reading") /\ journalLock' = HeldBy(Me(p))
     \/ journalLock = Absent /\ AppendEnds(p) /\ UNCHANGED journalLock
     \/ journalLock.owner # {} /\ AppendIs(p, "observing") /\ UNCHANGED journalLock
  /\ UNCHANGED <<records, incarnation, appended>>

\* readLockOwner: no directory or no owner.json yet is waited for, and so is a
\* live owner; while owner.json is being written the append fails.
ObserveJournalLock(p) ==
  /\ append[p].at = "observing"
  /\ \/ journalLock.owner = {} /\ Wait(p)
     \/ \E o \in journalLock.owner :
          IF OwnerIsLive(o) THEN Wait(p)
          ELSE append' = [append EXCEPT ![p].at = "rereading", ![p].seen = {o}]
  /\ UNCHANGED <<journalLock, records, incarnation, appended>>

RereadJournalLock(p) ==
  /\ append[p].at = "rereading"
  /\ \/ journalLock.owner = {} /\ AppendEnds(p)
     \/ journalLock.owner = append[p].seen /\ AppendIs(p, "evicting")
     \/ journalLock.owner \notin {{}, append[p].seen} /\ Wait(p)
  /\ UNCHANGED <<journalLock, records, incarnation, appended>>

\* rename of the abandoned lock, whatever directory is there by now.
EvictJournalLock(p) ==
  /\ append[p].at = "evicting"
  /\ journalLock' = Absent
  /\ AppendIs(p, "acquiring")
  /\ UNCHANGED <<records, incarnation, appended>>

\* The chain is read and authenticated.
ReadRecords(p) ==
  /\ append[p].at = "reading"
  /\ append' = [append EXCEPT ![p].at = "writing", ![p].read = records]
  /\ UNCHANGED <<journalLock, records, incarnation, appended>>

\* The whole file is written aside and renamed into its place.
WriteRecords(p) ==
  /\ append[p].at = "writing"
  /\ records' = Append(append[p].read, Me(p))
  /\ AppendIs(p, "releasing")
  /\ UNCHANGED <<journalLock, incarnation, appended>>

\* releaseLock: an owner that changed is an error.
CheckOwner(p) ==
  /\ append[p].at = "releasing"
  /\ IF journalLock.owner = {Me(p)} THEN AppendIs(p, "unlocking") ELSE AppendEnds(p)
  /\ UNCHANGED <<journalLock, records, incarnation, appended>>

Unlock(p) ==
  /\ append[p].at = "unlocking"
  /\ journalLock' = Absent
  /\ appended' = appended \cup {Me(p)}
  /\ AppendEnds(p)
  /\ UNCHANGED <<records, incarnation>>

\* The process dies: its lock stays.
InstallerDies(p) ==
  /\ append[p].at # "idle"
  /\ incarnation[p] < MaxInstallerDeaths
  /\ incarnation' = [incarnation EXCEPT ![p] = @ + 1]
  /\ AppendEnds(p)
  /\ UNCHANGED <<journalLock, records, appended>>

-----------------------------------------------------------------------------
JournalInit ==
  /\ journalLock = Absent /\ records = <<>> /\ appended = {}
  /\ append = [p \in Installers |-> [at |-> "idle", nonce |-> 0, seen |-> {}, read |-> <<>>]]
  /\ incarnation = [p \in Installers |-> 0]

AppendStep(p) ==
  \/ StartAppend(p) \/ MakeJournalLock(p) \/ NameJournalLock(p) \/ ObserveJournalLock(p)
  \/ RereadJournalLock(p) \/ EvictJournalLock(p) \/ ReadRecords(p) \/ WriteRecords(p)
  \/ CheckOwner(p) \/ Unlock(p)

JournalNext == \E p \in Installers : AppendStep(p) \/ InstallerDies(p)

JournalSpec == JournalInit /\ [][JournalNext]_journalVars

-----------------------------------------------------------------------------
\* The types of the lock, of the file and of what the processes do.
JournalTypeOK ==
  /\ journalLock \in Locks
  /\ records \in Seq(Owners) /\ appended \subseteq Owners
  /\ \A p \in Installers :
       /\ append[p].at \in AppendSteps /\ append[p].nonce \in 0 .. MaxAppends
       /\ append[p].seen \in {{}} \cup {{o} : o \in Owners}
       /\ append[p].read \in Seq(Owners)
  /\ incarnation \in [Installers -> 0 .. MaxInstallerDeaths]

\* Every append that returned is in the journal once, and a process that reads
\* or writes is the only one: whoever dies with the lock, and whoever takes it
\* over (append, l. 237-295).
JournalKeepsRecords ==
  /\ \A o \in appended : Cardinality({i \in 1 .. Len(records) : records[i] = o}) = 1
  /\ \A p \in Installers : append[p].at \in {"reading", "writing"} => journalLock.owner = {Me(p)}

\* One process at a time takes over a lock.  The code does not see to it: without
\* it JournalKeepsRecords fails (run journal_takeover).
EvictionsAlone ==
  Cardinality({p \in Installers : append[p].at \in {"rereading", "evicting"}}) <= 1
=============================================================================

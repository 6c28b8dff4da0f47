--------------------------- MODULE AuthorityRestore ---------------------------
(***************************************************************************)
(* Replacing a live authority by a backup, and what recovers when that is  *)
(* interrupted (packages/store-sqlite/src/restore/index.ts, and            *)
(* SQLiteAuthority.open, which every start of the daemon goes through).    *)
(* The authority has two halves, a database file and an artifact directory.*)
(* A restore copies the backup beside them, records its progress in a      *)
(* journal, moves the live halves aside, moves the copies into place and   *)
(* removes what it moved aside; a process that opens the authority first   *)
(* carries an interrupted restore back or forward.                         *)
(*                                                                         *)
(* What is abstracted.  The contents of a half are known by the generation *)
(* they belong to, and the verification of a pair by whether its halves are*)
(* of one generation.  Everything is in one directory, as the command line *)
(* lays it out (apps/cli/src/workspace.ts:174), so a sync makes everything *)
(* durable that was done before it; what was not synced reaches the disk in*)
(* the order it was done, up to any point, as on a file system with a      *)
(* metadata journal.  The journal of the restore is replaced by a rename:  *)
(* the file it is renamed from is left out.  A daemon that has opened the  *)
(* authority closes it before the next step.                               *)
(***************************************************************************)
EXTENDS Integers, Sequences

CONSTANTS
  Tokens,      \* generation tokens, one for each restore
  Backups,     \* generations of which the operator has a backup
  Original,    \* the generation that is live at first
  Fresh,       \* the generation of an authority that an open creates
  Processes,   \* processes that open or restore the authority
  MaxRestoreCrashes,  \* bound: process deaths and power failures
  None, NoToken

ASSUME CrashAssumption == MaxRestoreCrashes \in Nat
ASSUME GenerationsAssumption ==
  /\ Original # Fresh
  /\ {Original, Fresh} \cap Backups = {}
  /\ None \notin Backups \cup {Original, Fresh}
ASSUME TokenAssumption == NoToken \notin Tokens

VARIABLES
  seen,      \* the directory as processes see it
  outcomes,  \* the directories a power failure may leave
  retained,  \* the generations of which a restore has kept a backup
  begun,     \* history: the generations each restore is from and over
  process,   \* what each process is doing
  restoreCrashes    \* deaths and power failures so far

restoreVars == <<seen, outcomes, retained, begun, process, restoreCrashes>>

-----------------------------------------------------------------------------
Halves == {"database", "artifacts"}
Generations == Backups \cup {Original, Fresh}
RestorePhases == {"staged", "old-moved", "database-activated", "artifacts-activated", "committed"}

\* The live path of a half and its siblings, named by the token of a restore.
Live == <<"live", NoToken>>
Old(t) == <<"old", t>>
Staged(t) == <<"restore", t>>
Names == {Live} \cup {Old(t) : t \in Tokens} \cup {Staged(t) : t \in Tokens}

NoJournal == [phase |-> "none", token |-> NoToken, had |-> FALSE]
Journals == [phase : RestorePhases, token : Tokens, had : BOOLEAN] \cup {NoJournal}

Directories ==
  [entry : [Halves -> [Names -> Generations \cup {None}]],
   journal : Journals, evidence : Tokens \cup {NoToken}]

Exists(dir, h, name) == dir.entry[h][name] # None
Put(dir, h, name, g) == [dir EXCEPT !.entry[h][name] = g]
Moved(dir, h, from, to) == [dir EXCEPT !.entry[h][to] = dir.entry[h][from], !.entry[h][from] = None]

\* renameSync needs its source, and an artifact directory no directory at its target.
CanMove(dir, h, from, to) ==
  /\ Exists(dir, h, from)
  /\ h = "artifacts" => ~Exists(dir, h, to)

\* verifyPair: both halves are there and belong together.
Verified(dir, name) ==
  /\ \A h \in Halves : Exists(dir, h, name)
  /\ dir.entry["database"][name] = dir.entry["artifacts"][name]

-----------------------------------------------------------------------------
(* The straight-line code, as the calls it makes in order.                 *)

\* finishForward and the removal of the journal (l. 288-296, 312).
FinishProgramForgetsFirst ==
  << <<"complete", "database">>, <<"complete", "artifacts">>, <<"verify">>, <<"forget">>,
     <<"remove", "database", "old">>, <<"remove", "artifacts", "old">>,
     <<"remove", "database", "restore">>, <<"remove", "artifacts", "restore">> >>
FinishProgram ==
  << <<"complete", "database">>, <<"complete", "artifacts">>, <<"verify">>,
     <<"remove", "database", "old">>, <<"remove", "artifacts", "old">>,
     <<"remove", "database", "restore">>, <<"remove", "artifacts", "restore">>,
     <<"forget">> >>

\* rollback and the removal of the journal (l. 275-286, 312): look is the test for
\* the old path, clear the removal of the live one, return the rename.
RollbackProgram ==
  << <<"look", "database">>, <<"clear", "database">>, <<"return", "database">>,
     <<"look", "artifacts">>, <<"clear", "artifacts">>, <<"return", "artifacts">>,
     <<"remove", "database", "restore">>, <<"remove", "artifacts", "restore">>,
     <<"forget">> >>

\* restoreBackup from the copies on (l. 365-397).
RestoreProgramCommitsEarly ==
  << <<"stage", "database">>, <<"stage", "artifacts">>, <<"write", "staged">>,
     <<"displace", "database">>, <<"displace", "artifacts">>, <<"write", "old-moved">>,
     <<"activate", "database">>, <<"write", "database-activated">>,
     <<"write", "committed">>, <<"activate", "artifacts">>, <<"verify">>, <<"record">> >>
  \o FinishProgram
RestoreProgram ==
  << <<"stage", "database">>, <<"stage", "artifacts">>, <<"write", "staged">>,
     <<"displace", "database">>, <<"displace", "artifacts">>, <<"write", "old-moved">>,
     <<"activate", "database">>, <<"write", "database-activated">>,
     <<"activate", "artifacts">>, <<"write", "artifacts-activated">>,
     <<"verify">>, <<"write", "committed">>, <<"record">> >>
  \o FinishProgram

Program(name) ==
  CASE name = "finish" -> FinishProgram
    [] name = "rollback" -> RollbackProgram
    [] name = "restore" -> RestoreProgram

Idle == [at |-> "idle", goal |-> "none", program |-> "none", step |-> 0,
         token |-> NoToken, had |-> FALSE, found |-> FALSE]

ProcessStates ==
  [at : {"idle", "preparing", "recovering", "opening", "inspecting", "running"},
   goal : {"none", "open", "restore"}, program : {"none", "finish", "rollback", "restore"},
   step : 0 .. Len(RestoreProgram), token : Tokens \cup {NoToken},
   had : BOOLEAN, found : BOOLEAN]

RestoreInit ==
  /\ \E g \in {Original, None} :
       seen = [entry |-> [h \in Halves |-> [n \in Names |-> IF n = Live THEN g ELSE None]],
               journal |-> NoJournal, evidence |-> NoToken]
  /\ outcomes = {seen}
  /\ retained = {}
  /\ begun = [t \in Tokens |-> [from |-> None, over |-> None]]
  /\ process = [p \in Processes |-> Idle]
  /\ restoreCrashes = 0

Free(p) == process[p].at = "idle"
Turns(p, state) == process' = [process EXCEPT ![p] = state]
Advanced(p) == [process[p] EXCEPT !.step = @ + 1]
Instruction(p) == Program(process[p].program)[process[p].step]
CallsNext(p, call) == process[p].at = "running" /\ Instruction(p)[1] = call

\* An operation on the directory, with no sync after it.
Unsynced(dir) == seen' = dir /\ outcomes' = outcomes \cup {dir}

\* An operation on the directory and the sync after it, or the death of the process
\* between the two.
Durably(p, dir, state) ==
  /\ \/ /\ seen' = dir
        /\ outcomes' = {dir}
        /\ Turns(p, state)
        /\ UNCHANGED restoreCrashes
     \/ /\ restoreCrashes < MaxRestoreCrashes
        /\ restoreCrashes' = restoreCrashes + 1
        /\ Unsynced(dir)
        /\ Turns(p, Idle)
  /\ UNCHANGED <<retained, begun>>

\* A step that only moves the process on, or ends it with a thrown error.
GoesOn(p, state) == Turns(p, state) /\ UNCHANGED <<seen, outcomes, retained, begun, restoreCrashes>>

-----------------------------------------------------------------------------
(* Opening and recovering.                                                 *)

\* The daemon makes the artifact directory before it opens the authority
\* (daemon.ts:46-49).
Open(p) ==
  /\ Free(p)
  /\ GoesOn(p, [Idle EXCEPT !.at = "preparing", !.goal = "open"])

Prepare(p) ==
  /\ process[p].at = "preparing"
  /\ Unsynced(IF Exists(seen, "artifacts", Live) THEN seen ELSE Put(seen, "artifacts", Live, Fresh))
  /\ Turns(p, [process[p] EXCEPT !.at = "recovering"])
  /\ UNCHANGED <<retained, begun, restoreCrashes>>

AfterRecoveryAsItWas(state) ==
  [state EXCEPT !.at = IF state.goal = "open" THEN "opening" ELSE "inspecting"]
AfterRecovery(state) ==
  [Idle EXCEPT !.goal = state.goal,
               !.at = IF state.goal = "open" THEN "opening" ELSE "inspecting"]

\* recoverInterruptedRestore, up to its choice of a direction.
Direction(phase) == IF phase = "committed" THEN "finish" ELSE "rollback"

RecoverUnit(p) ==
  /\ process[p].at = "recovering"
  /\ LET j == seen.journal
     IN  GoesOn(p, IF j = NoJournal THEN AfterRecovery(process[p])
                   ELSE [process[p] EXCEPT !.at = "running", !.program = Direction(j.phase),
                                           !.step = 1, !.token = j.token, !.had = j.had])

\* What is missing is created: the database by SQLite, the directory by ArtifactStore,
\* which syncs what it creates.
Serve(p) ==
  LET missing == {h \in Halves : ~Exists(seen, h, Live)}
      dir == [seen EXCEPT !.entry =
                [h \in Halves |-> IF h \in missing THEN [@[h] EXCEPT ![Live] = Fresh] ELSE @[h]]]
  IN  /\ process[p].at = "opening"
      /\ seen' = dir
      /\ outcomes' = IF missing = {} THEN outcomes ELSE {dir}
      /\ Turns(p, Idle)
      /\ UNCHANGED <<retained, begun, restoreCrashes>>

-----------------------------------------------------------------------------
(* restoreBackup, up to its first change.                                  *)

Restore(p) ==
  /\ Free(p)
  /\ GoesOn(p, [Idle EXCEPT !.at = "recovering", !.goal = "restore"])

Unused(t) == begun[t].from = None
GoneFrom(dir) == \A h \in Halves : ~Exists(dir, h, Live)

\* What is live is backed up and kept; a restore may be from what an earlier one kept
\* (rollbackFromRetainedBackup).
Inspect(p) ==
  /\ process[p].at = "inspecting"
  /\ GoneFrom(seen) \/ Verified(seen, Live)
  /\ \E t \in Tokens : Unused(t)
  /\ \E g \in Backups \cup retained :
       LET t == CHOOSE u \in Tokens : Unused(u)
       IN  /\ begun' = [begun EXCEPT ![t] = [from |-> g, over |-> seen.entry["database"][Live]]]
           /\ retained' = retained \cup ({seen.entry["database"][Live]} \ {None})
           /\ Turns(p, [process[p] EXCEPT !.at = "running", !.program = "restore", !.step = 1,
                                          !.token = t, !.had = ~GoneFrom(seen)])
  /\ UNCHANGED <<seen, outcomes, restoreCrashes>>

\* No confirmation, an incomplete live unit, or a live unit that does not verify.
Refuse(p) ==
  /\ process[p].at = "inspecting"
  /\ GoesOn(p, Idle)

-----------------------------------------------------------------------------
(* The calls.                                                              *)

\* cpSync; what is staged is synced, its entry in the directory is not.
Stage(p) ==
  /\ CallsNext(p, "stage")
  /\ Unsynced(Put(seen, Instruction(p)[2], Staged(process[p].token), begun[process[p].token].from))
  /\ Turns(p, Advanced(p))
  /\ UNCHANGED <<retained, begun, restoreCrashes>>

WriteJournal(p) ==
  /\ CallsNext(p, "write")
  /\ Durably(p, [seen EXCEPT !.journal = [phase |-> Instruction(p)[2], token |-> process[p].token,
                                          had |-> process[p].had]],
             Advanced(p))

\* When the first journal cannot be written, the copies are removed again.
WriteFails(p) ==
  LET t == process[p].token
  IN  /\ CallsNext(p, "write")
      /\ Instruction(p)[2] = "staged"
      /\ Unsynced(IF seen.journal # NoJournal THEN seen
                  ELSE Put(Put(seen, "database", Staged(t), None), "artifacts", Staged(t), None))
      /\ Turns(p, Idle)
      /\ UNCHANGED <<retained, begun, restoreCrashes>>

\* renamePath throws when the rename is not possible.
Renames(p, h, from, to) ==
  \/ /\ CanMove(seen, h, from, to)
     /\ Durably(p, Moved(seen, h, from, to), Advanced(p))
  \/ /\ ~CanMove(seen, h, from, to)
     /\ GoesOn(p, Idle)

\* removePath does nothing, and does not sync, when there is nothing.
Removes(p, h, name) ==
  \/ /\ Exists(seen, h, name)
     /\ Durably(p, Put(seen, h, name, None), Advanced(p))
  \/ /\ ~Exists(seen, h, name)
     /\ GoesOn(p, Advanced(p))

Displace(p) ==
  /\ CallsNext(p, "displace")
  /\ \/ process[p].had /\ Renames(p, Instruction(p)[2], Live, Old(process[p].token))
     \/ ~process[p].had /\ GoesOn(p, Advanced(p))

Activate(p) ==
  /\ CallsNext(p, "activate")
  /\ Renames(p, Instruction(p)[2], Staged(process[p].token), Live)

VerifyPair(p) ==
  /\ CallsNext(p, "verify")
  /\ GoesOn(p, IF Verified(seen, Live) THEN Advanced(p) ELSE Idle)

\* The commit evidence is written over that of an earlier restore.
RecordCommit(p) ==
  /\ CallsNext(p, "record")
  /\ Durably(p, [seen EXCEPT !.evidence = process[p].token], Advanced(p))

\* finishForward moves a copy into place that is not there yet.
Complete(p) ==
  LET h == Instruction(p)[2]
      t == process[p].token
  IN  /\ CallsNext(p, "complete")
      /\ IF ~Exists(seen, h, Live) /\ Exists(seen, h, Staged(t))
           THEN Renames(p, h, Staged(t), Live)
           ELSE GoesOn(p, Advanced(p))

Remove(p) ==
  /\ CallsNext(p, "remove")
  /\ Removes(p, Instruction(p)[2], <<Instruction(p)[3], process[p].token>>)

Look(p) ==
  /\ CallsNext(p, "look")
  /\ GoesOn(p, [Advanced(p) EXCEPT !.found = Exists(seen, Instruction(p)[2], Old(process[p].token))])

\* The live half goes when the old one was found or when there had been none.
ClearsIfNone(state) == ~state.had
Clears(state) == state.found \/ ~state.had

Clear(p) ==
  /\ CallsNext(p, "clear")
  /\ \/ Clears(process[p]) /\ Removes(p, Instruction(p)[2], Live)
     \/ ~Clears(process[p]) /\ GoesOn(p, Advanced(p))

Return(p) ==
  /\ CallsNext(p, "return")
  /\ \/ process[p].found /\ Renames(p, Instruction(p)[2], Old(process[p].token), Live)
     \/ ~process[p].found /\ GoesOn(p, Advanced(p))

\* The journal goes last; an interrupted restore is then over, and what wanted to open
\* or to restore goes on.
Forget(p) ==
  LET after == IF process[p].program = "restore" THEN Idle ELSE AfterRecovery(process[p])
  IN  /\ CallsNext(p, "forget")
      /\ \/ /\ seen.journal # NoJournal
            /\ Durably(p, [seen EXCEPT !.journal = NoJournal], after)
         \/ /\ seen.journal = NoJournal
            /\ GoesOn(p, after)

-----------------------------------------------------------------------------
Die(p) ==
  /\ restoreCrashes < MaxRestoreCrashes
  /\ ~Free(p)
  /\ Turns(p, Idle)
  /\ restoreCrashes' = restoreCrashes + 1
  /\ UNCHANGED <<seen, outcomes, retained, begun>>

\* What was not synced is lost from some point on.
PowerFailure ==
  /\ restoreCrashes < MaxRestoreCrashes
  /\ \E dir \in outcomes : seen' = dir /\ outcomes' = {dir}
  /\ process' = [p \in Processes |-> Idle]
  /\ restoreCrashes' = restoreCrashes + 1
  /\ UNCHANGED <<retained, begun>>

RestoreStep(p) ==
  \/ Open(p) \/ Prepare(p) \/ RecoverUnit(p) \/ Serve(p)
  \/ Restore(p) \/ Inspect(p) \/ Refuse(p)
  \/ Stage(p) \/ WriteJournal(p) \/ WriteFails(p) \/ Displace(p) \/ Activate(p)
  \/ VerifyPair(p) \/ RecordCommit(p) \/ Complete(p) \/ Remove(p)
  \/ Look(p) \/ Clear(p) \/ Return(p) \/ Forget(p)

RestoreNext ==
  \/ \E p \in Processes : RestoreStep(p) \/ Die(p)
  \/ PowerFailure

RestoreSpec == RestoreInit /\ [][RestoreNext]_restoreVars

-----------------------------------------------------------------------------
(* Properties.                                                             *)

\* Every variable has its type.  A process that runs a program is at a step of it, for
\* a restore that was begun; one that does not has nothing left of the last one.
RestoreTypeOK ==
  /\ seen \in outcomes /\ outcomes \subseteq Directories
  /\ retained \subseteq Generations
  /\ begun \in [Tokens -> [from : Generations \cup {None}, over : Generations \cup {None}]]
  /\ process \in [Processes -> ProcessStates]
  /\ restoreCrashes \in 0 .. MaxRestoreCrashes
  /\ \A p \in Processes :
       IF process[p].at = "running"
       THEN /\ process[p].step \in 1 .. Len(Program(process[p].program))
            /\ process[p].token \in Tokens /\ ~Unused(process[p].token)
       ELSE process[p] = [Idle EXCEPT !.at = process[p].at, !.goal = process[p].goal]

\* Without a journal the live halves belong together, or there is no authority yet
\* but what an interrupted first start has created.
Whole(dir) ==
  \/ dir.entry["database"][Live] = dir.entry["artifacts"][Live]
  \/ \A h \in Halves : dir.entry[h][Live] \in {Fresh, None}

\* Before the committed marker each half of the old unit is where rollback takes it
\* from, its old path or, when nothing is there, the live one; from the marker on the
\* new unit is live.
OldUnitInPlace(dir) ==
  LET j == dir.journal
  IN  \A h \in Halves :
        LET old == dir.entry[h][Old(j.token)]
        IN  IF j.had THEN begun[j.token].over = IF old # None THEN old ELSE dir.entry[h][Live]
            ELSE old = None
NewUnitInPlace(dir) ==
  \A h \in Halves : dir.entry[h][Live] = begun[dir.journal.token].from

\* What a process sees and what a power failure leaves can at every moment be carried
\* to a whole unit, the old or the new one by what the journal says (storage.md, "Any
\* interruption before the durable `committed` marker deterministically restores both
\* old paths"; the test "never reopens a mixed database/artifact generation").
UnitIsRecoverable ==
  \A dir \in outcomes :
    CASE dir.journal = NoJournal -> Whole(dir)
      [] dir.journal.phase = "committed" -> NewUnitInPlace(dir)
      [] OTHER -> OldUnitInPlace(dir)

\* When the journal of a restore disappears, the unit it says is live in both halves
\* and no sibling of it is left behind, whoever removes the journal and however many
\* interrupted recoveries preceded.
SwitchIsAtomic ==
  [][LET j == seen.journal
     IN  (\E p \in Processes : Forget(p)) /\ j # NoJournal
           => \A h \in Halves :
                /\ seen'.entry[h][Live] = IF j.phase = "committed" THEN begun[j.token].from
                                          ELSE begun[j.token].over
                /\ ~Exists(seen', h, Old(j.token)) /\ ~Exists(seen', h, Staged(j.token))]_restoreVars

\* A process that recovers, or restores once its journal is written, is never stopped by
\* a rename without its source or onto a directory, nor by a unit that does not verify:
\* it ends by removing the journal, or by a death (storage.md: recovery "is idempotent").
RecoveryNeverGetsStuck ==
  [][\A p \in Processes :
       /\ process[p].at = "running"
       /\ process[p].program \in {"rollback", "finish"} \/ seen.journal # NoJournal
       /\ process'[p].at # "running"
       => restoreCrashes' > restoreCrashes \/ seen'.journal = NoJournal]_restoreVars

=============================================================================

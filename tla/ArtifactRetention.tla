-------------------------- MODULE ArtifactRetention --------------------------
(***************************************************************************)
(* The content-addressed artifacts of an authority: files outside the      *)
(* database and rows inside it                                             *)
(* (packages/store-sqlite/src/artifact-store.ts, retention/index.ts,       *)
(* migrations.ts, publishAndAppendAtomic of sqlite-authority.ts).          *)
(* Processes publish content through a staging file, register it,          *)
(* reference or pin it, let go of it, plan its collection and carry the    *)
(* collection out, each with its own connection; a process can die and the *)
(* machine can lose power between any two steps.                           *)
(*                                                                         *)
(* What is abstracted.  A file is present with the content its name        *)
(* demands, or absent: its bytes are flushed before it is renamed.  Every  *)
(* digest has a directory of its own, so syncing the directory makes what  *)
(* is there durable for that digest.  A SQLite transaction is one step:    *)
(* committed rows survive a power failure (synchronous=FULL).  In a        *)
(* transaction that adds a reference the bytes are read several times; they*)
(* can only disappear meanwhile for a digest under retention, for which the*)
(* trigger aborts the transaction in any case.                             *)
(***************************************************************************)
EXTENDS Integers, FiniteSets

CONSTANTS
  Digests,     \* content, by its digest
  Events,      \* events whose append publishes and references an artifact
  Pins,        \* pin ids
  Processes,   \* processes, each with a connection
  MaxCrashes,  \* bound: process deaths and power failures
  NoDigest, NoOwner

ASSUME CrashAssumption == MaxCrashes \in Nat
ASSUME SentinelsAssumption == NoDigest \notin Digests /\ NoOwner \notin Events \cup Pins

VARIABLES
  seen,       \* the digests whose file a process can open
  durable,    \* the digests whose file is there after a power failure
  staging,    \* the processes whose staging file exists
  catalog,    \* table artifacts
  holds,      \* tables artifact_refs and artifact_pins
  intent,     \* table retention_intents; "deleted" has its row in artifact_tombstones
  committed,  \* the events in the streams
  process,    \* what each process is doing
  crashes     \* deaths and power failures so far

files == <<seen, durable, staging>>
rows == <<catalog, holds, intent, committed>>
vars == <<files, rows, process, crashes>>

-----------------------------------------------------------------------------
Owners == Events \cup Pins
Intents == {"none", "pending", "deleting", "deleted"}
Places == {"idle", "staging", "renaming", "syncing", "verifying", "appending",
           "registering", "inserting", "holding",
           "resuming", "unlinking", "unlinked", "tombstoning"}

Idle == [at |-> "idle", digest |-> NoDigest, owner |-> NoOwner, list |-> {}]

ProcessStates == [at : Places, digest : Digests \cup {NoDigest}, owner : Owners \cup {NoOwner},
                  list : SUBSET (Digests \X {"pending", "deleting"})]

Init ==
  /\ seen = {} /\ durable = {} /\ staging = {}
  /\ catalog = {} /\ holds = {} /\ committed = {}
  /\ intent = [d \in Digests |-> "none"]
  /\ process = [p \in Processes |-> Idle]
  /\ crashes = 0

Goes(p, place) == process' = [process EXCEPT ![p].at = place]
EndsWithoutReturn(p) == process' = [process EXCEPT ![p].digest = NoDigest]
Ends(p) == process' = [process EXCEPT ![p] = Idle]
Free(p) == process[p].at = "idle"

Held(d) == \E o \in Owners : <<o, d>> \in holds

\* The triggers retention_blocks_refs and retention_blocks_pins, for ever after
\* an intent exists.
MayHoldOnceDeleted(d) == intent[d] \in {"none", "deleted"}
MayHold(d) == intent[d] = "none"

-----------------------------------------------------------------------------
(* Publishing (publish, l. 31-50): the file is there before any row names  *)
(* it.                                                                     *)

\* A publication with an owner is one of publishAndAppendAtomic, without one
\* of publishAndRegister.
Publish(p) ==
  /\ Free(p)
  /\ \E d \in Digests, o \in Events \cup {NoOwner} :
       process' = [process EXCEPT ![p] =
         [Idle EXCEPT !.at = IF d \in seen THEN "syncing" ELSE "staging",
                      !.digest = d, !.owner = o]]
  /\ UNCHANGED <<files, rows, crashes>>

\* The staging file is opened, written, flushed and closed.
Stage(p) ==
  /\ process[p].at = "staging"
  /\ staging' = staging \cup {p}
  /\ Goes(p, "renaming")
  /\ UNCHANGED <<seen, durable, rows, crashes>>

\* The rename fails when another process has cleared the staging directory.
Rename(p) ==
  /\ process[p].at = "renaming"
  /\ \/ /\ p \in staging
        /\ staging' = staging \ {p}
        /\ seen' = seen \cup {process[p].digest}
        /\ Goes(p, "syncing")
     \/ /\ p \notin staging
        /\ Ends(p)
        /\ UNCHANGED <<seen, staging>>
  /\ UNCHANGED <<durable, rows, crashes>>

\* Syncing the directory of a digest makes its entry durable as it is.
Synced(d) == IF d \in seen THEN durable \cup {d} ELSE durable \ {d}

Sync(p) ==
  /\ process[p].at = "syncing"
  /\ durable' = Synced(process[p].digest)
  /\ Goes(p, "verifying")
  /\ UNCHANGED <<seen, staging, rows, crashes>>

\* readVerifiedBytes, at the end of publish.
Verify(p) ==
  /\ process[p].at = "verifying"
  /\ IF process[p].digest \notin seen THEN Ends(p)
     ELSE Goes(p, IF process[p].owner = NoOwner THEN "registering" ELSE "appending")
  /\ UNCHANGED <<files, rows, crashes>>

\* publishAndAppendAtomic: a transaction that registers the artifact, appends the
\* event and references the artifact, or rolls all of it back.  It is refused as
\* well for a reason of the append (a stale cursor, a conflict, the lock).
Append(p) ==
  LET d == process[p].digest
      o == process[p].owner
  IN  /\ process[p].at = "appending"
      /\ \/ /\ o \notin committed
            /\ d \in seen
            /\ MayHold(d)
            /\ committed' = committed \cup {o}
            /\ catalog' = catalog \cup {d}
            /\ holds' = holds \cup {<<o, d>>}
         \/ UNCHANGED <<committed, catalog, holds>>
      /\ Ends(p)
      /\ UNCHANGED <<files, intent, crashes>>

\* publishAndRegister verifies the file and then inserts the row, each on its own.
RegisterVerified(p) ==
  /\ process[p].at = "registering"
  /\ IF process[p].digest \in seen THEN Goes(p, "inserting") ELSE Ends(p)
  /\ UNCHANGED <<files, rows, crashes>>

RegisterInserts(p) ==
  /\ process[p].at = "inserting"
  /\ catalog' = catalog \cup {process[p].digest}
  /\ Ends(p)
  /\ UNCHANGED <<files, holds, intent, committed, crashes>>

-----------------------------------------------------------------------------
(* References and pins on their own (addReference, pin, l. 56-59).         *)

\* The artifact is read first; an event can only own a reference once it exists.
Hold(p) ==
  /\ Free(p)
  /\ \E d \in catalog \cap seen, o \in committed \cup Pins :
       process' = [process EXCEPT ![p] =
         [Idle EXCEPT !.at = "holding", !.digest = d, !.owner = o]]
  /\ UNCHANGED <<files, rows, crashes>>

\* The insert is refused by the trigger or by the foreign key.
HoldInserts(p) ==
  LET d == process[p].digest
  IN  /\ process[p].at = "holding"
      /\ holds' = IF MayHold(d) /\ d \in catalog
                  THEN holds \cup {<<process[p].owner, d>>} ELSE holds
      /\ Ends(p)
      /\ UNCHANGED <<files, catalog, intent, committed, crashes>>

\* removeReference, unpin.
Release(p) ==
  /\ Free(p)
  /\ \E h \in holds : holds' = holds \ {h}
  /\ UNCHANGED <<files, catalog, intent, committed, process, crashes>>

-----------------------------------------------------------------------------
(* Collection (retention/index.ts).                                        *)

\* planRetention: a transaction that finds no reference and records the intent.
CollectableIfKnown(d) == d \in catalog
Collectable(d) == d \in catalog /\ ~Held(d)

Plan(p) ==
  /\ Free(p)
  /\ \E d \in Digests :
       /\ Collectable(d)
       /\ intent[d] = "none"
       /\ intent' = [intent EXCEPT ![d] = "pending"]
  /\ UNCHANGED <<files, catalog, holds, committed, process, crashes>>

\* resumeRetention reads the unfinished intents once, outside any transaction.
Resume(p) ==
  /\ Free(p)
  /\ LET unfinished == {<<d, intent[d]>> : d \in {e \in Digests : intent[e] \in {"pending", "deleting"}}}
     IN  /\ unfinished # {}
         /\ process' = [process EXCEPT ![p] = [Idle EXCEPT !.at = "resuming", !.list = unfinished]]
  /\ UNCHANGED <<files, rows, crashes>>

\* The next intent of the list: when it was pending, a transaction checks that it
\* still is and that it may go on, deletes the row of the artifact and makes the
\* intent deleting; a catalog row or a reference it did not expect is an error.
StillPending(d) == intent[d] = "pending"
MarkedAfterUnlink(d) == intent
Marked(d) == [intent EXCEPT ![d] = "deleting"]

Skips(p, item) == process' = [process EXCEPT ![p].list = @ \ {item}]
TakesUp(p, item) ==
  process' = [process EXCEPT ![p] =
    [Idle EXCEPT !.at = "unlinking", !.digest = item[1], !.list = process[p].list \ {item}]]

TakeItem(p, item) ==
  LET d == item[1]
  IN  \/ /\ item[2] = "pending" /\ StillPending(d) /\ Collectable(d)
         /\ catalog' = catalog \ {d}
         /\ intent' = Marked(d)
         /\ TakesUp(p, item)
      \/ /\ item[2] = "pending" /\ StillPending(d) /\ ~Collectable(d)
         /\ Ends(p)
         /\ UNCHANGED <<catalog, intent>>
      \/ /\ item[2] = "pending" /\ ~StillPending(d)
         /\ Skips(p, item)
         /\ UNCHANGED <<catalog, intent>>
      \/ /\ item[2] = "deleting"
         /\ TakesUp(p, item)
         /\ UNCHANGED <<catalog, intent>>

Take(p) ==
  /\ process[p].at = "resuming"
  /\ \E item \in process[p].list : TakeItem(p, item)
  /\ UNCHANGED <<files, holds, committed, crashes>>

\* rmSync, only if the file is there.
Unlink(p) ==
  LET d == process[p].digest
  IN  /\ process[p].at = "unlinking"
      /\ IF d \in seen THEN Goes(p, "unlinked") ELSE Goes(p, "tombstoning")
      /\ seen' = seen \ {d}
      /\ UNCHANGED <<durable, staging, rows, crashes>>

\* syncDirectory, only after rmSync.
SyncUnlinked(p) ==
  /\ process[p].at = "unlinked"
  /\ durable' = Synced(process[p].digest)
  /\ Goes(p, "tombstoning")
  /\ UNCHANGED <<seen, staging, rows, crashes>>

\* The intent becomes deleted and the tombstone is written, by whoever is first.
Tombstone(p) ==
  LET d == process[p].digest
  IN  /\ process[p].at = "tombstoning"
      /\ intent' = IF intent[d] = "deleting" THEN [intent EXCEPT ![d] = "deleted"] ELSE intent
      /\ process' = [process EXCEPT ![p].at = "resuming", ![p].digest = NoDigest]
      /\ UNCHANGED <<files, catalog, holds, committed, crashes>>

Completed(p) ==
  /\ process[p].at = "resuming"
  /\ process[p].list = {}
  /\ Ends(p)
  /\ UNCHANGED <<files, rows, crashes>>

-----------------------------------------------------------------------------
(* Opening an authority clears the staging directory, the staging files of *)
(* live processes included; processes die; the machine loses power.        *)

RecoverStaging(p) ==
  /\ Free(p)
  /\ staging # {}
  /\ staging' = {}
  /\ UNCHANGED <<seen, durable, rows, process, crashes>>

Die(p) ==
  /\ crashes < MaxCrashes
  /\ ~Free(p)
  /\ Ends(p)
  /\ crashes' = crashes + 1
  /\ UNCHANGED <<files, rows>>

\* An entry that was not synced may be as it was or as it had become.
PowerFailure ==
  /\ crashes < MaxCrashes
  /\ \E disk \in SUBSET (seen \cup durable) :
       /\ seen \cap durable \subseteq disk
       /\ seen' = disk
       /\ durable' = disk
  /\ staging' = {}
  /\ process' = [p \in Processes |-> Idle]
  /\ crashes' = crashes + 1
  /\ UNCHANGED rows

PublishStep(p) ==
  \/ Publish(p) \/ Stage(p) \/ Rename(p) \/ Sync(p) \/ Verify(p)
  \/ Append(p) \/ RegisterVerified(p) \/ RegisterInserts(p)
  \/ Hold(p) \/ HoldInserts(p) \/ Release(p)

CollectStep(p) ==
  \/ Plan(p) \/ Resume(p) \/ Take(p) \/ Unlink(p) \/ SyncUnlinked(p)
  \/ Tombstone(p) \/ Completed(p)

Next ==
  \/ \E p \in Processes : PublishStep(p) \/ CollectStep(p) \/ RecoverStaging(p) \/ Die(p)
  \/ PowerFailure

Spec == Init /\ [][Next]_vars

-----------------------------------------------------------------------------
(* Properties.                                                             *)

\* A process in the middle of an operation has the digest and the owner it is about.
Fits(state) ==
  /\ state.at \notin {"idle", "resuming"} => state.digest \in Digests
  /\ state.at \in {"staging", "renaming", "syncing", "verifying"}
       => state.owner \in Events \cup {NoOwner}
  /\ state.at = "appending" => state.owner \in Events
  /\ state.at = "holding" => state.owner \in Owners

\* Every variable has its type, and every process what its operation needs: none goes
\* on with an operation it has let go of.
TypeOK ==
  /\ seen \subseteq Digests /\ durable \subseteq Digests
  /\ staging \subseteq Processes
  /\ catalog \subseteq Digests
  /\ holds \subseteq Owners \X Digests
  /\ intent \in [Digests -> Intents]
  /\ committed \subseteq Events
  /\ process \in [Processes -> ProcessStates]
  /\ crashes \in 0 .. MaxCrashes
  /\ \A p \in Processes : Fits(process[p])

\* What a reference or a pin names is catalogued and its bytes are on disk, also
\* after a power failure: docs/operations/storage.md, "no live reference can point
\* to missing bytes", with collections, deaths and publications in any order.
ReferencedBytesPresent ==
  \A o \in Owners, d \in Digests :
    <<o, d>> \in holds => d \in catalog /\ d \in seen /\ d \in durable

\* Content whose collection was once planned is never referenced or pinned again,
\* and while it is being deleted nothing else may rely on it (the triggers; the
\* checks of planRetention and resumeRetention).
CollectedIsUnreferenced == \A d \in Digests : intent[d] # "none" => ~Held(d)

\* A file disappears only once its deletion is committed: storage.md, resumeRetention
\* commits deleting "before touching bytes"; whatever the list of intents a process
\* had read, and whoever died after reading one.
DeletionIsCommittedFirst ==
  [][\A d \in Digests :
       d \in seen /\ d \in durable /\ d \notin seen' => intent[d] \in {"deleting", "deleted"}]_vars

=============================================================================

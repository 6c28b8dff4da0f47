----------------------- MODULE ArtifactRetentionProofs -----------------------
(***************************************************************************)
(* Proofs about ArtifactRetention for every set of digests, events, pins   *)
(* and processes: whatever they do and wherever they die, what is          *)
(* referenced has its bytes on disk.                                       *)
(***************************************************************************)
EXTENDS ArtifactRetention, TLAPS

-----------------------------------------------------------------------------
(* Types.                                                                  *)

\* The process part of TypeOK, which every step has to establish anew.
ProcessesTyped ==
  /\ process \in [Processes -> ProcessStates]
  /\ \A p \in Processes : Fits(process[p])

\* A process that takes up another piece of work keeps its type.
LEMMA ProcessTakesUp ==
  ASSUME ProcessesTyped, NEW p \in Processes, NEW state \in ProcessStates, Fits(state),
         process' = [process EXCEPT ![p] = state]
  PROVE  ProcessesTyped'
BY DEF ProcessesTyped

\* A process that ends keeps its type.
LEMMA ProcessEnds ==
  ASSUME ProcessesTyped, NEW p \in Processes, Ends(p)
  PROVE  ProcessesTyped'
<1>1. Idle \in ProcessStates /\ Fits(Idle)
  BY DEF Idle, ProcessStates, Places, Fits
<1> QED
  BY <1>1, ProcessTakesUp DEF Ends

\* A process that goes on with its digest and owner keeps its type.
LEMMA ProcessMoves ==
  ASSUME ProcessesTyped, NEW p \in Processes, NEW place \in Places, Goes(p, place),
         process[p].digest \in Digests,
         \/ place \notin {"staging", "renaming", "syncing", "verifying", "appending", "holding"}
         \/ /\ place \in {"staging", "renaming", "syncing", "verifying"}
            /\ process[p].owner \in Events \cup {NoOwner}
         \/ place = "appending" /\ process[p].owner \in Events
  PROVE  ProcessesTyped'
<1> DEFINE state == [process[p] EXCEPT !.at = place]
<1>1. process[p] \in ProcessStates
  BY DEF ProcessesTyped
<1>2. /\ state \in ProcessStates /\ state.at = place
      /\ state.digest = process[p].digest /\ state.owner = process[p].owner
  BY <1>1 DEF ProcessStates
<1>3. Fits(state)
  BY <1>2 DEF Fits
<1>4. process' = [process EXCEPT ![p] = state]
  BY DEF Goes
<1> HIDE DEF state
<1> QED
  BY <1>2, <1>3, <1>4, ProcessTakesUp

\* What a step that publishes does to the types.
LEMMA PublishType ==
  ASSUME TypeOK, NEW p \in Processes, PublishStep(p)
  PROVE  TypeOK'
<1> USE DEF TypeOK, files, rows
<1>0. ProcessesTyped
  BY DEF ProcessesTyped
<1>1. CASE Publish(p)
  <2>1. PICK d \in Digests, o \in Events \cup {NoOwner} :
          process' = [process EXCEPT ![p] =
            [Idle EXCEPT !.at = IF d \in seen THEN "syncing" ELSE "staging",
                         !.digest = d, !.owner = o]]
    BY <1>1 DEF Publish
  <2> DEFINE state == [Idle EXCEPT !.at = IF d \in seen THEN "syncing" ELSE "staging",
                                   !.digest = d, !.owner = o]
  <2>2. state \in ProcessStates /\ Fits(state)
    BY DEF Idle, ProcessStates, Places, Owners, Fits
  <2>3. ProcessesTyped'
    BY <1>0, <2>1, <2>2, ProcessTakesUp
  <2> QED
    BY <1>1, <2>3 DEF Publish, ProcessesTyped
<1>2. CASE Stage(p)
  <2>1. ProcessesTyped'
    BY <1>0, <1>2, ProcessMoves, ProcessEnds DEF Stage, Fits, Places
  <2> QED
    BY <1>2, <2>1 DEF Stage, Fits, ProcessesTyped
<1>3. CASE Rename(p)
  <2>1. ProcessesTyped'
    BY <1>0, <1>3, ProcessMoves, ProcessEnds DEF Rename, Fits, Places
  <2> QED
    BY <1>3, <2>1 DEF Rename, Fits, ProcessesTyped
<1>4. CASE Sync(p)
  <2>1. ProcessesTyped'
    BY <1>0, <1>4, ProcessMoves, ProcessEnds DEF Sync, Fits, Places
  <2> QED
    BY <1>4, <2>1 DEF Sync, Synced, Fits, ProcessesTyped
<1>5. CASE Verify(p)
  <2>1. ProcessesTyped'
    BY <1>0, <1>5, ProcessMoves, ProcessEnds DEF Verify, Fits, Places
  <2> QED
    BY <1>5, <2>1 DEF Verify, Fits, ProcessesTyped
<1>6. CASE Append(p)
  <2>1. ProcessesTyped'
    BY <1>0, <1>6, ProcessEnds DEF Append
  <2>2. process[p].owner \in Events /\ process[p].digest \in Digests
    BY <1>6 DEF Append, Fits
  <2> QED
    BY <1>6, <2>1, <2>2 DEF Append, ProcessesTyped, Owners
<1>7. CASE RegisterVerified(p)
  <2>1. ProcessesTyped'
    BY <1>0, <1>7, ProcessMoves, ProcessEnds DEF RegisterVerified, Fits, Places
  <2> QED
    BY <1>7, <2>1 DEF RegisterVerified, Fits, ProcessesTyped
<1>8. CASE RegisterInserts(p)
  <2>1. ProcessesTyped'
    BY <1>0, <1>8, ProcessEnds DEF RegisterInserts
  <2> QED
    BY <1>8, <2>1 DEF RegisterInserts, ProcessesTyped, Fits
<1>9. CASE Hold(p)
  <2>1. PICK d \in catalog \cap seen, o \in committed \cup Pins :
          process' = [process EXCEPT ![p] =
            [Idle EXCEPT !.at = "holding", !.digest = d, !.owner = o]]
    BY <1>9 DEF Hold
  <2>2. /\ [Idle EXCEPT !.at = "holding", !.digest = d, !.owner = o] \in ProcessStates
        /\ Fits([Idle EXCEPT !.at = "holding", !.digest = d, !.owner = o])
    BY DEF Idle, ProcessStates, Places, Owners, Fits
  <2>3. ProcessesTyped'
    BY <1>0, <2>1, <2>2, ProcessTakesUp
  <2> QED
    BY <1>9, <2>3 DEF Hold, ProcessesTyped
<1>10. CASE HoldInserts(p)
  <2>1. ProcessesTyped'
    BY <1>0, <1>10, ProcessEnds DEF HoldInserts
  <2>2. process[p].digest \in Digests /\ process[p].owner \in Owners
    BY <1>10 DEF HoldInserts, Fits
  <2> QED
    BY <1>10, <2>1, <2>2 DEF HoldInserts, ProcessesTyped
<1>11. CASE Release(p)
  BY <1>11 DEF Release, Fits
<1> QED
  BY <1>1, <1>2, <1>3, <1>4, <1>5, <1>6, <1>7, <1>8, <1>9, <1>10, <1>11 DEF PublishStep

\* What a step of a collection does to the types.
LEMMA CollectType ==
  ASSUME TypeOK, NEW p \in Processes, CollectStep(p)
  PROVE  TypeOK'
<1> USE DEF TypeOK, files, rows
<1>0. ProcessesTyped
  BY DEF ProcessesTyped
<1>1. CASE Plan(p)
  BY <1>1 DEF Plan, Intents, Fits
<1>2. CASE Resume(p)
  <2> DEFINE unfinished == {<<d, intent[d]>> : d \in {e \in Digests : intent[e] \in {"pending", "deleting"}}}
             state == [Idle EXCEPT !.at = "resuming", !.list = unfinished]
  <2>1. unfinished \in SUBSET (Digests \X {"pending", "deleting"})
    OBVIOUS
  <2> HIDE DEF unfinished
  <2>2. state \in ProcessStates /\ Fits(state)
    BY <2>1 DEF Idle, ProcessStates, Places, Fits
  <2>3. process' = [process EXCEPT ![p] = state]
    BY <1>2 DEF Resume, unfinished
  <2> HIDE DEF state
  <2>4. ProcessesTyped'
    BY <1>0, <2>2, <2>3, ProcessTakesUp
  <2> QED
    BY <1>2, <2>4 DEF Resume, ProcessesTyped
<1>3. CASE Take(p)
  <2>1. PICK item \in process[p].list : TakeItem(p, item)
    BY <1>3 DEF Take
  <2>2. process[p].list \in SUBSET (Digests \X {"pending", "deleting"})
    BY DEF ProcessStates
  <2>3. item[1] \in Digests
    BY <2>2
  <2>4. process[p].list \ {item} \in SUBSET (Digests \X {"pending", "deleting"})
    BY <2>2
  <2>5. ASSUME TakesUp(p, item)
        PROVE  ProcessesTyped'
    <3> DEFINE state == [Idle EXCEPT !.at = "unlinking", !.digest = item[1],
                                     !.list = process[p].list \ {item}]
    <3>1. state \in ProcessStates /\ Fits(state)
      BY <2>3, <2>4 DEF Idle, ProcessStates, Places, Fits
    <3>2. process' = [process EXCEPT ![p] = state]
      BY <2>5 DEF TakesUp
    <3> HIDE DEF state
    <3> QED
      BY <1>0, <3>1, <3>2, ProcessTakesUp
  <2>6. ASSUME Skips(p, item)
        PROVE  ProcessesTyped'
    <3> DEFINE state == [process[p] EXCEPT !.list = process[p].list \ {item}]
    <3>1. process[p] \in ProcessStates /\ process[p].at = "resuming"
      BY <1>3 DEF Take
    <3>2. state \in ProcessStates /\ state.at = "resuming"
      BY <2>4, <3>1 DEF ProcessStates
    <3>3. process' = [process EXCEPT ![p] = state]
      BY <2>6 DEF Skips
    <3> HIDE DEF state
    <3>4. Fits(state)
      BY <3>2 DEF Fits
    <3> QED
      BY <1>0, <3>2, <3>3, <3>4, ProcessTakesUp
  <2>7. ProcessesTyped'
    BY <1>0, <2>1, <2>5, <2>6, ProcessEnds DEF TakeItem
  <2> QED
    BY <1>3, <2>1, <2>3, <2>7 DEF Take, TakeItem, Marked, Intents, ProcessesTyped
<1>4. CASE Unlink(p)
  <2>1. ProcessesTyped'
    BY <1>0, <1>4, ProcessMoves DEF Unlink, Fits, Places
  <2> QED
    BY <1>4, <2>1 DEF Unlink, ProcessesTyped
<1>5. CASE SyncUnlinked(p)
  <2>1. ProcessesTyped'
    BY <1>0, <1>5, ProcessMoves DEF SyncUnlinked, Fits, Places
  <2> QED
    BY <1>5, <2>1 DEF SyncUnlinked, Synced, Fits, ProcessesTyped
<1>6. CASE Tombstone(p)
  <2> DEFINE state == [process[p] EXCEPT !.at = "resuming", !.digest = NoDigest]
  <2>1. process[p] \in ProcessStates
    OBVIOUS
  <2>2. state \in ProcessStates /\ state.at = "resuming"
    BY <2>1 DEF ProcessStates, Places
  <2>3. process' = [process EXCEPT ![p] = state]
    BY <1>6 DEF Tombstone
  <2> HIDE DEF state
  <2>4. ProcessesTyped'
    BY <1>0, <2>2, <2>3, ProcessTakesUp DEF Fits
  <2>5. intent' \in [Digests -> Intents]
    BY <1>6 DEF Tombstone, Intents
  <2> QED
    BY <1>6, <2>4, <2>5 DEF Tombstone, ProcessesTyped
<1>7. CASE Completed(p)
  <2>1. ProcessesTyped'
    BY <1>0, <1>7, ProcessEnds DEF Completed
  <2> QED
    BY <1>7, <2>1 DEF Completed, ProcessesTyped
<1> QED
  BY <1>1, <1>2, <1>3, <1>4, <1>5, <1>6, <1>7 DEF CollectStep

\* Every step keeps the types.
LEMMA NextType == TypeOK /\ [Next]_vars => TypeOK'
<1> SUFFICES ASSUME TypeOK, [Next]_vars
             PROVE  TypeOK'
  OBVIOUS
<1> USE DEF files, rows
<1>0. ProcessesTyped
  BY DEF TypeOK, ProcessesTyped
<1>1. ASSUME NEW p \in Processes, RecoverStaging(p)
      PROVE  TypeOK'
  BY <1>1 DEF RecoverStaging, TypeOK, Fits
<1>2. ASSUME NEW p \in Processes, Die(p)
      PROVE  TypeOK'
  <2>1. ProcessesTyped'
    BY <1>0, <1>2, ProcessEnds DEF Die
  <2>2. crashes' \in 0 .. MaxCrashes
    BY <1>2, CrashAssumption DEF Die, TypeOK
  <2> QED
    BY <1>2, <2>1, <2>2 DEF Die, TypeOK, ProcessesTyped
<1>3. CASE PowerFailure
  <2>1. Idle \in ProcessStates /\ Fits(Idle)
    BY DEF Idle, ProcessStates, Places, Fits
  <2>2. crashes' \in 0 .. MaxCrashes
    BY <1>3, CrashAssumption DEF PowerFailure, TypeOK
  <2>3. seen' \subseteq Digests /\ durable' \subseteq Digests
    BY <1>3 DEF PowerFailure, TypeOK
  <2>4. process' = [p \in Processes |-> Idle]
    BY <1>3 DEF PowerFailure
  <2>5. process' \in [Processes -> ProcessStates] /\ \A p \in Processes : Fits(process'[p])
    BY <2>1, <2>4
  <2> QED
    BY <1>3, <2>2, <2>3, <2>5 DEF PowerFailure, TypeOK
<1>4. CASE UNCHANGED vars
  BY <1>4 DEF vars, TypeOK, Fits
<1> QED
  BY <1>1, <1>2, <1>3, <1>4, PublishType, CollectType DEF Next

LEMMA InitType == Init => TypeOK
<1>1. Idle \in ProcessStates /\ Fits(Idle)
  BY DEF Idle, ProcessStates, Places, Fits
<1> QED
  BY <1>1, CrashAssumption DEF Init, TypeOK, Intents

\* Every variable keeps its type, and no process goes on with an operation it has let
\* go of (the early returns of publish, register and resumeRetention).
THEOREM TypeCorrect == Spec => []TypeOK
BY InitType, NextType, PTL DEF Spec

-----------------------------------------------------------------------------
(* The inductive invariant behind the safety properties: content that was  *)
(* never under retention is backed by a durable file from the moment it is *)
(* synced, and whoever is about to unlink a file has a committed deletion. *)

HeldIsCatalogued == \A o \in Owners, d \in Digests : <<o, d>> \in holds => d \in catalog

CatalogIsBacked ==
  \A d \in Digests : intent[d] = "none" /\ d \in catalog => d \in seen /\ d \in durable

PublicationIsBacked ==
  \A p \in Processes, d \in Digests :
    process[p].digest = d /\ intent[d] = "none" =>
      /\ process[p].at = "syncing" => d \in seen
      /\ process[p].at \in {"verifying", "appending", "registering", "inserting"}
           => d \in seen /\ d \in durable

DeletionIsCommitted ==
  \A p \in Processes :
    /\ process[p].at \in {"unlinking", "unlinked", "tombstoning"}
         => intent[process[p].digest] \in {"deleting", "deleted"}
    /\ \A d \in Digests :
         <<d, "deleting">> \in process[p].list => intent[d] \in {"deleting", "deleted"}

RetentionInv ==
  /\ CollectedIsUnreferenced
  /\ HeldIsCatalogued
  /\ CatalogIsBacked
  /\ PublicationIsBacked
  /\ DeletionIsCommitted

\* What ending and going on mean for every process.
LEMMA EndsMeans ==
  ASSUME TypeOK, NEW p \in Processes, Ends(p)
  PROVE  \A q \in Processes :
           /\ process'[q].at = IF q = p THEN "idle" ELSE process[q].at
           /\ process'[q].digest = IF q = p THEN NoDigest ELSE process[q].digest
           /\ process'[q].list = IF q = p THEN {} ELSE process[q].list
BY DEF Ends, Idle, TypeOK

LEMMA GoesMeans ==
  ASSUME TypeOK, NEW p \in Processes, NEW place \in Places, Goes(p, place)
  PROVE  \A q \in Processes :
           /\ process'[q].at = IF q = p THEN place ELSE process[q].at
           /\ process'[q].digest = process[q].digest
           /\ process'[q].list = process[q].list
<1>1. process[p] \in ProcessStates
  BY DEF TypeOK
<1>2. process' = [process EXCEPT ![p] = [process[p] EXCEPT !.at = place]]
  BY DEF Goes
<1> QED
  BY <1>1, <1>2 DEF TypeOK, ProcessStates

\* A step that publishes keeps the invariant.
LEMMA PublishKeeps ==
  ASSUME TypeOK, RetentionInv, NEW p \in Processes, PublishStep(p)
  PROVE  RetentionInv'
<1> USE DEF RetentionInv, CollectedIsUnreferenced, HeldIsCatalogued, CatalogIsBacked,
            PublicationIsBacked, DeletionIsCommitted, Held, files, rows
<1>1. CASE Publish(p)
  <2>1. PICK d \in Digests, o \in Events \cup {NoOwner} :
          process' = [process EXCEPT ![p] =
            [Idle EXCEPT !.at = IF d \in seen THEN "syncing" ELSE "staging",
                         !.digest = d, !.owner = o]]
    BY <1>1 DEF Publish
  <2>2. /\ process'[p].at = IF d \in seen THEN "syncing" ELSE "staging"
        /\ process'[p].digest = d /\ process'[p].list = {}
        /\ \A q \in Processes \ {p} : process'[q] = process[q]
    BY <2>1 DEF TypeOK, Idle
  <2> QED
    BY <1>1, <2>2 DEF Publish
<1>2. CASE Stage(p)
  BY <1>2, GoesMeans DEF Stage, Places
<1>3. CASE Rename(p)
  <2>1. CASE p \in staging
    <3>1. Goes(p, "syncing") /\ seen' = seen \cup {process[p].digest}
      BY <1>3, <2>1 DEF Rename
    <3> QED
      BY <1>3, <3>1, GoesMeans DEF Rename, Places
  <2>2. CASE p \notin staging
    BY <1>3, <2>2, EndsMeans, SentinelsAssumption DEF Rename
  <2> QED
    BY <2>1, <2>2
<1>4. CASE Sync(p)
  <2> DEFINE d == process[p].digest
  <2>1. Goes(p, "verifying") /\ process[p].at = "syncing"
    BY <1>4 DEF Sync
  <2>2. \A q \in Processes :
          /\ process'[q].at = IF q = p THEN "verifying" ELSE process[q].at
          /\ process'[q].digest = process[q].digest
          /\ process'[q].list = process[q].list
    BY <2>1, GoesMeans DEF Places
  <2>3. UNCHANGED <<seen, catalog, holds, intent>>
    BY <1>4 DEF Sync
  <2>4. durable' = IF d \in seen THEN durable \cup {d} ELSE durable \ {d}
    BY <1>4 DEF Sync, Synced
  <2> HIDE DEF d
  <2>5. CollectedIsUnreferenced' /\ HeldIsCatalogued' /\ DeletionIsCommitted'
    BY <2>2, <2>3
  <2>6. \A e \in Digests : e \in seen /\ e \in durable => e \in durable'
    BY <2>4
  <2>7. CatalogIsBacked'
    BY <2>3, <2>6
  <2>8. d \in seen => d \in durable'
    BY <2>4
  <2>9. PublicationIsBacked'
    BY <2>1, <2>2, <2>3, <2>6, <2>8 DEF d
  <2> QED
    BY <2>5, <2>7, <2>9
<1>5. CASE Verify(p)
  <2>1. CASE process[p].digest \notin seen
    BY <1>5, <2>1, EndsMeans, SentinelsAssumption DEF Verify
  <2>2. CASE process[p].digest \in seen
    BY <1>5, <2>2, GoesMeans DEF Verify, Places
  <2> QED
    BY <2>1, <2>2
<1>6. CASE Append(p)
  <2>1. Ends(p)
    BY <1>6 DEF Append
  <2>2. process[p].digest \in Digests /\ process[p].at = "appending"
    BY <1>6 DEF Append, TypeOK, Fits
  <2>3. \A q \in Processes :
          /\ process'[q].at = IF q = p THEN "idle" ELSE process[q].at
          /\ process'[q].digest = IF q = p THEN NoDigest ELSE process[q].digest
          /\ process'[q].list = IF q = p THEN {} ELSE process[q].list
    BY <2>1, EndsMeans
  <2>4. UNCHANGED <<seen, durable, intent>>
    BY <1>6 DEF Append
  <2>5. PublicationIsBacked' /\ DeletionIsCommitted'
    BY <2>3, <2>4, SentinelsAssumption
  <2>6. CASE UNCHANGED <<catalog, holds>>
    BY <2>4, <2>5, <2>6
  <2>7. CASE /\ MayHold(process[p].digest)
             /\ catalog' = catalog \cup {process[p].digest}
             /\ holds' = holds \cup {<<process[p].owner, process[p].digest>>}
    <3>1. CollectedIsUnreferenced' /\ HeldIsCatalogued'
      BY <2>4, <2>7 DEF MayHold
    <3>2. CatalogIsBacked'
      BY <2>2, <2>4, <2>7 DEF MayHold
    <3> QED
      BY <2>5, <3>1, <3>2
  <2> QED
    BY <1>6, <2>6, <2>7 DEF Append
<1>7. CASE RegisterVerified(p)
  <2>1. CASE process[p].digest \notin seen
    BY <1>7, <2>1, EndsMeans, SentinelsAssumption DEF RegisterVerified
  <2>2. CASE process[p].digest \in seen
    BY <1>7, <2>2, GoesMeans DEF RegisterVerified, Places
  <2> QED
    BY <2>1, <2>2
<1>8. CASE RegisterInserts(p)
  <2>1. Ends(p)
    BY <1>8 DEF RegisterInserts
  <2>2. process[p].digest \in Digests /\ process[p].at = "inserting"
    BY <1>8 DEF RegisterInserts, TypeOK, Fits
  <2> QED
    BY <1>8, <2>1, <2>2, EndsMeans, SentinelsAssumption DEF RegisterInserts
<1>9. CASE Hold(p)
  <2>1. PICK d \in catalog \cap seen, o \in committed \cup Pins :
          process' = [process EXCEPT ![p] =
            [Idle EXCEPT !.at = "holding", !.digest = d, !.owner = o]]
    BY <1>9 DEF Hold
  <2>2. /\ process'[p].at = "holding" /\ process'[p].digest = d /\ process'[p].list = {}
        /\ \A q \in Processes \ {p} : process'[q] = process[q]
    BY <2>1 DEF TypeOK, Idle
  <2> QED
    BY <1>9, <2>2 DEF Hold
<1>10. CASE HoldInserts(p)
  <2>1. Ends(p)
    BY <1>10 DEF HoldInserts
  <2> QED
    BY <1>10, <2>1, EndsMeans, SentinelsAssumption DEF HoldInserts, MayHold
<1>11. CASE Release(p)
  BY <1>11 DEF Release
<1> QED
  BY <1>1, <1>2, <1>3, <1>4, <1>5, <1>6, <1>7, <1>8, <1>9, <1>10, <1>11 DEF PublishStep

\* A step of a collection keeps the invariant.
LEMMA CollectKeeps ==
  ASSUME TypeOK, RetentionInv, NEW p \in Processes, CollectStep(p)
  PROVE  RetentionInv'
<1> USE DEF RetentionInv, CollectedIsUnreferenced, HeldIsCatalogued, CatalogIsBacked,
            PublicationIsBacked, DeletionIsCommitted, Held, files, rows
<1>0. intent \in [Digests -> Intents]
  BY DEF TypeOK
<1>1. CASE Plan(p)
  BY <1>0, <1>1 DEF Plan, Collectable
<1>2. CASE Resume(p)
  <2> DEFINE unfinished == {<<d, intent[d]>> : d \in {e \in Digests : intent[e] \in {"pending", "deleting"}}}
  <2>1. process' = [process EXCEPT ![p] = [Idle EXCEPT !.at = "resuming", !.list = unfinished]]
    BY <1>2 DEF Resume
  <2>2. \A d \in Digests : <<d, "deleting">> \in unfinished => intent[d] = "deleting"
    OBVIOUS
  <2> HIDE DEF unfinished
  <2>3. /\ process'[p].at = "resuming" /\ process'[p].digest = NoDigest
        /\ process'[p].list = unfinished
        /\ \A q \in Processes \ {p} : process'[q] = process[q]
    BY <2>1 DEF TypeOK, Idle
  <2> QED
    BY <1>2, <2>2, <2>3, SentinelsAssumption DEF Resume
<1>3. CASE Take(p)
  <2>1. PICK item \in process[p].list : TakeItem(p, item)
    BY <1>3 DEF Take
  <2>2. item \in Digests \X {"pending", "deleting"}
    BY DEF TypeOK, ProcessStates
  <2>3. item[1] \in Digests /\ item = <<item[1], item[2]>>
    BY <2>2
  <2>4. ASSUME TakesUp(p, item)
        PROVE  /\ process'[p].at = "unlinking" /\ process'[p].digest = item[1]
               /\ process'[p].list = process[p].list \ {item}
               /\ \A q \in Processes \ {p} : process'[q] = process[q]
    BY <2>4 DEF TakesUp, Idle, TypeOK
  <2>5. CASE /\ item[2] = "pending" /\ StillPending(item[1]) /\ Collectable(item[1])
             /\ catalog' = catalog \ {item[1]}
             /\ intent' = Marked(item[1])
             /\ TakesUp(p, item)
    <3>1. intent' = [intent EXCEPT ![item[1]] = "deleting"]
      BY <2>5 DEF Marked
    <3> QED
      BY <1>0, <1>3, <2>3, <2>4, <2>5, <3>1 DEF Take, StillPending, Collectable
  <2>6. CASE Ends(p) /\ UNCHANGED <<catalog, intent>>
    BY <1>3, <2>6, EndsMeans, SentinelsAssumption DEF Take
  <2>7. CASE Skips(p, item) /\ UNCHANGED <<catalog, intent>>
    <3>1. process[p] \in ProcessStates
      BY DEF TypeOK
    <3>2. /\ process'[p].at = process[p].at /\ process'[p].digest = process[p].digest
          /\ process'[p].list = process[p].list \ {item}
          /\ \A q \in Processes \ {p} : process'[q] = process[q]
      BY <2>7, <3>1 DEF Skips, TypeOK, ProcessStates
    <3> QED
      BY <1>3, <2>7, <3>2 DEF Take
  <2>8. CASE item[2] = "deleting" /\ TakesUp(p, item) /\ UNCHANGED <<catalog, intent>>
    BY <1>3, <2>3, <2>4, <2>8 DEF Take
  <2> QED
    BY <2>1, <2>5, <2>6, <2>7, <2>8 DEF TakeItem
<1>4. CASE Unlink(p)
  <2>1. PICK place \in {"unlinked", "tombstoning"} : Goes(p, place)
    BY <1>4 DEF Unlink
  <2>2. intent[process[p].digest] # "none"
    BY <1>4 DEF Unlink
  <2>3. /\ \A q \in Processes :
             /\ process'[q].at = IF q = p THEN place ELSE process[q].at
             /\ process'[q].digest = process[q].digest
             /\ process'[q].list = process[q].list
        /\ process[p].at = "unlinking"
    BY <1>4, <2>1, GoesMeans DEF Unlink, Places
  <2>4. DeletionIsCommitted'
    BY <1>4, <2>3 DEF Unlink
  <2>5. PublicationIsBacked'
    BY <1>4, <2>2, <2>3 DEF Unlink
  <2> QED
    BY <1>4, <2>2, <2>4, <2>5 DEF Unlink
<1>5. CASE SyncUnlinked(p)
  <2>1. intent[process[p].digest] # "none"
    BY <1>5 DEF SyncUnlinked
  <2> QED
    BY <1>5, <2>1, GoesMeans DEF SyncUnlinked, Synced, Places
<1>6. CASE Tombstone(p)
  <2>1. process[p] \in ProcessStates
    BY DEF TypeOK
  <2>2. /\ process'[p].at = "resuming" /\ process'[p].digest = NoDigest
        /\ process'[p].list = process[p].list
        /\ \A q \in Processes \ {p} : process'[q] = process[q]
    BY <1>6, <2>1 DEF Tombstone, TypeOK, ProcessStates
  <2>3. process[p].digest \in Digests
    BY <1>6 DEF Tombstone, TypeOK, Fits
  <2>4. \A d \in Digests :
          intent'[d] = IF d = process[p].digest /\ intent[d] = "deleting" THEN "deleted" ELSE intent[d]
    BY <1>0, <1>6, <2>3 DEF Tombstone
  <2>5. \A q \in Processes \ {p} :
          process[q].at \in {"unlinking", "unlinked", "tombstoning"} => process[q].digest \in Digests
    BY DEF TypeOK, Fits
  <2>6. DeletionIsCommitted'
    BY <2>2, <2>4, <2>5
  <2>7. \A d \in Digests : intent'[d] = "none" <=> intent[d] = "none"
    BY <2>4
  <2>8. UNCHANGED <<seen, durable, staging, catalog, holds>>
    BY <1>6 DEF Tombstone
  <2>9. PublicationIsBacked'
    BY <2>2, <2>7, <2>8, SentinelsAssumption
  <2> QED
    BY <2>6, <2>7, <2>8, <2>9
<1>7. CASE Completed(p)
  BY <1>7, EndsMeans, SentinelsAssumption DEF Completed
<1> QED
  BY <1>1, <1>2, <1>3, <1>4, <1>5, <1>6, <1>7 DEF CollectStep

\* Every step keeps the invariant.
LEMMA NextKeeps == TypeOK /\ RetentionInv /\ [Next]_vars => RetentionInv'
<1> SUFFICES ASSUME TypeOK, RetentionInv, [Next]_vars
             PROVE  RetentionInv'
  OBVIOUS
<1> USE DEF RetentionInv, CollectedIsUnreferenced, HeldIsCatalogued, CatalogIsBacked,
            PublicationIsBacked, DeletionIsCommitted, Held, files, rows
<1>1. ASSUME NEW p \in Processes, RecoverStaging(p)
      PROVE  RetentionInv'
  BY <1>1 DEF RecoverStaging
<1>2. ASSUME NEW p \in Processes, Die(p)
      PROVE  RetentionInv'
  BY <1>2, EndsMeans, SentinelsAssumption DEF Die
<1>3. CASE PowerFailure
  <2>1. \A q \in Processes :
          process'[q].at = "idle" /\ process'[q].digest = NoDigest /\ process'[q].list = {}
    BY <1>3 DEF PowerFailure, Idle
  <2> QED
    BY <1>3, <2>1, SentinelsAssumption DEF PowerFailure
<1>4. CASE UNCHANGED vars
  BY <1>4 DEF vars
<1> QED
  BY <1>1, <1>2, <1>3, <1>4, PublishKeeps, CollectKeeps DEF Next

LEMMA InitRetention == Init => RetentionInv
BY SentinelsAssumption
DEF Init, Idle, RetentionInv, CollectedIsUnreferenced, HeldIsCatalogued, CatalogIsBacked,
    PublicationIsBacked, DeletionIsCommitted, Held

\* The invariant holds of every behaviour.
LEMMA RetentionInvariant == Spec => []RetentionInv
BY InitType, NextType, InitRetention, NextKeeps, PTL DEF Spec

\* What a reference or a pin names has its catalog row and its bytes on disk, also after
\* a power failure, for any number of processes that publish and collect.
THEOREM ReferencesHaveBytes == Spec => []ReferencedBytesPresent
<1>1. RetentionInv => ReferencedBytesPresent
  BY DEF RetentionInv, CollectedIsUnreferenced, HeldIsCatalogued, CatalogIsBacked, Held,
         ReferencedBytesPresent
<1> QED
  BY <1>1, RetentionInvariant, PTL

\* Nothing whose collection was ever planned is referenced or pinned (the triggers of
\* migration 0002).
THEOREM CollectionIsExclusive == Spec => []CollectedIsUnreferenced
BY RetentionInvariant, PTL DEF RetentionInv

\* A durable file goes only after its deletion is committed, whatever a process that
\* resumes the collection had read before.
THEOREM DeletionsAreCommitted == Spec => DeletionIsCommittedFirst
<1>1. TypeOK /\ RetentionInv /\ [Next]_vars
        => [\A d \in Digests :
              d \in seen /\ d \in durable /\ d \notin seen'
                => intent[d] \in {"deleting", "deleted"}]_vars
  <2> SUFFICES ASSUME TypeOK, RetentionInv, Next, NEW d \in Digests,
                      d \in seen, d \in durable, d \notin seen'
               PROVE  intent[d] \in {"deleting", "deleted"}
    BY DEF vars, files
  <2>1. ASSUME NEW p \in Processes, PublishStep(p)
        PROVE  FALSE
    BY <2>1 DEF PublishStep, Publish, Stage, Rename, Sync, Verify, Append, RegisterVerified,
                RegisterInserts, Hold, HoldInserts, Release, files
  <2>2. ASSUME NEW p \in Processes, CollectStep(p)
        PROVE  Unlink(p)
    BY <2>2 DEF CollectStep, Plan, Resume, Take, SyncUnlinked, Tombstone, Completed, files
  <2>3. ASSUME NEW p \in Processes, Unlink(p)
        PROVE  intent[d] \in {"deleting", "deleted"}
    BY <2>3 DEF Unlink, RetentionInv, DeletionIsCommitted
  <2>4. ASSUME PowerFailure
        PROVE  FALSE
    BY <2>4 DEF PowerFailure
  <2>5. ASSUME NEW p \in Processes, RecoverStaging(p) \/ Die(p)
        PROVE  FALSE
    BY <2>5 DEF RecoverStaging, Die, files
  <2> QED
    BY <2>1, <2>2, <2>3, <2>4, <2>5 DEF Next
<1> QED
  BY <1>1, TypeCorrect, RetentionInvariant, PTL DEF Spec, DeletionIsCommittedFirst

=============================================================================

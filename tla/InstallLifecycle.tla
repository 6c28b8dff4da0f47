--------------------------- MODULE InstallLifecycle ---------------------------
(***************************************************************************)
(* The generations of one host's contribution: install, upgrade, downgrade,*)
(* rollback, retry-install, uninstall and repair of                        *)
(* packages/installer/src/operations, uninstall, repair and doctor.  A     *)
(* command runs file operation by file operation; it can die or fail on    *)
(* the way, and the next one goes on with what it finds.                   *)
(*                                                                         *)
(* What is abstracted.  One host of one workspace and account, so a marker *)
(* always binds to them.  The bytes of a generation are its release, and   *)
(* releases are ordered as their versions.  Writing a file atomically, or  *)
(* renaming or removing a tree, is one step; an append to the journal goes *)
(* with the write before it and can be what fails after it.                *)
(***************************************************************************)
EXTENDS Integers, FiniteSets

CONSTANTS
  Releases,     \* the releases, numbered in the order of their versions
  MaxGrants,    \* bound: grants the daemon issues
  MaxStops,     \* bound: commands that die or fail on the way
  DeathPoints,  \* where a command may die
  FailPoints,   \* where an operation of a lifecycle command may fail
  Missing       \* no bytes, no marker, no file

ASSUME InstallAssumption ==
  /\ Releases \subseteq Nat \ {0}
  /\ Missing \notin Releases /\ MaxGrants \in Nat /\ MaxStops \in Nat

VARIABLES
  target,     \* the bytes at the place where the host discovers them
  marker,     \* the owner marker beside it
  aside,      \* what an uninstall moved away: ${target}.disabled-${operationId}
  killSwitch, \* whether the kill switch is there
  stagedPath,     \* the staged generation of the lifecycle
  kept,       \* the retained generation of each release
  lifecycle,  \* the durable state of the lifecycle
  versions,   \* releases whose version is recorded
  issued,     \* grants issued so far
  revoked,    \* grants revoked
  command,    \* the running command
  stops       \* bound: commands that died or failed

files == <<target, marker, aside, killSwitch, stagedPath, kept, lifecycle, versions>>
installVars == <<files, issued, revoked, command, stops>>

-----------------------------------------------------------------------------
Markers == [release : Releases, grant : 1 .. MaxGrants]
Upgrades == {"upgrade", "downgrade", "rollback"}
LifecyclePhases == {"staging", "staged", "prior-retained", "activated", "healthy", "compensating"}
States == [phase : LifecyclePhases, requested : Releases, prior : Releases]
ASSUME MissingAssumption == Missing \notin Markers \cup States

InstallSteps == {"staging-install", "bundled", "placed", "marked-install", "installed"}
UpgradeSteps ==
  {"staging", "written", "staged", "cleared", "moved", "prior-retained", "switched", "activated",
   "granted", "marked", "recorded", "healthy"}
CompensationSteps == {"failing", "compensating", "emptied", "restored", "remarked", "unstaged"}
UninstallSteps == {"killing", "killed", "disabled", "revoked", "cleaned", "unmarked"}

Ready ==
  [at |-> "ready", release |-> Missing, existing |-> Missing, grant |-> Missing, retains |-> Missing]
HostCommands ==
  [at : {"ready"} \cup InstallSteps \cup UpgradeSteps \cup CompensationSteps \cup UninstallSteps,
   release : Releases \cup {Missing}, existing : Markers \cup {Missing},
   grant : (1 .. MaxGrants) \cup {Missing}, retains : Releases \cup {Missing}]

Goes(at) == command' = [command EXCEPT !.at = at]
Ends == command' = Ready

\* Phases recorded once the prior generation was moved to its retained place.
RetainedPhases == {"prior-retained", "activated"}

\* A lifecycle that a retry-install would resume.
Incomplete == lifecycle # Missing /\ lifecycle.phase # "healthy"

\* compareVersions: a release whose version is not recorded counts as 0.0.0.
VersionOf(r) == IF r \in versions THEN r ELSE 0

\* provisionOpaqueCredential: every call issues a new grant.
Provisions == issued < MaxGrants /\ issued' = issued + 1

\* inspectHost of the doctor, for a release.
Healthy(r) == marker # Missing /\ marker.release = r /\ ~killSwitch /\ target = r

-----------------------------------------------------------------------------
\* detect and the provisioning; operations/index.ts l. 161-164.
StartInstall(r) ==
  /\ command.at = "ready"
  /\ target = Missing \/ marker # Missing  \* or else managed-blocked
  /\ Provisions
  /\ command' = [Ready EXCEPT !.at = "staging-install", !.release = r, !.grant = issued + 1]
  /\ UNCHANGED <<files, revoked, stops>>

\* A repair installs when the doctor finds the host unhealthy.
StartRepair(r) == ~Healthy(r) /\ StartInstall(r)

\* stageManagedContribution: an install that matches is kept with its marker,
\* one that drifted is refused.
StageManaged ==
  /\ command.at = "staging-install"
  /\ \/ /\ marker # Missing
        /\ IF marker.release = command.release /\ target = command.release
             THEN Goes("installed")
             ELSE Ends
     \/ marker = Missing /\ Goes("bundled")
  /\ UNCHANGED <<files, issued, revoked, stops>>

ActivateInstall ==
  /\ command.at = "bundled"
  /\ target' = command.release
  /\ Goes("placed")
  /\ UNCHANGED <<marker, aside, killSwitch, stagedPath, kept, lifecycle, versions, issued, revoked, stops>>

MarkInstall ==
  /\ command.at = "placed"
  /\ marker' = [release |-> command.release, grant |-> command.grant]
  /\ Goes("marked-install")
  /\ UNCHANGED <<target, aside, killSwitch, stagedPath, kept, lifecycle, versions, issued, revoked, stops>>

RecordInstall ==
  /\ command.at = "marked-install"
  /\ versions' = versions \cup {command.release}
  /\ Goes("installed")
  /\ UNCHANGED <<target, marker, aside, killSwitch, stagedPath, kept, lifecycle, issued, revoked, stops>>

\* The install ends; with --atomic-hosts the failure of another host uninstalls
\* this one, whether this command installed it or found it installed, and
\* revokes the grant this command provisioned (l. 167).
EndInstall ==
  /\ command.at = "installed"
  /\ Ends \/ Goes("killing")
  /\ UNCHANGED <<files, issued, revoked, stops>>

-----------------------------------------------------------------------------
\* operateHostLifecycle l. 187-197: a new transaction, in place of one that is
\* unfinished and whether or not an unfinished uninstall left its kill switch.
StartUpgrade(op, r) ==
  /\ command.at = "ready" /\ marker # Missing
  /\ issued < MaxGrants
  /\ LET known == IF marker.release = r THEN r ELSE VersionOf(marker.release)
     IN op = "upgrade" => r > known
  /\ op = "downgrade" => r < (IF marker.release = r THEN r ELSE VersionOf(marker.release))
  /\ lifecycle' = [phase |-> "staging", requested |-> r, prior |-> marker.release]
  /\ stagedPath' = Missing  \* a path of its own for each transaction
  /\ command' = [Ready EXCEPT !.at = "staging", !.release = r, !.existing = marker]
  /\ UNCHANGED <<target, marker, aside, killSwitch, kept, versions, issued, revoked, stops>>

\* retry-install: goes on at the recorded phase.  "compensating" has no step,
\* and the command reports success.
StartRetry ==
  /\ command.at = "ready" /\ Incomplete /\ marker # Missing
  /\ issued < MaxGrants
  /\ command' = IF lifecycle.phase = "compensating" THEN Ready
                ELSE [Ready EXCEPT !.at = lifecycle.phase, !.release = lifecycle.requested,
                                   !.existing = marker,
                                   !.retains = IF lifecycle.phase \in RetainedPhases
                                                 THEN kept[lifecycle.prior] ELSE Missing]
  /\ UNCHANGED <<files, issued, revoked, stops>>

\* persist(phase), with the append after it.
PersistPhase(from, phase) ==
  /\ command.at = from
  /\ lifecycle' = [lifecycle EXCEPT !.phase = phase]
  /\ Goes(phase)
  /\ UNCHANGED <<target, marker, aside, killSwitch, stagedPath, kept, versions, issued, revoked, stops>>

StageGeneration ==
  /\ command.at = "staging"
  /\ stagedPath' = command.release
  /\ Goes("written")
  /\ UNCHANGED <<target, marker, aside, killSwitch, kept, lifecycle, versions, issued, revoked, stops>>

ClearKept ==
  /\ command.at = "staged"
  /\ kept' = [kept EXCEPT ![lifecycle.prior] = Missing]
  /\ Goes("cleared")
  /\ UNCHANGED <<target, marker, aside, killSwitch, stagedPath, lifecycle, versions, issued, revoked, stops>>

RetainPrior ==
  /\ command.at = "cleared"
  /\ IF target = Missing
       THEN Goes("failing") /\ UNCHANGED <<target, kept>>
       ELSE /\ kept' = [kept EXCEPT ![lifecycle.prior] = target]
            /\ target' = Missing
            /\ command' = [command EXCEPT !.at = "moved", !.retains = target]
  /\ UNCHANGED <<marker, aside, killSwitch, stagedPath, lifecycle, versions, issued, revoked, stops>>

SwitchTarget ==
  /\ command.at = "prior-retained"
  /\ IF stagedPath = Missing \/ target # Missing
       THEN Goes("failing") /\ UNCHANGED <<target, stagedPath>>
       ELSE /\ target' = stagedPath
            /\ stagedPath' = Missing
            /\ Goes("switched")
  /\ UNCHANGED <<marker, aside, killSwitch, kept, lifecycle, versions, issued, revoked, stops>>

\* verifyContributionBytes and the credential of the new generation.
VerifyTarget ==
  /\ command.at = "activated"
  /\ IF target # command.release
       THEN Goes("failing") /\ UNCHANGED issued
       ELSE /\ Provisions
            /\ command' = [command EXCEPT !.at = "granted", !.grant = issued + 1]
  /\ UNCHANGED <<files, revoked, stops>>

MarkTarget ==
  /\ command.at = "granted"
  /\ marker' = [release |-> command.release, grant |-> command.grant]
  /\ Goes("marked")
  /\ UNCHANGED <<target, aside, killSwitch, stagedPath, kept, lifecycle, versions, issued, revoked, stops>>

RecordVersion ==
  /\ command.at = "marked"
  /\ versions' = versions \cup {command.release}
  /\ Goes("recorded")
  /\ UNCHANGED <<target, marker, aside, killSwitch, stagedPath, kept, lifecycle, issued, revoked, stops>>

EndUpgrade ==
  /\ command.at = "healthy"
  /\ Ends
  /\ UNCHANGED <<files, issued, revoked, stops>>

-----------------------------------------------------------------------------
\* An ordinary failure is caught and compensated (l. 205-207).  The first append,
\* outside the try, leaves the state as it is.
UpgradeFails ==
  /\ command.at \in FailPoints \cap (UpgradeSteps \cup CompensationSteps)
  /\ stops < MaxStops /\ stops' = stops + 1
  /\ IF command.at \in UpgradeSteps THEN Goes("failing") ELSE Ends
  /\ UNCHANGED <<files, issued, revoked>>

\* Mutant: the compensation keeps what stands at the target.
RemoveNothing ==
  /\ command.at = "compensating"
  /\ Goes("emptied")
  /\ UNCHANGED <<files, issued, revoked, stops>>

RemoveTarget ==
  /\ command.at = "compensating"
  /\ target' = Missing
  /\ Goes("emptied")
  /\ UNCHANGED <<marker, aside, killSwitch, stagedPath, kept, lifecycle, versions, issued, revoked, stops>>

RestoreKept ==
  /\ command.at = "emptied"
  /\ IF kept[lifecycle.prior] # Missing /\ target = Missing
       THEN /\ target' = kept[lifecycle.prior]
            /\ kept' = [kept EXCEPT ![lifecycle.prior] = Missing]
       ELSE UNCHANGED <<target, kept>>
  /\ Goes("restored")
  /\ UNCHANGED <<marker, aside, killSwitch, stagedPath, lifecycle, versions, issued, revoked, stops>>

RestoreMarker ==
  /\ command.at = "restored"
  /\ marker' = command.existing
  /\ Goes("remarked")
  /\ UNCHANGED <<target, aside, killSwitch, stagedPath, kept, lifecycle, versions, issued, revoked, stops>>

DropStaged ==
  /\ command.at = "remarked"
  /\ stagedPath' = Missing
  /\ Goes("unstaged")
  /\ UNCHANGED <<target, marker, aside, killSwitch, kept, lifecycle, versions, issued, revoked, stops>>

DropLifecycle ==
  /\ command.at = "unstaged"
  /\ lifecycle' = Missing
  /\ Ends
  /\ UNCHANGED <<target, marker, aside, killSwitch, stagedPath, kept, versions, issued, revoked, stops>>

-----------------------------------------------------------------------------
\* disableAndRemoveContributionV1 l. 172-178, of an uninstall or of the
\* compensation of an atomic install, which names its own grant.
StartUninstall ==
  /\ command.at = "ready" /\ marker # Missing
  /\ command' = [Ready EXCEPT !.at = "killing"]
  /\ UNCHANGED <<files, issued, revoked, stops>>

WriteKillSwitch ==
  /\ command.at = "killing"
  /\ killSwitch' = TRUE
  /\ Goes("killed")
  /\ UNCHANGED <<target, marker, aside, stagedPath, kept, lifecycle, versions, issued, revoked, stops>>

DisableDiscovery ==
  /\ command.at = "killed"
  /\ IF target = Missing THEN UNCHANGED <<target, aside>>
     ELSE aside' = target /\ target' = Missing
  /\ Goes("disabled")
  /\ UNCHANGED <<marker, killSwitch, stagedPath, kept, lifecycle, versions, issued, revoked, stops>>

RevokeGrant ==
  /\ command.at = "disabled"
  /\ revoked' = revoked \cup {IF command.grant = Missing THEN marker.grant ELSE command.grant}
  /\ Goes("revoked")
  /\ UNCHANGED <<files, issued, stops>>

RemoveBytes ==
  /\ command.at = "revoked"
  /\ aside' = Missing
  /\ Goes("cleaned")
  /\ UNCHANGED <<target, marker, killSwitch, stagedPath, kept, lifecycle, versions, issued, revoked, stops>>

RemoveMarker ==
  /\ command.at = "cleaned"
  /\ marker' = Missing
  /\ Goes("unmarked")
  /\ UNCHANGED <<target, aside, killSwitch, stagedPath, kept, lifecycle, versions, issued, revoked, stops>>

RemoveKillSwitch ==
  /\ command.at = "unmarked"
  /\ killSwitch' = FALSE
  /\ Ends
  /\ UNCHANGED <<target, marker, aside, stagedPath, kept, lifecycle, versions, issued, revoked, stops>>

\* The process dies, or an install or uninstall throws: files stay as they are.
CommandDies ==
  /\ command.at \in DeathPoints
  /\ stops < MaxStops /\ stops' = stops + 1
  /\ Ends
  /\ UNCHANGED <<files, issued, revoked>>

-----------------------------------------------------------------------------
InstallInit ==
  /\ target = Missing /\ marker = Missing /\ aside = Missing /\ killSwitch = FALSE
  /\ stagedPath = Missing /\ kept = [r \in Releases |-> Missing] /\ lifecycle = Missing
  /\ versions = {} /\ issued = 0 /\ revoked = {} /\ command = Ready /\ stops = 0

InstallStep == StageManaged \/ ActivateInstall \/ MarkInstall \/ RecordInstall \/ EndInstall
UpgradeStep ==
  \/ StageGeneration \/ PersistPhase("written", "staged")
  \/ ClearKept \/ RetainPrior \/ PersistPhase("moved", "prior-retained")
  \/ SwitchTarget \/ PersistPhase("switched", "activated")
  \/ VerifyTarget \/ MarkTarget \/ RecordVersion \/ PersistPhase("recorded", "healthy")
  \/ EndUpgrade \/ UpgradeFails
CompensationStep ==
  \/ PersistPhase("failing", "compensating") \/ RemoveTarget \/ RestoreKept \/ RestoreMarker
  \/ DropStaged \/ DropLifecycle
UninstallStep ==
  \/ WriteKillSwitch \/ DisableDiscovery \/ RevokeGrant \/ RemoveBytes
  \/ RemoveMarker \/ RemoveKillSwitch

InstallNext ==
  \/ \E r \in Releases :
       StartInstall(r) \/ StartRepair(r) \/ \E op \in Upgrades : StartUpgrade(op, r)
  \/ StartRetry \/ StartUninstall
  \/ InstallStep \/ UpgradeStep \/ CompensationStep \/ UninstallStep \/ CommandDies

InstallSpec == InstallInit /\ [][InstallNext]_installVars

-----------------------------------------------------------------------------
\* The types of the files and of the running command.
InstallTypeOK ==
  /\ {target, aside, stagedPath} \subseteq Releases \cup {Missing}
  /\ marker \in Markers \cup {Missing}
  /\ killSwitch \in BOOLEAN
  /\ kept \in [Releases -> Releases \cup {Missing}]
  /\ lifecycle \in States \cup {Missing}
  /\ versions \subseteq Releases
  /\ issued \in 0 .. MaxGrants /\ revoked \subseteq 1 .. issued
  /\ command \in HostCommands
  /\ stops \in 0 .. MaxStops

\* Once the record says that the prior generation was retained, a retry finds it
\* there; and a command that took a generation aside, or resumed one that did,
\* holds on to these bytes until its compensation has put them back, with the
\* marker it found: whatever step failed or died, whatever transaction it was
\* started over (operateHostLifecycle, l. 187-207).
GenerationsAreKept ==
  /\ Incomplete /\ lifecycle.phase \in RetainedPhases => kept[lifecycle.prior] # Missing
  /\ command.retains # Missing =>
       IF command.at \in {"restored", "remarked", "unstaged"}
         THEN /\ target = command.retains
              /\ command.at # "restored" => marker = command.existing
         ELSE kept[lifecycle.prior] = command.retains

\* A contribution whose grant is revoked is not offered: the kill switch stands
\* from before the revocation until its marker is gone, also when the uninstall
\* died in between and other commands came after it
\* (disableAndRemoveContributionV1, l. 172-178).
RevokedStaysDisabled == marker # Missing /\ marker.grant \in revoked => killSwitch

\* While a lifecycle is incomplete the bytes of the generation it replaces stand
\* at the target or in the retained generation, and a retry-install can go on or
\* give up (operateHostLifecycle, l. 201-207).
PriorIsKept == Incomplete => lifecycle.prior \in {target, kept[lifecycle.prior]}
=============================================================================

---------------------------- MODULE CertReconcile ----------------------------
(***************************************************************************)
(* One certificate of ACME Courier: the daemon's trigger channel           *)
(* (cmd/acme-courier/main.go) and the reconciliation that loads or renews  *)
(* the certificate, stores its four PEM files one by one, deploys them to  *)
(* every target and restarts the apps that use them                        *)
(* (internal/certmanager/manager.go, internal/deploy/deploy.go).           *)
(*                                                                         *)
(* Every file replacement is atomic (temporary file, sync, rename), a      *)
(* sequence of them is not: each is an action, and the process may die or  *)
(* an error may end the sequence between any two.                          *)
(*                                                                         *)
(* A file's content is a number: the revision of the certificate in it, or *)
(* the number of the key; 0 is "no such file".  NamecheapZone has the DNS  *)
(* part of an order, here an order succeeds or fails as a whole.           *)
(***************************************************************************)
EXTENDS Naturals, Sequences

CONSTANTS
    Deploy,        \* certificate.Deploy: for each target its SelectedFiles, in order
    Apps,          \* number of apps in certificate.RestartApps
    MaxRevisions,  \* bound: certificates issued
    MaxFaults,     \* bound: failures and crashes
    MaxChanges     \* bound: configuration changes

Files == {"cert", "chain", "fullchain", "privkey"}
StoreOrder == <<"cert", "chain", "fullchain", "privkey">>
Targets == DOMAIN Deploy

ASSUME DeployAssumption == Deploy \in Seq(Seq(Files))
ASSUME BoundAssumption == /\ Apps \in Nat /\ MaxRevisions \in Nat \ {0}
                          /\ MaxFaults \in Nat /\ MaxChanges \in Nat

VARIABLES
    live,      \* live[f]: the file under <storage>/live/<name>
    issued,    \* certificates issued so far
    keyOf,     \* keyOf[r]: the key that revision r was issued for
    due,       \* revisions up to this one are in the renewal window
    forceRenew,\* certificate.ForceRenew
    keyPolicy, \* certificate.ReuseKey, as the options had it from the start
    target,    \* target[t][f]: the file at the deploy target
    deployed,  \* deployed[t]: what the target's deployment marker stands for
    restarted, \* what the restart marker stands for
    running,   \* running[a]: the set that app a was last restarted with
    pending,   \* the triggers channel: one reason, or "none"
    pc,        \* the phase of the reconciliation
    force,     \* reason # "schedule"
    files,     \* the files that the reconciliation has in memory
    pos,       \* the next file to store, target or app of the phase
    put,       \* files of target pos already in place
    failures,  \* some target has failed (failures is not empty)
    faults, changes

disk == <<live, deployed, restarted>>
memory == <<pc, force, files, pos, put, failures>>
outside == <<target, running>>
wanted == <<issued, keyOf, due, forceRenew>>
vars == <<disk, memory, outside, wanted, keyPolicy, pending, faults, changes>>

(* One key for all certificates, otherwise a key of its own for each *)
ReuseKey == keyPolicy = "reuse"

Contents == [Files -> Nat]
Nothing == [f \in Files |-> 0]
Reasons == {"none", "startup", "schedule", "configuration change"}
Phases == {"idle", "load", "issue", "store", "deploy", "restart"}

TypeOK ==
    /\ live \in Contents
    /\ issued \in 0..MaxRevisions
    /\ keyOf \in Seq(Nat \ {0}) /\ Len(keyOf) = issued
    /\ due \in 0..issued
    /\ forceRenew \in BOOLEAN
    /\ keyPolicy \in {"own", "reuse"}
    /\ target \in [Targets -> Contents]
    /\ deployed \in [Targets -> Contents]
    /\ restarted \in Contents
    /\ running \in [1..Apps -> Contents]
    /\ pending \in Reasons
    /\ pc \in Phases
    /\ force \in BOOLEAN
    /\ files \in Contents
    /\ pos \in Nat \ {0}
    /\ put \in Nat
    /\ failures \in BOOLEAN
    /\ faults \in 0..MaxFaults
    /\ changes \in 0..MaxChanges

(* encodeCertificateFiles: the four files of revision r with key k *)
Encoded(r, k) == [f \in Files |-> IF f = "privkey" THEN k ELSE r]

(* Some of the files; the digests in the markers tell these apart.  A      *)
(* deployment marker covers the target's files, the restart marker two.    *)
Only(names, fs) == [f \in Files |-> IF f \in names THEN fs[f] ELSE 0]
Selected(t) == {Deploy[t][i] : i \in DOMAIN Deploy[t]}
DeployMarker(t, fs) == Only(Selected(t), fs)
RestartMarker(fs) == Only({"fullchain", "privkey"}, fs)

(* A new installation, or one that begins with a Certbot set of files *)
Init ==
    /\ issued \in 0..1
    /\ keyOf = [r \in 1..issued |-> r]
    /\ live = Encoded(issued, issued)
    /\ due = 0 /\ forceRenew = FALSE
    /\ keyPolicy \in {"own", "reuse"}
    /\ target = [t \in Targets |-> Nothing]
    /\ deployed = [t \in Targets |-> Nothing]
    /\ restarted = Nothing
    /\ running = [a \in 1..Apps |-> Nothing]
    /\ pending = "startup"
    /\ pc = "idle" /\ force = FALSE /\ files = Nothing
    /\ pos = 1 /\ put = 0 /\ failures = FALSE
    /\ faults = 0 /\ changes = 0

-----------------------------------------------------------------------------
(* The daemon: runDaemon. *)

(* The bound on revisions must not stop a renewal: a revision is kept for  *)
(* every fault that may still come.                                        *)
Spare == issued + (MaxFaults - faults) < MaxRevisions

(* The cron job; a trigger is dropped while another one is pending *)
CronFires ==
    /\ pending = "none"
    /\ pending' = "schedule"
    /\ UNCHANGED <<disk, memory, outside, wanted, faults, changes>>

(* The ticker finds changed options, between two reconciliations:          *)
(* force_renew is set or reset, or new domains make every certificate so   *)
(* far unwanted.                                                           *)
ConfigChange ==
    /\ pc = "idle"
    /\ changes < MaxChanges
    /\ changes' = changes + 1
    /\ pending' = IF pending = "none" THEN "configuration change" ELSE pending
    /\ forceRenew' \in BOOLEAN
    /\ due' \in (IF Spare THEN {due, issued} ELSE {due})
    /\ UNCHANGED <<disk, memory, outside, issued, keyOf, faults>>

StartReconcile ==
    /\ pc = "idle" /\ pending # "none"
    /\ pending' = "none"
    /\ pc' = "load"
    /\ force' = (pending # "schedule")
    /\ failures' = FALSE
    /\ UNCHANGED <<disk, files, pos, put, outside, wanted, faults, changes>>

(* A phase begins with its first item *)
Enter(phase) ==
    /\ pc' = phase
    /\ pos' = 1 /\ put' = 0

(* The reconciliation returns, with an error or without *)
Return == Enter("idle")

Fault == faults < MaxFaults /\ faults' = faults + 1

-----------------------------------------------------------------------------
(* Load or renew, and store. *)

(* validateCertificateFiles: the key belongs to the certificate *)
ValidIgnoresKey(fs) == \A f \in Files : fs[f] # 0
Valid(fs) ==
    /\ \A f \in Files : fs[f] # 0
    /\ keyOf[fs["cert"]] = fs["privkey"]

(* shouldRenew, of the certificate in cert.pem *)
ShouldRenew(fs) == fs["cert"] <= due

(* loadCertificate: a complete, valid and fresh set is used as it is *)
LoadCertificate ==
    /\ pc = "load"
    /\ IF Valid(live) /\ ~forceRenew /\ ~ShouldRenew(live)
       THEN Enter("deploy") /\ files' = live
       ELSE Enter("issue") /\ UNCHANGED files
    /\ UNCHANGED <<disk, force, failures, outside, wanted, pending, faults, changes>>

(* A file that cannot be read makes the set as good as missing *)
LoadFails ==
    /\ pc = "load" /\ Fault
    /\ Enter("issue")
    /\ UNCHANGED <<disk, force, files, failures, outside, wanted, pending, changes>>

NewKeyUnchecked == IF ReuseKey THEN live["privkey"] ELSE issued + 1

(* certificateKey: with ReuseKey the stored key, if there is one *)
NewKey == IF ReuseKey /\ live["privkey"] # 0 THEN live["privkey"] ELSE issued + 1

(* The random delay of a scheduled renewal, then the order: a certificate *)
Issue ==
    /\ pc = "issue"
    /\ issued < MaxRevisions
    /\ issued' = issued + 1
    /\ keyOf' = Append(keyOf, NewKey)
    /\ files' = Encoded(issued + 1, NewKey)
    /\ Enter("store")
    /\ UNCHANGED <<disk, force, due, forceRenew, failures, outside, pending, faults, changes>>

(* The jitter, the order or the key fails; past the bound every order does *)
IssueFails ==
    /\ pc = "issue"
    /\ \/ Fault
       \/ issued = MaxRevisions /\ UNCHANGED faults
    /\ Return
    /\ UNCHANGED <<disk, force, files, failures, outside, wanted, pending, changes>>

(* storeCertificate replaces the next file *)
StoreFile ==
    /\ pc = "store"
    /\ LET f == StoreOrder[pos] IN live' = [live EXCEPT ![f] = files[f]]
    /\ IF pos < Len(StoreOrder)
       THEN pos' = pos + 1 /\ UNCHANGED <<pc, put>>
       ELSE Enter("deploy")
    /\ UNCHANGED <<deployed, restarted, force, files, failures, outside, wanted,
                   pending, faults, changes>>

StoreFails ==
    /\ pc = "store" /\ Fault
    /\ Return
    /\ UNCHANGED <<disk, force, files, failures, outside, wanted, pending, changes>>

-----------------------------------------------------------------------------
(* deployTargets: one target after the other. *)

AtTarget == pc = "deploy" /\ pos \in Targets
NextTarget == pos' = pos + 1 /\ put' = 0 /\ UNCHANGED <<pc, force, files>>

SkipTargetMarked ==
    /\ AtTarget /\ put = 0
    /\ ~force
    /\ deployed[pos] # Nothing
    /\ NextTarget
    /\ UNCHANGED <<disk, failures, outside, wanted, pending, faults, changes>>

(* A target whose marker stands for the same files is skipped, unless this *)
(* is not a scheduled run                                                  *)
SkipTarget ==
    /\ AtTarget /\ put = 0
    /\ ~force
    /\ deployed[pos] = DeployMarker(pos, files)
    /\ NextTarget
    /\ UNCHANGED <<disk, failures, outside, wanted, pending, faults, changes>>

(* Deploy puts one more file in place: deployLocal's atomicWrite, or one   *)
(* of the mv commands that deployRemote sends after all uploads            *)
PutFile ==
    /\ AtTarget /\ put < Len(Deploy[pos])
    /\ put = 0 => force \/ deployed[pos] # DeployMarker(pos, files)
    /\ LET f == Deploy[pos][put + 1] IN target' = [target EXCEPT ![pos][f] = files[f]]
    /\ put' = put + 1
    /\ UNCHANGED <<disk, pc, force, files, pos, failures, running, wanted, pending,
                   faults, changes>>

MarkDeployedEarly ==
    /\ AtTarget /\ put > 0
    /\ deployed' = [deployed EXCEPT ![pos] = DeployMarker(pos, files)]
    /\ NextTarget
    /\ UNCHANGED <<live, restarted, failures, outside, wanted, pending, faults, changes>>

(* Deploy has returned nil: the marker is written *)
MarkDeployed ==
    /\ AtTarget /\ put = Len(Deploy[pos])
    /\ deployed' = [deployed EXCEPT ![pos] = DeployMarker(pos, files)]
    /\ NextTarget
    /\ UNCHANGED <<live, restarted, failures, outside, wanted, pending, faults, changes>>

TargetFailsUnnoticed ==
    /\ AtTarget /\ Fault
    /\ NextTarget
    /\ UNCHANGED <<disk, failures, outside, wanted, pending, changes>>

(* The marker, a file, the connection or the new marker fails *)
TargetFails ==
    /\ AtTarget /\ Fault
    /\ failures' = TRUE
    /\ NextTarget
    /\ UNCHANGED <<disk, outside, wanted, pending, changes>>

(* After the last target: any failure ends the reconciliation, and so does *)
(* a restart marker that stands for the same files                         *)
EndDeploy ==
    /\ pc = "deploy" /\ pos \notin Targets
    /\ IF failures \/ Apps = 0 \/ restarted = RestartMarker(files)
       THEN Return
       ELSE Enter("restart")
    /\ UNCHANGED <<disk, force, files, failures, outside, wanted, pending, faults, changes>>

-----------------------------------------------------------------------------
(* restartApps: one app after the other, the marker after the last. *)

RestartApp ==
    /\ pc = "restart" /\ pos <= Apps
    /\ running' = [running EXCEPT ![pos] = RestartMarker(files)]
    /\ pos' = pos + 1
    /\ UNCHANGED <<disk, pc, force, files, put, failures, target, wanted, pending,
                   faults, changes>>

(* The Supervisor's call fails: the app may have been restarted all the    *)
(* same.  Or a marker cannot be read or written.                           *)
RestartFails ==
    /\ pc = "restart" /\ Fault
    /\ \/ UNCHANGED running
       \/ pos <= Apps /\ running' = [running EXCEPT ![pos] = RestartMarker(files)]
    /\ Return
    /\ UNCHANGED <<disk, force, files, failures, target, wanted, pending, changes>>

MarkRestartedEarly ==
    /\ pc = "restart"
    /\ restarted' = RestartMarker(files)
    /\ Return
    /\ UNCHANGED <<live, deployed, force, files, failures, outside, wanted, pending,
                   faults, changes>>

MarkRestarted ==
    /\ pc = "restart" /\ pos > Apps
    /\ restarted' = RestartMarker(files)
    /\ Return
    /\ UNCHANGED <<live, deployed, force, files, failures, outside, wanted, pending,
                   faults, changes>>

-----------------------------------------------------------------------------
(* Time brings a revision into its renewal window, the oldest first *)
EnterWindow ==
    /\ due < issued /\ Spare
    /\ due' = due + 1
    /\ UNCHANGED <<disk, memory, outside, issued, keyOf, forceRenew, pending, faults, changes>>

(* The process dies (or is stopped) at any point, and starts again *)
Crash ==
    /\ Fault
    /\ pending' = "startup"
    /\ Return
    /\ force' = FALSE /\ files' = Nothing /\ failures' = FALSE
    /\ UNCHANGED <<disk, outside, wanted, changes>>

Progress ==
    \/ StartReconcile
    \/ LoadCertificate \/ Issue \/ StoreFile
    \/ SkipTarget \/ PutFile \/ MarkDeployed \/ EndDeploy
    \/ RestartApp \/ MarkRestarted

Failure == LoadFails \/ IssueFails \/ StoreFails \/ TargetFails \/ RestartFails \/ Crash

Next ==
    /\ CronFires \/ ConfigChange \/ EnterWindow \/ Progress \/ Failure
    /\ UNCHANGED keyPolicy

Spec == Init /\ [][Next]_vars

(* Cron goes on and the daemon works; it needs nothing but timers and calls *)
(* with timeouts.  Failures are finitely many by MaxFaults.                 *)
FairSpec ==
    /\ Spec
    /\ WF_vars(CronFires /\ UNCHANGED keyPolicy)
    /\ WF_vars(Progress /\ UNCHANGED keyPolicy)

-----------------------------------------------------------------------------
(* The files that go to targets are those of one issuance: however often   *)
(* the daemon dies between the four renames, a mixture is never taken for  *)
(* a valid set, if every certificate has a key of its own.                 *)
OneIssuance ==
    pc \in {"deploy", "restart"} /\ ~ReuseKey => files = Encoded(files["cert"], files["privkey"])

(* A deployment marker that stands for the stored files is true: the       *)
(* target holds exactly these, so that skipping it skips nothing.          *)
MarkersAreTrue ==
    \A t \in Targets :
        deployed[t] = DeployMarker(t, live) => Only(Selected(t), target[t]) = deployed[t]

(* Apps are restarted "after a new certificate revision has been deployed": *)
(* at every target, and completely.                                        *)
RestartAfterDeploy ==
    pc = "restart" =>
        \A t \in Targets : Only(Selected(t), target[t]) = DeployMarker(t, live)

(* No restart is forgotten: once the marker stands for the stored files,   *)
(* every app has been restarted with them.                                 *)
RestartsAreTrue ==
    restarted = RestartMarker(live) => \A a \in 1..Apps : running[a] = restarted

(* Failed targets and restarts are retried until every target holds the    *)
(* stored certificate and every app runs with it.  (While force_renew is   *)
(* set every run renews, and the bound on revisions makes that end.)       *)
Consumed ==
    /\ \A t \in Targets : Only(Selected(t), target[t]) = DeployMarker(t, live)
    /\ \A a \in 1..Apps : running[a] = RestartMarker(live)
EventuallyConsumed == <>[](Consumed \/ forceRenew)

(* "Existing valid Certbot PEM files are reused until they enter the       *)
(* renewal window": no file of a set that is used without renewal holds a  *)
(* certificate that is in the window.                                      *)
ReusedFilesAreFresh ==
    [][pc = "load" /\ pc' = "deploy" => live["fullchain"] > due]_vars
=============================================================================

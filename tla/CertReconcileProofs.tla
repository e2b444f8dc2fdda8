------------------------- MODULE CertReconcileProofs -------------------------
(***************************************************************************)
(* What holds of CertReconcile for any targets, apps and bounds.           *)
(*                                                                         *)
(* The argument rests on order.  Revisions and key numbers only grow, and  *)
(* a renewal overwrites the stored files from the first to the last, so    *)
(* that a marker is never newer than the file it stands for.  A marker     *)
(* that equals the stored files was therefore written for these very       *)
(* files, and no later deployment has put others in their place.           *)
(***************************************************************************)
EXTENDS CertReconcile, TLAPS

(* The stored files are no newer than the last issuance, the markers no    *)
(* newer than the stored files.                                            *)
Ordered ==
    /\ \A f \in Files : live[f] <= issued
    /\ \A t \in Targets, f \in Files : deployed[t][f] <= live[f]
    /\ \A f \in Files : restarted[f] <= live[f]

(* A store replaces files by files no older, those before pos already *)
StoreInv ==
    pc = "store" =>
        /\ pos \in 1..4
        /\ \A f \in Files : live[f] <= files[f] /\ files[f] <= issued
        /\ \A i \in 1..4 : i < pos => live[StoreOrder[i]] = files[StoreOrder[i]]

(* What is deployed is what is stored; targets before pos that have not    *)
(* failed are marked for it, target pos holds the files counted by put.    *)
DeployInv ==
    pc = "deploy" =>
        /\ files = live
        /\ ~failures => \A t \in Targets : t < pos => deployed[t] = DeployMarker(t, live)
        /\ pos \in Targets =>
              /\ put <= Len(Deploy[pos])
              /\ \A i \in 1..put : target[pos][Deploy[pos][i]] = live[Deploy[pos][i]]

(* Apps are restarted when all targets are marked, in order *)
RestartInv ==
    pc = "restart" =>
        /\ files = live
        /\ \A t \in Targets : deployed[t] = DeployMarker(t, live)
        /\ \A a \in 1..Apps : a < pos => running[a] = RestartMarker(live)

IInv ==
    /\ TypeOK /\ Ordered
    /\ StoreInv /\ DeployInv /\ RestartInv
    /\ MarkersAreTrue /\ RestartsAreTrue

(* TypeOK in two parts: the solvers do better with numbers apart from the  *)
(* truth values and names.                                                 *)
Control ==
    /\ forceRenew \in BOOLEAN /\ force \in BOOLEAN /\ failures \in BOOLEAN
    /\ pending \in Reasons /\ pc \in Phases
    /\ keyPolicy \in {"own", "reuse"}
Data ==
    /\ live \in Contents
    /\ issued \in 0..MaxRevisions
    /\ keyOf \in Seq(Nat \ {0}) /\ Len(keyOf) = issued
    /\ due \in 0..issued
    /\ target \in [Targets -> Contents]
    /\ deployed \in [Targets -> Contents]
    /\ restarted \in Contents
    /\ running \in [1..Apps -> Contents]
    /\ files \in Contents
    /\ pos \in Nat \ {0}
    /\ put \in Nat
    /\ faults \in 0..MaxFaults
    /\ changes \in 0..MaxChanges

-----------------------------------------------------------------------------
(* Some files of a set are a set of files. *)
LEMMA OnlyType ==
    ASSUME NEW names, NEW fs \in Contents
    PROVE  Only(names, fs) \in Contents
BY DEF Only, Contents

(* A marker that is no newer than the files before a change, and stands    *)
(* for the files after it, already stood for them before.                  *)
LEMMA Unchanged ==
    ASSUME NEW names, NEW m \in Contents, NEW old \in Contents, NEW new \in Contents,
           \A f \in Files : m[f] <= old[f] /\ old[f] <= new[f],
           m = Only(names, new)
    PROVE  m = Only(names, old)
<1>1. \A f \in Files : m[f] = IF f \in names THEN old[f] ELSE 0
  BY DEF Only, Contents
<1> QED
  BY <1>1 DEF Only, Contents

(* Every file that a target selects is one of the four. *)
LEMMA SelectedFile ==
    ASSUME NEW t \in Targets, NEW i \in DOMAIN Deploy[t]
    PROVE  /\ Deploy[t] \in Seq(Files)
           /\ Deploy[t][i] \in Files
           /\ Deploy[t][i] \in Selected(t)
<1>1. Deploy[t] \in Seq(Files)
  BY DeployAssumption DEF Targets
<1> QED
  BY <1>1 DEF Selected

(* The two parts make up TypeOK. *)
LEMMA TypeParts ==
    /\ TypeOK <=> Control /\ Data
    /\ TypeOK' <=> Control' /\ Data'
<1>1. TypeOK <=> Control /\ Data
  BY ZenonT(30) DEF TypeOK, Control, Data
<1>2. TypeOK' <=> Control' /\ Data'
  BY ZenonT(30) DEF TypeOK, Control, Data
<1> QED BY <1>1, <1>2

(* The initial states satisfy the invariant. *)
LEMMA InitIInv == Init => IInv
<1> SUFFICES ASSUME Init PROVE IInv
  OBVIOUS
<1>1. Encoded(issued, issued) \in Contents
  BY DEF Init, Encoded, Contents
<1>2. keyOf \in Seq(Nat \ {0}) /\ Len(keyOf) = issued
  <2>1. CASE issued = 0
    BY <2>1 DEF Init
  <2>2. CASE issued = 1
    BY <2>2 DEF Init
  <2> QED
    BY <2>1, <2>2 DEF Init
<1>3. TypeOK
  <2>1. Data
    <3>1. Nothing \in Contents
      BY DEF Nothing, Contents
    <3> QED
      BY <1>1, <1>2, <3>1, BoundAssumption DEF Init, Data
  <2> QED
    BY <2>1, TypeParts DEF Init, Control, Phases, Reasons
<1>4. Ordered
  BY DEF Init, Ordered, Encoded, Nothing
<1>5. MarkersAreTrue /\ RestartsAreTrue
  BY DEF Init, MarkersAreTrue, RestartsAreTrue, DeployMarker, RestartMarker, Only, Nothing
<1> QED
  BY <1>3, <1>4, <1>5 DEF Init, IInv, StoreInv, DeployInv, RestartInv

-----------------------------------------------------------------------------
(* Every step keeps the types. *)
LEMMA TypeStep == IInv /\ [Next]_vars => TypeOK'
<1> SUFFICES ASSUME IInv, [Next]_vars PROVE Data' /\ Control'
  BY TypeParts
<1>0. Data
  BY TypeParts DEF IInv
<1>00. Control
  BY TypeParts DEF IInv
<1> USE BoundAssumption DEF Data, disk, memory, outside, wanted, Fault, Enter, Return,
            NextTarget, AtTarget
<1>000. UNCHANGED keyPolicy
  BY DEF Next, vars
<1> USE <1>000
<1>1. CASE UNCHANGED vars
  <2>1. Data'
    BY <1>0, <1>1 DEF vars
  <2> QED
    BY <1>00, <1>1, <2>1 DEF vars, Control, Phases, Reasons
<1>2. CASE CronFires
  <2>1. Data'
    BY <1>0, <1>2 DEF CronFires
  <2> QED
    BY <1>00, <1>2, <2>1 DEF CronFires, Control, Phases, Reasons
<1>3. CASE ConfigChange
  <2>1. due' \in 0..issued
    <3>1. due' = due \/ due' = issued
      BY <1>3 DEF ConfigChange
    <3> QED
      BY <1>0, <3>1
  <2>2. Data'
    <3>1. /\ changes < MaxChanges /\ changes' = changes + 1
          /\ UNCHANGED <<disk, memory, outside, issued, keyOf, faults>>
      BY <1>3 DEF ConfigChange
    <3> QED
      BY <1>0, <2>1, <3>1
  <2> QED
    BY <1>00, <1>3, <2>2 DEF ConfigChange, Control, Phases, Reasons
<1>4. CASE EnterWindow
  <2>1. Data'
    BY <1>0, <1>4 DEF EnterWindow
  <2> QED
    BY <1>00, <1>4, <2>1 DEF EnterWindow, Control, Phases, Reasons
<1>5. CASE StartReconcile
  <2>1. Data'
    BY <1>0, <1>5 DEF StartReconcile
  <2> QED
    BY <1>00, <1>5, <2>1 DEF StartReconcile, Control, Phases, Reasons
<1>6. CASE LoadCertificate
  <2>1. Data'
    BY <1>0, <1>6 DEF LoadCertificate
  <2> QED
    BY <1>00, <1>6, <2>1 DEF LoadCertificate, Control, Phases, Reasons
<1>7. CASE Issue
  <2>1. NewKey \in Nat \ {0}
    <3>1. live["privkey"] \in Nat /\ issued \in Nat
      <4>1. "privkey" \in Files
        BY DEF Files
      <4> QED
        BY <1>0, <4>1 DEF Contents
    <3> QED
      BY <3>1 DEF NewKey
  <2>2. Encoded(issued + 1, NewKey) \in Contents
    <3>1. issued + 1 \in Nat
      BY <1>0
    <3> QED
      BY <2>1, <3>1 DEF Encoded, Contents
  <2>3. keyOf' \in Seq(Nat \ {0}) /\ Len(keyOf') = issued'
    BY <1>0, <1>7, <2>1 DEF Issue
  <2>4. Data'
    BY <1>0, <1>7, <2>2, <2>3 DEF Issue
  <2> QED
    BY <1>00, <1>7, <2>4 DEF Issue, Control, Phases, Reasons
<1>8. CASE StoreFile
  <2>1. pos \in 1..4
    BY <1>8 DEF IInv, StoreInv, StoreFile
  <2>2. StoreOrder[pos] \in Files
    BY <2>1 DEF StoreOrder, Files
  <2>3. live' \in Contents
    BY <1>0, <1>8, <2>2 DEF StoreFile, Contents
  <2>4. Data'
    BY <1>0, <1>8, <2>3, SMTT(30) DEF StoreFile
  <2> QED
    BY <1>00, <1>8, <2>4 DEF StoreFile, Control, Phases, Reasons
<1>9. CASE SkipTarget
  <2>1. Data'
    BY <1>0, <1>9 DEF SkipTarget
  <2> QED
    BY <1>00, <1>9, <2>1 DEF SkipTarget, Control, Phases, Reasons
<1>10. CASE PutFile
  <2>1. Deploy[pos][put + 1] \in Files
    <3>1. put + 1 \in DOMAIN Deploy[pos]
      BY <1>0, <1>10, DeployAssumption DEF PutFile, Targets
    <3> QED
      BY <3>1, <1>10, SelectedFile DEF PutFile
  <2>2. target' \in [Targets -> Contents]
    BY <1>0, <1>10, <2>1 DEF PutFile, Contents
  <2>3. Data'
    BY <1>0, <1>10, <2>2, SMTT(30) DEF PutFile
  <2> QED
    BY <1>00, <1>10, <2>3 DEF PutFile, Control, Phases, Reasons
<1>11. CASE MarkDeployed
  <2>1. deployed' \in [Targets -> Contents]
    BY <1>0, <1>11, OnlyType DEF MarkDeployed, DeployMarker
  <2>2. Data'
    BY <1>0, <1>11, <2>1 DEF MarkDeployed
  <2> QED
    BY <1>00, <1>11, <2>2 DEF MarkDeployed, Control, Phases, Reasons
<1>12. CASE EndDeploy
  <2>1. Data'
    BY <1>0, <1>12 DEF EndDeploy
  <2> QED
    BY <1>00, <1>12, <2>1 DEF EndDeploy, Control, Phases, Reasons
<1>13. CASE RestartApp
  <2>1. running' \in [1..Apps -> Contents]
    BY <1>0, <1>13, OnlyType DEF RestartApp, RestartMarker
  <2>2. Data'
    BY <1>0, <1>13, <2>1 DEF RestartApp
  <2> QED
    BY <1>00, <1>13, <2>2 DEF RestartApp, Control, Phases, Reasons
<1>14. CASE MarkRestarted
  <2>1. restarted' \in Contents
    BY <1>0, <1>14, OnlyType DEF MarkRestarted, RestartMarker
  <2>2. Data'
    BY <1>0, <1>14, <2>1 DEF MarkRestarted
  <2> QED
    BY <1>00, <1>14, <2>2 DEF MarkRestarted, Control, Phases, Reasons
<1>15. CASE LoadFails
  <2>1. Data'
    BY <1>0, <1>15 DEF LoadFails
  <2> QED
    BY <1>00, <1>15, <2>1 DEF LoadFails, Control, Phases, Reasons
<1>16. CASE IssueFails
  <2>1. Data'
    BY <1>0, <1>16 DEF IssueFails
  <2> QED
    BY <1>00, <1>16, <2>1 DEF IssueFails, Control, Phases, Reasons
<1>17. CASE StoreFails
  <2>1. Data'
    BY <1>0, <1>17 DEF StoreFails
  <2> QED
    BY <1>00, <1>17, <2>1 DEF StoreFails, Control, Phases, Reasons
<1>18. CASE TargetFails
  <2>1. Data'
    BY <1>0, <1>18 DEF TargetFails
  <2> QED
    BY <1>00, <1>18, <2>1 DEF TargetFails, Control, Phases, Reasons
<1>19. CASE RestartFails
  <2>1. running' \in [1..Apps -> Contents]
    BY <1>0, <1>19, OnlyType DEF RestartFails, RestartMarker
  <2>2. Data'
    BY <1>0, <1>19, <2>1 DEF RestartFails
  <2> QED
    BY <1>00, <1>19, <2>2 DEF RestartFails, Control, Phases, Reasons
<1>20. CASE Crash
  <2>1. Nothing \in Contents
    BY DEF Nothing, Contents
  <2>2. Data'
    BY <1>0, <1>20, <2>1 DEF Crash
  <2> QED
    BY <1>00, <1>20, <2>2 DEF Crash, Control, Phases, Reasons
<1> QED
  BY <1>1, <1>2, <1>3, <1>4, <1>5, <1>6, <1>7, <1>8, <1>9, <1>10, <1>11, <1>12, <1>13,
     <1>14, <1>15, <1>16, <1>17, <1>18, <1>19, <1>20 DEF Next, Progress, Failure

-----------------------------------------------------------------------------
(* Steps that leave files, markers and apps alone keep what is said of them. *)
LEMMA StillOrdered ==
    ASSUME IInv, UNCHANGED <<disk, outside, issued>>
    PROVE  Ordered' /\ MarkersAreTrue' /\ RestartsAreTrue'
BY DEF IInv, Ordered, MarkersAreTrue, RestartsAreTrue, DeployMarker, RestartMarker, Only,
       Selected, disk, outside

(* Outside the three phases nothing is said of the phase. *)
LEMMA NoPhase ==
    ASSUME pc' \notin {"store", "deploy", "restart"}
    PROVE  StoreInv' /\ DeployInv' /\ RestartInv'
BY DEF StoreInv, DeployInv, RestartInv

(* A store's next file keeps order and markers. *)
LEMMA StoreStep ==
    ASSUME IInv, TypeOK', StoreFile
    PROVE  Ordered' /\ StoreInv' /\ DeployInv' /\ RestartInv'
             /\ MarkersAreTrue' /\ RestartsAreTrue'
<1> DEFINE f == StoreOrder[pos]
<1>0. Data /\ Data'
  BY TypeParts DEF IInv
<1>1. /\ pos \in 1..4
      /\ \A g \in Files : live[g] <= files[g] /\ files[g] <= issued
      /\ \A i \in 1..4 : i < pos => live[StoreOrder[i]] = files[StoreOrder[i]]
  BY DEF IInv, StoreInv, StoreFile
<1>2. f \in Files
  BY <1>1 DEF StoreOrder, Files
<1>3. live' = [live EXCEPT ![f] = files[f]]
  BY DEF StoreFile
<1>4. \A g \in Files : /\ live[g] \in Nat /\ live'[g] \in Nat /\ files[g] \in Nat
                       /\ live'[g] = IF g = f THEN files[g] ELSE live[g]
  BY <1>0, <1>2, <1>3 DEF Data, Contents
<1>5. \A g \in Files : live[g] <= live'[g] /\ live'[g] <= files[g]
  BY <1>1, <1>4
<1>6. UNCHANGED <<deployed, restarted, files, target, running, issued>>
  BY DEF StoreFile, outside, wanted
<1>7. Ordered'
  <2>1. \A t \in Targets, g \in Files : deployed[t][g] \in Nat /\ restarted[g] \in Nat
    BY <1>0 DEF Data, Contents
  <2>2. issued \in Nat
    BY <1>0, BoundAssumption DEF Data
  <2>3. \A g \in Files : live'[g] <= issued
    BY <1>1, <1>4, <1>5, <2>2
  <2>4. \A t \in Targets, g \in Files : deployed[t][g] <= live'[g]
    BY <1>4, <1>5, <2>1 DEF IInv, Ordered
  <2>5. \A g \in Files : restarted[g] <= live'[g]
    <3>1. \A g \in Files : restarted[g] \in Nat
      BY <1>0 DEF Data, Contents
    <3> QED
      BY <1>4, <1>5, <3>1 DEF IInv, Ordered
  <2> QED
    BY <1>6, <2>3, <2>4, <2>5 DEF Ordered
<1>8. MarkersAreTrue'
  <2> SUFFICES ASSUME NEW t \in Targets, deployed[t] = Only(Selected(t), live')
               PROVE  Only(Selected(t), target[t]) = deployed[t]
    BY <1>6 DEF MarkersAreTrue, DeployMarker, Only, Selected
  <2>1. deployed[t] \in Contents /\ live \in Contents /\ live' \in Contents
    BY <1>0 DEF Data
  <2>2. \A g \in Files : deployed[t][g] <= live[g] /\ live[g] <= live'[g]
    BY <1>5 DEF IInv, Ordered
  <2>3. deployed[t] = Only(Selected(t), live)
    BY <2>1, <2>2, Unchanged
  <2> QED
    BY <2>3 DEF IInv, MarkersAreTrue, DeployMarker
<1>9. RestartsAreTrue'
  <2> SUFFICES ASSUME restarted = Only({"fullchain", "privkey"}, live')
               PROVE  \A a \in 1..Apps : running[a] = restarted
    BY <1>6 DEF RestartsAreTrue, RestartMarker, Only
  <2>1. restarted \in Contents /\ live \in Contents /\ live' \in Contents
    BY <1>0 DEF Data
  <2>2. \A g \in Files : restarted[g] <= live[g] /\ live[g] <= live'[g]
    BY <1>5 DEF IInv, Ordered
  <2>3. restarted = Only({"fullchain", "privkey"}, live)
    BY <2>1, <2>2, Unchanged
  <2> QED
    BY <2>3 DEF IInv, RestartsAreTrue, RestartMarker
<1>10. \A i \in 1..4 : i <= pos => live'[StoreOrder[i]] = files[StoreOrder[i]]
  <2> SUFFICES ASSUME NEW i \in 1..4, i <= pos
               PROVE  live'[StoreOrder[i]] = files[StoreOrder[i]]
    OBVIOUS
  <2>1. StoreOrder[i] \in Files
    BY DEF StoreOrder, Files
  <2>2. i < pos \/ i = pos
    BY <1>1
  <2> QED
    BY <1>1, <1>4, <2>1, <2>2
<1>11. CASE pos < Len(StoreOrder)
  <2>1. pos' = pos + 1 /\ pc' = "store"
    BY <1>11 DEF StoreFile
  <2>2. pos < 4
    BY <1>11 DEF StoreOrder
  <2>3. \A i \in 1..4 : i < pos + 1 => i <= pos
    BY <1>1
  <2>4. StoreInv'
    BY <1>1, <1>5, <1>6, <1>10, <2>1, <2>2, <2>3 DEF StoreInv
  <2> QED
    BY <1>7, <1>8, <1>9, <2>1, <2>4 DEF DeployInv, RestartInv
<1>12. CASE ~(pos < Len(StoreOrder))
  <2>1. pc' = "deploy" /\ pos' = 1 /\ put' = 0
    BY <1>12 DEF StoreFile, Enter
  <2>2. pos = 4
    BY <1>1, <1>12 DEF StoreOrder
  <2>3. \A g \in Files : \E i \in 1..4 : g = StoreOrder[i]
    BY DEF Files, StoreOrder
  <2>4. \A g \in Files : live'[g] = files[g]
    BY <1>10, <2>2, <2>3
  <2>5. files' = live'
    BY <1>0, <1>6, <2>4 DEF Data, Contents
  <2>6. DeployInv'
    <3>1. \A t \in Targets : ~(t < 1)
      BY DeployAssumption DEF Targets
    <3>2. 1 \in Targets => Len(Deploy[1]) \in Nat
      BY DeployAssumption DEF Targets
    <3> QED
      BY <2>1, <2>5, <3>1, <3>2 DEF DeployInv
  <2> QED
    BY <1>7, <1>8, <1>9, <2>1, <2>6 DEF StoreInv, RestartInv
<1> QED
  BY <1>11, <1>12

(* A deployment puts stored files over whatever the target held. *)
LEMMA PutStep ==
    ASSUME IInv, TypeOK', PutFile
    PROVE  Ordered' /\ StoreInv' /\ DeployInv' /\ RestartInv'
             /\ MarkersAreTrue' /\ RestartsAreTrue'
<1> DEFINE f == Deploy[pos][put + 1]
<1>0. Data
  BY TypeParts DEF IInv
<1>1. pos \in Targets /\ put < Len(Deploy[pos]) /\ pc = "deploy"
  BY DEF PutFile, AtTarget
<1>2. UNCHANGED <<live, deployed, restarted, pc, files, pos, failures, running, issued>>
  BY DEF PutFile, disk, wanted
<1>3. files = live /\ put \in Nat
  BY <1>0, <1>1 DEF IInv, DeployInv, Data
<1>4. Deploy[pos] \in Seq(Files)
  BY <1>1, DeployAssumption DEF Targets
<1>5. put + 1 \in DOMAIN Deploy[pos] /\ put + 1 \in Nat /\ put + 1 <= Len(Deploy[pos])
  BY <1>1, <1>3, <1>4
<1>6. f \in Files /\ f \in Selected(pos)
  BY <1>1, <1>5, SelectedFile
<1>7. target' = [target EXCEPT ![pos][f] = live[f]] /\ put' = put + 1
  BY <1>3 DEF PutFile
<1>8. \A t \in Targets, g \in Files :
         target'[t][g] = IF t = pos /\ g = f THEN live[g] ELSE target[t][g]
  BY <1>0, <1>1, <1>6, <1>7 DEF Data, Contents
<1>9. MarkersAreTrue'
  <2> SUFFICES ASSUME NEW t \in Targets, deployed[t] = DeployMarker(t, live)
               PROVE  Only(Selected(t), target'[t]) = deployed[t]
    BY <1>2 DEF MarkersAreTrue, DeployMarker, Only, Selected
  <2>1. Only(Selected(t), target[t]) = Only(Selected(t), live)
    BY DEF IInv, MarkersAreTrue, DeployMarker
  <2>2. \A g \in Files : g \in Selected(t) => target[t][g] = live[g]
    BY <2>1 DEF Only
  <2>3. \A g \in Files : g \in Selected(t) => target'[t][g] = live[g]
    BY <1>8, <2>2
  <2> QED
    BY <2>3 DEF Only, DeployMarker
<1>10. DeployInv'
  <2>1. \A i \in 1..(put + 1) : target'[pos][Deploy[pos][i]] = live[Deploy[pos][i]]
    <3> SUFFICES ASSUME NEW i \in 1..(put + 1)
                 PROVE  target'[pos][Deploy[pos][i]] = live[Deploy[pos][i]]
      OBVIOUS
    <3>1. i \in DOMAIN Deploy[pos]
      BY <1>4, <1>5
    <3>2. Deploy[pos][i] \in Files
      BY <1>1, <3>1, SelectedFile
    <3>3. i \in 1..put \/ i = put + 1
      BY <1>3
    <3>4. \A j \in 1..put : target[pos][Deploy[pos][j]] = live[Deploy[pos][j]]
      BY <1>1 DEF IInv, DeployInv
    <3> QED
      BY <1>1, <1>8, <3>2, <3>3, <3>4
  <2>2. ~failures => \A t \in Targets : t < pos => deployed[t] = DeployMarker(t, live)
    BY <1>1 DEF IInv, DeployInv
  <2>3. ~failures' => \A t \in Targets : t < pos' => deployed'[t] = DeployMarker(t, live')
    BY <1>2, <2>2
  <2>4. put' <= Len(Deploy[pos'])
    BY <1>2, <1>5, <1>7
  <2>5. \A i \in 1..put' : target'[pos'][Deploy[pos'][i]] = live'[Deploy[pos'][i]]
    BY <1>2, <1>7, <2>1
  <2> QED
    BY <1>2, <1>3, <2>3, <2>4, <2>5 DEF DeployInv, DeployMarker, Only, Selected
<1>11. Ordered' /\ RestartsAreTrue'
  BY <1>2 DEF IInv, Ordered, RestartsAreTrue, RestartMarker, Only
<1> QED
  BY <1>1, <1>2, <1>9, <1>10, <1>11 DEF StoreInv, RestartInv

(* The phase's invariant holds of the next target, if the last one has     *)
(* failed or is marked for the stored files.                               *)
LEMMA NextTargetStep ==
    ASSUME IInv, AtTarget, NextTarget, UNCHANGED live,
           failures' \/ (~failures /\ deployed'[pos] = DeployMarker(pos, live)
                            /\ \A t \in Targets \ {pos} : deployed'[t] = deployed[t])
    PROVE  StoreInv' /\ DeployInv' /\ RestartInv'
<1>0. Data
  BY TypeParts DEF IInv
<1>1. /\ pc = "deploy" /\ pc' = "deploy" /\ pos \in Targets
      /\ pos' = pos + 1 /\ put' = 0 /\ files' = files
  BY DEF AtTarget, NextTarget
<1>2. files' = live'
  BY <1>1 DEF IInv, DeployInv
<1>3. \A t \in Targets : t < pos + 1 => t < pos \/ t = pos
  <2>1. \A t \in Targets : t \in Nat
    BY DeployAssumption DEF Targets
  <2>2. pos \in Nat
    BY <1>0 DEF Data
  <2> QED
    BY <2>1, <2>2
<1>4. ~failures' => \A t \in Targets : t < pos + 1 => deployed'[t] = DeployMarker(t, live)
  <2> SUFFICES ASSUME ~failures', NEW t \in Targets, t < pos + 1
               PROVE  deployed'[t] = DeployMarker(t, live)
    OBVIOUS
  <2>1. CASE t = pos
    BY <2>1
  <2>2. CASE t # pos
    BY <1>1, <1>3, <2>2 DEF IInv, DeployInv
  <2> QED
    BY <2>1, <2>2
<1>5. pos + 1 \in Targets => 0 <= Len(Deploy[pos + 1])
  BY DeployAssumption DEF Targets
<1>6. ~failures' => \A t \in Targets : t < pos' => deployed'[t] = DeployMarker(t, live')
  BY <1>1, <1>4
<1>7. pos' \in Targets => /\ put' <= Len(Deploy[pos'])
                          /\ \A i \in 1..put' : target'[pos'][Deploy[pos'][i]] = live'[Deploy[pos'][i]]
  BY <1>1, <1>5
<1> QED
  BY <1>1, <1>2, <1>6, <1>7
  DEF StoreInv, DeployInv, RestartInv, DeployMarker, Only, Selected

(* A target that holds all its files may be marked. *)
LEMMA MarkStep ==
    ASSUME IInv, TypeOK', MarkDeployed
    PROVE  Ordered' /\ MarkersAreTrue' /\ RestartsAreTrue'
<1>0. Data
  BY TypeParts DEF IInv
<1>1. pos \in Targets /\ put = Len(Deploy[pos]) /\ pc = "deploy"
  BY DEF MarkDeployed, AtTarget
<1>2. UNCHANGED <<live, restarted, target, running, issued>>
  BY DEF MarkDeployed, outside, wanted
<1>3. files = live
  BY <1>1 DEF IInv, DeployInv
<1>4. deployed' = [deployed EXCEPT ![pos] = DeployMarker(pos, live)]
  BY <1>3 DEF MarkDeployed
<1>5. \A t \in Targets :
         deployed'[t] = IF t = pos THEN Only(Selected(pos), live) ELSE deployed[t]
  BY <1>0, <1>1, <1>4 DEF Data, DeployMarker
<1>6. \A g \in Files : g \in Selected(pos) => target[pos][g] = live[g]
  <2> SUFFICES ASSUME NEW i \in DOMAIN Deploy[pos]
               PROVE  target[pos][Deploy[pos][i]] = live[Deploy[pos][i]]
    BY DEF Selected
  <2>1. i \in 1..put
    BY <1>1, SelectedFile
  <2> QED
    BY <1>1, <2>1 DEF IInv, DeployInv
<1>7. Only(Selected(pos), target[pos]) = Only(Selected(pos), live)
  BY <1>6 DEF Only
<1>8. MarkersAreTrue'
  <2> SUFFICES ASSUME NEW t \in Targets, deployed'[t] = DeployMarker(t, live)
               PROVE  Only(Selected(t), target[t]) = deployed'[t]
    BY <1>2 DEF MarkersAreTrue, DeployMarker, Only, Selected
  <2>1. CASE t = pos
    BY <1>5, <1>7, <2>1
  <2>2. CASE t # pos
    BY <1>5, <2>2 DEF IInv, MarkersAreTrue
  <2> QED
    BY <2>1, <2>2
<1>9. Ordered'
  <2>1. \A g \in Files : Only(Selected(pos), live)[g] <= live[g]
    BY <1>0 DEF Only, Data, Contents
  <2>2. \A t \in Targets, g \in Files : deployed'[t][g] <= live[g]
    BY <1>5, <2>1 DEF IInv, Ordered
  <2> QED
    BY <1>2, <2>2 DEF IInv, Ordered
<1>10. RestartsAreTrue'
  BY <1>2 DEF IInv, RestartsAreTrue, RestartMarker, Only
<1> QED
  BY <1>8, <1>9, <1>10

(* An app is restarted with the stored files. *)
LEMMA RunStep ==
    ASSUME IInv, pc = "restart",
           UNCHANGED <<disk, target, issued>>,
           \/ UNCHANGED running
           \/ pos <= Apps /\ running' = [running EXCEPT ![pos] = RestartMarker(files)]
    PROVE  Ordered' /\ MarkersAreTrue' /\ RestartsAreTrue'
<1>0. Data
  BY TypeParts DEF IInv
<1>1. files = live
  BY DEF IInv, RestartInv
<1>2. running \in [1..Apps -> Contents] /\ pos \in Nat /\ Apps \in Nat
  BY <1>0, BoundAssumption DEF Data
<1>3. \A a \in 1..Apps : running'[a] = running[a] \/ running'[a] = RestartMarker(live)
  BY <1>1, <1>2
<1>5. Ordered' /\ MarkersAreTrue'
  BY DEF IInv, Ordered, MarkersAreTrue, DeployMarker, Only, Selected, disk
<1>6. RestartsAreTrue'
  <2> SUFFICES ASSUME restarted = RestartMarker(live), NEW a \in 1..Apps
               PROVE  running'[a] = restarted
    BY DEF RestartsAreTrue, RestartMarker, Only, disk
  <2> QED
    BY <1>3 DEF IInv, RestartsAreTrue
<1> QED
  BY <1>5, <1>6

(* Every step keeps the invariant. *)
LEMMA InvStep ==
    ASSUME IInv, [Next]_vars
    PROVE  Ordered' /\ StoreInv' /\ DeployInv' /\ RestartInv'
             /\ MarkersAreTrue' /\ RestartsAreTrue'
<1>0. Data /\ Data' /\ TypeOK'
  BY TypeStep, TypeParts DEF IInv
<1>1. CASE UNCHANGED <<disk, memory, outside, issued>>
  <2>1. StoreInv' /\ DeployInv' /\ RestartInv'
    BY <1>1 DEF IInv, StoreInv, DeployInv, RestartInv, DeployMarker, RestartMarker, Only,
                Selected, disk, memory, outside
  <2> QED
    BY <1>1, <2>1, StillOrdered
<1>2. CASE \/ StartReconcile \/ LoadFails \/ IssueFails \/ StoreFails \/ Crash
  <2>1. pc' \in {"idle", "load", "issue"}
    BY <1>2 DEF StartReconcile, LoadFails, IssueFails, StoreFails, Crash, Return, Enter
  <2>2. UNCHANGED <<disk, outside, issued>>
    BY <1>2 DEF StartReconcile, LoadFails, IssueFails, StoreFails, Crash, wanted
  <2> QED
    BY <2>1, <2>2, StillOrdered, NoPhase
<1>3. CASE LoadCertificate
  <2>1. UNCHANGED <<disk, outside, issued>>
    BY <1>3 DEF LoadCertificate, wanted
  <2>2. CASE pc' = "issue"
    BY <2>1, <2>2, StillOrdered, NoPhase
  <2>3. CASE pc' # "issue"
    <3>1. pc' = "deploy" /\ pos' = 1 /\ put' = 0 /\ files' = live'
      BY <1>3, <2>1, <2>3 DEF LoadCertificate, Enter, disk
    <3>2. \A t \in Targets : ~(t < 1)
      BY DeployAssumption DEF Targets
    <3>3. 1 \in Targets => 0 <= Len(Deploy[1])
      BY DeployAssumption DEF Targets
    <3> QED
      BY <2>1, <3>1, <3>2, <3>3, StillOrdered DEF StoreInv, DeployInv, RestartInv
  <2> QED
    BY <2>2, <2>3
<1>4. CASE Issue
  <2>1. UNCHANGED <<live, deployed, restarted, target, running>> /\ issued' = issued + 1
    BY <1>4 DEF Issue, disk, outside
  <2>2. pc' = "store" /\ pos' = 1 /\ files' = Encoded(issued + 1, NewKey)
    BY <1>4 DEF Issue, Enter
  <2>3. issued \in Nat /\ \A g \in Files : live[g] \in Nat /\ live[g] <= issued
    BY <1>0, BoundAssumption DEF IInv, Ordered, Data, Contents
  <2>4. "privkey" \in Files
    BY DEF Files
  <2>5. live["privkey"] <= NewKey /\ NewKey <= issued + 1
    BY <2>3, <2>4 DEF NewKey
  <2>6. \A g \in Files : live[g] <= files'[g] /\ files'[g] <= issued + 1
    BY <2>2, <2>3, <2>5 DEF Encoded
  <2>7. StoreInv'
    BY <2>1, <2>2, <2>6 DEF StoreInv
  <2>8. Ordered'
    BY <2>1, <2>3 DEF IInv, Ordered
  <2>9. MarkersAreTrue' /\ RestartsAreTrue'
    BY <2>1 DEF IInv, MarkersAreTrue, RestartsAreTrue, DeployMarker, RestartMarker, Only,
                Selected
  <2> QED
    BY <2>2, <2>7, <2>8, <2>9 DEF DeployInv, RestartInv
<1>5. CASE StoreFile
  BY <1>0, <1>5, StoreStep
<1>6. CASE SkipTarget
  <2>1. UNCHANGED <<disk, outside, issued, failures>> /\ AtTarget /\ NextTarget
    BY <1>6 DEF SkipTarget, wanted
  <2>2. files = live
    BY <2>1 DEF IInv, DeployInv, AtTarget
  <2>3. deployed[pos] = DeployMarker(pos, live)
    BY <1>6, <2>2 DEF SkipTarget
  <2>4. StoreInv' /\ DeployInv' /\ RestartInv'
    BY <2>1, <2>3, NextTargetStep DEF disk
  <2> QED
    BY <2>1, <2>4, StillOrdered
<1>7. CASE PutFile
  BY <1>0, <1>7, PutStep
<1>8. CASE MarkDeployed
  <2>1. AtTarget /\ NextTarget /\ UNCHANGED <<live, failures>>
    BY <1>8 DEF MarkDeployed
  <2>2. files = live
    BY <2>1 DEF IInv, DeployInv, AtTarget
  <2>3. deployed' = [deployed EXCEPT ![pos] = DeployMarker(pos, live)]
    BY <1>8, <2>2 DEF MarkDeployed
  <2>4. /\ deployed'[pos] = DeployMarker(pos, live)
        /\ \A t \in Targets \ {pos} : deployed'[t] = deployed[t]
    BY <1>0, <2>1, <2>3 DEF Data, AtTarget
  <2>5. StoreInv' /\ DeployInv' /\ RestartInv'
    BY <2>1, <2>4, NextTargetStep
  <2> QED
    BY <1>0, <1>8, <2>5, MarkStep
<1>9. CASE TargetFails
  <2>1. UNCHANGED <<disk, outside, issued>> /\ AtTarget /\ NextTarget /\ failures'
    BY <1>9 DEF TargetFails, wanted
  <2>2. StoreInv' /\ DeployInv' /\ RestartInv'
    BY <2>1, NextTargetStep DEF disk
  <2> QED
    BY <2>1, <2>2, StillOrdered
<1>10. CASE EndDeploy
  <2>1. UNCHANGED <<disk, outside, issued, files>> /\ pc = "deploy" /\ pos \notin Targets
    BY <1>10 DEF EndDeploy, wanted
  <2>2. CASE pc' = "idle"
    BY <2>1, <2>2, StillOrdered, NoPhase
  <2>3. CASE pc' # "idle"
    <3>1. pc' = "restart" /\ pos' = 1 /\ ~failures
      BY <1>10, <2>3 DEF EndDeploy, Return, Enter
    <3>2. \A t \in Targets : t < pos
      <4>1. pos \in Nat \ {0}
        BY <1>0 DEF Data
      <4>2. Targets = 1..Len(Deploy) /\ Len(Deploy) \in Nat
        BY DeployAssumption DEF Targets
      <4> QED
        BY <2>1, <4>1, <4>2
    <3>3. files = live /\ \A t \in Targets : deployed[t] = DeployMarker(t, live)
      BY <2>1, <3>1, <3>2 DEF IInv, DeployInv
    <3>4. \A a \in 1..Apps : ~(a < 1)
      BY BoundAssumption
    <3>5. RestartInv'
      BY <2>1, <3>1, <3>3, <3>4 DEF RestartInv, DeployMarker, Only, Selected, disk
    <3> QED
      BY <2>1, <3>1, <3>5, StillOrdered DEF StoreInv, DeployInv
  <2> QED
    BY <2>2, <2>3
<1>11. CASE RestartApp
  <2>1. /\ pc = "restart" /\ pc' = "restart" /\ pos' = pos + 1 /\ pos <= Apps
        /\ UNCHANGED <<disk, target, issued, files>>
        /\ running' = [running EXCEPT ![pos] = RestartMarker(files)]
    BY <1>11 DEF RestartApp, wanted
  <2>2. files = live /\ \A t \in Targets : deployed[t] = DeployMarker(t, live)
    BY <2>1 DEF IInv, RestartInv
  <2>3. \A a \in 1..Apps : a < pos + 1 => running'[a] = RestartMarker(live)
    <3>1. running \in [1..Apps -> Contents] /\ pos \in Nat \ {0} /\ Apps \in Nat
      BY <1>0, BoundAssumption DEF Data
    <3>2. \A a \in 1..Apps : a < pos => running[a] = RestartMarker(live)
      BY <2>1 DEF IInv, RestartInv
    <3> QED
      BY <2>1, <2>2, <3>1, <3>2
  <2>4. RestartInv'
    BY <2>1, <2>2, <2>3 DEF RestartInv, DeployMarker, RestartMarker, Only, Selected, disk
  <2>5. Ordered' /\ MarkersAreTrue' /\ RestartsAreTrue'
    BY <2>1, RunStep
  <2> QED
    BY <2>1, <2>4, <2>5 DEF StoreInv, DeployInv
<1>12. CASE RestartFails
  <2>1. pc' = "idle" /\ pc = "restart" /\ UNCHANGED <<disk, target, issued>>
    BY <1>12 DEF RestartFails, Return, Enter, wanted
  <2>2. Ordered' /\ MarkersAreTrue' /\ RestartsAreTrue'
    BY <1>12, <2>1, RunStep DEF RestartFails
  <2> QED
    BY <2>1, <2>2, NoPhase
<1>13. CASE MarkRestarted
  <2>1. /\ pc' = "idle" /\ pc = "restart" /\ pos > Apps
        /\ UNCHANGED <<live, deployed, target, running, issued>>
        /\ restarted' = RestartMarker(files)
    BY <1>13 DEF MarkRestarted, Return, Enter, wanted, outside
  <2>2. restarted' = RestartMarker(live)
    BY <2>1 DEF IInv, RestartInv
  <2>3. \A a \in 1..Apps : running[a] = RestartMarker(live)
    <3>1. \A a \in 1..Apps : a < pos
      BY <1>0, <2>1, BoundAssumption DEF Data
    <3> QED
      BY <2>1, <3>1 DEF IInv, RestartInv
  <2>4. RestartsAreTrue'
    BY <2>1, <2>2, <2>3 DEF RestartsAreTrue, RestartMarker, Only
  <2>5. Ordered'
    <3>1. \A g \in Files : RestartMarker(live)[g] <= live[g]
      BY <1>0 DEF RestartMarker, Only, Data, Contents
    <3> QED
      BY <2>1, <2>2, <3>1 DEF IInv, Ordered
  <2>6. MarkersAreTrue'
    BY <2>1 DEF IInv, MarkersAreTrue, DeployMarker, Only, Selected
  <2> QED
    BY <2>1, <2>4, <2>5, <2>6, NoPhase
<1>14. CASE UNCHANGED vars \/ CronFires \/ ConfigChange \/ EnterWindow
  <2>1. UNCHANGED <<disk, memory, outside, issued>>
    BY <1>14 DEF vars, CronFires, ConfigChange, EnterWindow, wanted
  <2> QED
    BY <1>1, <2>1
<1> QED
  BY <1>2, <1>3, <1>4, <1>5, <1>6, <1>7, <1>8, <1>9, <1>10, <1>11, <1>12, <1>13, <1>14
  DEF Next, Progress, Failure

-----------------------------------------------------------------------------
(* IInv is an invariant of the specification. *)
THEOREM Invariance == Spec => []IInv
<1>1. Init => IInv
  BY InitIInv
<1>2. IInv /\ [Next]_vars => IInv'
  BY TypeStep, InvStep DEF IInv
<1> QED
  BY <1>1, <1>2, PTL DEF Spec

(* Type correctness. *)
THEOREM TypeCorrect == Spec => []TypeOK
<1>1. IInv => TypeOK
  BY DEF IInv
<1> QED
  BY <1>1, Invariance, PTL

(* A deployment marker for the stored files proves that the target holds    *)
(* them, whatever failures, crashes and renewals went before, and also when *)
(* a half-stored renewal is taken for a certificate (ReuseKey).             *)
THEOREM SkippingIsSafe == Spec => []MarkersAreTrue
<1>1. IInv => MarkersAreTrue
  BY DEF IInv
<1> QED
  BY <1>1, Invariance, PTL

(* Apps are restarted only when every target holds the stored files. *)
THEOREM DeployedBeforeRestart == Spec => []RestartAfterDeploy
<1>1. IInv => RestartAfterDeploy
  BY DEF IInv, RestartInv, RestartAfterDeploy, MarkersAreTrue
<1> QED
  BY <1>1, Invariance, PTL

(* The restart marker never hides an app that was not restarted. *)
THEOREM NoRestartForgotten == Spec => []RestartsAreTrue
<1>1. IInv => RestartsAreTrue
  BY DEF IInv
<1> QED
  BY <1>1, Invariance, PTL

-----------------------------------------------------------------------------
(* Without ReuseKey revision r has key r, so the order in which the files  *)
(* are stored shows in the files: cert.pem is never older than chain.pem,  *)
(* chain.pem than fullchain.pem, fullchain.pem than the key.  A key that   *)
(* fits cert.pem is as new as it, and so are the files between them.       *)
OwnKeys ==
    /\ \A r \in 1..issued : keyOf[r] = r
    /\ live["chain"] <= live["cert"] /\ live["fullchain"] <= live["chain"]
    /\ live["privkey"] <= live["fullchain"]
    /\ pc = "store" => files = Encoded(issued, issued)
    /\ OneIssuance

(* The order of the files is kept by every step. *)
LEMMA OwnKeysStep ==
    ASSUME ~ReuseKey, IInv, OwnKeys, [Next]_vars
    PROVE  OwnKeys'
<1>0. Data
  BY TypeParts DEF IInv
<1>1. /\ issued \in Nat /\ Len(keyOf) = issued /\ keyOf \in Seq(Nat \ {0})
      /\ live["cert"] \in Nat /\ live["chain"] \in Nat
      /\ live["fullchain"] \in Nat /\ live["privkey"] \in Nat
      /\ live["cert"] <= issued /\ live["chain"] <= issued
      /\ live["fullchain"] <= issued /\ live["privkey"] <= issued
  <2>1. "cert" \in Files /\ "chain" \in Files /\ "fullchain" \in Files /\ "privkey" \in Files
    BY DEF Files
  <2> QED
    BY <1>0, <2>1, BoundAssumption DEF IInv, Ordered, Data, Contents
<1>2. CASE Issue
  <2>1. NewKey = issued + 1
    BY DEF NewKey
  <2>2. keyOf' = Append(keyOf, issued + 1) /\ issued' = issued + 1 /\ live' = live
    BY <1>2, <2>1 DEF Issue, disk
  <2>3. \A r \in 1..(issued + 1) : keyOf'[r] = r
    BY <1>1, <2>2 DEF OwnKeys
  <2>4. pc' = "store" /\ files' = Encoded(issued + 1, issued + 1)
    BY <1>2, <2>1 DEF Issue, Enter
  <2>5. files' = (Encoded(issued, issued))'
    BY <2>2, <2>4 DEF Encoded
  <2> QED
    BY <2>2, <2>3, <2>4, <2>5 DEF OwnKeys, OneIssuance
<1>3. CASE LoadCertificate
  <2>1. UNCHANGED <<live, issued, keyOf>>
    BY <1>3 DEF LoadCertificate, disk, wanted
  <2>2. CASE pc' = "issue"
    BY <2>1, <2>2 DEF OwnKeys, OneIssuance
  <2>3. CASE pc' # "issue"
    <3>1. pc' = "deploy" /\ files' = live /\ Valid(live)
      BY <1>3, <2>3 DEF LoadCertificate, Enter
    <3>2. live["cert"] # 0 /\ keyOf[live["cert"]] = live["privkey"]
      BY <3>1 DEF Valid, Files
    <3>3. live["cert"] \in 1..issued
      BY <1>1, <3>2
    <3>4. live["privkey"] = live["cert"]
      BY <3>2, <3>3 DEF OwnKeys
    <3>5. live["chain"] = live["cert"] /\ live["fullchain"] = live["cert"]
      BY <1>1, <3>4 DEF OwnKeys
    <3>6. \A g \in Files : live[g] = IF g = "privkey" THEN live["privkey"] ELSE live["cert"]
      BY <3>4, <3>5 DEF Files
    <3>7. live = Encoded(live["cert"], live["privkey"])
      BY <1>0, <3>6 DEF Encoded, Data, Contents
    <3>8. (files = Encoded(files["cert"], files["privkey"]))'
      BY <3>1, <3>7 DEF Encoded
    <3> QED
      BY <2>1, <3>1, <3>8 DEF OwnKeys, OneIssuance
  <2> QED
    BY <2>2, <2>3
<1>4. CASE StoreFile
  <2>1. /\ pc = "store" /\ UNCHANGED <<issued, keyOf, files>>
        /\ live' = [live EXCEPT ![StoreOrder[pos]] = files[StoreOrder[pos]]]
        /\ pc' \in {"store", "deploy"}
    BY <1>4 DEF StoreFile, Enter, wanted
  <2>2. files = Encoded(issued, issued)
    BY <2>1 DEF OwnKeys
  <2>3. pos \in 1..4 /\ \A i \in 1..4 : i < pos => live[StoreOrder[i]] = files[StoreOrder[i]]
    BY <2>1 DEF IInv, StoreInv
  <2>4. /\ files["cert"] = issued /\ files["chain"] = issued
        /\ files["fullchain"] = issued /\ files["privkey"] = issued
    BY <2>2 DEF Encoded, Files
  <2>5. /\ StoreOrder[1] = "cert" /\ StoreOrder[2] = "chain"
        /\ StoreOrder[3] = "fullchain" /\ StoreOrder[4] = "privkey"
    BY DEF StoreOrder
  <2>6. /\ pos > 1 => live["cert"] = issued
        /\ pos > 2 => live["chain"] = issued
        /\ pos > 3 => live["fullchain"] = issued
    BY <2>3, <2>4, <2>5
  <2>7. live \in [Files -> Nat]
    BY <1>0 DEF Data, Contents
  <2>8. /\ live'["chain"] <= live'["cert"] /\ live'["fullchain"] <= live'["chain"]
        /\ live'["privkey"] <= live'["fullchain"]
    <3>1. CASE pos = 1
      BY <1>1, <2>1, <2>4, <2>5, <2>7, <3>1 DEF OwnKeys, Files
    <3>2. CASE pos = 2
      BY <1>1, <2>1, <2>4, <2>5, <2>6, <2>7, <3>2 DEF OwnKeys, Files
    <3>3. CASE pos = 3
      BY <1>1, <2>1, <2>4, <2>5, <2>6, <2>7, <3>3 DEF OwnKeys, Files
    <3>4. CASE pos = 4
      BY <1>1, <2>1, <2>4, <2>5, <2>6, <2>7, <3>4 DEF OwnKeys, Files
    <3> QED
      BY <2>3, <3>1, <3>2, <3>3, <3>4
  <2>9. files' = (Encoded(issued, issued))'
    BY <2>1, <2>2 DEF Encoded
  <2>10. (files = Encoded(files["cert"], files["privkey"]))'
    BY <2>1, <2>2, <2>4 DEF Encoded
  <2> QED
    BY <2>1, <2>8, <2>9, <2>10 DEF OwnKeys, OneIssuance
<1>5. CASE UNCHANGED <<live, issued, keyOf>> /\ pc' \in {"idle", "load", "issue"}
  BY <1>5 DEF OwnKeys, OneIssuance
<1>6. CASE /\ UNCHANGED <<live, issued, keyOf, files>>
           /\ pc' = pc \/ (pc = "deploy" /\ pc' = "restart")
  BY <1>6 DEF OwnKeys, OneIssuance, Encoded
<1>7. CASE \/ StartReconcile \/ LoadFails \/ IssueFails \/ StoreFails \/ Crash
           \/ RestartFails \/ MarkRestarted
  <2>1. UNCHANGED <<live, issued, keyOf>> /\ pc' \in {"idle", "load", "issue"}
    BY <1>7 DEF StartReconcile, LoadFails, IssueFails, StoreFails, Crash, RestartFails,
                MarkRestarted, Return, Enter, disk, wanted
  <2> QED
    BY <1>5, <2>1
<1>8. CASE EndDeploy
  <2>1. /\ UNCHANGED <<live, issued, keyOf, files>> /\ pc = "deploy"
        /\ pc' = "idle" \/ pc' = "restart"
    BY <1>8 DEF EndDeploy, Return, Enter, disk, wanted
  <2> QED
    BY <1>5, <1>6, <2>1
<1>9. CASE \/ UNCHANGED vars \/ CronFires \/ ConfigChange \/ EnterWindow \/ SkipTarget
           \/ PutFile \/ MarkDeployed \/ TargetFails \/ RestartApp
  <2>1. UNCHANGED <<live, issued, keyOf, files, pc>>
    BY <1>9 DEF vars, CronFires, ConfigChange, EnterWindow, SkipTarget, PutFile, MarkDeployed,
                TargetFails, RestartApp, NextTarget, disk, memory, wanted
  <2> QED
    BY <1>6, <2>1
<1> QED
  BY <1>2, <1>3, <1>4, <1>7, <1>8, <1>9 DEF Next, Progress, Failure

(* With a key of its own for every certificate a half-stored renewal is     *)
(* never taken for a certificate: what is deployed is of one issuance.      *)
THEOREM NoMixtureDeployed == Spec => []OneIssuance
<1>1. Init => (~ReuseKey => OwnKeys)
  <2>1. ASSUME Init PROVE OwnKeys
    <3>1. issued \in Nat /\ \A r \in 1..issued : keyOf[r] = r
      BY <2>1 DEF Init
    <3>2. /\ live["cert"] = issued /\ live["chain"] = issued
          /\ live["fullchain"] = issued /\ live["privkey"] = issued
      BY <2>1 DEF Init, Encoded, Files
    <3> QED
      BY <2>1, <3>1, <3>2 DEF Init, OwnKeys, OneIssuance
  <2> QED
    BY <2>1
<1>2. [Next]_vars => (ReuseKey <=> ReuseKey')
  BY DEF Next, vars, ReuseKey
<1>3. IInv /\ (~ReuseKey => OwnKeys) /\ [Next]_vars => (~ReuseKey => OwnKeys)'
  BY <1>2, OwnKeysStep
<1>4. (~ReuseKey => OwnKeys) => OneIssuance
  BY DEF OwnKeys, OneIssuance
<1> QED
  BY <1>1, <1>3, <1>4, Invariance, PTL DEF Spec
=============================================================================

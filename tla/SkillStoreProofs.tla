--------------------------- MODULE SkillStoreProofs ---------------------------
(***************************************************************************)
(* Proofs about SkillStore, for any skills, releases, edits and starts.    *)
(***************************************************************************)
EXTENDS SkillStore, TLAPS

Seeding == {"seed", "link", "mark"}

(* A default that the user left alone is in place *)
InPlace(s) == file[s] \in Releases

(* The user's own names apart, files are releases or are missing; the      *)
(* marker says that all the defaults are there, and while it is not there  *)
(* the seeding loop has placed those it is through with.                   *)
SeedInv ==
    /\ \A s \in Skills \ touched : file[s] \in Releases \cup Absent
    /\ marker => \A s \in Bundled \ touched : InPlace(s)
    /\ pc \in Seeding => ~marker
    /\ pc \in {"seed", "link"} => \A s \in Bundled \ (todo \cup touched) : InPlace(s)
    /\ pc = "mark" => \A s \in Bundled \ touched : InPlace(s)

(* Nothing is loaded before the folder is read, which the marker precedes; *)
(* the reading loop has loaded what it is through with.                    *)
ReadInv ==
    /\ pc \in Seeding \cup {"list"} => registry = Empty
    /\ pc \in {"list", "read"} => marker
    /\ pc = "read" => \A s \in Bundled \ (todo \cup touched) : registry[s] \in Releases
    /\ pc = "read" /\ quiet =>
          \A s \in Skills :
              IF s \in todo THEN file[s] \notin Absent
              ELSE registry[s] = IF file[s] \in Absent THEN "missing" ELSE file[s]

IInv == TypeOK /\ SeedInv /\ ReadInv /\ DefaultsAreServed /\ RestartTakesEdits

-----------------------------------------------------------------------------
(* The bundled names are names, and the empty registry is one. *)
LEMMA Constants ==
    /\ Bundled \subseteq Skills
    /\ Empty \in [Skills -> Loadable \cup {"missing"}]
    /\ \A s \in Skills : Empty[s] = "missing"
    /\ Releases \cap {"folder", "missing", "user", "invalid"} = {}
BY SkillAssumption DEF Empty

(* The first state satisfies the invariant. *)
LEMMA InitIInv == Init => IInv
<1> SUFFICES ASSUME Init PROVE IInv
  OBVIOUS
<1>1. TypeOK
  <2>1. file \in [Skills -> Loadable \cup Absent \cup {"invalid"}]
    BY DEF Init, Empty, Absent
  <2>2. registry \in [Skills -> Loadable \cup {"missing"}]
    BY DEF Init, Empty
  <2>3. edits \in 0..MaxEdits /\ starts \in 0..MaxStarts
    BY SkillAssumption DEF Init
  <2> QED
    BY <2>1, <2>2, <2>3 DEF Init, TypeOK, Phases
<1>2. SeedInv
  BY Constants DEF Init, SeedInv, Seeding, Absent
<1>3. ReadInv /\ DefaultsAreServed /\ RestartTakesEdits
  BY DEF Init, ReadInv, DefaultsAreServed, RestartTakesEdits, Seeding
<1> QED BY <1>1, <1>2, <1>3 DEF IInv

(* Every step keeps the types. *)
LEMMA TypeStep == IInv /\ [Next]_vars => TypeOK'
<1> SUFFICES ASSUME IInv, [Next]_vars PROVE TypeOK'
  OBVIOUS
<1> USE SkillAssumption, Constants DEF IInv, TypeOK, disk, user, Phases, Absent
<1>1. ASSUME NEW on \in BOOLEAN, Start(on) PROVE TypeOK'
  BY <1>1 DEF Start, FirstPhase
<1>2. CASE Seed
  BY <1>2 DEF Seed, SeedingDone
<1>3. CASE Link
  BY <1>3 DEF Link, Published, Loadable
<1>4. CASE Mark
  BY <1>4 DEF Mark
<1>5. CASE List
  BY <1>5 DEF List, Listed
<1>6. CASE Read
  BY <1>6 DEF Read, Loads
<1>7. CASE End
  BY <1>7 DEF End
<1>8. CASE Update
  BY <1>8 DEF Update
<1>9. ASSUME NEW s \in Skills, NEW new \in Absent \cup {"user", "invalid"}, Edit(s, new)
      PROVE  TypeOK'
  <2>1. file' \in [Skills -> Loadable \cup Absent \cup {"invalid"}]
    BY <1>9 DEF Edit, Loadable
  <2>2. edits' \in 0..MaxEdits
    BY <1>9 DEF Edit
  <2>3. touched' \subseteq Skills
    BY <1>9 DEF Edit
  <2> QED
    BY <1>9, <2>1, <2>2, <2>3 DEF Edit
<1>10. CASE UNCHANGED vars
  BY <1>10 DEF vars
<1> QED
  BY <1>1, <1>2, <1>3, <1>4, <1>5, <1>6, <1>7, <1>8, <1>9, <1>10 DEF Next, Program

(* Every step keeps the invariant about seeding. *)
LEMMA SeedStep == IInv /\ [Next]_vars => SeedInv'
<1> SUFFICES ASSUME IInv, [Next]_vars PROVE SeedInv'
  OBVIOUS
<1> USE Constants DEF IInv, TypeOK, SeedInv, ReadInv, InPlace, Seeding, disk, user, Absent
<1>1. ASSUME NEW on \in BOOLEAN, Start(on) PROVE SeedInv'
  BY <1>1 DEF Start, FirstPhase
<1>2. CASE Seed
  BY <1>2 DEF Seed, SeedingDone
<1>3. CASE Link
  BY <1>3 DEF Link, Published
<1>4. CASE Mark
  BY <1>4 DEF Mark
<1>5. CASE List
  BY <1>5 DEF List
<1>6. CASE Read
  BY <1>6 DEF Read
<1>7. CASE End
  BY <1>7 DEF End
<1>8. CASE Update
  BY <1>8 DEF Update
<1>9. ASSUME NEW s \in Skills, NEW new \in Absent \cup {"user", "invalid"}, Edit(s, new)
      PROVE  SeedInv'
  BY <1>9 DEF Edit
<1>10. CASE UNCHANGED vars
  BY <1>10 DEF vars
<1> QED
  BY <1>1, <1>2, <1>3, <1>4, <1>5, <1>6, <1>7, <1>8, <1>9, <1>10 DEF Next, Program

(* Every step keeps the invariants about reading and serving. *)
LEMMA ReadStep ==
    IInv /\ [Next]_vars => ReadInv' /\ DefaultsAreServed' /\ RestartTakesEdits'
<1> DEFINE Goal == ReadInv' /\ DefaultsAreServed' /\ RestartTakesEdits'
<1> SUFFICES ASSUME IInv, [Next]_vars PROVE Goal
  OBVIOUS
<1> USE Constants DEF IInv, TypeOK, ReadInv, DefaultsAreServed, RestartTakesEdits,
                      Seeding, disk, user, Absent
<1>1. ASSUME NEW on \in BOOLEAN, Start(on) PROVE Goal
  BY <1>1 DEF Start, FirstPhase
<1>2. CASE Seed
  BY <1>2 DEF Seed, SeedingDone
<1>3. CASE Link
  BY <1>3 DEF Link
<1>4. CASE Mark
  BY <1>4 DEF Mark
<1>5. CASE List
  BY <1>5 DEF List, Listed, SeedInv, InPlace
<1>6. CASE Read
  <2>1. CASE todo = {}
    BY <1>6, <2>1 DEF Read
  <2>2. ASSUME NEW s \in todo, Next1(s), file[s] \in Loadable,
               registry' = [registry EXCEPT ![s] = file[s]],
               todo' = todo \ {s}, UNCHANGED pc
        PROVE  Goal
    BY <1>6, <2>2 DEF Read, SeedInv, Loadable
  <2>3. CASE pc' = "down"
    BY <1>6, <2>3 DEF Read
  <2> QED BY <1>6, <2>1, <2>2, <2>3 DEF Read, Loads
<1>7. CASE End
  BY <1>7 DEF End
<1>8. CASE Update
  BY <1>8 DEF Update
<1>9. ASSUME NEW s \in Skills, NEW new \in Absent \cup {"user", "invalid"}, Edit(s, new)
      PROVE  Goal
  BY <1>9 DEF Edit
<1>10. CASE UNCHANGED vars
  BY <1>10 DEF vars
<1> QED
  BY <1>1, <1>2, <1>3, <1>4, <1>5, <1>6, <1>7, <1>8, <1>9, <1>10 DEF Next, Program

(* IInv is an invariant of the specification. *)
THEOREM Invariance == Spec => []IInv
<1>1. IInv /\ [Next]_vars => IInv'
  BY TypeStep, SeedStep, ReadStep DEF IInv
<1> QED BY InitIInv, <1>1, PTL DEF Spec

-----------------------------------------------------------------------------
(* The variables keep their types, for every value of the constants. *)
THEOREM TypeCorrect == Spec => []TypeOK
BY Invariance, PTL DEF IInv

(* However often the first start is interrupted and whatever the user does *)
(* to other skills, every enabled process that serves has loaded each      *)
(* default the user left alone.                                            *)
THEOREM DefaultsServed == Spec => []DefaultsAreServed
BY Invariance, PTL DEF IInv

(* What a process serves after a restart is what the folder holds. *)
THEOREM EditsTaken == Spec => []RestartTakesEdits
BY Invariance, PTL DEF IInv

(* A step that is not the user's changes no file that exists, and none at  *)
(* all once the marker is written.                                         *)
LEMMA HandsOff ==
    IInv /\ [Next]_vars =>
        (edits' = edits =>
            IF marker THEN UNCHANGED file
            ELSE \A s \in Skills : file[s] \notin Absent => file'[s] = file[s])
<1> SUFFICES ASSUME IInv, [Next]_vars, edits' = edits
             PROVE  IF marker THEN UNCHANGED file
                    ELSE \A s \in Skills : file[s] \notin Absent => file'[s] = file[s]
  OBVIOUS
<1>1. CASE Seed \/ Link
  <2>1. ~marker
    BY <1>1 DEF Seed, Link, IInv, SeedInv, Seeding
  <2> QED
    BY <1>1, <2>1 DEF Seed, Link, Published, IInv, TypeOK, Absent, SeedingDone
<1>2. ASSUME NEW s \in Skills, NEW new \in Absent \cup {"user", "invalid"}, Edit(s, new)
      PROVE  FALSE
  BY <1>2 DEF Edit, IInv, TypeOK
<1>3. CASE UNCHANGED file
  BY <1>3
<1> QED
  BY <1>1, <1>2, <1>3
     DEF Next, Program, Start, Mark, List, Read, End, Update, vars, disk

(* No start and no update overwrites an edit or restores a deletion. *)
THEOREM FilesLeftAlone == Spec => LeavesFilesAlone
<1>1. IInv /\ [Next]_vars => [edits' = edits =>
            IF marker THEN UNCHANGED file
            ELSE \A s \in Skills : file[s] \notin Absent => file'[s] = file[s]]_vars
  BY HandsOff
<1> QED BY Invariance, <1>1, PTL DEF Spec, LeavesFilesAlone
=============================================================================

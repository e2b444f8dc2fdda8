------------------------------ MODULE SkillStore ------------------------------
(***************************************************************************)
(* The runtime skills of MCP Orchestrator on disk (skills.py): the first   *)
(* enabled start copies the bundled defaults into the App's configuration, *)
(* every enabled start reads the folder, and the user edits it whenever    *)
(* they like.  The process may end at any moment.                          *)
(*                                                                         *)
(* Skills are numbered in the order in which a sorted directory lists      *)
(* them.  A file is a release of a default, a user's valid text or text    *)
(* that _load_skill refuses.                                               *)
(***************************************************************************)
EXTENDS Naturals

CONSTANTS
    N,          \* names that may occur in the skills folder
    Bundled,    \* those that the image brings
    Releases,   \* contents that the bundled skills have had
    MaxEdits,   \* bound on the user's edits
    MaxStarts   \* bound on the starts of the process

Skills == 1..N

ASSUME SkillAssumption ==
    /\ N \in Nat
    /\ Bundled \subseteq Skills /\ Bundled # {}
    /\ Releases # {}
    /\ Releases \cap {"folder", "missing", "user", "invalid"} = {}
    /\ MaxEdits \in Nat /\ MaxStarts \in Nat

VARIABLES
    release,    \* the release of the installed image
    file,       \* per skill: its SKILL.md, "folder" without one, or "missing"
    marker,     \* .skills.initialized exists
    pc,         \* where the start is: see Phases
    todo,       \* the skills the running loop has not reached
    registry,   \* the skills loaded by this start, "missing" where none is
    enabled,    \* SKILLS_ENABLED of this start
    edits,      \* the user's edits so far
    touched,    \* the skills they were about
    quiet,      \* no edit since the process started
    starts      \* starts so far

disk == <<file, marker>>
user == <<edits, touched, quiet>>
vars == <<release, disk, pc, todo, registry, enabled, user, starts>>

Phases == {"down", "seed", "link", "mark", "list", "read", "serving"}
Absent == {"folder", "missing"}
Loadable == Releases \cup {"user"}
Empty == [s \in Skills |-> "missing"]

TypeOK ==
    /\ release \in Releases
    /\ file \in [Skills -> Loadable \cup Absent \cup {"invalid"}]
    /\ marker \in BOOLEAN
    /\ pc \in Phases
    /\ todo \subseteq Skills
    /\ registry \in [Skills -> Loadable \cup {"missing"}]
    /\ enabled \in BOOLEAN
    /\ edits \in 0..MaxEdits
    /\ touched \subseteq Skills
    /\ quiet \in BOOLEAN
    /\ starts \in 0..MaxStarts

(* An App that has never run *)
Init ==
    /\ release \in Releases
    /\ file = Empty /\ marker = FALSE
    /\ pc = "down" /\ todo = {} /\ registry = Empty /\ enabled = FALSE
    /\ edits = 0 /\ touched = {} /\ quiet = TRUE
    /\ starts = 0

-----------------------------------------------------------------------------
(* from_environment and the first half of initialize_directory: disabled   *)
(* skills are neither seeded nor read, a marked folder is only read.       *)
FirstPhase(on) == IF ~on THEN "serving" ELSE IF marker THEN "list" ELSE "seed"

Start(on) ==
    /\ pc = "down" /\ starts < MaxStarts
    /\ starts' = starts + 1
    /\ enabled' = on
    /\ quiet' = TRUE
    /\ registry' = Empty
    /\ pc' = FirstPhase(on)
    /\ todo' = IF FirstPhase(on) = "seed" THEN Bundled ELSE {}
    /\ UNCHANGED <<release, disk, edits, touched>>

(* The skill that a loop over sorted names is at *)
Next1(s) == s \in todo /\ \A o \in todo : s <= o

(* mkdir of the skill's folder, and _write_if_missing up to the temporary  *)
(* file: an existing SKILL.md is left alone.                               *)
SeedingStarted == TRUE
SeedingDone == todo = {}

Seed ==
    /\ pc = "seed"
    /\ \/ /\ SeedingDone
          /\ pc' = "mark"
          /\ UNCHANGED <<file, todo>>
       \/ \E s \in todo :
             /\ Next1(s)
             /\ \/ /\ file[s] \in Absent
                   /\ file' = [file EXCEPT ![s] = "folder"]
                   /\ pc' = "link"
                   /\ UNCHANGED todo
                \/ /\ file[s] \notin Absent
                   /\ todo' = todo \ {s}
                   /\ UNCHANGED <<file, pc>>
    /\ UNCHANGED <<release, marker, registry, enabled, user, starts>>

(* os.link: publishes the complete file unless a SKILL.md exists by now *)
PublishedOver(old, new) == new
Published(old, new) == IF old = "folder" THEN new ELSE old

(* The rest of _write_if_missing.  A folder that was removed meanwhile     *)
(* ends the start.                                                         *)
Link ==
    /\ pc = "link"
    /\ \E s \in todo :
          /\ Next1(s)
          /\ \/ /\ file[s] # "missing"
                /\ file' = [file EXCEPT ![s] = Published(@, release)]
                /\ todo' = todo \ {s}
                /\ pc' = "seed"
             \/ /\ file[s] = "missing"
                /\ pc' = "down" /\ todo' = {}
                /\ UNCHANGED file
    /\ UNCHANGED <<release, marker, registry, enabled, user, starts>>

(* The marker is written when every default is in place. *)
Mark ==
    /\ pc = "mark"
    /\ marker' = TRUE
    /\ pc' = "list"
    /\ UNCHANGED <<release, file, todo, registry, enabled, user, starts>>

(* _load_directory collects the files there are ... *)
ListedBundled == {s \in Bundled : file[s] \notin Absent}
Listed == {s \in Skills : file[s] \notin Absent}

List ==
    /\ pc = "list"
    /\ todo' = Listed
    /\ pc' = "read"
    /\ UNCHANGED <<release, disk, registry, enabled, user, starts>>

(* What _load_skill accepts *)
LoadsAnything(text) == TRUE
Loads(text) == text \in Loadable

(* ... and reads one after the other; one that is invalid, or gone by now, *)
(* ends the start.                                                         *)
Read ==
    /\ pc = "read"
    /\ \/ /\ todo = {}
          /\ pc' = "serving"
          /\ UNCHANGED <<todo, registry>>
       \/ \E s \in todo :
             /\ Next1(s)
             /\ \/ /\ Loads(file[s])
                   /\ registry' = [registry EXCEPT ![s] = file[s]]
                   /\ todo' = todo \ {s}
                   /\ UNCHANGED pc
                \/ /\ ~Loads(file[s])
                   /\ pc' = "down" /\ todo' = {}
                   /\ UNCHANGED registry
    /\ UNCHANGED <<release, disk, enabled, user, starts>>

(* The process is stopped or killed, or a write fails: at any moment *)
End ==
    /\ pc # "down"
    /\ pc' = "down" /\ todo' = {}
    /\ UNCHANGED <<release, disk, registry, enabled, user, starts>>

(* The App is updated: another image, with other defaults *)
Update ==
    /\ pc = "down"
    /\ \E r \in Releases \ {release} : release' = r
    /\ UNCHANGED <<disk, pc, todo, registry, enabled, user, starts>>

(* The user writes or removes a SKILL.md, or removes its folder. *)
Edit(s, new) ==
    /\ edits < MaxEdits /\ file[s] # new
    /\ new = "folder" => file[s] # "missing"
    /\ file' = [file EXCEPT ![s] = new]
    /\ edits' = edits + 1 /\ touched' = touched \cup {s} /\ quiet' = FALSE
    /\ UNCHANGED <<release, marker, pc, todo, registry, enabled, starts>>

Program == Seed \/ Link \/ Mark \/ List \/ Read

Next ==
    \/ \E on \in BOOLEAN : Start(on)
    \/ Program \/ End \/ Update
    \/ \E s \in Skills, new \in Absent \cup {"user", "invalid"} : Edit(s, new)

Spec == Init /\ [][Next]_vars

-----------------------------------------------------------------------------
(* Only the user changes or removes a SKILL.md that exists: seeding, a     *)
(* repeated start and an update leave it as it is, whoever wrote it and    *)
(* even when it appears while the program is about to publish its own      *)
(* (skills.py:240-250).  Once the marker exists nothing is added either:   *)
(* no deleted skill comes back and no later default comes in (211-219).    *)
LeavesFilesAlone ==
    [][edits' = edits =>
         IF marker THEN UNCHANGED file
         ELSE \A s \in Skills : file[s] \notin Absent => file'[s] = file[s]]_vars

(* Every bundled skill that the user left alone is served by every enabled *)
(* process, whatever crashes interrupted the first start: the marker is    *)
(* not written before they all exist.                                      *)
DefaultsAreServed ==
    pc = "serving" /\ enabled =>
        \A s \in Bundled \ touched : registry[s] \in Releases

(* A process that started after the last edit serves exactly the skills in *)
(* the folder, none of them old, missing or invalid ("Restart the App      *)
(* after edits").                                                          *)
RestartTakesEdits ==
    pc = "serving" /\ enabled /\ quiet =>
        \A s \in Skills :
            registry[s] = IF file[s] \in Absent THEN "missing" ELSE file[s]
=============================================================================

-------------------------- MODULE ConfigurationStore --------------------------
(***************************************************************************)
(* ConfigurationStore (src/launcher/src/local_configuration.cpp): the      *)
(* active configuration, its last-known-good snapshot and the quarantine   *)
(* folder.  A configuration is its revision and the next setup step; a     *)
(* file is absent, holds bytes that do not parse, or holds a               *)
(* configuration.  atomic_write makes each file change at once or not at   *)
(* all (a .pending file nobody reads is left out), but save writes two     *)
(* files, and the launcher may die between them.                           *)
(***************************************************************************)
EXTENDS Integers

CONSTANTS
  LastStep,      \* SetupStep::Complete; the earlier steps are 0..LastStep-1
  MaxRevision,
  Absent,        \* no such file
  Corrupt,       \* a file that does not parse
  NotWriting

\* What a save can be given, whatever its numbers.
Contents == [revision : Nat, step : Nat]

ASSUME ConfigurationAssumption ==
  /\ LastStep \in Nat \ {0}
  /\ MaxRevision \in Nat \ {0}
  /\ Absent # Corrupt
  /\ \A mark \in {Absent, Corrupt, NotWriting} : mark \notin Contents

VARIABLES
  active,            \* sprout.json
  last_known_good,   \* sprout.last-good.json
  recovered,         \* recovery/: <<attempt, contents>> of each moved file
  writing            \* what a save in progress is about to activate

configurationVars == <<active, last_known_good, recovered, writing>>

ConfigurationInit ==
  /\ active = Absent
  /\ last_known_good = Absent
  /\ recovered = {}
  /\ writing = NotWriting

\* LocalConfiguration{}: the revision of a configuration never saved is 0.
Fresh == [revision |-> 0, step |-> 0]

Parses(file) == file \notin {Absent, Corrupt}

\* Mutant: the active file is not parsed before it is replaced.
SaveAcceptedUnread(c) ==
  IF active = Absent THEN c.revision = 0
    ELSE (IF Parses(active) THEN c.revision = active.revision ELSE TRUE)

\* save's tests, in order: the active file parses, and the caller's revision
\* is the one on disk.
SaveAccepted(c) ==
  IF active = Absent THEN c.revision = 0
    ELSE Parses(active) /\ c.revision = active.revision

\* The first half of save: the file being replaced becomes the snapshot.
BeginSave(c) ==
  /\ SaveAccepted(c)
  /\ last_known_good' = IF active = Absent THEN last_known_good ELSE active
  /\ writing' = [c EXCEPT !.revision = @ + 1]
  /\ UNCHANGED <<active, recovered>>

\* The second half: the new configuration becomes active.
FinishSave ==
  /\ writing # NotWriting
  /\ active' = writing
  /\ writing' = NotWriting
  /\ UNCHANGED <<last_known_good, recovered>>

\* A write fails and atomic_write throws, or the process dies.
StopWriting ==
  /\ writing' = NotWriting
  /\ UNCHANGED <<active, last_known_good, recovered>>

RestoreLastKnownGood ==
  /\ Parses(last_known_good)
  /\ active' = last_known_good
  /\ UNCHANGED <<last_known_good, recovered, writing>>

\* quarantine_active, when there is a file to move: the destination must be
\* free.
QuarantineActive(attempt) ==
  /\ active # Absent
  /\ \A file \in recovered : file[1] # attempt
  /\ recovered' = recovered \cup {<<attempt, active>>}
  /\ active' = Absent
  /\ UNCHANGED <<last_known_good, writing>>

=============================================================================

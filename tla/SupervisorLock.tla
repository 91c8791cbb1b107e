--------------------------- MODULE SupervisorLock ---------------------------
(***************************************************************************)
(* Copies of the wrapper src/tools/templates/onion-sprout-launch.sh that   *)
(* meet at its lock, a directory with the owner's pid in it, and the       *)
(* launchers which those that pass supervise, with their startup attempts  *)
(* on the one database.  Every command of the script is a step of its own; *)
(* a wrapper may be killed at any of them, and its launcher then goes on.  *)
(* A wrapper is named by its pid, which is used once.                      *)
(***************************************************************************)
EXTENDS StartupHealth

ASSUME PidAssumption == Launchers \subseteq Nat \ {0}

VARIABLES
  locked,     \* the lock's directory is there
  pid,        \* the owner written in it, 0 for none
  at,         \* where each wrapper is
  seen,       \* the owner it has read last
  launcher,   \* its launcher: none, new or begun
  reclaimed   \* history: a lock was removed for its owner being dead

lock == <<locked, pid>>
lockVars == <<lock, at, seen, launcher, reclaimed>>
supervisorVars == <<healthVars, lockVars>>

LockInit ==
  /\ HealthInit
  /\ locked = FALSE /\ pid = 0
  /\ at = [w \in Launchers |-> "arrive"]
  /\ seen = [w \in Launchers |-> 0]
  /\ launcher = [w \in Launchers |-> "none"]
  /\ reclaimed = FALSE

Alive(w) == at[w] # "gone"

Goes(w, place) == at' = [at EXCEPT ![w] = place]

\* One command of wrapper w, at a place, that touches no launcher.
Command(w, place) ==
  /\ at[w] = place
  /\ UNCHANGED <<healthVars, launcher>>

\* mkdir, which only one of several can do.
Mkdir(w, otherwise) ==
  /\ locked' = TRUE
  /\ Goes(w, IF locked THEN otherwise ELSE "claim")
  /\ UNCHANGED <<pid, seen, reclaimed>>

Arrive(w) == Command(w, "arrive") /\ Mkdir(w, "read")

\* Mutant: a lock in which no owner is written is taken for a stale one.
UnownedIsStale(w) == seen[w] = 0 \/ ~Alive(seen[w])

\* kill -0 fails: the owner that was read is dead.
IsStale(w) == seen[w] # 0 /\ ~Alive(seen[w])

ReadOwner(w) ==
  /\ Command(w, "read")
  /\ seen' = [seen EXCEPT ![w] = pid]
  /\ Goes(w, "probe")
  /\ UNCHANGED <<lock, reclaimed>>

Probe(w) ==
  /\ Command(w, "probe")
  /\ UNCHANGED <<lock, seen, reclaimed>>
  /\ Goes(w, IF IsStale(w) THEN "unlink" ELSE "again")

\* rm -f of the pid, whoever has written it by now.
Unlink(w) ==
  /\ Command(w, "unlink")
  /\ pid' = 0 /\ Goes(w, "rmdir")
  /\ reclaimed' = (reclaimed \/ seen[w] # 0)
  /\ UNCHANGED <<locked, seen>>

\* rmdir fails while the directory has a pid in it.
Rmdir(w, next) ==
  /\ locked' = (locked /\ pid # 0) /\ Goes(w, next)
  /\ UNCHANGED <<pid, seen, reclaimed>>

Reclaim(w) == Command(w, "rmdir") /\ Rmdir(w, "again")

Again(w) == Command(w, "again") /\ Mkdir(w, "refused")

\* A duplicate waits behind the owner, or leaves at once if none is written.
Refused(w) ==
  /\ Command(w, "refused")
  /\ seen' = [seen EXCEPT ![w] = pid]
  /\ Goes(w, IF pid = 0 THEN "gone" ELSE "wait")
  /\ UNCHANGED <<lock, reclaimed>>

Wait(w) ==
  /\ Command(w, "wait") /\ ~Alive(seen[w])
  /\ Goes(w, "gone")
  /\ UNCHANGED <<lock, seen, reclaimed>>

\* The pid is written; without the directory that fails, and the script goes on.
Claim(w) ==
  /\ Command(w, "claim")
  /\ pid' = IF locked THEN w ELSE pid
  /\ Goes(w, "supervise")
  /\ UNCHANGED <<locked, seen, reclaimed>>

\* The loop: the launcher runs, and is started anew unless its exit was meant.
StartSupervised(w) ==
  /\ at[w] = "supervise" /\ launcher[w] = "none"
  /\ launcher' = [launcher EXCEPT ![w] = "new"]
  /\ UNCHANGED <<healthVars, lock, at, seen, reclaimed>>

LeaveLoop(w) ==
  /\ Command(w, "supervise") /\ launcher[w] = "none"
  /\ Goes(w, "release")
  /\ UNCHANGED <<lock, seen, reclaimed>>

\* release_sprout_lock, in the trap: rm, then rmdir.
Release(w) ==
  /\ Command(w, "release")
  /\ pid' = 0 /\ Goes(w, "unlock")
  /\ UNCHANGED <<locked, seen, reclaimed>>

Unlock(w) == Command(w, "unlock") /\ Rmdir(w, "gone")

Kill(w) ==
  /\ Alive(w) /\ Goes(w, "gone")
  /\ UNCHANGED <<healthVars, lock, seen, launcher, reclaimed>>

\* The launcher begins its attempt, becomes ready or is refused, and ends.
RunLauncher(w) ==
  /\ UNCHANGED <<lock, at, seen, reclaimed>>
  /\ \/ /\ launcher[w] = "new" /\ BeginStartup(w)
        /\ launcher' = [launcher EXCEPT ![w] = "begun"]
     \/ launcher[w] = "begun" /\ MarkReady(w) /\ UNCHANGED launcher
     \/ /\ launcher[w] # "none"
        /\ RefuseReady(w) \/ Abandon(w)
        /\ launcher' = [launcher EXCEPT ![w] = "none"]

LockNext ==
  \E w \in Launchers :
    \/ Arrive(w) \/ ReadOwner(w) \/ Probe(w) \/ Unlink(w) \/ Reclaim(w)
    \/ Again(w) \/ Refused(w) \/ Wait(w) \/ Claim(w)
    \/ StartSupervised(w) \/ LeaveLoop(w) \/ Release(w) \/ Unlock(w)
    \/ Kill(w) \/ RunLauncher(w)

LockSpec == LockInit /\ [][LockNext]_supervisorVars

-----------------------------------------------------------------------------
Supervising(w) == at[w] \in {"supervise", "release"}

\* Two wrappers supervise at the same time only after one of them has removed a
\* lock whose owner it had found dead: the mkdir, the pid written later and the
\* release in two steps exclude each other by themselves (lines 18-51, 82-85).
OneSupervisorUntilReclaimed ==
  ~reclaimed =>
    \A w, v \in Launchers : Supervising(w) /\ Supervising(v) => w = v

\* Lines 11-12: "A second supervisor must never reach SDL while the active
\* supervisor owns the application session."
OneSupervisor ==
  \A w, v \in Launchers : Supervising(w) /\ Supervising(v) => w = v

=============================================================================

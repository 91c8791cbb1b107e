---------------------------- MODULE StartupHealth ----------------------------
(***************************************************************************)
(* StartupHealthStore (src/launcher/src/startup_health.cpp): one durable   *)
(* row that counts launcher starts which never became ready.  Both         *)
(* operations are immediate transactions, so each is one step here; any    *)
(* number of launcher processes may hold an attempt at the same time, and  *)
(* each of them may die without a word.                                    *)
(***************************************************************************)
EXTENDS Integers

CONSTANTS
  Launchers,           \* launcher processes that share the database
  RecoveryThreshold,   \* kStartupRecoveryFailureThreshold
  MaxAttempt           \* attempt identities are exhausted here

ASSUME HealthAssumption ==
  /\ RecoveryThreshold \in Nat \ {0}
  /\ MaxAttempt \in Nat \ {0}

VARIABLES
  next_attempt_id,
  active_attempt_id,      \* 0 stands for NULL
  consecutive_failures,
  startup_attempt_id,     \* startup_attempt_id[l]: held by l, 0 for none
  begun                   \* history: attempts begun since the last one that
                          \* was acknowledged

healthRow == <<next_attempt_id, active_attempt_id, consecutive_failures>>
healthVars == <<healthRow, startup_attempt_id, begun>>

HealthTypeOK ==
  /\ next_attempt_id \in 1..MaxAttempt
  /\ active_attempt_id \in 0..(next_attempt_id - 1)
  /\ consecutive_failures \in 0..RecoveryThreshold
  /\ startup_attempt_id \in [Launchers -> 0..(next_attempt_id - 1)]
  /\ begun \in Nat

HealthInit ==
  /\ next_attempt_id = 1
  /\ active_attempt_id = 0
  /\ consecutive_failures = 0
  /\ startup_attempt_id = [l \in Launchers |-> 0]
  /\ begun = 0

-----------------------------------------------------------------------------

AtMost(a, b) == IF a < b THEN a ELSE b

\* Mutant: the predecessor is counted whether or not it was acknowledged.
FailuresAlwaysCounted ==
  AtMost(RecoveryThreshold, consecutive_failures + 1)

\* Mutant: only the predecessor is counted.
FailuresOfPredecessor == IF active_attempt_id # 0 THEN 1 ELSE 0

\* What begin_startup writes: an attempt still active never became ready.
Failures ==
  IF active_attempt_id # 0
    THEN AtMost(RecoveryThreshold, consecutive_failures + 1)
    ELSE consecutive_failures

\* begin_startup, and the caller keeping the decision's attempt_id.
BeginStartup(l) ==
  /\ next_attempt_id < MaxAttempt
  /\ active_attempt_id' = next_attempt_id
  /\ next_attempt_id' = next_attempt_id + 1
  /\ consecutive_failures' = Failures
  /\ startup_attempt_id' = [startup_attempt_id EXCEPT ![l] = next_attempt_id]
  /\ begun' = begun + 1

\* Mutant: any attempt is taken for the active one.
MatchesAny(l) == active_attempt_id # 0

\* mark_ready's test: the acknowledgement is of the active attempt.
Matches(l) ==
  /\ active_attempt_id # 0
  /\ active_attempt_id = startup_attempt_id[l]

MarkReady(l) ==
  /\ startup_attempt_id[l] # 0
  /\ Matches(l)
  /\ active_attempt_id' = 0
  /\ consecutive_failures' = 0
  /\ startup_attempt_id' = [startup_attempt_id EXCEPT ![l] = 0]
  /\ begun' = 0
  /\ UNCHANGED next_attempt_id

\* The launcher ends with its attempt unfinished: a crash, a failed
\* initialization, an exit from recovery.
Abandon(l) ==
  /\ startup_attempt_id' = [startup_attempt_id EXCEPT ![l] = 0]
  /\ UNCHANGED <<healthRow, begun>>

\* A refused acknowledgement throws, and the launcher stops running.
RefuseReady(l) ==
  /\ startup_attempt_id[l] # 0
  /\ ~Matches(l)
  /\ Abandon(l)

-----------------------------------------------------------------------------

HealthNext ==
  \E l \in Launchers :
    \/ startup_attempt_id[l] = 0 /\ BeginStartup(l)
    \/ MarkReady(l)
    \/ RefuseReady(l)
    \/ startup_attempt_id[l] # 0 /\ Abandon(l)

HealthSpec == HealthInit /\ [][HealthNext]_healthVars

\* The count is exactly the evidence, however many launchers overlap: with an
\* attempt outstanding, every attempt begun since the last acknowledgement
\* except the newest has failed (begin_startup lines 198-201); without one
\* nothing is held against the next start.
EvidenceIsExact ==
  /\ active_attempt_id = 0 <=> begun = 0
  /\ consecutive_failures =
       IF begun = 0 THEN 0 ELSE AtMost(RecoveryThreshold, begun - 1)

\* A late acknowledgement by a launcher that has been superseded never clears
\* the evidence against the one that superseded it (mark_ready lines 241-245).
OnlyTheNewestClears ==
  [][active_attempt_id # 0 /\ active_attempt_id' = 0 =>
       \E l \in Launchers : /\ startup_attempt_id[l] = next_attempt_id - 1
                            /\ startup_attempt_id'[l] = 0]_healthVars

\* Two launchers never hold the same attempt, so one cannot acknowledge in
\* the other's name.
AttemptsAreDistinct ==
  \A l, m \in Launchers :
    l # m /\ startup_attempt_id[l] # 0
      => startup_attempt_id[l] # startup_attempt_id[m]

=============================================================================

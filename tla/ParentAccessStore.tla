-------------------------- MODULE ParentAccessStore --------------------------
(***************************************************************************)
(* ParentAccessStore (src/launcher/src/parent_access_store.cpp): the hash  *)
(* of the parent's PIN and at most one grant, good until the end of the    *)
(* local day.  A hash is the PIN it verifies; a grant's authenticator is   *)
(* whether the record is intact.  Every operation is one transaction.      *)
(***************************************************************************)
EXTENDS Integers

CONSTANTS
  Pins,      \* the PINs a person may enter
  MaxUtc,    \* bound on the wall clock
  DateOf,    \* DateOf[t]: the local date at instant t
  NoPin,     \* no row in credentials
  NoGrant    \* no row in active_grant

Instants == 0..MaxUtc

ASSUME AccessAssumption ==
  /\ MaxUtc \in Nat
  /\ DateOf \in [Instants -> Nat]

Credentials == [pin : Pins, combo : BOOLEAN]

\* "by" is history: the credential the grant was authenticated with.
Grants == [issued_at : Instants, last_observed : Instants, local_date : Nat,
           intact : BOOLEAN, by : Credentials]

ASSUME NoneAssumption == NoPin \notin Credentials /\ NoGrant \notin Grants

VARIABLES
  credential,   \* the credentials row
  active_grant, \* the active_grant row
  now           \* the wall clock

storeVars == <<credential, active_grant>>

StoreTypeOK ==
  /\ credential \in Credentials \cup {NoPin}
  /\ active_grant \in Grants \cup {NoGrant}
  /\ now \in Instants

VerifyPin(pin) == credential # NoPin /\ credential.pin = pin

\* Mutant: the clock is compared with the grant's issue only.
UnlockedSinceIssue ==
  /\ active_grant # NoGrant
  /\ active_grant.intact
  /\ now >= active_grant.issued_at
  /\ active_grant.local_date = DateOf[now]

\* is_unlocked: the record is authentic, the clock has not run back behind it
\* or behind the last check, and the local date is still its own.
IsUnlocked ==
  /\ active_grant # NoGrant
  /\ active_grant.intact
  /\ now >= active_grant.issued_at
  /\ now >= active_grant.last_observed
  /\ active_grant.local_date = DateOf[now]

\* is_unlocked also writes: a good grant has been observed now, a bad one is
\* gone.
CheckGrant ==
  active_grant' = IF IsUnlocked THEN [active_grant EXCEPT !.last_observed = now]
                                ELSE NoGrant

Lock == active_grant' = NoGrant

\* set_pin revokes the grant in the same transaction.
SetPin(pin, combo) ==
  /\ credential' = [pin |-> pin, combo |-> combo]
  /\ Lock

\* grant_until_end_of_day, for a PIN that verifies.
GrantUntilEndOfDay ==
  active_grant' = [issued_at |-> now, last_observed |-> now,
                   local_date |-> DateOf[now], intact |-> TRUE,
                   by |-> credential]

=============================================================================

-------------------------- MODULE ScreenTimeBudget --------------------------
(***************************************************************************)
(* What the daily time policy promises a parent, without its tables, its   *)
(* clocks or its checkpoints: a child has a budget for every day, play     *)
(* spends it, an empty budget ends play, and a day that is over is never   *)
(* played again.  DailyTimePolicy implements this specification.           *)
(***************************************************************************)
EXTENDS Integers

CONSTANTS Profiles, Dates, Allowances, NoPlay

VARIABLES
  budget,   \* budget[p]: what p may play on a day, 0 when p has no policy
  spent,    \* spent[p][d]: what of it is gone on day d
  latest,   \* latest[p]: the latest day p has started to play on, -1 for none
  player    \* <<p, d>> while p plays and the play counts for day d

budgetVars == <<budget, spent, latest, player>>

BudgetInit ==
  /\ budget = [p \in Profiles |-> 0]
  /\ spent = [p \in Profiles |-> [d \in Dates |-> 0]]
  /\ latest = [p \in Profiles |-> -1]
  /\ player = NoPlay

\* A parent sets, raises or lowers the budget, whether or not anyone plays.
SetBudget(p, n) ==
  /\ budget' = [budget EXCEPT ![p] = n]
  /\ UNCHANGED <<spent, latest, player>>

\* A budget is taken away only from a child who has never played.
DropBudget(p) ==
  /\ latest[p] = -1
  /\ budget' = [budget EXCEPT ![p] = 0]
  /\ UNCHANGED <<spent, latest, player>>

\* One child at a time, with something left, and never on a past day.
StartPlay(p, d) ==
  /\ player = NoPlay
  /\ spent[p][d] < budget[p]
  /\ latest[p] <= d
  /\ latest' = [latest EXCEPT ![p] = d]
  /\ player' = <<p, d>>
  /\ UNCHANGED <<budget, spent>>

\* Spending stops at the budget; play goes on only while some is left.
Spend(p, d) ==
  /\ player = <<p, d>>
  /\ \E s \in spent[p][d]..(spent[p][d] + budget[p]) :
       /\ s <= budget[p] \/ s = spent[p][d]
       /\ spent' = [spent EXCEPT ![p][d] = s]
       /\ \/ player' = NoPlay
          \/ s < budget[p] /\ player' = player
  /\ UNCHANGED <<budget, latest>>

BudgetNext ==
  \E p \in Profiles :
    \/ \E n \in Allowances : SetBudget(p, n)
    \/ DropBudget(p)
    \/ \E d \in Dates : StartPlay(p, d) \/ Spend(p, d)

BudgetSpec == BudgetInit /\ [][BudgetNext]_budgetVars
=============================================================================

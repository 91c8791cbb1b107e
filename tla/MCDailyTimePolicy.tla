-------------------------- MODULE MCDailyTimePolicy --------------------------
(***************************************************************************)
(* DailyTimePolicy on a small device: days of four seconds, a zone that    *)
(* moves the date line by one second, and notices one and two seconds      *)
(* before the allowance ends.                                              *)
(***************************************************************************)
EXTENDS DailyTimePolicy

CONSTANTS DayLength

MCZones == {0, 1}
MCCalendar == [z \in MCZones |-> [t \in 0..MaxUtc |-> (t + z) \div DayLength]]
MCDates == 0..((MaxUtc + 1) \div DayLength)

=============================================================================

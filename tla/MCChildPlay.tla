----------------------------- MODULE MCChildPlay -----------------------------
(***************************************************************************)
(* One child and a parent on a device whose days last two seconds.         *)
(***************************************************************************)
EXTENDS ChildPlay

CONSTANTS DayLength

MCCalendar == [z \in Zones |-> [t \in 0..MaxUtc |-> t \div DayLength]]
MCDates == 0..(MaxUtc \div DayLength)

=============================================================================

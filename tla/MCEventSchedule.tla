--------------------------- MODULE MCEventSchedule ---------------------------
(* Small instances of EventSchedule for TLC: six hours to the tick. *)
EXTENDS EventSchedule

MondayMorning == 1           \* 06:00 on the first day
SaturdayNight == 5 * Day + 3 \* 18:00 on the first Saturday

AnyStart == {MondayMorning, SaturdayNight}
Mornings == {MondayMorning}
SomeDays == {{}, {0}, {5, 6}, {5}}
WeekendOrMonday == {{0}, {5, 6}}
Utc == {0}
NearUtc == {-1, 0}
Hawaii == {-2}
=============================================================================

-------------------------- MODULE MCDayAttribution --------------------------
(* Model-checking instances of DayAttribution, in hours of two: a day has  *)
(* twelve, the window opens two before a shift and closes three after it.  *)
EXTENDS DayAttribution

Fixed(from, to) == [start |-> from, end |-> to, flexible |-> FALSE]

Night    == Fixed(11, 3)   \* 22:00 to 06:00
Office   == Fixed(4, 8)    \* 08:00 to 16:00
Dawn     == Fixed(0, 4)    \* 00:00 to 08:00
Guard    == Fixed(10, 9)   \* 20:00 to 18:00 of the next date
Flexible == [start |-> 4, end |-> 9, flexible |-> TRUE]

AllTemplates == {Night, Office, Dawn, Guard, Flexible}

Nights == [d \in Dates |-> Night]
\* Office hours inside a guard that began the day before.
Mixed  == [d \in Dates |-> CASE d = 1 -> Guard [] d = 2 -> Office [] d = 3 -> Flexible
                             [] OTHER -> NoShift]
\* The evening between the end of a guard and a shift at dawn.
Rota   == [d \in Dates |-> CASE d = 2 -> Guard [] d = 4 -> Dawn [] OTHER -> NoShift]

AllSchedules == {Nights, Mixed, Rota}
=============================================================================

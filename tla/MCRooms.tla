------------------------------- MODULE MCRooms -------------------------------
(* An instance of Rooms with a maintenance every hour.  The precision is the   *)
(* smallest for which one measurement changes quantity_factor, so that the     *)
(* products in the rating stay below 2^31.                                     *)
EXTENDS Rooms

Hour == 60

Precision == 101

\* A reservation is made in the last or in the first moment of an interval, or two minutes
\* before its end.
SomeMoments == {0, 2, 60}

\* A measurement that is not removed yet is at most 30 minutes old, or 60, or 62.
FadedHours == [x \in 31..180 |-> IF x < 62 THEN 92 ELSE 91]

OneMeasurement == [n \in 0..1 |-> 50 + n]
==============================================================================

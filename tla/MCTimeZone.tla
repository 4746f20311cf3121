----------------------------- MODULE MCTimeZone -----------------------------
(* Seconds at both ends of a day, an hour and a minute.                    *)
EXTENDS TimeZone

McSeconds == {0, 1, 59, 60, 3599, 3600, 43200, 86399}
=============================================================================

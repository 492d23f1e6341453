----------------------------- MODULE FetchedBlock -----------------------------
(***************************************************************************)
(* What a walk promises, whatever windows it asks for and in whatever way  *)
(* it stops: the dates it has fetched are one block back from the date it  *)
(* started on, the block only grows back, and the rows it holds are those  *)
(* Meridian has for the dates of the block.  An import may take them at    *)
(* any time: no date newer than another it holds is missing.               *)
(***************************************************************************)
EXTENDS Integers

CONSTANTS
  HoursPerDay,
  DatesAsked   \* every date a walk may ask for

VARIABLES
  today,    \* the date the walk started on
  dates,    \* the dates fetched in full
  rows,     \* the hours whose rows it holds
  offered,  \* the hours from its cutoff on that Meridian has a reading for
  honest    \* whether Meridian reads what it is asked as it was meant

DayOf(hour) == hour \div HoursPerDay
Of(hours, fetched) == {h \in hours : DayOf(h) \in fetched}

Init == dates = {} /\ rows = {}

\* A walk begins, or one that ended is forgotten.
Begin == dates' = {} /\ rows' = {}

\* More dates, each older than those fetched and none left out between, and
\* with them their rows alone.
Extend ==
  /\ UNCHANGED <<today, offered, honest>>
  /\ \E first \in DatesAsked : first <= today /\ dates' = first .. today
  /\ dates \subseteq dates' /\ dates # dates'
  /\ rows' \subseteq Of(offered, dates') /\ Of(rows', dates) = rows
  /\ honest => rows' = Of(offered, dates')

\* Time, and what Meridian has, change while nothing more is fetched.
Spec == Init /\ [][Begin \/ Extend]_<<dates, rows>>
===============================================================================

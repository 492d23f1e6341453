-------------------------------- MODULE MCWalk --------------------------------
(***************************************************************************)
(* Small instances of Walk for TLC: windows of three dates, an hourly      *)
(* update of two, and an initial import of three windows and a date.       *)
(***************************************************************************)
EXTENDS Walk, TLC

Meridian == [has |-> Hours, refuses |-> {}, coded |-> TRUE, reads |-> "asked",
             answers |-> WindowDays, allows |-> WindowDays]
From(date) == {h \in Hours : DayOf(h) >= date}
Until(date) == {h \in Hours : DayOf(h) < date}

\* It times out, or refuses as too large, what is longer than a date or two.
Slow == {[Meridian EXCEPT !.answers = n] : n \in 1 .. WindowDays - 1}
Limited == {[Meridian EXCEPT !.allows = n] : n \in {1}}

\* A supply that starts within the second window, and refuses no request
\* before it, or every one, with an error that has a code or without.
FirstDate == FirstToday - WindowDays - 1
Began == [Meridian EXCEPT !.has = From(FirstDate)]
Strict == {[Began EXCEPT !.refuses = 0 .. FirstDate - 1, !.coded = c] : c \in BOOLEAN}
\* A supply that has not started yet, or that ended; a meter that paused.
NotYet == [Meridian EXCEPT !.has = {}, !.refuses = Dates]
Over == [Meridian EXCEPT !.has = Until(FirstToday - 2 * WindowDays)]
Pause == [Meridian EXCEPT !.has = Hours \ (From(FirstDate - 3) \cap Until(FirstDate + 2))]
\* Two or three windows empty, between readings or before all of them.
Sparse == {[Meridian EXCEPT !.has = h] : h \in
             {From(FirstToday - 1), Until(1) \cup From(FirstToday - 2),
              Hours \ (Until(1) \cup (From(FirstToday - 5) \cap Until(FirstToday - 2)))}}
\* Requests from one date on are refused for another reason.
Spurious == [Meridian EXCEPT !.refuses = {FirstDate}]
Misread == {[Meridian EXCEPT !.reads = r] : r \in Readings \ {"asked"}}

\* Nothing stored; what an import left; or its last dates, with one missing.
Lately == Until(FirstToday - 2)
Holed == Lately \ HoursOf(FirstDate)
Longago == {0}

Trial(meridians, hours, first, faults) ==
  [meridians |-> meridians, stored |-> {s \cap m.has : s \in hours, m \in meridians},
   setup |-> first, spare |-> faults @@ [f \in Faults |-> 0]]

\* Setup and updates of one supply after another, and with faults.
Supplies ==
  {Meridian, Began, Pause, Over, Spurious} \cup Sparse \cup Strict \cup Misread
Sizes == {Meridian, Began} \cup Slow \cup Limited

MCTrials ==
  {Trial(Supplies \cup {NotYet}, {{}}, TRUE, "budgets" :> 1 @@ "restarts" :> 1),
   Trial(Sizes, {{}}, TRUE, "timeouts" :> 1 @@ "restarts" :> 1),
   Trial(Supplies, {Lately, Holed, Longago}, FALSE, "published" :> 1),
   Trial(Sizes, {Lately}, FALSE, "timeouts" :> 1 @@ "failures" :> 1)}
MCSpans == "tip" :> HoursPerDay @@ "full" :> 4 * HoursPerDay @@ "initial" :> 9 * HoursPerDay
===============================================================================

-------------------------------- MODULE MCLane --------------------------------
(***************************************************************************)
(* Small instances of Lane for TLC: windows of two dates, a history start  *)
(* after two empty ones, and a lane that reaches back four dates, or six   *)
(* for a billing period.  Each Meridian is one way its history may look.   *)
(***************************************************************************)
EXTENDS Lane, TLC

Answers(has) == [has |-> has, refuses |-> {}, reads |-> "asked", revised |-> {}]
From(date) == {h \in Hours : DayOf(h) >= date}

\* A supply from before every target on.
Always == Answers(Hours)
\* A supply that starts on a date between two targets, and refuses no request
\* before it, or every one.
Began == Answers(From(FirstToday - Depth + 1))
Strict == [Began EXCEPT !.refuses = 0 .. FirstToday - Depth]
\* A meter that sent nothing on a date, or for as long as starts a history.
Gap == Answers(Hours \ HoursOf(FirstToday - Depth + 1))
Pause == Answers({h \in Hours : DayOf(h) \notin FirstToday - Depth .. FirstToday - Depth + 1})
\* It sent nothing on two dates that are not in a row.
Gaps == Answers({h \in Hours : DayOf(h) \notin {FirstToday - Overlap - 1, FirstToday - Overlap - 3}})
EarlyGaps == Answers({h \in Hours : DayOf(h) \notin {FirstToday - Overlap, FirstToday - Overlap - 2}})
\* Meridian refuses a request from one date on for another reason.
Spurious == [Always EXCEPT !.refuses = {FirstToday - Depth + 1}]
\* Meridian reads a window without one of its ends.
Misread == {[Always EXCEPT !.reads = r] : r \in Readings \ {"asked"}}

Plain == {Always, Began, Strict, Gap, Pause, EarlyGaps}
Healthy == {Always, Strict, EarlyGaps}
Starting == {Began, Strict, Pause, Gaps, Spurious}

\* Nothing stored; the latest dates; or all but one of them.
Recent == From(FirstToday - Overlap) \cap (Hours \ From(FirstToday))
Holed == (From(FirstToday - Depth) \ HoursOf(FirstToday - Overlap - 1))
           \cap (Hours \ From(FirstToday))
Stored == {{}, Recent, Holed}

-------------------------------------------------------------------------------
\* How behaviours begin, and what may befall each: the bounds of the faults
\* named, and none of the others.
Trial(meridians, hours, faults) ==
  [meridians |-> meridians, stored |-> hours,
   spare |-> faults @@ [f \in Faults |-> 0]]

Unlucky == Trial(Plain \ {Gap}, {{}, Holed}, "faults" :> 1 @@ "stops" :> 1 @@ "unsaved" :> 1
                                  @@ "reloads" :> 1 @@ "billing" :> 1)
Changing == Trial(Healthy, {Recent, Holed}, "unsaved" :> 1 @@ "changes" :> 1 @@ "deep" :> 1
                                   @@ "billing" :> 1)
Misreading == Trial(Misread, Stored, "faults" :> 1 @@ "billing" :> 1)
Begun == Trial(Starting, {Recent}, "faults" :> 2)

Safety == {Unlucky, Changing, Misreading, Begun}
Lucky == {Trial(Plain, Stored, "faults" :> 1 @@ "unsaved" :> 1)}
Refused == {Trial({Spurious}, {Recent}, "billing" :> 1)}
===============================================================================

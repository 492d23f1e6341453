------------------------------- MODULE MCReplay -------------------------------
(***************************************************************************)
(* Small instances of StatisticsReplay for TLC: four hours, and the tables *)
(* and the offers that take a replay through each of its paths.            *)
(***************************************************************************)
EXTENDS StatisticsReplay, TLC

CONSTANTS w1, w2, energy, cost

MCRank == [s \in Stats |-> IF s = cost THEN 1 ELSE 2]

-------------------------------------------------------------------------------
\* The states offered, and the rows stored, at the hours 0 to 3.
Hourly(values) == [h \in Hours |-> values[h + 1]]
Offer(e, c) == (Energy :> Hourly(e)) @@ (Cost :> Hourly(c))
Tables(e, c) == (Energy :> Hourly(e)) @@ (Cost :> Hourly(c))
R(state, sum) == [state |-> state, sum |-> sum]
NoRow == <<None, None, None, None>>

\* A revised hour and a hole filled; the newest hour, and its usage alone.
Usual == {Offer(<<None, 2, 1, None>>, <<None, 1, None, None>>),
          Offer(<<None, 1, None, 2>>, <<None, None, None, 1>>),
          Offer(<<None, None, 2, None>>, NoRow)}

\* As many hours as change, with the first, the last and the total unchanged.
Compensating == {Offer(<<1, 2, 1, 1>>, NoRow)}

\* Stored hours with a hole; and no stored hours.
Holed == Tables(<<R(1, 1), R(1, 2), None, R(1, 3)>>, <<R(2, 2), None, None, R(1, 3)>>)
Fresh == Tables(NoRow, NoRow)
Whole == Tables(<<R(1, 1), R(1, 2), R(2, 4), R(1, 5)>>, NoRow)

\* What an earlier replay left unconfirmed, and forgotten by a restart.
Seamed == Tables(<<R(1, 1), R(1, 3), R(2, 5), R(1, 4)>>,
                 <<R(1, 1), R(1, 2), R(2, 2), R(1, 5)>>)

\* Another writer's rows without a running sum, and rows further back.
Foreign == Tables(<<R(1, None), None, None, R(1, 1)>>, NoRow)
Old == Tables(<<R(1, 1), None, None, None>>, NoRow)
Unsummed == Tables(<<R(1, 1), R(1, None), R(1, 2), R(1, 3)>>, NoRow)

MCUsual == {Holed, Fresh}
MCOdd == {Foreign, Old, Unsummed, Holed, Seamed}
MCWhole == {Whole}
MCRetry == {Whole, Holed, Fresh}
OddOffers == Usual \cup {Offer(<<None, None, None, 1>>, <<None, None, None, 1>>)}
===============================================================================

-------------------------- MODULE CoverageTurnsProofs --------------------------
(***************************************************************************)
(* That rate limits are waited out, that lanes take even turns, and that a *)
(* property that timed out is left alone, for any lanes, waits and faults. *)
(***************************************************************************)
EXTENDS CoverageTurns, TLAPS

\* Between updates, and in their walks, no lane has had a turn.
Fresh ==
  phase \in {"waiting", "walking"} =>
    /\ active = {} /\ round = {} /\ stopped = {}
    /\ asked = NoneAsked /\ timeouts = [p \in Properties |-> 0]

\* Lanes whose turn is still to come have had one less in this round.
Even ==
  phase = "covering" =>
    \A l, k \in active : asked[l] + (IF l \in round THEN 1 ELSE 0)
                           = asked[k] + (IF k \in round THEN 1 ELSE 0)

TimeoutsStop == \A p \in Properties : timeouts[p] <= IF p \in stopped THEN 1 ELSE 0

\* A wait ends before the next update is due, and is over while one asks.
WaitIsDue ==
  /\ phase = "waiting" => elapsed = 0 /\ (refreshed \/ wait <= due)
  /\ phase \in {"walking", "covering"} => limit = 0
  /\ phase \in {"walking", "covering"} \/ (phase # "waiting" /\ limit = 0) =>
       refreshed \/ wait = 0
  /\ phase \in {"covered", "ending"} /\ limit # 0 => wait = RateLimitWait(limit)

\* A wait that a lane met ends with what holds the lanes, but for the time the
\* update that met it had taken.
WaitIsHeld ==
  /\ inCoverage /\ (phase \in {"covered", "ending"} => limit = 0) =>
       wait <= hold + LongestUpdate - elapsed
  /\ phase = "covering" /\ active # {} => hold = 0

IInv == TypeOK /\ Fresh /\ Even /\ TimeoutsStop /\ WaitIsDue /\ WaitIsHeld

-------------------------------------------------------------------------------
LEMMA WaitType == ASSUME TypeOK, NEW asks \in RateLimitWaits
                  PROVE  RateLimitWait(asks) \in 0 .. LongestRateLimit
<1>1. Doublings[rateLimits + 1] \in Nat
  BY DEF TypeOK, Doublings
<1>2. asks \in Nat /\ LongestRateLimit \in Nat
  BY TurnsAssumption
<1>3. asks * Doublings[rateLimits + 1] \in Nat
  BY <1>1, <1>2
<1> QED BY <1>2, <1>3 DEF RateLimitWait, Smaller

LEMMA UseType == ASSUME TypeOK, NEW fault \in Faults, Use(fault)
                 PROVE  spare' \in [Faults -> Nat]
BY DEF TypeOK, Use

LEMMA InitHolds == Init => IInv
<1> SUFFICES ASSUME Init PROVE IInv OBVIOUS
<1> USE TurnsAssumption DEF Init
<1>1. spare \in [Faults -> Nat] OBVIOUS
<1>2. /\ left \in [Lanes -> 0 .. Most] /\ back \in [Lanes -> 0 .. Most]
      /\ retry \in [Lanes -> 0 .. Interval] /\ asked \in [Lanes -> 0 .. CoverageWindows]
      /\ \A l \in Lanes : left[l] + back[l] <= Most
  BY DEF NoneAsked
<1>3. timeouts \in [Properties -> Nat] OBVIOUS
<1>4. /\ elapsed \in 0 .. LongestUpdate /\ due \in Nat
      /\ hold \in 0 .. LongestRateLimit /\ wait \in 0 .. LongestRateLimit
      /\ rateLimits \in 0 .. 5 /\ limit \in RateLimitWaits \cup {0}
  OBVIOUS
<1>5. TypeOK
  <2> HIDE DEF Init
  <2>1. /\ phase = "waiting" /\ active = {} /\ round = {} /\ stopped = {}
        /\ complete = FALSE /\ inCoverage = FALSE /\ refreshed = FALSE
    BY DEF Init
  <2> QED BY <1>1, <1>2, <1>3, <1>4, <2>1 DEF TypeOK
<1>6. Fresh /\ Even /\ TimeoutsStop BY DEF Fresh, Even, TimeoutsStop
<1>7. WaitIsDue /\ WaitIsHeld BY DEF WaitIsDue, WaitIsHeld
<1> QED BY <1>5, <1>6, <1>7 DEF IInv

\* An update that ends, whatever its end does to the waits.
LEMMA EndsKeeps ==
  ASSUME IInv, NEW next \in Nat, NEW held \in 0 .. LongestRateLimit, Ends(next, held),
         UNCHANGED complete, limit' \in RateLimitWaits \cup {0}, rateLimits' \in 0 .. 5,
         wait' \in 0 .. LongestRateLimit, inCoverage' \in BOOLEAN, refreshed' \in BOOLEAN,
         spare' \in [Faults -> Nat],
         refreshed' \/ wait' <= next,
         inCoverage' => wait' <= Larger(0, held - elapsed) + LongestUpdate
  PROVE  IInv'
<1> USE TurnsAssumption DEF Ends
<1>1. hold' \in 0 .. LongestRateLimit BY DEF IInv, TypeOK, Larger
<1>2. TypeOK' BY <1>1 DEF IInv, TypeOK, TurnsOver, NoneAsked, lanes
<1>3. Fresh' /\ Even' /\ TimeoutsStop' BY DEF TurnsOver, Fresh, Even, TimeoutsStop, NoneAsked, Properties
<1>4. WaitIsDue' BY DEF WaitIsDue
<1>5. WaitIsHeld' BY <1>1 DEF WaitIsHeld
<1> QED BY <1>2, <1>3, <1>4, <1>5 DEF IInv

LEMMA BeginKeeps == ASSUME IInv, UpdateDue \/ Refresh PROVE IInv'
<1> USE TurnsAssumption
<1>1. Begin /\ refreshed' \in BOOLEAN /\ spare' \in [Faults -> Nat]
  BY UseType DEF UpdateDue, Refresh, IInv, TypeOK, Faults
<1>2. TypeOK' BY <1>1 DEF IInv, TypeOK, Begin, lanes, turns
<1>3. Fresh' /\ Even' /\ TimeoutsStop'
  BY <1>1 DEF IInv, Begin, turns, Fresh, Even, TimeoutsStop, NoneAsked
<1>4. refreshed' \/ wait' = 0
  BY DEF IInv, TypeOK, WaitIsDue, UpdateDue, Refresh, Begin
<1>5. WaitIsDue' BY <1>1, <1>4 DEF WaitIsDue, Begin
<1>6. WaitIsHeld' BY <1>1 DEF IInv, WaitIsHeld, Begin
<1> QED BY <1>2, <1>3, <1>5, <1>6 DEF IInv

LEMMA EndingKeeps ==
  ASSUME IInv, UpdateFails \/ WalksLimited \/ BillingLimited \/ TotalsFail \/ UpdateEnds
  PROVE  IInv'
<1> USE TurnsAssumption DEF Faults
<1> TypeOK BY DEF IInv
<1>1. CASE UpdateFails
  <2> PICK next \in (IF complete THEN Interval ELSE 1) .. Interval : Ends(next, hold)
    BY <1>1 DEF UpdateFails
  <2>1. next \in Nat OBVIOUS
  <2>2. refreshed \/ wait = 0 BY <1>1 DEF IInv, WaitIsDue, UpdateFails
  <2>3. inCoverage => wait <= Larger(0, hold - elapsed) + LongestUpdate
    BY <1>1 DEF IInv, TypeOK, WaitIsHeld, UpdateFails, Larger
  <2> QED BY <1>1, <2>1, <2>2, <2>3, EndsKeeps, UseType DEF UpdateFails, TypeOK
<1>2. CASE WalksLimited \/ BillingLimited
  <2> PICK asks \in RateLimitWaits : Ends(RateLimitWait(asks), hold) /\ Waits(asks, FALSE)
    BY <1>2 DEF WalksLimited, BillingLimited
  <2>1. RateLimitWait(asks) \in 0 .. LongestRateLimit BY WaitType
  <2>2. OneMoreLimit \in 0 .. 5 BY DEF TypeOK, OneMoreLimit, Smaller
  <2>3. UNCHANGED <<complete, limit>> /\ rateLimits' = OneMoreLimit
        /\ spare' \in [Faults -> Nat]
    BY <1>2, UseType DEF WalksLimited, BillingLimited
  <2>4. wait' = RateLimitWait(asks) /\ inCoverage' = FALSE /\ refreshed' = FALSE
    BY DEF Waits
  <2>5. limit' \in RateLimitWaits \cup {0} BY <2>3 DEF TypeOK
  <2>6. hold \in 0 .. LongestRateLimit BY DEF TypeOK
  <2>7. RateLimitWait(asks) \in Nat /\ wait' <= RateLimitWait(asks) BY <2>1, <2>4
  <2> QED BY <2>1, <2>2, <2>3, <2>4, <2>5, <2>6, <2>7, EndsKeeps
<1>3. CASE TotalsFail
  <2>1. Ends(Interval, hold) BY <1>3 DEF TotalsFail
  <2>2. refreshed' \/ wait' = 0 BY <1>3 DEF IInv, WaitIsDue, TotalsFail
  <2>3. wait' \in 0 .. LongestRateLimit BY <1>3 DEF TypeOK, TotalsFail
  <2>4. inCoverage => wait' <= Larger(0, hold - elapsed) + LongestUpdate
    BY <1>3 DEF IInv, TypeOK, WaitIsHeld, TotalsFail, Larger
  <2> QED BY <1>3, <2>1, <2>2, <2>3, <2>4, EndsKeeps, UseType DEF TotalsFail, TypeOK
<1>4. CASE UpdateEnds /\ limit = 0
  <2>1. Ends(Interval, hold) BY <1>4 DEF UpdateEnds
  <2>2. refreshed \/ wait = 0 BY <1>4 DEF IInv, WaitIsDue, UpdateEnds
  <2>3. inCoverage => wait <= Larger(0, hold - elapsed) + LongestUpdate
    BY <1>4 DEF IInv, TypeOK, WaitIsHeld, UpdateEnds, Larger
  <2> QED BY <1>4, <2>1, <2>2, <2>3, EndsKeeps DEF UpdateEnds, TypeOK
<1>5. CASE UpdateEnds /\ limit # 0
  <2> DEFINE W == RateLimitWait(limit)
  <2>1. W \in 0 .. LongestRateLimit BY <1>5, WaitType DEF TypeOK
  <2>2. Ends(NextAfter(W), W) BY <1>5 DEF UpdateEnds
  <2>3. NextAfter(W) \in Nat /\ W <= NextAfter(W) BY <2>1 DEF NextAfter, Larger
  <2>4. wait = W BY <1>5 DEF IInv, WaitIsDue, UpdateEnds
  <2>5. W <= Larger(0, W - elapsed) + LongestUpdate BY <2>1 DEF TypeOK, Larger
  <2>6. OneMoreLimit \in 0 .. 5 BY DEF TypeOK, OneMoreLimit, Smaller
  <2> HIDE DEF W
  <2> QED BY <1>5, <2>1, <2>2, <2>3, <2>4, <2>5, <2>6, EndsKeeps DEF UpdateEnds, TypeOK
<1> QED BY <1>1, <1>2, <1>3, <1>4, <1>5

LEMMA WalksEndKeeps == ASSUME IInv, WalksEnd PROVE IInv'
<1> USE TurnsAssumption DEF WalksEnd
<1>1. active' \subseteq Lanes /\ (active' # {} => hold = 0)
  <2> PICK went \in SUBSET Lanes, cooling \in SUBSET Properties :
             active' = {l \in Covers(went, cooling) : left[l] > 0}
    OBVIOUS
  <2>1. Covers(went, cooling) \subseteq Lanes /\ (Covers(went, cooling) # {} => ~ hold > 0)
    BY DEF Covers
  <2>2. ~ hold > 0 => hold = 0 BY DEF IInv, TypeOK
  <2> QED BY <2>1, <2>2
<1>2. spare' \in [Faults -> Nat] BY UseType DEF IInv, TypeOK, Faults
<1>3. TypeOK' BY <1>1, <1>2 DEF IInv, TypeOK, lanes, limits
<1>4. Fresh' /\ TimeoutsStop' BY DEF IInv, Fresh, TimeoutsStop
<1>5. Even' BY <1>1 DEF IInv, Fresh, Even, NoneAsked
<1>6. WaitIsDue' BY DEF IInv, WaitIsDue, limits
<1>7. WaitIsHeld' BY <1>1 DEF IInv, WaitIsHeld, limits
<1> QED BY <1>3, <1>4, <1>5, <1>6, <1>7 DEF IInv

\* A lane that had its turn, and asked or gave up.
LEMMA TurnKeeps ==
  ASSUME IInv, NEW l \in Lanes, Turn(l),
         \/ GoesOn(l) /\ asked' = [asked EXCEPT ![l] = @ + 1]
         \/ GivesUp(l) /\ asked' \in {asked, [asked EXCEPT ![l] = @ + 1]}
  PROVE  /\ active' \subseteq active /\ round' \subseteq active'
         /\ \A j, k \in active' : asked'[j] + (IF j \in round' THEN 1 ELSE 0)
                                    = asked'[k] + (IF k \in round' THEN 1 ELSE 0)
<1>1. round \subseteq active /\ l \in round /\ active \subseteq Lanes
      /\ asked \in [Lanes -> Nat]
  BY TurnsAssumption DEF IInv, TypeOK, Turn
<1>2. \A j, k \in active : asked[j] + (IF j \in round THEN 1 ELSE 0)
                             = asked[k] + (IF k \in round THEN 1 ELSE 0)
  BY DEF IInv, Even, Turn
<1>3. \A j \in Lanes : asked[j] \in Nat BY <1>1
<1>4. CASE GoesOn(l) /\ asked' = [asked EXCEPT ![l] = @ + 1]
  <2>1. \A j \in active : asked'[j] = IF j = l THEN asked[j] + 1 ELSE asked[j]
    BY <1>1, <1>4
  <2>2. CASE round = {l} BY <1>1, <1>2, <1>3, <1>4, <2>1, <2>2 DEF GoesOn
  <2>3. CASE round # {l} BY <1>1, <1>2, <1>3, <1>4, <2>1, <2>3 DEF GoesOn
  <2> QED BY <2>2, <2>3
<1>5. CASE GivesUp(l) /\ asked' \in {asked, [asked EXCEPT ![l] = @ + 1]}
  <2>1. \A j \in active' : j \in active /\ j # l /\ asked'[j] = asked[j]
    BY <1>1, <1>5 DEF GivesUp
  <2>2. CASE round = {l} BY <1>1, <1>2, <1>3, <1>5, <2>1, <2>2 DEF GivesUp
  <2>3. CASE round # {l} BY <1>1, <1>2, <1>3, <1>5, <2>1, <2>3 DEF GivesUp
  <2> QED BY <2>2, <2>3
<1> QED BY <1>4, <1>5

LEMMA NothingToAskKeeps == ASSUME IInv, NEW l \in Lanes, NothingToAsk(l) PROVE IInv'
<1> USE DEF NothingToAsk, Turn
<1>1. /\ active' \subseteq active /\ round' \subseteq active'
      /\ \A j, k \in active' : asked'[j] + (IF j \in round' THEN 1 ELSE 0)
                                 = asked'[k] + (IF k \in round' THEN 1 ELSE 0)
  BY TurnKeeps
<1>2. TypeOK' BY <1>1 DEF IInv, TypeOK, lanes, limits
<1>3. Fresh' /\ TimeoutsStop' BY DEF IInv, Fresh, TimeoutsStop
<1>4. Even' BY <1>1 DEF Even
<1>5. WaitIsDue' BY DEF IInv, WaitIsDue, limits
<1>6. WaitIsHeld' BY <1>1 DEF IInv, WaitIsHeld, limits
<1> QED BY <1>2, <1>3, <1>4, <1>5, <1>6 DEF IInv

LEMMA AskingType ==
  ASSUME IInv, NEW l \in Lanes, Asking(l)
  PROVE  /\ asked' \in [Lanes -> 0 .. CoverageWindows]
         /\ left[l] \in 1 .. Most /\ PropertyOf[l] \in Properties \ stopped
         /\ phase = "covering" /\ active # {}
BY TurnsAssumption DEF IInv, TypeOK, Asking, Asks, Turn, Properties

LEMMA WindowKeeps ==
  ASSUME IInv, NEW l \in Lanes, WindowImported(l) \/ WindowFails(l) \/ WindowTimesOut(l)
  PROVE  IInv'
<1> USE TurnsAssumption
<1>1. Asking(l) /\ phase' = "covering" /\ UNCHANGED limits
  BY DEF WindowImported, WindowFails, WindowTimesOut, Asking, Turn
<1>2. /\ active' \subseteq active /\ round' \subseteq active'
      /\ \A j, k \in active' : asked'[j] + (IF j \in round' THEN 1 ELSE 0)
                                 = asked'[k] + (IF k \in round' THEN 1 ELSE 0)
  BY TurnKeeps DEF WindowImported, WindowFails, WindowTimesOut, Asking
<1>3. /\ left' \in [Lanes -> 0 .. Most] /\ back' \in [Lanes -> 0 .. Most]
      /\ retry' \in [Lanes -> 0 .. Interval]
      /\ \A k \in Lanes : left'[k] + back'[k] <= Most
  <2>1. CASE WindowImported(l) BY <1>1, <2>1, AskingType DEF IInv, TypeOK, WindowImported
  <2>2. CASE WindowWaits(l) BY <1>1, <2>2, AskingType DEF IInv, TypeOK, WindowWaits
  <2> QED BY <2>1, <2>2 DEF WindowFails, WindowTimesOut
<1>4. stopped' \subseteq Properties /\ timeouts' \in [Properties -> Nat] /\ TimeoutsStop'
  <2>1. CASE WindowTimesOut(l)
    BY <1>1, <2>1, AskingType DEF IInv, TypeOK, TimeoutsStop, WindowTimesOut
  <2>2. CASE UNCHANGED <<stopped, timeouts>>
    BY <2>2 DEF IInv, TypeOK, TimeoutsStop
  <2> QED BY <2>1, <2>2 DEF WindowImported, WindowFails
<1>5. spare' \in [Faults -> Nat]
  BY UseType DEF IInv, TypeOK, Faults, WindowImported, WindowFails, WindowTimesOut
<1>6. UNCHANGED <<elapsed, due, complete>> BY <1>1 DEF Asking
<1>7. TypeOK' BY <1>1, <1>2, <1>3, <1>4, <1>5, <1>6, AskingType DEF IInv, TypeOK, limits
<1>8. Fresh' BY <1>1 DEF Fresh
<1>9. Even' BY <1>2 DEF Even
<1>10. WaitIsDue' BY <1>1, AskingType DEF IInv, WaitIsDue, limits
<1>11. WaitIsHeld' BY <1>1, <1>6, AskingType DEF IInv, WaitIsHeld, limits
<1> QED BY <1>4, <1>7, <1>8, <1>9, <1>10, <1>11 DEF IInv

LEMMA StopKeeps ==
  ASSUME IInv, NEW l \in Lanes, BudgetEnds(l) \/ WindowLimited(l) PROVE IInv'
<1> USE TurnsAssumption
<1>1. Asking(l) /\ phase' = "covered" /\ UNCHANGED <<lanes, active, round, stopped, timeouts>>
  BY DEF BudgetEnds, WindowLimited
<1>2. spare' \in [Faults -> Nat]
  BY UseType DEF IInv, TypeOK, Faults, BudgetEnds, WindowLimited
<1>3. Fresh' /\ Even' /\ TimeoutsStop' BY <1>1 DEF IInv, Fresh, Even, TimeoutsStop
<1>4. CASE BudgetEnds(l)
  <2>1. UNCHANGED limits BY <1>4 DEF BudgetEnds
  <2>2. TypeOK' BY <1>1, <1>2, <2>1, AskingType DEF IInv, TypeOK, Asking, lanes, limits
  <2>3. WaitIsDue' BY <1>1, <2>1, AskingType DEF IInv, WaitIsDue, limits
  <2>4. WaitIsHeld' BY <1>1, <2>1, AskingType DEF IInv, WaitIsDue, WaitIsHeld, Asking, limits
  <2> QED BY <1>3, <2>2, <2>3, <2>4 DEF IInv
<1>5. CASE WindowLimited(l)
  <2> PICK asks \in RateLimitWaits : limit' = asks /\ Waits(asks, TRUE)
    BY <1>5 DEF WindowLimited
  <2>1. RateLimitWait(asks) \in 0 .. LongestRateLimit BY WaitType DEF IInv
  <2>2. UNCHANGED <<hold, rateLimits>> BY <1>5 DEF WindowLimited
  <2>3. TypeOK' BY <1>1, <1>2, <2>1, <2>2, AskingType
                DEF IInv, TypeOK, Asking, Waits, lanes
  <2>4. limit' # 0 /\ limit' = asks /\ wait' = RateLimitWait(asks) BY DEF Waits
  <2>5. RateLimitWait(limit)' = RateLimitWait(asks)
    BY <2>2, <2>4 DEF RateLimitWait, Smaller
  <2>6. WaitIsDue' BY <1>1, <2>4, <2>5 DEF WaitIsDue
  <2>7. WaitIsHeld' BY <1>1, <2>4 DEF WaitIsHeld
  <2> QED BY <1>3, <2>3, <2>6, <2>7 DEF IInv
<1> QED BY <1>4, <1>5

LEMMA PassesOn ==
  ASSUME IInv, NoneActive \/ BillingAsked \/ BillingKept PROVE IInv'
<1> USE DEF NoneActive, BillingAsked, BillingKept, lanes, turns, limits
<1>1. TypeOK' BY DEF IInv, TypeOK
<1>2. Fresh' /\ Even' /\ TimeoutsStop' BY DEF IInv, Fresh, Even, TimeoutsStop
<1>3. WaitIsDue' BY DEF IInv, WaitIsDue, AsksBilling, RateLimitWait, Smaller
<1>4. WaitIsHeld' BY DEF IInv, WaitIsDue, WaitIsHeld, AsksBilling
<1> QED BY <1>1, <1>2, <1>3, <1>4 DEF IInv

LEMMA TimeKeeps == ASSUME IInv, TimePasses PROVE IInv'
<1> USE TurnsAssumption
<1>1. \A l \in Lanes : retry'[l] = Less(retry[l])
                       /\ left'[l] = (IF retry[l] = 1 THEN left[l] + back[l] ELSE left[l])
                       /\ back'[l] = (IF retry[l] = 1 THEN 0 ELSE back[l])
  BY DEF TimePasses, Ripens
<1>2. \A l \in Lanes : /\ left'[l] \in 0 .. Most /\ back'[l] \in 0 .. Most
                       /\ left'[l] + back'[l] <= Most /\ retry'[l] \in 0 .. Interval
  BY <1>1 DEF IInv, TypeOK, Less, Larger
<1>3. /\ left' \in [Lanes -> 0 .. Most] /\ back' \in [Lanes -> 0 .. Most]
      /\ retry' \in [Lanes -> 0 .. Interval]
  BY <1>2 DEF TimePasses, Ripens
<1>4. inCoverage' \in BOOLEAN /\ refreshed' \in BOOLEAN
  BY DEF IInv, TypeOK, TimePasses
<1>5. /\ wait' \in 0 .. LongestRateLimit /\ hold' \in 0 .. LongestRateLimit
      /\ due' \in Nat /\ elapsed' \in 0 .. LongestUpdate
  BY DEF IInv, TypeOK, TimePasses, Less, Larger
<1>6. TypeOK' BY <1>2, <1>3, <1>4, <1>5 DEF IInv, TypeOK, TimePasses, turns
<1>7. Fresh' /\ Even' /\ TimeoutsStop'
  BY DEF IInv, TimePasses, turns, Fresh, Even, TimeoutsStop, NoneAsked
<1>8. CASE wait > 1
  <2>1. UNCHANGED <<inCoverage, refreshed>> /\ wait' = wait - 1
    BY <1>8 DEF IInv, TypeOK, TimePasses, Less, Larger
  <2>2. WaitIsDue' BY <1>8, <2>1 DEF IInv, TypeOK, WaitIsDue, TimePasses
  <2>3. WaitIsHeld' BY <1>8, <2>1 DEF IInv, TypeOK, WaitIsHeld, TimePasses, turns, Less, Larger
  <2> QED BY <1>6, <1>7, <2>2, <2>3 DEF IInv
<1>9. CASE ~ wait > 1
  <2>1. ~ inCoverage' /\ wait' = 0 BY <1>9 DEF IInv, TypeOK, TimePasses, Less, Larger
  <2>2. WaitIsDue' BY <1>5, <2>1 DEF IInv, TypeOK, WaitIsDue, TimePasses
  <2>3. WaitIsHeld' BY <2>1 DEF IInv, TypeOK, WaitIsHeld, TimePasses, turns, Less, Larger
  <2> QED BY <1>6, <1>7, <2>2, <2>3 DEF IInv
<1> QED BY <1>8, <1>9

LEMMA StepHolds == IInv /\ [Next]_vars => IInv'
<1> SUFFICES ASSUME IInv, [Next]_vars PROVE IInv' OBVIOUS
<1>1. CASE UNCHANGED vars
  <2> USE <1>1 DEF vars, lanes, turns, limits
  <2>1. TypeOK' BY DEF IInv, TypeOK
  <2>2. Fresh' /\ Even' /\ TimeoutsStop' BY DEF IInv, Fresh, Even, TimeoutsStop, NoneAsked
  <2>3. WaitIsDue' BY DEF IInv, WaitIsDue, RateLimitWait, Smaller
  <2>4. WaitIsHeld' BY DEF IInv, WaitIsHeld
  <2> QED BY <2>1, <2>2, <2>3, <2>4 DEF IInv
<1>2. CASE Steps
  <2>1. CASE AsksWindow BY <2>1, WindowKeeps, StopKeeps DEF AsksWindow
  <2>2. CASE \E l \in Lanes : NothingToAsk(l) BY <2>2, NothingToAskKeeps
  <2> QED BY <1>2, <2>1, <2>2, BeginKeeps, EndingKeeps, WalksEndKeeps, PassesOn, TimeKeeps
          DEF Steps
<1>3. CASE Refresh BY <1>3, BeginKeeps
<1> QED BY <1>1, <1>2, <1>3 DEF Next

-------------------------------------------------------------------------------
\* Waits, turns and timeouts agree with one another through every update,
\* however it ends (_async_cover_lanes, _honour_coverage_rate_limit).
THEOREM Invariance == Spec => []IInv
<1> QED BY InitHolds, StepHolds, PTL DEF Spec

\* A rate limit is waited out, for any waits, updates and lanes
\* (_rate_limit_wait, _coverage_not_before, _async_billing_period).
THEOREM LimitObeyed == Spec => LimitIsObeyed
<1>1. IInv /\ [Next]_vars =>
        [/\ UpdateDue \/ BillingAsked \/ BillingLimited => wait = 0 \/ refreshed
         /\ AsksWindow => \/ wait = 0
                          \/ refreshed /\ (inCoverage => wait <= LongestUpdate)]_vars
  <2> SUFFICES ASSUME IInv
               PROVE /\ UpdateDue \/ BillingAsked \/ BillingLimited => wait = 0 \/ refreshed
                     /\ AsksWindow => \/ wait = 0
                                      \/ refreshed /\ (inCoverage => wait <= LongestUpdate)
    OBVIOUS
  <2> USE TurnsAssumption
  <2>1. UpdateDue => wait = 0 \/ refreshed
    BY DEF IInv, TypeOK, WaitIsDue, UpdateDue, Begin
  <2>2. BillingAsked \/ BillingLimited => wait = 0 \/ refreshed
    BY DEF IInv, WaitIsDue, BillingAsked, BillingLimited, AsksBilling
  <2>3. AsksWindow => phase = "covering" /\ active # {}
    BY AskingType DEF AsksWindow, WindowImported, WindowFails, WindowTimesOut,
                      BudgetEnds, WindowLimited
  <2>4. phase = "covering" /\ active # {} =>
          (refreshed \/ wait = 0) /\ (inCoverage => wait <= LongestUpdate)
    BY DEF IInv, TypeOK, WaitIsDue, WaitIsHeld
  <2> QED BY <2>1, <2>2, <2>3, <2>4
<1> QED BY <1>1, Invariance, PTL DEF Spec, LimitIsObeyed

\* Lanes take even turns, for any lanes and windows (_async_cover_lanes).
THEOREM EvenTurns == Spec => []TurnsAreEven
<1>1. IInv => TurnsAreEven
  <2> SUFFICES ASSUME IInv, phase = "covering", NEW l \in active, NEW k \in active
               PROVE  asked[l] <= asked[k] + 1
    BY DEF TurnsAreEven
  <2>1. asked[l] \in Nat /\ asked[k] \in Nat
    BY TurnsAssumption DEF IInv, TypeOK
  <2>2. asked[l] + (IF l \in round THEN 1 ELSE 0) = asked[k] + (IF k \in round THEN 1 ELSE 0)
    BY DEF IInv, Even
  <2> QED BY <2>1, <2>2
<1> QED BY <1>1, Invariance, PTL

\* A property's coverage times out once in an update (_STOP_PROPERTY).
THEOREM OneTimeout == Spec => []OneTimeoutEach
<1>1. IInv => OneTimeoutEach
  BY DEF IInv, TypeOK, TimeoutsStop, OneTimeoutEach
<1> QED BY <1>1, Invariance, PTL

\* Every variable of the update, its lanes and its waits keeps to its kind.
THEOREM TypeCorrect == Spec => []TypeOK
<1>1. IInv => TypeOK BY DEF IInv
<1> QED BY <1>1, Invariance, PTL
===============================================================================

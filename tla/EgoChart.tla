------------------------------ MODULE EgoChart ------------------------------
(***************************************************************************)
(* From the events of a range to the bars of the timeline: getTimeline     *)
(* (internal/ego/storage.go) names buckets by the local time of the        *)
(* server, and gives a rolling range's point the time of its first event;  *)
(* zeroFillEgoTimeline (internal/web/assets/index.html) puts the points    *)
(* into bars of its own, counted back from the browser's clock.            *)
(* A bar stands for 5 minutes, an hour or a day of Unit ticks.             *)
(***************************************************************************)
EXTENDS EgoStorage

CONSTANTS Unit,      \* ticks in a bar of a rolling range
          Bars,      \* how many are drawn, 12, 24, 7 or 30 in the code
          HourZones, \* zones of the server, for 1h and 24h
          DayZones,  \* zones of server and browser, for 7d and 30d
          Horizon,   \* bound on times
          MaxEvents  \* bound on events

ASSUME ChartAssumption ==
    /\ {Unit, Bars} \subseteq Nat \ {0} /\ {Horizon, MaxEvents} \subseteq Nat
    /\ HourZones \cup DayZones \subseteq [offset : Int, shift : Int, by : Int]
    /\ \A z \in DayZones : -Unit < z.by /\ z.by < Unit

VARIABLE chart  \* what was drawn from which events

-----------------------------------------------------------------------------
(* A zone is ahead of the epoch by offset, and by more or less from the    *)
(* moment its clocks are set forward or back.                              *)
Local(z, t) == t + z.offset + IF t >= z.shift THEN z.by ELSE 0

(* The points of a rolling range.                                          *)
Named(z, T, t) == {u \in T : Local(z, u) \div Unit = Local(z, t) \div Unit}

Points(z, T) ==
    {[timestamp |-> Min(B), requests |-> Cardinality(B)] : B \in {Named(z, T, t) : t \in T}}

(* 1h and 24h: points that begin in one hour of the epoch are added up.    *)
HoursOverwritten(points, at) ==  \* fault: the last of them counts
    [s \in {(at \div Unit - i) * Unit : i \in 0..Bars - 1} |->
        LET in == {p \in points : (p.timestamp \div Unit) * Unit = s} IN
        Requested({p \in in : \A r \in in : r.timestamp <= p.timestamp})]

ZeroFillHours(points, at) ==
    [s \in {(at \div Unit - i) * Unit : i \in 0..Bars - 1} |->
        Requested({p \in points : (p.timestamp \div Unit) * Unit = s})]

(* 7d and 30d: stretches of 24 hours before and after the browser's        *)
(* midnight, whose dates name them.  A midnight that comes twice, or never, *)
(* is that of the clock before it was set: new Date(year, month, day).     *)
Midnight(b, at) ==
    LET day == (Local(b, at) \div Unit) * Unit
        before == day - b.offset
        after == before - b.by
    IN  IF before >= b.shift /\ after >= b.shift THEN after ELSE before

DaysFromNow(points, b, at) ==  \* fault: 24 hours are counted back from now
    [s \in {at - i * Unit : i \in 1..Bars} |->
        Requested({p \in points : p.timestamp >= s /\ p.timestamp < s + Unit})]

ZeroFillDays(points, b, at) ==
    [s \in {Midnight(b, at) - i * Unit : i \in 0..Bars - 1} |->
        Requested({p \in points : p.timestamp >= s /\ p.timestamp < s + Unit})]

(* Today: the hours of its window that have begun, each with the point     *)
(* that has its very time.                                                 *)
TodayPoints(w, T) ==
    {[timestamp |-> b, requests |-> Cardinality({t \in T : Bucket(w, t) = b})] :
        b \in {Bucket(w, t) : t \in T}}

HoursEnded(w, at) ==  \* fault: the hour that is running is left out
    {s \in w.start..w.end - 1 : (s - w.start) % Hour = 0 /\ s + Hour <= at}

HoursBegun(w, at) ==
    {s \in w.start..w.end - 1 : (s - w.start) % Hour = 0 /\ s <= at}

ZeroFillToday(points, w, at) ==
    [s \in HoursBegun(w, at) |-> Requested({p \in points : p.timestamp = s})]

-----------------------------------------------------------------------------
NoChart == [range |-> "none"]

(* The page draws what the server answered, at some later moment; the      *)
(* window of Today has kept the moment the page asked, and events may      *)
(* have come since.                                                        *)
DrawHours(z, at, T) ==
    chart' = [range |-> "hours", server |-> z, at |-> at, events |-> T,
              bars |-> ZeroFillHours(Points(z, T), at)]

DrawDays(z, b, at, T) ==
    chart' = [range |-> "days", server |-> z, browser |-> b, at |-> at, events |-> T,
              bars |-> ZeroFillDays(Points(z, T), b, at)]

DrawToday(w, at, T) ==
    chart' = [range |-> "today", window |-> w, at |-> at, events |-> T,
              bars |-> ZeroFillToday(TodayPoints(w, T), w, at)]

Timed(S) == UNION {kSubset(n, S) : n \in 0..MaxEvents}

ChartWindows == [kind : {"today"}, start : 1..Hour, end : {Horizon - 1, Horizon}]

Draw ==
    \/ \E at \in Horizon - Unit + 1..Horizon, T \in Timed(1..Horizon) :
           /\ \A t \in T : t <= at
           /\ \/ \E z \in HourZones : DrawHours(z, at, T)
              \/ \E z, b \in DayZones : DrawDays(z, b, at, T)
    \/ \E w \in ChartWindows, at \in 1..Horizon :
       \E T \in Timed(w.start..w.end - 1) : at >= w.start /\ DrawToday(w, at, T)

(* The events of a chart are chosen with it: which of them are in the      *)
(* table when it is asked for is the subject of EgoStorage.  One state of  *)
(* the table is enough to draw in.                                         *)
ChartNext ==
    \/ chart = NoChart /\ Next /\ UNCHANGED chart
    \/ chart = NoChart /\ Init /\ Draw /\ UNCHANGED vars

ChartInit == Init /\ chart = NoChart

ChartSpec == ChartInit /\ [][ChartNext]_<<vars, chart>>

-----------------------------------------------------------------------------
(* What a chart shows from a moment on, and what has happened from it on.  *)
ShownFrom(x) == MapThenSumSet(LAMBDA s : chart.bars[s], {s \in DOMAIN chart.bars : s >= x})

SinceThen(x) == Cardinality({t \in chart.events : t >= x})

(* No event is drawn later than it was, nor twice; and none is lost, or    *)
(* drawn earlier than it was, by more than the lag.                        *)
Follows(lag, lost) ==
    \A s \in DOMAIN chart.bars :
        ShownFrom(s) <= SinceThen(s) /\ SinceThen(s + lag) <= ShownFrom(s) + lost

Back(z) == IF z.by < 0 THEN -z.by ELSE 0

(* 1h and 24h: every event stands in its own bar, or before the first one, *)
(* if the server is whole hours from the epoch and its clocks are not set  *)
(* back (storage.go:593); otherwise at most a bucket too early, in which   *)
(* the repeated hour counts twice.                                         *)
HoursCharted ==
    chart.range = "hours" =>
        LET z == chart.server
            aligned == z.offset % Unit = 0 /\ z.by \in {0, Unit} IN
        Follows(IF aligned THEN 0 ELSE Unit - 1 + Back(z), 0)

(* 7d and 30d: every event stands in the bar of its day, and the bars are  *)
(* the last days under their dates, if server and browser are in one zone  *)
(* whose clocks are not set.  Otherwise an event is at most a day of the   *)
(* server too early, and lost only in the 25th hour of today; the bars     *)
(* from before clocks were set forward have the date of the day before     *)
(* (index.html:6127), no other bar a wrong one.  (If midnight itself was   *)
(* skipped, the bars begin an hour after it, and have their own dates.)    *)
DaysCharted ==
    chart.range = "days" =>
        LET z == chart.server
            b == chart.browser
            today == Local(b, chart.at) \div Unit
            midnight == Midnight(b, chart.at)
            still == z = b /\ b.by = 0 IN
        /\ Follows(IF still THEN 0 ELSE Unit - 1 + Back(z), SinceThen(midnight + Unit))
        /\ still => SinceThen(midnight + Unit) = 0
        /\ \A i \in 0..Bars - 1 :
               LET s == midnight - i * Unit IN
               Local(b, s) \div Unit =
                   today - i - IF /\ b.by > 0 /\ s < b.shift /\ b.shift <= midnight
                                  /\ Local(b, midnight) % Unit = 0 THEN 1 ELSE 0

(* Today: every event of an hour that had begun when the page asked stands *)
(* in that hour of the window, whatever the offset and the length of the   *)
(* day.                                                                    *)
TodayCharted ==
    chart.range = "today" =>
        LET w == chart.window IN
        /\ \A s \in DOMAIN chart.bars : chart.bars[s] = SinceThen(s) - SinceThen(s + Hour)
        /\ \A t \in chart.events : t <= chart.at => \E s \in DOMAIN chart.bars : s <= t /\ t < s + Hour

(* Whatever the range, the zones and the clocks, the bars follow the       *)
(* events, as far as said above.                                           *)
ChartFollowsEvents == HoursCharted /\ DaysCharted /\ TodayCharted
=============================================================================

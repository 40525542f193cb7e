--------------------------- MODULE WeeklyAnalysis ---------------------------
(***************************************************************************)
(* The analyzer of one symbol (internal/analysis/manager.go) over its      *)
(* sliding window of daily bars (internal/data/series.go), with the weekly *)
(* bars it aggregates on demand and caches (internal/data/aggregator.go),  *)
(* and the other aggregation of the repository                             *)
(* (internal/analysis/weekly_aggregator.go).  AddBar holds the lock of the *)
(* analyzer; Analyze holds it for reading only, and fills the cache.       *)
(***************************************************************************)
EXTENDS Integers, SequencesExt

CONSTANTS
  Readers,         \* goroutines that call Analyze
  FirstBar, LastBar,   \* bound: the days bars are of; day 1 is a Monday
  ClosedDays,      \* holidays
  BarCloses,       \* closing prices
  Window,          \* maxBars of the series
  MinDailyBars,    \* bars Analyze needs (50)
  MinWeeklyBars,   \* weekly bars the weekly indicators need (20)
  MaxAppended      \* bound: bars appended

ASSUME WeeklyAssumption ==
  /\ {FirstBar, LastBar, Window, MinDailyBars, MinWeeklyBars, MaxAppended} \subseteq Nat
  /\ FirstBar > 0 /\ MinDailyBars > 0 /\ MinWeeklyBars > 0 /\ BarCloses \subseteq Nat \ {0}

VARIABLES
  series,         \* the daily bars, oldest first: day and close
  weeklySeries,   \* the cached weekly bars, or NoSeries
  readers,        \* where each call of Analyze is
  results,        \* what the last Analyze of each reader returned
  appended        \* bars appended so far

weeklyVars == <<series, weeklySeries, readers, results, appended>>

NoSeries == <<>>
NoResult == [close |-> 0, weeklyClose |-> 0, weeklyBars |-> 0]

-----------------------------------------------------------------------------
(* Aggregation.  High, low and volume follow the same grouping of the days *)
(* as open and close; the number of days stands for the volume.            *)

IsFriday(day) == day % 7 = 5
Week(day) == (day - 1) \div 7
BarDays == {d \in FirstBar .. LastBar : d % 7 \in 1 .. 5 /\ d \notin ClosedDays}

OneBar(bar) == [open |-> bar.close, high |-> bar.close, low |-> bar.close,
                close |-> bar.close, volume |-> 1]

(* aggregateWeek, one bar at a time.                                       *)
Merged(week, bar) ==
  [week EXCEPT !.high = IF bar.close > @ THEN bar.close ELSE @,
               !.low = IF bar.close < @ THEN bar.close ELSE @,
               !.close = bar.close, !.volume = @ + 1]

(* Grouped into weeks; starts holds the bars that begin one.               *)
Grouped(bars, starts) ==
  FoldLeft(LAMBDA weeks, i :
             IF i \in starts THEN Append(weeks, OneBar(bars[i]))
             ELSE [weeks EXCEPT ![Len(weeks)] = Merged(@, bars[i])],
           <<>>, [i \in 1 .. Len(bars) |-> i])

(* Seeded fault: the days after a Friday are added to its week.            *)
AggregateToWeekly_Monday(bars) ==
  Grouped(bars, {i \in DOMAIN bars : i = 1 \/ bars[i].day % 7 = 1})

(* data.AggregateToWeekly: every bar of a Friday ends a week.              *)
AggregateToWeekly(bars) ==
  Grouped(bars, {i \in DOMAIN bars : i = 1 \/ IsFriday(bars[i - 1].day)})

(* WeeklyAggregator.AggregateToWeekly: the bars of one ISO week.           *)
AggregateByISOWeek(bars) ==
  Grouped(bars, {i \in DOMAIN bars : i = 1 \/ Week(bars[i].day) # Week(bars[i - 1].day)})

-----------------------------------------------------------------------------
(* Series.Append: the oldest bar leaves a full window; 0 is no bound.      *)
Appended(bars, bar) ==
  IF Window > 0 /\ Len(bars) >= Window THEN Append(Tail(bars), bar) ELSE Append(bars, bar)

(* Seeded fault: the cache is kept until the window is full.               *)
AddBar_KeepsCache(day, close) ==
  /\ appended < MaxAppended /\ \A c \in Readers : readers[c] = "idle"
  /\ series' = Appended(series, [day |-> day, close |-> close])
  /\ appended' = appended + 1
  /\ weeklySeries' = IF Len(series') > Len(series) THEN weeklySeries ELSE NoSeries
  /\ UNCHANGED <<readers, results>>

(* AddBar and AddBarFromJSON: no bar is the update of an earlier one.      *)
AddBar(day, close) ==
  /\ appended < MaxAppended /\ \A c \in Readers : readers[c] = "idle"
  /\ series' = Appended(series, [day |-> day, close |-> close])
  /\ appended' = appended + 1
  /\ weeklySeries' = NoSeries
  /\ UNCHANGED <<readers, results>>

(* Analyze takes the lock for reading, or returns ErrInsufficientData.     *)
Analyze(c) ==
  /\ readers[c] = "idle" /\ Len(series) >= MinDailyBars
  /\ readers' = [readers EXCEPT ![c] = IF weeklySeries = NoSeries THEN "aggregate" ELSE "weekly"]
  /\ UNCHANGED <<series, weeklySeries, results, appended>>

(* Two readers may fill the cache one after the other.                     *)
FillCache(c) ==
  /\ readers[c] = "aggregate"
  /\ weeklySeries' = AggregateToWeekly(series)
  /\ readers' = [readers EXCEPT ![c] = "weekly"]
  /\ UNCHANGED <<series, results, appended>>

(* calculateWeeklyIndicators, and the lock is released.                    *)
WeeklyIndicators(c) ==
  /\ readers[c] = "weekly"
  /\ results' = [results EXCEPT ![c] =
       [close |-> Last(series).close, weeklyBars |-> Len(weeklySeries),
        weeklyClose |-> IF Len(weeklySeries) < MinWeeklyBars THEN 0
                        ELSE Last(weeklySeries).close]]
  /\ readers' = [readers EXCEPT ![c] = "idle"]
  /\ UNCHANGED <<series, weeklySeries, appended>>

WeeklyInit ==
  /\ series = <<>> /\ weeklySeries = NoSeries
  /\ readers = [c \in Readers |-> "idle"] /\ results = [c \in Readers |-> NoResult]
  /\ appended = 0

(* Bars arrive in the order of their days: several of one day, or of the   *)
(* next day the exchange is open.                                          *)
Arrives(day) ==
  IF series = <<>> THEN \A d \in BarDays : day <= d
  ELSE /\ day >= Last(series).day
       /\ \A d \in BarDays : d > Last(series).day => day <= d

WeeklyNext ==
  \/ \E day \in BarDays, close \in BarCloses : Arrives(day) /\ AddBar(day, close)
  \/ \E c \in Readers : Analyze(c) \/ FillCache(c) \/ WeeklyIndicators(c)

WeeklySpec == WeeklyInit /\ [][WeeklyNext]_weeklyVars

-----------------------------------------------------------------------------
(* Properties.                                                             *)

WeeklyTypeOK ==
  /\ \A i \in DOMAIN series : series[i].day \in BarDays /\ series[i].close \in BarCloses
  /\ Len(series) <= appended /\ appended <= MaxAppended
  /\ \A c \in Readers : readers[c] \in {"idle", "aggregate", "weekly"}

(* However bars and analyses interleave, an analysis is of one moment: the *)
(* weekly bars in the cache are those of the present window, and a weekly  *)
(* close that is reported is the daily close reported with it.             *)
WeeklyIsCurrent ==
  /\ weeklySeries # NoSeries => weeklySeries = AggregateToWeekly(series)
  /\ \A c \in Readers :
       results[c].weeklyClose # 0 => results[c].weeklyClose = results[c].close

(* The two aggregations of the repository agree on every window in which   *)
(* each week but the last has exactly one bar of its Friday.               *)
OneFridayBarAWeek(bars) ==
  \A i \in 1 .. Len(bars) - 1 :
    IsFriday(bars[i].day) <=> Week(bars[i].day) # Week(bars[i + 1].day)
WeeksAgree ==
  OneFridayBarAWeek(series) => AggregateToWeekly(series) = AggregateByISOWeek(series)
=============================================================================

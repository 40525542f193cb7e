------------------------------ MODULE FtdRally ------------------------------
(***************************************************************************)
(* The daily rally tracking of the VN-Index (internal/regime/ftd): the     *)
(* ingestion writes one row a day, the tracker numbers the days of a rally *)
(* attempt on it and looks for the follow-through day.                     *)
(*                                                                         *)
(* Index values are thousandths of the value before the first day, volumes *)
(* small numbers.  A row has no breadth and no leader score: nothing in    *)
(* the program writes them.  Open, high and low are the close, as the      *)
(* ingestion stores them.  All days are trading days.  Both jobs take a    *)
(* date, so any day that has closed may be synced and worked out, and a    *)
(* sync of a range is a run of syncs of one day.                           *)
(***************************************************************************)
EXTENDS Integers, FiniteSets, FiniteSetsExt, Folds

CONSTANTS
  Closes,          \* index values of a day
  Volumes,
  RallyDays,       \* bound: days
  MaxMissedJobs,   \* bound: days without a job, repeated syncs, failed reads
  StrengthChecked  \* the table has its CHECK on ftd_strength

ASSUME RallyAssumption ==
  /\ Closes \subseteq Nat \ {0} /\ Volumes \subseteq Nat \ {0} /\ RallyDays \in Nat
  /\ MaxMissedJobs \in Nat

VARIABLES
  rallyDay,  \* trading day
  bars,      \* day -> close and volume, what the API answers
  regimes,   \* day -> row of market_regime_tracking, for the days that have one
  stale,     \* history: days numbered on rows that have changed since
  jobFaults  \* jobs missed and repeated, and reads failed so far

rallyVars == <<rallyDay, bars, regimes, stale, jobFaults>>

(* The row of a day that is not in a rally has rally day 0 (NULL).         *)
RegimeRow(bar) ==
  [close |-> bar.close, volume |-> bar.volume, ratio |-> 0, day |-> 0, baseline |-> 0,
   isFtd |-> FALSE, score |-> 0, strength |-> ""]

RallyInit ==
  rallyDay = 0 /\ bars = <<>> /\ regimes = <<>> /\ stale = {} /\ jobFaults = 0

(* The market closes a day, perhaps before the job of the last one ran.    *)
MarketDay(bar) ==
  /\ rallyDay < RallyDays
  /\ rallyDay \in DOMAIN regimes \cup {0} \/ jobFaults < MaxMissedJobs
  /\ jobFaults' = IF rallyDay \in DOMAIN regimes \cup {0} THEN jobFaults ELSE jobFaults + 1
  /\ rallyDay' = rallyDay + 1
  /\ bars' = [d \in 1..(rallyDay + 1) |-> IF d <= rallyDay THEN bars[d] ELSE bar]
  /\ UNCHANGED <<regimes, stale>>

-----------------------------------------------------------------------------
(* Repository *)

(* market_regime_tracking accepts a rally day of 1 to 7 and one of three   *)
(* strengths; the empty string the program writes for none is not one.     *)
Accepted(row) ==
  /\ row.day \in 0..7
  /\ StrengthChecked => row.strength \in {"weak", "moderate", "strong"}

UpsertMarketRegime(d, row) ==
  regimes' = IF Accepted(row)
             THEN [x \in DOMAIN regimes \cup {d} |-> IF x = d THEN row ELSE regimes[x]]
             ELSE regimes

Latest(D) == CHOOSE d \in D : \A x \in D : x <= d

(* The rows after d whose number was counted through the row of d: none of *)
(* them, nor of those in between, is out of a rally or its first day.      *)
CountedThrough(d) ==
  {x \in DOMAIN regimes :
     d < x /\ \A y \in DOMAIN regimes : d < y /\ y <= x => regimes[y].day > 1}

(* Nothing but a job for their own day looks at those rows again.          *)
WriteRow(d, row, doubtful) ==
  /\ UpsertMarketRegime(d, row)
  /\ stale' = IF regimes' = regimes THEN stale
              ELSE {x \in stale \cup CountedThrough(d) \cup {d} : x = d => doubtful}

-----------------------------------------------------------------------------
(* SyncDailyData, one bar of its loop: today's, or an earlier one of a     *)
(* backfill.  The row is overwritten, rally fields and all.                *)

(* calculateAvgVolume: up to 20 rows of the last 40 days.                  *)
AvgVolume(d) ==
  LET before == {x \in DOMAIN regimes : x < d /\ x >= d - 40}
      recent == {x \in before : Cardinality({y \in before : y > x}) < 20}
  IN  IF recent = {} THEN 0
      ELSE MapThenFoldSet(+, 0, LAMBDA x : regimes[x].volume, LAMBDA S : CHOOSE x \in S : TRUE, recent)
             \div Cardinality(recent)

(* In tenths; 10 stands for no average as for the average.                 *)
Ratio(d) == IF AvgVolume(d) > 0 THEN (10 * bars[d].volume) \div AvgVolume(d) ELSE 10

SyncDailyData(d) ==
  /\ d \in DOMAIN regimes => jobFaults < MaxMissedJobs
  /\ jobFaults' = IF d \in DOMAIN regimes THEN jobFaults + 1 ELSE jobFaults
  /\ WriteRow(d, [RegimeRow(bars[d]) EXCEPT !.ratio = Ratio(d)], FALSE)
  /\ UNCHANGED <<rallyDay, bars>>

-----------------------------------------------------------------------------
(* FTDScorer *)

(* Up 1.2% on more volume than the day before.                             *)
FollowsThrough(current, prev) ==
  1000 * (current.close - prev.close) >= 12 * prev.close /\ current.volume > prev.volume

(* Price up to 30 and volume up to 30; breadth and leaders would give up   *)
(* to 20 each.  The pattern bonus and the close-range adjustment are lost  *)
(* when the total is set to the sum.                                       *)
ScoreTotal(current, prev) ==
  LET gain == 1000 * (current.close - prev.close)
      price == IF gain >= 20 * prev.close THEN 30 ELSE IF gain >= 15 * prev.close THEN 25 ELSE 20
      volume == CASE current.ratio >= 20 -> 30 [] current.ratio \in 15..19 -> 25
                  [] current.ratio \in 12..14 -> 20 [] current.ratio = 11 -> 10 [] OTHER -> 0
  IN  price + volume

Strength(total) == IF total >= 80 THEN "strong" ELSE IF total >= 60 THEN "moderate" ELSE "weak"

-----------------------------------------------------------------------------
(* RallyAttemptTracker *)

(* The lowest row of the last 30 days, the first of several, is today's or *)
(* the one before.                                                         *)
LowIsRecent(d) ==
  LET D == {x \in DOMAIN regimes : x >= d - 30 /\ x <= d}
      lowest == CHOOSE x \in D : \A y \in D : regimes[x].close < regimes[y].close
                                              \/ (regimes[x].close = regimes[y].close /\ x <= y)
  IN  Cardinality({x \in D : x > lowest}) <= 1

(* Day 1: an up day off a low, which is the baseline from then on.  A row  *)
(* that is none keeps what it has.                                         *)
RallyFirstDay(d, prev) ==
  IF regimes[d].close > regimes[prev].close /\ LowIsRecent(d)
  THEN [regimes[d] EXCEPT !.day = 1, !.baseline = regimes[d].close]
  ELSE regimes[d]

(* The baseline the row before carries.                                    *)
Baseline(row) == IF row.baseline > 0 THEN row.baseline ELSE row.close

(* Seeded fault: the baseline is watched until the follow-through window.  *)
Undercut_UntilDay4(current, prev) == current.close < Baseline(prev) /\ prev.day < 3

Undercut(current, prev) == current.close < Baseline(prev)

(* A later day: the attempt fails on a close under the baseline, counts on *)
(* otherwise, and from day 4 on may follow through.  is_ftd is only set.   *)
NextDay(d, prev) ==
  LET current == regimes[d]
      held == [current EXCEPT !.day = regimes[prev].day + 1, !.baseline = Baseline(regimes[prev])]
      total == ScoreTotal(current, regimes[prev])
  IN  IF Undercut(current, regimes[prev]) THEN [current EXCEPT !.day = 0, !.baseline = 0]
      ELSE IF held.day >= 4 /\ FollowsThrough(current, regimes[prev])
      THEN [held EXCEPT !.isFtd = TRUE, !.score = total, !.strength = Strength(total)]
      ELSE held

(* UpdateState: the row before is looked for five days back, and a row     *)
(* that cannot be read is passed over like one that is not there.          *)
UpdateState(d) ==
  LET recent == {x \in DOMAIN regimes : x < d /\ x >= d - 5}
  IN  \E unread \in SUBSET recent :
        LET readable == recent \ unread
            prev == Latest(readable)
        IN  /\ readable # {} /\ \A x \in unread : x > prev
            /\ jobFaults + Cardinality(unread) <= MaxMissedJobs
            /\ jobFaults' = jobFaults + Cardinality(unread)
            /\ WriteRow(d, IF regimes[prev].day = 0 THEN RallyFirstDay(d, prev)
                                                    ELSE NextDay(d, prev),
                        \/ d \in stale \/ unread # {}
                        \/ prev \in stale /\ regimes[prev].day > 0)
            /\ UNCHANGED <<rallyDay, bars>>

RallyNext ==
  \/ \E bar \in [close : Closes, volume : Volumes] : MarketDay(bar)
  \/ \E d \in 1..rallyDay : SyncDailyData(d)
  \/ \E d \in DOMAIN regimes : UpdateState(d)

RallySpec == RallyInit /\ [][RallyNext]_rallyVars
-----------------------------------------------------------------------------
RallyTypeOK ==
  /\ rallyDay \in 0..RallyDays /\ DOMAIN bars = 1..rallyDay /\ DOMAIN regimes \subseteq 1..rallyDay
  /\ \A d \in DOMAIN regimes : regimes[d].day \in 0..7 /\ regimes[d].score \in 0..100
  /\ stale \subseteq DOMAIN regimes /\ jobFaults \in 0..MaxMissedJobs

(* A row on day n of a rally attempt is the n-th row from its day 1, no    *)
(* row in between closed under that one, and all carry its close as their  *)
(* baseline; a follow-through day is day 4 or later of such an attempt     *)
(* (rally.go, "Price must not undercut the Day 1 Low").  This is so        *)
(* whatever days are missed, synced again, filled in later or worked out   *)
(* again, but for the rows whose number was counted through a row that has *)
(* changed since, or could not be read.                                    *)
RallyUnbroken ==
  \A d \in DOMAIN regimes \ stale :
    /\ regimes[d].isFtd => regimes[d].day >= 4
    /\ regimes[d].day > 0 =>
         \E first \in DOMAIN regimes :
           LET attempt == {x \in DOMAIN regimes : first <= x /\ x <= d}
           IN  /\ regimes[first].day = 1 /\ Cardinality(attempt) = regimes[d].day
               /\ \A x \in attempt : /\ regimes[x].close >= regimes[first].close
                                     /\ regimes[x].baseline = regimes[first].close
=============================================================================

--------------------------- MODULE PortfolioRisk ---------------------------
(***************************************************************************)
(* The portfolio risk manager (internal/risk/portfolio_manager.go,         *)
(* dynamic_limits.go, portfolio_helpers.go): snapshots of the open         *)
(* positions, and the check of a new position against the last snapshot.   *)
(* It takes no lock and holds no reservation: what a caller was cleared    *)
(* for is added to the book later.  Percentages are compared multiplied    *)
(* out.  A position's quote is the one passed in or, without one, its last *)
(* price.  The monthly figures and the warnings decide nothing and are     *)
(* left out.                                                               *)
(***************************************************************************)
EXTENDS Integers, FiniteSets, FiniteSetsExt

CONSTANTS
  InitialCapital,
  Adders,       \* callers that add positions
  Trades,       \* positions that may be taken
  Terms,        \* Terms[t]: sector, long, shares, entry, stop
  Quotes,       \* quotes a position may have
  Correlations, \* correlation with the book that a caller states, in percent
  LimitsOf,     \* RiskLimits under "bull", "bear" and "default"
  MaxStreak,    \* bound: consecutive losses that are told apart
  MaxEvents     \* bound: quotes, sales, results, periods and regime changes

ASSUME PortfolioAssumption ==
  /\ IsFiniteSet(Trades)
  /\ \A t \in Trades : Terms[t].shares \in Nat \ {0} /\ Terms[t].entry \in Nat
  /\ InitialCapital \in Nat \ {0}
  /\ Quotes \subseteq Nat
  /\ MaxStreak \in Nat
ASSUME LimitsAssumption ==
  /\ "default" \in DOMAIN LimitsOf
  /\ \A r \in DOMAIN LimitsOf :
       {LimitsOf[r].positions, LimitsOf[r].perSector} \subseteq Nat \ {0}

VARIABLES
  book,      \* the open positions: shares remaining and P/L realised on exits
  quote,     \* current price of each trade
  pm,        \* CurrentCapital, PeakCapital, starting capitals, streak, limits
  period,    \* periods begun since the last CalculateRisk
  snapshot,  \* the last RiskSnapshot
  adding,    \* what each caller was cleared for
  behind,    \* history: positions were added since the last snapshot
  events

portfolioVars == <<book, quote, pm, period, snapshot, adding, behind, events>>

NoSnapshot == [taken |-> FALSE]
NoTrade == [trade |-> "none", current |-> FALSE, covered |-> FALSE]

PortfolioInit ==
  /\ book = <<>> /\ quote = [t \in Trades |-> Terms[t].entry]
  /\ pm = [current |-> InitialCapital, peak |-> InitialCapital, day |-> InitialCapital,
           week |-> InitialCapital, losses |-> 0, limits |-> "default"]
  /\ period = {} /\ snapshot = NoSnapshot
  /\ adding = [c \in Adders |-> NoTrade] /\ behind = FALSE /\ events = 0

Held == DOMAIN book
Limits == LimitsOf[pm.limits]
InSector(s) == {t \in Held : Terms[t].sector = s}

-----------------------------------------------------------------------------
(* CalculateRisk *)

Gain(t, price) == IF Terms[t].long THEN price - Terms[t].entry ELSE Terms[t].entry - price

MarketValue(t) == book[t].remaining * quote[t]

(* The distance to the stop; none once the stop is passed.                 *)
OpenRisk(t) ==
  LET distance == IF Terms[t].long THEN quote[t] - Terms[t].stop ELSE Terms[t].stop - quote[t]
  IN  book[t].remaining * (IF distance < 0 THEN 0 ELSE distance)

TotalPL(t) == Gain(t, quote[t]) * book[t].remaining + book[t].realised

(* updatePeriodTracking: a new period starts from the capital of the last  *)
(* calculation.                                                            *)
UpdatePeriodTracking ==
  [pm EXCEPT !.day = IF "day" \in period THEN pm.current ELSE @,
             !.week = IF "week" \in period THEN pm.current ELSE @]

(* calculatePerformanceMetrics: the capital is the initial one and what    *)
(* the positions at hand gained; a closed position is forgotten.           *)
CalculatePerformance(m) ==
  LET capital == InitialCapital + MapThenSumSet(TotalPL, Held)
  IN  [m EXCEPT !.current = capital, !.peak = IF capital > @ THEN capital ELSE @]

(* checkRiskLimits; `base` is the capital before this calculation, of      *)
(* which risk and exposure are percentages.                                *)
CheckRiskLimits(m, base, risk, exposure) ==
  {v \in {"TOTAL_RISK", "POSITIONS", "SECTOR", "DAILY_LOSS", "WEEKLY_LOSS", "DRAWDOWN", "LOSSES"} :
    /\ v = "TOTAL_RISK" => risk * 100 > Limits.totalRisk * base
    /\ v = "POSITIONS" => Cardinality(Held) > Limits.positions
    /\ v = "SECTOR" => \E s \in DOMAIN exposure :
                          exposure[s].value * 100 > Limits.sector * base
    /\ v = "DAILY_LOSS" => (m.day - m.current) * 100 > Limits.dailyLoss * m.day
    /\ v = "WEEKLY_LOSS" => (m.week - m.current) * 100 > Limits.weeklyLoss * m.week
    /\ v = "DRAWDOWN" => (m.peak - m.current) * 100 > Limits.drawdown * m.peak
    /\ v = "LOSSES" => m.losses >= Limits.losses}

SectorExposure ==
  [s \in {Terms[t].sector : t \in Held} |->
     [value |-> MapThenSumSet(MarketValue, InSector(s)), count |-> Cardinality(InSector(s))]]

CalculateRisk ==
  LET m == CalculatePerformance(UpdatePeriodTracking)
      risk == MapThenSumSet(OpenRisk, Held)
  IN  /\ pm' = m
      /\ period' = {} /\ behind' = FALSE
      /\ snapshot' = [taken |-> TRUE, base |-> pm.current, risk |-> risk, capital |-> m.current,
                      positions |-> Cardinality(Held), sectors |-> SectorExposure,
                      violations |-> CheckRiskLimits(m, pm.current, risk, SectorExposure)]
      /\ UNCHANGED <<book, quote, adding, events>>

-----------------------------------------------------------------------------
(* CanAddPosition *)

NewValue(t) == Terms[t].shares * Terms[t].entry
NewRisk(t) == Terms[t].shares *
              (IF Terms[t].long THEN Terms[t].entry - Terms[t].stop
                                ELSE Terms[t].stop - Terms[t].entry)

SectorOf(t) == IF Terms[t].sector \in DOMAIN snapshot.sectors
               THEN snapshot.sectors[Terms[t].sector] ELSE [value |-> 0, count |-> 0]

(* old is a share of the snapshot's base and new one of today's capital.   *)
Exceeds(old, new, percent) ==
  100 * (old * pm.current + new * snapshot.base) > percent * snapshot.base * pm.current

Issues(t, correlation) ==
  {i \in {"positions", "size", "risk", "sector", "sector count", "correlation",
          "streak", "violations"} :
    /\ i = "positions" => snapshot.positions >= Limits.positions
    /\ i = "size" => NewValue(t) * 100 > Limits.size * pm.current
    /\ i = "risk" => Exceeds(snapshot.risk, NewRisk(t), Limits.totalRisk)
    /\ i = "sector" => Exceeds(SectorOf(t).value, NewValue(t), Limits.sector)
    /\ i = "sector count" => SectorOf(t).count + 1 > Limits.perSector
    /\ i = "correlation" => correlation > Limits.correlation
    /\ i = "streak" => pm.losses >= Limits.reduceAfter
    /\ i = "violations" => snapshot.violations # {}}

(* Seeded fault: the count may reach one more than the limit.              *)
CanAdd_OneMore(t, correlation) ==
  snapshot.taken => Issues(t, correlation) \subseteq
                      (IF snapshot.positions > Limits.positions THEN {} ELSE {"positions"})

CanAdd(t, correlation) == snapshot.taken => Issues(t, correlation) = {}

(* calculateRecommendedSize, in eighths of the risk that is left.          *)
SizeMultiplier ==
  (IF pm.losses >= Limits.reduceAfter THEN 4 ELSE IF pm.losses > 0 THEN 6 ELSE 8)
  \div (IF snapshot.violations # {} THEN 2 ELSE 1)

(* The recommended size, which CanAddPosition returns with its answer, is  *)
(* no less than `risk`.                                                    *)
RecommendsAtLeast(risk) ==
  snapshot.taken =>
    100 * 8 * snapshot.base * risk
      <= SizeMultiplier * (Limits.totalRisk * snapshot.base - 100 * snapshot.risk) * pm.current

AskToAdd(c, t, correlation) ==
  /\ adding[c] = NoTrade /\ t \notin Held
  /\ CanAdd(t, correlation)
  /\ adding' = [adding EXCEPT ![c] = [trade |-> t, current |-> ~behind,
                                         covered |-> RecommendsAtLeast(NewRisk(t))]]
  /\ UNCHANGED <<book, quote, pm, period, snapshot, behind, events>>

(* The position cleared is opened, whatever happened since.                *)
OpenTrade(c) ==
  LET t == adding[c].trade
  IN  /\ adding[c] # NoTrade
      /\ IF t \in Held
         THEN UNCHANGED <<book, behind>> /\ adding' = [adding EXCEPT ![c] = NoTrade]
         ELSE /\ book' = [u \in Held \cup {t} |->
                            IF u = t THEN [remaining |-> Terms[t].shares, realised |-> 0]
                                     ELSE book[u]]
              /\ adding' = [d \in Adders |-> IF d = c THEN NoTrade
                                             ELSE [adding[d] EXCEPT !.current = FALSE]]
              /\ behind' = TRUE
      /\ UNCHANGED <<quote, pm, period, snapshot, events>>

-----------------------------------------------------------------------------
(* The rest of the desk *)

Event == events < MaxEvents /\ events' = events + 1

MovePrice(t, price) ==
  /\ Event
  /\ quote' = [quote EXCEPT ![t] = price]
  /\ UNCHANGED <<book, pm, period, snapshot, adding, behind>>

(* A partial exit of one share; the last one takes the position away.      *)
SellOne(t) ==
  /\ Event
  /\ t \in Held
  /\ book' = IF book[t].remaining = 1 THEN [u \in Held \ {t} |-> book[u]]
             ELSE [book EXCEPT ![t].remaining = @ - 1, ![t].realised = @ + Gain(t, quote[t])]
  /\ UNCHANGED <<quote, pm, period, snapshot, adding, behind>>

(* RecordTradeResult and RecordTradeResultEnhanced                         *)
RecordTradeResult(result) ==
  /\ Event
  /\ pm' = [pm EXCEPT !.losses = IF result = "win" THEN 0
                                 ELSE IF @ < MaxStreak THEN @ + 1 ELSE @]
  /\ UNCHANGED <<book, quote, period, snapshot, adding, behind>>

(* A caller cleared under other limits is as late as one that was          *)
(* overtaken.                                                              *)
UpdateLimits(regime) ==
  /\ Event
  /\ pm' = [pm EXCEPT !.limits = regime]
  /\ adding' = [c \in Adders |-> [adding[c] EXCEPT !.current = FALSE]]
  /\ UNCHANGED <<book, quote, period, snapshot, behind>>

BeginPeriod(periods) ==
  /\ Event
  /\ period' = period \cup periods
  /\ UNCHANGED <<book, quote, pm, snapshot, adding, behind>>

PortfolioNext ==
  \/ CalculateRisk
  \/ \E c \in Adders, t \in Trades, r \in Correlations : AskToAdd(c, t, r)
  \/ \E c \in Adders : OpenTrade(c)
  \/ \E t \in Trades, p \in Quotes : MovePrice(t, p)
  \/ \E t \in Trades : SellOne(t)
  \/ \E r \in {"win", "loss"} : RecordTradeResult(r)
  \/ \E r \in DOMAIN LimitsOf : UpdateLimits(r)
  \/ \E P \in {{"day"}, {"day", "week"}} : BeginPeriod(P)

PortfolioSpec == PortfolioInit /\ [][PortfolioNext]_portfolioVars

-----------------------------------------------------------------------------
(* The state of the risk manager is well formed.                           *)
PortfolioTypeOK ==
  /\ Held \subseteq Trades
  /\ \A t \in Held : book[t].remaining \in 1..Terms[t].shares /\ book[t].realised \in Int
  /\ quote \in [Trades -> Nat]
  /\ pm.current \in Int /\ pm.peak >= InitialCapital /\ pm.losses \in 0..MaxStreak
  /\ pm.limits \in DOMAIN LimitsOf
  /\ period \subseteq {"day", "week"} /\ behind \in BOOLEAN
  /\ \A c \in Adders : adding[c].trade \in Trades \cup {"none"}

(* A position that was cleared against a snapshot no addition overtook     *)
(* leaves the number of positions, and those of its sector, within the     *)
(* limits (CanAddPosition): the checks of a count hold whatever was sold,  *)
(* moved or recorded between the snapshot, the answer and the addition.    *)
AddsWithinLimits ==
  [][\A c \in Adders :
       adding[c].current /\ adding[c].trade \in DOMAIN book' \ Held =>
         /\ Cardinality(DOMAIN book') <= Limits.positions
         /\ Cardinality({t \in DOMAIN book' : Terms[t].sector = Terms[adding[c].trade].sector})
              <= Limits.perSector]_portfolioVars
=============================================================================

----------------------------- MODULE LiveScanner -----------------------------
(***************************************************************************)
(* The WebSocket client (internal/websocket/client.go) with the live       *)
(* scanner on top of it (internal/service/scanner/live_scanner.go,         *)
(* bar_cache.go).  The client has one listening goroutine, which looks a   *)
(* handler up under the client's lock and calls it after releasing it; the *)
(* handler starts a goroutine for each detection.  Starting, refreshing    *)
(* and stopping the scanner are calls of other goroutines; they switch     *)
(* symbols under the scanner's lock, one step after the other, while the   *)
(* listener, which takes only the locks of the client and of the cache,    *)
(* goes on.                                                                *)
(***************************************************************************)
EXTENDS Integers, FiniteSets

CONSTANTS
  Tickers,          \* symbols the universe may hold
  Connecting,       \* somebody calls Connect (cmd/app/main.go does not)
  MinBars,          \* bars a detection needs
  BarCacheSize,     \* bars the cache keeps
  MinScore, MinScoreForAlert,
  SignalScores,     \* scores of the signals that are found
  MaxBars, MaxRefreshes, MaxScanFaults   \* bounds

ASSUME ScannerAssumption ==
  /\ Connecting \in BOOLEAN
  /\ {MinBars, BarCacheSize, MaxBars, MaxRefreshes, MaxScanFaults} \subseteq Nat
  /\ MinBars >= 2 /\ BarCacheSize >= MinBars
  /\ SignalScores \subseteq Nat /\ {MinScore, MinScoreForAlert} \subseteq Nat

VARIABLES
  ws,          \* the client: connection, topics streamed, topics with a handler
  listener,    \* the listener: in a handler's call, of which symbol
  universe,    \* active rows of stock_universe
  scanner,     \* running, stopped (context cancelled), watching, bars (the cache)
  starter,     \* the call of Start
  refresher,   \* the call of RefreshUniverse
  switching,   \* what the holder of the scanner's lock has in hand and still to do
  orphans,     \* history: topics whose Unsubscribe failed, which is ignored
  detections,  \* goroutines of detectSignals
  alerts,      \* symbols of alerts sent and signals saved
  spent        \* bars, refreshes and faults so far

callVars == <<starter, refresher>>
switchVars == <<switching, orphans>>
detectVars == <<detections, alerts>>
scanVars == <<ws, listener, universe, scanner, callVars, switchVars, detectVars, spent>>

NoTicker == "none"
Quiet == [at |-> "read", symbol |-> NoTicker]
Call(at, symbols) == [at |-> at, symbols |-> symbols]

(* The lock is free when its holder has nothing to do.                     *)
Unlocked == [at |-> "next", symbol |-> NoTicker, off |-> {}, on |-> {}]

Spend(what) == spent' = [spent EXCEPT ![what] = @ + 1]
ScanFault == spent.faults < MaxScanFaults /\ Spend("faults")

-----------------------------------------------------------------------------
(* BarCache: the number of bars of each symbol.                            *)

BarAdded(bars, s) ==
  [bars EXCEPT ![s] = IF @ < BarCacheSize THEN @ + 1 ELSE BarCacheSize]
HasEnoughBars(bars, s) == bars[s] >= MinBars
Cleared(bars, s) == [bars EXCEPT ![s] = 0]

-----------------------------------------------------------------------------
(* The client; the topic of a symbol is named like the symbol.             *)

ConnectWs ==
  /\ Connecting /\ ws.conn = "none"
  /\ ws' = [ws EXCEPT !.conn = "open"]
  /\ UNCHANGED <<listener, universe, scanner, callVars, switchVars, detectVars, spent>>

(* listen ends at the first read error, and nothing connects again.        *)
ConnectionLost ==
  /\ ws.conn = "open" /\ ScanFault
  /\ ws' = [ws EXCEPT !.conn = "lost", !.streams = {}]
  /\ UNCHANGED <<listener, universe, scanner, callVars, switchVars, detectVars>>

CloseWs ==
  /\ scanner.stopped /\ ws.conn = "open"
  /\ ws' = [ws EXCEPT !.conn = "closed", !.streams = {}]
  /\ UNCHANGED <<listener, universe, scanner, callVars, switchVars, detectVars, spent>>

-----------------------------------------------------------------------------
(* Start, Stop and RefreshUniverse: each takes the lock of the scanner to  *)
(* unwatch some symbols and then watch others.                             *)

Lock(on, off) == switching = Unlocked /\ switching' = [Unlocked EXCEPT !.on = on, !.off = off]

StartScanner ==
  /\ starter.at \in {"idle", "started", "failed"}
  /\ switching = Unlocked /\ ~scanner.running
  /\ scanner' = [scanner EXCEPT !.running = TRUE]
  /\ starter' = Call("load", {})
  /\ UNCHANGED <<ws, listener, universe, refresher, switchVars, detectVars, spent>>

LoadUniverse ==
  /\ starter.at = "load" /\ ~scanner.stopped
  /\ starter' = Call("watch", universe)
  /\ UNCHANGED <<ws, listener, universe, scanner, refresher, switchVars, detectVars, spent>>

(* The query fails, as it always does once the context is cancelled.       *)
LoadUniverseFails ==
  /\ starter.at = "load"
  /\ IF scanner.stopped THEN UNCHANGED spent ELSE ScanFault
  /\ starter' = Call("failed", {})
  /\ UNCHANGED <<ws, listener, universe, scanner, refresher, switchVars, detectVars>>

(* WatchSymbol; an error is logged and passed over.  The lock is given     *)
(* back between two symbols.                                               *)
WatchSymbol(s) ==
  /\ starter.at = "watch" /\ s \in starter.symbols
  /\ starter' = Call("watch", starter.symbols \ {s})
  /\ Lock({s} \ scanner.watching, {})
  /\ UNCHANGED <<ws, listener, universe, scanner, refresher, orphans, detectVars, spent>>

ScannerStarted ==
  /\ starter.at = "watch" /\ starter.symbols = {}
  /\ starter' = Call("started", {})
  /\ UNCHANGED <<ws, listener, universe, scanner, refresher, switchVars, detectVars, spent>>

StopScanner ==
  /\ scanner.running
  /\ Lock({}, scanner.watching)
  /\ scanner' = [scanner EXCEPT !.running = FALSE, !.stopped = TRUE]
  /\ UNCHANGED <<ws, listener, universe, callVars, orphans, detectVars, spent>>

(* The table is read first, without the lock.                              *)
RefreshUniverse ==
  /\ refresher.at = "idle" /\ ~scanner.stopped
  /\ spent.refreshes < MaxRefreshes /\ Spend("refreshes")
  /\ refresher' = Call("update", universe)
  /\ UNCHANGED <<ws, listener, universe, scanner, starter, switchVars, detectVars>>

UpdateWatched ==
  /\ refresher.at = "update"
  /\ Lock(refresher.symbols \ scanner.watching, scanner.watching \ refresher.symbols)
  /\ refresher' = Call("idle", {})
  /\ UNCHANGED <<ws, listener, universe, scanner, starter, orphans, detectVars, spent>>

UniverseChanges ==
  /\ spent.refreshes < MaxRefreshes
  /\ universe' \in SUBSET Tickers
  /\ UNCHANGED <<ws, listener, scanner, callVars, switchVars, detectVars, spent>>

-----------------------------------------------------------------------------
(* What the holder of the lock does: unwatchSymbol for each symbol of off, *)
(* then Subscribe and RegisterTopicHandler for each of on.  The topic of a *)
(* symbol is named like the symbol.                                        *)

Unsubscribe(s) ==
  /\ switching.at = "next" /\ s \in switching.off
  /\ switching' = [switching EXCEPT !.at = "unregister", !.symbol = s, !.off = @ \ {s}]
  /\ ws' = [ws EXCEPT !.streams = @ \ {s}]
  /\ UNCHANGED <<listener, universe, scanner, callVars, orphans, detectVars, spent>>

UnsubscribeFails(s) ==
  /\ switching.at = "next" /\ s \in switching.off
  /\ ws.conn = "open" /\ ScanFault
  /\ switching' = [switching EXCEPT !.at = "unregister", !.symbol = s, !.off = @ \ {s}]
  /\ orphans' = orphans \cup {s}
  /\ UNCHANGED <<ws, listener, universe, scanner, callVars, detectVars>>

(* Seeded faults: the handler stays registered; the symbol stays watched.  *)
Unregistered_HandlerStays(s) ==
  /\ ws' = ws
  /\ scanner' = [scanner EXCEPT !.watching = @ \ {s}]
Unregistered_StaysWatched(s) ==
  /\ ws' = [ws EXCEPT !.handlers = @ \ {s}]
  /\ scanner' = scanner

(* The handler goes under the client's lock, the symbol under the          *)
(* scanner's, which alone guards the symbols: one step.                    *)
Unregistered(s) ==
  /\ ws' = [ws EXCEPT !.handlers = @ \ {s}]
  /\ scanner' = [scanner EXCEPT !.watching = @ \ {s}]

UnregisterTopicHandler ==
  /\ switching.at = "unregister"
  /\ Unregistered(switching.symbol)
  /\ switching' = [switching EXCEPT !.at = "clear"]
  /\ UNCHANGED <<listener, universe, callVars, orphans, detectVars, spent>>

ClearBars ==
  /\ switching.at = "clear"
  /\ scanner' = [scanner EXCEPT !.bars = Cleared(@, switching.symbol)]
  /\ switching' = [switching EXCEPT !.at = "next", !.symbol = NoTicker]
  /\ UNCHANGED <<ws, listener, universe, callVars, orphans, detectVars, spent>>

(* A write may still succeed on a connection whose reads have failed.      *)
Subscribe(s) ==
  /\ switching.at = "next" /\ switching.off = {} /\ s \in switching.on
  /\ ws.conn \in {"open", "lost"}
  /\ switching' = [switching EXCEPT !.at = "register", !.symbol = s, !.on = @ \ {s}]
  /\ ws' = IF ws.conn = "open" THEN [ws EXCEPT !.streams = @ \cup {s}] ELSE ws
  /\ orphans' = orphans \ {s}
  /\ UNCHANGED <<listener, universe, scanner, callVars, detectVars, spent>>

(* The symbol is left out.                                                 *)
SubscribeFails(s) ==
  /\ switching.at = "next" /\ switching.off = {} /\ s \in switching.on
  /\ IF ws.conn = "open" THEN ScanFault ELSE UNCHANGED spent
  /\ switching' = [switching EXCEPT !.on = @ \ {s}]
  /\ UNCHANGED <<ws, listener, universe, scanner, callVars, orphans, detectVars>>

(* From here on bars of the symbol come in, watched or not yet.            *)
RegisterTopicHandler ==
  /\ switching.at = "register"
  /\ ws' = [ws EXCEPT !.handlers = @ \cup {switching.symbol}]
  /\ switching' = [switching EXCEPT !.at = "watch"]
  /\ UNCHANGED <<listener, universe, scanner, callVars, orphans, detectVars, spent>>

SymbolWatched ==
  /\ switching.at = "watch"
  /\ scanner' = [scanner EXCEPT !.watching = @ \cup {switching.symbol}]
  /\ switching' = [switching EXCEPT !.at = "next", !.symbol = NoTicker]
  /\ UNCHANGED <<ws, listener, universe, callVars, orphans, detectVars, spent>>

SwitchStep ==
  \/ \E s \in Tickers : \/ Unsubscribe(s) \/ UnsubscribeFails(s)
                        \/ Subscribe(s) \/ SubscribeFails(s)
  \/ UnregisterTopicHandler \/ ClearBars \/ RegisterTopicHandler \/ SymbolWatched

-----------------------------------------------------------------------------
(* Bars and detections.                                                    *)

(* listen: the handler of the topic is looked up.  A message may come that *)
(* was sent before the topic was unsubscribed; one without a handler       *)
(* changes nothing.                                                        *)
BarArrives(s) ==
  /\ ws.conn = "open" /\ s \in ws.handlers /\ listener = Quiet
  /\ spent.bars < MaxBars /\ Spend("bars")
  /\ listener' = [at |-> "add", symbol |-> s]
  /\ UNCHANGED <<ws, universe, scanner, callVars, switchVars, detectVars>>

(* onBarUpdate takes the lock of the cache twice, and no other.            *)
BarReceived ==
  /\ listener.at = "add"
  /\ scanner' = [scanner EXCEPT !.bars = BarAdded(@, listener.symbol)]
  /\ listener' = [listener EXCEPT !.at = "check"]
  /\ UNCHANGED <<ws, universe, callVars, switchVars, detectVars, spent>>

StartDetection ==
  /\ listener.at = "check"
  /\ detections' = IF ~HasEnoughBars(scanner.bars, listener.symbol) THEN detections
                   ELSE detections \cup {[symbol |-> listener.symbol, bar |-> spent.bars,
                                          at |-> "detect", score |-> 0]}
  /\ listener' = Quiet
  /\ UNCHANGED <<ws, universe, scanner, callVars, switchVars, alerts, spent>>

BarUnreadable ==
  /\ listener.at = "add" /\ ScanFault
  /\ listener' = Quiet
  /\ UNCHANGED <<ws, universe, scanner, callVars, switchVars, detectVars>>

Replaced(d, by) == detections' = (detections \ {d}) \cup by

(* The cache is looked at again; there may be no pattern in it.            *)
DetectSignal(d, score) ==
  /\ d.at = "detect"
  /\ Replaced(d, IF HasEnoughBars(scanner.bars, d.symbol) /\ score >= MinScore
                 THEN {[d EXCEPT !.at = "save", !.score = score]} ELSE {})
  /\ UNCHANGED <<ws, listener, universe, scanner, callVars, switchVars, alerts, spent>>

(* saveSignal uses the context that Stop cancels; only a saved signal is   *)
(* announced, which looks at nothing that another goroutine writes.        *)
SaveSignal(d) ==
  /\ d.at = "save" /\ ~scanner.stopped
  /\ Replaced(d, {})
  /\ alerts' = [saved |-> alerts.saved \cup {d.symbol},
                sent |-> alerts.sent \cup {t \in {d.symbol} : d.score >= MinScoreForAlert}]
  /\ UNCHANGED <<ws, listener, universe, scanner, callVars, switchVars, spent>>

SaveSignalFails(d) ==
  /\ d.at = "save"
  /\ IF scanner.stopped THEN UNCHANGED spent ELSE ScanFault
  /\ Replaced(d, {})
  /\ UNCHANGED <<ws, listener, universe, scanner, callVars, switchVars, alerts>>

ScanInit ==
  /\ ws = [conn |-> "none", streams |-> {}, handlers |-> {}]
  /\ listener = Quiet
  /\ universe = Tickers
  /\ scanner = [running |-> FALSE, stopped |-> FALSE, watching |-> {},
                bars |-> [s \in Tickers |-> 0]]
  /\ starter = Call("idle", {}) /\ refresher = Call("idle", {})
  /\ switching = Unlocked /\ orphans = {}
  /\ detections = {} /\ alerts = [saved |-> {}, sent |-> {}]
  /\ spent = [bars |-> 0, refreshes |-> 0, faults |-> 0]

ScanNext ==
  \/ ConnectWs \/ ConnectionLost \/ CloseWs
  \/ StartScanner \/ LoadUniverse \/ LoadUniverseFails
  \/ \E s \in Tickers : WatchSymbol(s)
  \/ ScannerStarted \/ StopScanner
  \/ RefreshUniverse \/ UpdateWatched \/ UniverseChanges
  \/ SwitchStep
  \/ \E s \in Tickers : BarArrives(s)
  \/ BarReceived \/ StartDetection \/ BarUnreadable
  \/ \E d \in detections :
       \/ \E score \in SignalScores : DetectSignal(d, score)
       \/ SaveSignal(d) \/ SaveSignalFails(d)

ScanSpec == ScanInit /\ [][ScanNext]_scanVars

-----------------------------------------------------------------------------
(* Properties.                                                             *)

ScanTypeOK ==
  /\ ws.conn \in {"none", "open", "lost", "closed"}
  /\ ws.streams \subseteq Tickers /\ ws.handlers \subseteq Tickers
  /\ listener.at \in {"read", "add", "check"} /\ universe \subseteq Tickers
  /\ switching.at \in {"next", "unregister", "clear", "register", "watch"}
  /\ switching.on \cup switching.off \cup orphans \subseteq Tickers
  /\ {scanner.running, scanner.stopped} \subseteq BOOLEAN
  /\ scanner.watching \subseteq Tickers
  /\ scanner.bars \in [Tickers -> 0..BarCacheSize]

(* No longer watched, its bars not cleared yet (unwatchSymbol), or its     *)
(* handler registered and the symbol not watched yet (WatchSymbol).        *)
BeingSwitched == IF switching.at \in {"clear", "watch"} THEN {switching.symbol} ELSE {}

(* A detection is started for a watched symbol, or for the one that is     *)
(* just being switched, until its bars are cleared: the bar a listener     *)
(* still delivers after that is never enough.                              *)
OnlyWatchedDetected ==
  [][\A d \in detections' \ detections :
       d.at = "detect" => d.symbol \in scanner.watching \cup BeingSwitched]_scanVars

(* Start, RefreshUniverse and Stop in any order leave the topics and the   *)
(* watched symbols in step.  When the scanner's lock is free, the watched  *)
(* symbols are those with a handler; while the connection is open, they    *)
(* are the streamed ones too, but for the topics whose Unsubscribe failed. *)
WatchedIsStreamed ==
  switching = Unlocked =>
    /\ scanner.watching = ws.handlers
    /\ ws.conn = "open" => ws.streams = scanner.watching \cup orphans
=============================================================================

---------------------------- MODULE MarketProofs ----------------------------
(***************************************************************************)
(* Proofs about the reading of the market: LiveScanner, Regime, FtdRally,  *)
(* WeeklyAnalysis and Signals, for any symbols, bars, readings, charts,    *)
(* days and readers.                                                       *)
(***************************************************************************)
EXTENDS LiveScanner, Regime, FtdRally, WeeklyAnalysis, Signals, FiniteSetTheorems,
        WellFoundedInduction, TLAPS

-----------------------------------------------------------------------------
(***************************************************************************)
(* LiveScanner: any symbols, bars, refreshes and failures.                 *)
(***************************************************************************)

CallType == [at : {"idle", "load", "watch", "started", "failed", "update"},
             symbols : SUBSET Tickers]
ScannerType == [running : BOOLEAN, stopped : BOOLEAN, watching : SUBSET Tickers,
                bars : [Tickers -> 0..BarCacheSize]]
ClientType == [conn : {"none", "open", "lost", "closed"},
               streams : SUBSET Tickers, handlers : SUBSET Tickers]
ListenerType == [at : {"read", "add", "check"}, symbol : Tickers \cup {NoTicker}]
SwitchingType == [at : {"next", "unregister", "clear", "register", "watch"},
                  symbol : Tickers \cup {NoTicker}, off : SUBSET Tickers, on : SUBSET Tickers]

(* The records the client, the scanner and its calls are.                  *)
ScanShape ==
  /\ ws \in ClientType /\ scanner \in ScannerType
  /\ universe \subseteq Tickers /\ orphans \subseteq Tickers
  /\ starter \in CallType /\ refresher \in CallType
  /\ listener \in ListenerType /\ (listener.at # "read" => listener.symbol \in Tickers)
  /\ switching \in SwitchingType /\ (switching.at # "next" => switching.symbol \in Tickers)

(* The topics that are streamed while the connection is open: the watched  *)
(* symbols, but for the one in hand, and the topics nobody gave back.      *)
Streamed ==
  CASE switching.at = "unregister" -> (scanner.watching \ {switching.symbol}) \cup orphans
    [] switching.at \in {"register", "watch"} -> scanner.watching \cup {switching.symbol} \cup orphans
    [] OTHER -> scanner.watching \cup orphans

(* Handlers and watched symbols are the same set, but for one that is      *)
(* about to be watched; what is to be unwatched is watched; a topic nobody *)
(* gave back is of no watched symbol.                                      *)
InStep ==
  /\ ws.handlers = scanner.watching
                     \cup (IF switching.at = "watch" THEN {switching.symbol} ELSE {})
  /\ switching.off \subseteq scanner.watching
  /\ switching.at = "unregister" => switching.symbol \notin switching.off
  /\ \A s \in orphans \cap scanner.watching :
       switching.at = "unregister" /\ s = switching.symbol
  /\ switching.at \in {"register", "watch"} => switching.symbol \notin orphans
  /\ ws.conn = "open" => ws.streams = Streamed
  /\ ws.conn = "none" => /\ scanner.watching = {} /\ orphans = {} /\ ws.streams = {}
                         /\ switching.at = "next"

(* A symbol that is not watched, its bars cleared, has at most the one bar *)
(* that was on its way when it was unwatched.                              *)
OneLateBar ==
  \A s \in Tickers \ (scanner.watching \cup BeingSwitched) :
    /\ scanner.bars[s] <= 1
    /\ listener.at = "add" /\ listener.symbol = s => scanner.bars[s] = 0

ScanInv == ScanShape /\ InStep /\ OneLateBar

(* Detections and counters are records.                                    *)
DetectionShape ==
  /\ detections \subseteq [symbol : Tickers, bar : Nat, at : {"detect", "save"}, score : Nat]
  /\ spent \in [bars : Nat, refreshes : Nat, faults : Nat]

-----------------------------------------------------------------------------

LEMMA ScanInitInv == ScanInit => ScanInv
<1> SUFFICES ASSUME ScanInit PROVE ScanInv
  OBVIOUS
<1>1. ScanShape
  BY ScannerAssumption
     DEF ScanInit, ScanShape, ClientType, ScannerType, ListenerType, SwitchingType, CallType,
         Call, Quiet, Unlocked
<1>2. InStep /\ OneLateBar
  BY DEF ScanInit, InStep, Streamed, OneLateBar, Quiet, Unlocked
<1>3. QED
  BY <1>1, <1>2 DEF ScanInv

(* What a detection does leaves all but the detections alone.              *)
DetectionStep ==
  \E d \in detections :
    \/ \E sc \in SignalScores : DetectSignal(d, sc)
    \/ SaveSignal(d) \/ SaveSignalFails(d)

(* Cleared and added bars are numbers of bars.                             *)
LEMMA BarsKept ==
  ASSUME NEW counts \in [Tickers -> 0..BarCacheSize], NEW s \in Tickers
  PROVE  /\ Cleared(counts, s) \in [Tickers -> 0..BarCacheSize]
         /\ \A x \in Tickers : Cleared(counts, s)[x] = IF x = s THEN 0 ELSE counts[x]
         /\ BarAdded(counts, s) \in [Tickers -> 0..BarCacheSize]
         /\ \A x \in Tickers \ {s} : BarAdded(counts, s)[x] = counts[x]
         /\ counts[s] = 0 => BarAdded(counts, s)[s] = 1
BY ScannerAssumption DEF Cleared, BarAdded

LEMMA ScanStepShape ==
  ASSUME ScanShape, [ScanNext]_scanVars PROVE ScanShape'
<1> USE DEF ScanShape
<1>1. CASE ConnectWs \/ ConnectionLost \/ CloseWs
  BY <1>1 DEF ConnectWs, ConnectionLost, CloseWs, ClientType, callVars, switchVars
<1>0. \A at \in {"idle", "load", "watch", "started", "failed", "update"} :
        \A symbols \in SUBSET Tickers : Call(at, symbols) \in CallType
  BY DEF Call, CallType
<1>2. CASE \/ StartScanner \/ LoadUniverse \/ LoadUniverseFails \/ ScannerStarted
           \/ RefreshUniverse \/ UniverseChanges
  <2>1. scanner' \in ScannerType /\ universe' \subseteq Tickers
    BY <1>2 DEF StartScanner, LoadUniverse, LoadUniverseFails, ScannerStarted, RefreshUniverse,
                UniverseChanges, ScannerType
  <2>2. starter' \in CallType /\ refresher' \in CallType
    BY <1>0, <1>2 DEF StartScanner, LoadUniverse, LoadUniverseFails, ScannerStarted,
                      RefreshUniverse, UniverseChanges, callVars
  <2>3. UNCHANGED <<ws, listener, switching, orphans>>
    BY <1>2 DEF StartScanner, LoadUniverse, LoadUniverseFails, ScannerStarted, RefreshUniverse,
                UniverseChanges, switchVars
  <2>4. QED
    BY <2>1, <2>2, <2>3
<1>3. CASE (\E s \in Tickers : WatchSymbol(s)) \/ StopScanner \/ UpdateWatched
  <2>1. switching' \in SwitchingType /\ switching'.at = "next"
    <3>1. \A on, off \in SUBSET Tickers :
            Lock(on, off) => switching' \in SwitchingType /\ switching'.at = "next"
      BY DEF Lock, Unlocked, SwitchingType
    <3>2. \E on, off \in SUBSET Tickers : Lock(on, off)
      <4>1. scanner.watching \in SUBSET Tickers /\ refresher.symbols \in SUBSET Tickers
        BY DEF ScannerType, CallType
      <4>2. QED
        BY <1>3, <4>1 DEF WatchSymbol, StopScanner, UpdateWatched
    <3>3. QED
      BY <3>1, <3>2
  <2>2. scanner' \in ScannerType
    BY <1>3 DEF WatchSymbol, StopScanner, UpdateWatched, ScannerType
  <2>3. starter' \in CallType /\ refresher' \in CallType
    <3>1. ASSUME NEW s \in Tickers, WatchSymbol(s) PROVE starter' \in CallType
      <4>1. starter.symbols \ {s} \in SUBSET Tickers
        BY DEF CallType
      <4>2. QED
        BY <1>0, <3>1, <4>1 DEF WatchSymbol
    <3>2. UpdateWatched => refresher' \in CallType
      BY <1>0 DEF UpdateWatched
    <3>3. QED
      BY <1>3, <3>1, <3>2 DEF WatchSymbol, StopScanner, UpdateWatched, callVars
  <2>4. UNCHANGED <<ws, listener, universe, orphans>>
    BY <1>3 DEF WatchSymbol, StopScanner, UpdateWatched
  <2>5. QED
    BY <2>1, <2>2, <2>3, <2>4
<1>4. CASE SwitchStep
  <2>1. ASSUME NEW s \in Tickers,
               Unsubscribe(s) \/ UnsubscribeFails(s) \/ Subscribe(s) \/ SubscribeFails(s)
        PROVE  ScanShape'
    <3>1. switching' \in SwitchingType /\ (switching'.at # "next" => switching'.symbol \in Tickers)
      BY <2>1 DEF Unsubscribe, UnsubscribeFails, Subscribe, SubscribeFails, SwitchingType
    <3>2. ws' \in ClientType /\ orphans' \subseteq Tickers
      BY <2>1 DEF Unsubscribe, UnsubscribeFails, Subscribe, SubscribeFails, ClientType
    <3>3. UNCHANGED <<listener, universe, scanner, callVars>>
      BY <2>1 DEF Unsubscribe, UnsubscribeFails, Subscribe, SubscribeFails
    <3>4. QED
      BY <3>1, <3>2, <3>3 DEF callVars
  <2>2. CASE UnregisterTopicHandler \/ ClearBars \/ RegisterTopicHandler \/ SymbolWatched
    <3>1. switching' \in SwitchingType /\ (switching'.at # "next" => switching'.symbol \in Tickers)
      BY <2>2 DEF UnregisterTopicHandler, ClearBars, RegisterTopicHandler, SymbolWatched,
                  SwitchingType
    <3>2. ws' \in ClientType
      BY <2>2 DEF UnregisterTopicHandler, ClearBars, RegisterTopicHandler, SymbolWatched,
                  Unregistered, ClientType
    <3>3. scanner' \in ScannerType
      <4>1. CASE ClearBars
        <5>1. Cleared(scanner.bars, switching.symbol) \in [Tickers -> 0..BarCacheSize]
          BY <4>1, BarsKept DEF ClearBars, ScannerType
        <5>2. QED
          BY <4>1, <5>1 DEF ClearBars, ScannerType
      <4>2. CASE UnregisterTopicHandler \/ RegisterTopicHandler \/ SymbolWatched
        BY <4>2 DEF UnregisterTopicHandler, RegisterTopicHandler, SymbolWatched, Unregistered,
                    ScannerType
      <4>3. QED
        BY <2>2, <4>1, <4>2
    <3>4. UNCHANGED <<listener, universe, orphans, callVars>>
      BY <2>2 DEF UnregisterTopicHandler, ClearBars, RegisterTopicHandler, SymbolWatched
    <3>5. QED
      BY <3>1, <3>2, <3>3, <3>4 DEF callVars
  <2>3. QED
    BY <1>4, <2>1, <2>2 DEF SwitchStep
<1>5. CASE (\E s \in Tickers : BarArrives(s)) \/ BarUnreadable \/ StartDetection
  BY <1>5 DEF BarArrives, BarUnreadable, StartDetection, ListenerType, Quiet, callVars, switchVars
<1>6. CASE BarReceived
  <2>1. BarAdded(scanner.bars, listener.symbol) \in [Tickers -> 0..BarCacheSize]
    BY <1>6, BarsKept DEF BarReceived, ScannerType
  <2>2. scanner' \in ScannerType
    BY <1>6, <2>1 DEF BarReceived, ScannerType
  <2>3. listener' \in ListenerType /\ listener'.symbol \in Tickers
    BY <1>6 DEF BarReceived, ListenerType
  <2>4. QED
    BY <1>6, <2>2, <2>3 DEF BarReceived, callVars, switchVars
<1>7. CASE DetectionStep \/ UNCHANGED scanVars
  BY <1>7 DEF DetectionStep, DetectSignal, SaveSignal, SaveSignalFails, scanVars, callVars,
              switchVars
<1>8. QED
  BY <1>1, <1>2, <1>3, <1>4, <1>5, <1>6, <1>7 DEF ScanNext, DetectionStep

(* The client and the scanner stay in step, whoever holds the lock.        *)
LEMMA ScanStepInStep ==
  ASSUME ScanInv, [ScanNext]_scanVars PROVE InStep'
<1> USE DEF ScanInv, ScanShape
<1>1. CASE ConnectWs \/ ConnectionLost \/ CloseWs
  BY <1>1 DEF ConnectWs, ConnectionLost, CloseWs, ClientType, InStep, Streamed, switchVars
<1>2. CASE StartScanner
  BY <1>2 DEF StartScanner, ScannerType, InStep, Streamed, switchVars
<1>3. CASE (\E s \in Tickers : WatchSymbol(s)) \/ StopScanner \/ UpdateWatched
  <2>1. /\ switching = Unlocked /\ switching'.at = "next" /\ switching'.off \subseteq scanner.watching
        /\ UNCHANGED <<ws, orphans>>
    BY <1>3 DEF WatchSymbol, StopScanner, UpdateWatched, Lock, Unlocked
  <2>2. scanner'.watching = scanner.watching
    BY <1>3 DEF WatchSymbol, StopScanner, UpdateWatched, ScannerType
  <2>3. QED
    BY <2>1, <2>2 DEF InStep, Streamed, Unlocked
<1>4. ASSUME NEW s \in Tickers,
             Unsubscribe(s) \/ UnsubscribeFails(s) \/ Subscribe(s) \/ SubscribeFails(s)
      PROVE  InStep'
  <2>1. CASE Unsubscribe(s)
    <3>1. /\ switching.at = "next" /\ s \in switching.off /\ UNCHANGED <<scanner, orphans>>
          /\ switching'.at = "unregister" /\ switching'.symbol = s
          /\ switching'.off = switching.off \ {s}
          /\ ws'.conn = ws.conn /\ ws'.handlers = ws.handlers /\ ws'.streams = ws.streams \ {s}
      BY <2>1 DEF Unsubscribe, SwitchingType, ClientType
    <3>2. QED
      BY <3>1 DEF InStep, Streamed
  <2>2. CASE UnsubscribeFails(s)
    <3>1. /\ switching.at = "next" /\ s \in switching.off /\ UNCHANGED <<scanner, ws>>
          /\ switching'.at = "unregister" /\ switching'.symbol = s
          /\ switching'.off = switching.off \ {s}
          /\ orphans' = orphans \cup {s} /\ ws.conn = "open"
      BY <2>2 DEF UnsubscribeFails, SwitchingType, ClientType
    <3>2. QED
      BY <3>1 DEF InStep, Streamed
  <2>3. CASE Subscribe(s)
    <3>1. /\ switching.at = "next" /\ switching.off = {} /\ ws.conn \in {"open", "lost"}
          /\ switching'.at = "register" /\ switching'.symbol = s /\ switching'.off = {}
          /\ orphans' = orphans \ {s} /\ UNCHANGED scanner
          /\ ws'.conn = ws.conn /\ ws'.handlers = ws.handlers
          /\ ws.conn = "open" => ws'.streams = ws.streams \cup {s}
      BY <2>3 DEF Subscribe, SwitchingType, ClientType
    <3>2. QED
      BY <3>1 DEF InStep, Streamed
  <2>4. CASE SubscribeFails(s)
    <3>1. /\ switching.at = "next" /\ UNCHANGED <<ws, scanner, orphans>>
          /\ switching'.at = "next" /\ switching'.off = switching.off
      BY <2>4 DEF SubscribeFails, SwitchingType
    <3>2. QED
      BY <3>1 DEF InStep, Streamed
  <2>5. QED
    BY <1>4, <2>1, <2>2, <2>3, <2>4
<1>5. CASE UnregisterTopicHandler
  <2>1. /\ switching.at = "unregister" /\ UNCHANGED orphans
        /\ switching'.at = "clear" /\ switching'.off = switching.off
        /\ ws'.conn = ws.conn /\ ws'.streams = ws.streams
        /\ ws'.handlers = ws.handlers \ {switching.symbol}
        /\ scanner'.watching = scanner.watching \ {switching.symbol}
    BY <1>5 DEF UnregisterTopicHandler, Unregistered, SwitchingType, ClientType, ScannerType
  <2>2. QED
    BY <2>1 DEF InStep, Streamed
<1>6. CASE ClearBars
  <2>1. /\ switching.at = "clear" /\ UNCHANGED <<ws, orphans>>
        /\ switching'.at = "next" /\ switching'.off = switching.off
        /\ scanner'.watching = scanner.watching
    BY <1>6 DEF ClearBars, SwitchingType, ScannerType
  <2>2. QED
    BY <2>1 DEF InStep, Streamed
<1>7. CASE RegisterTopicHandler \/ SymbolWatched
  <2>1. CASE RegisterTopicHandler
    <3>1. /\ switching.at = "register" /\ UNCHANGED <<scanner, orphans>>
          /\ switching'.at = "watch" /\ switching'.off = switching.off
          /\ switching'.symbol = switching.symbol
          /\ ws'.conn = ws.conn /\ ws'.streams = ws.streams
          /\ ws'.handlers = ws.handlers \cup {switching.symbol}
      BY <2>1 DEF RegisterTopicHandler, SwitchingType, ClientType
    <3>2. QED
      BY <3>1 DEF InStep, Streamed
  <2>2. CASE SymbolWatched
    <3>1. /\ switching.at = "watch" /\ UNCHANGED <<ws, orphans>>
          /\ switching'.at = "next" /\ switching'.off = switching.off
          /\ scanner'.watching = scanner.watching \cup {switching.symbol}
      BY <2>2 DEF SymbolWatched, SwitchingType, ScannerType
    <3>2. QED
      BY <3>1 DEF InStep, Streamed
  <2>3. QED
    BY <1>7, <2>1, <2>2
<1>8. CASE BarReceived
  <2>1. scanner'.watching = scanner.watching
    BY <1>8 DEF BarReceived, ScannerType
  <2>2. QED
    BY <1>8, <2>1 DEF BarReceived, InStep, Streamed, switchVars
<1>9. CASE UNCHANGED <<ws, scanner, switching, orphans>>
  BY <1>9 DEF InStep, Streamed
<1>10. QED
  BY <1>1, <1>2, <1>3, <1>4, <1>5, <1>6, <1>7, <1>8, <1>9
     DEF ScanNext, SwitchStep, LoadUniverse, LoadUniverseFails, ScannerStarted, RefreshUniverse,
         UniverseChanges, BarArrives, StartDetection, BarUnreadable, DetectSignal, SaveSignal,
         SaveSignalFails, scanVars, switchVars

(* No step gives an unwatched symbol more than its late bar.               *)
LEMMA ScanStepLateBar ==
  ASSUME ScanInv, [ScanNext]_scanVars PROVE OneLateBar'
<1> USE DEF ScanInv, ScanShape
<1>1. CASE StartScanner \/ StopScanner
  <2>1. /\ scanner'.watching = scanner.watching /\ scanner'.bars = scanner.bars
        /\ UNCHANGED listener /\ BeingSwitched' = BeingSwitched
    BY <1>1 DEF StartScanner, StopScanner, ScannerType, BeingSwitched, switchVars, Lock, Unlocked
  <2>2. QED
    BY <2>1 DEF OneLateBar
<1>2. CASE \/ \E s \in Tickers : WatchSymbol(s)
           \/ UpdateWatched
           \/ \E s \in Tickers : \/ Unsubscribe(s) \/ UnsubscribeFails(s)
                                 \/ Subscribe(s) \/ SubscribeFails(s)
  <2>1. /\ switching.at = "next" /\ switching'.at \notin {"clear", "watch"}
        /\ UNCHANGED <<scanner, listener>>
    BY <1>2 DEF WatchSymbol, UpdateWatched, Lock, Unlocked, SwitchingType, Unsubscribe,
                UnsubscribeFails, Subscribe, SubscribeFails
  <2>2. QED
    BY <2>1 DEF OneLateBar, BeingSwitched
<1>3. CASE UnregisterTopicHandler
  <2>1. /\ switching.at = "unregister" /\ UNCHANGED listener
        /\ switching'.at = "clear" /\ switching'.symbol = switching.symbol
        /\ scanner'.watching = scanner.watching \ {switching.symbol}
        /\ scanner'.bars = scanner.bars
    BY <1>3 DEF UnregisterTopicHandler, Unregistered, SwitchingType, ScannerType
  <2>2. QED
    BY <2>1 DEF OneLateBar, BeingSwitched
<1>4. CASE ClearBars
  <2>1. /\ switching.at = "clear" /\ switching'.at = "next" /\ UNCHANGED listener
        /\ scanner'.watching = scanner.watching
        /\ scanner'.bars = Cleared(scanner.bars, switching.symbol)
    BY <1>4 DEF ClearBars, SwitchingType, ScannerType
  <2>2. /\ scanner.bars \in [Tickers -> 0..BarCacheSize]
        /\ switching.symbol \in Tickers
    BY <2>1 DEF ScannerType
  <2>3. \A x \in Tickers : scanner'.bars[x] = IF x = switching.symbol THEN 0 ELSE scanner.bars[x]
    BY <2>1, <2>2, BarsKept
  <2>4. QED
    BY <2>1, <2>3 DEF OneLateBar, BeingSwitched
<1>5. CASE RegisterTopicHandler \/ SymbolWatched
  <2>1. CASE RegisterTopicHandler
    <3>1. switching.at = "register" /\ UNCHANGED <<scanner, listener>>
      BY <2>1 DEF RegisterTopicHandler
    <3>2. QED
      BY <3>1 DEF OneLateBar, BeingSwitched
  <2>2. CASE SymbolWatched
    <3>1. /\ switching.at = "watch" /\ switching'.at = "next" /\ UNCHANGED listener
          /\ scanner'.watching = scanner.watching \cup {switching.symbol}
          /\ scanner'.bars = scanner.bars
      BY <2>2 DEF SymbolWatched, SwitchingType, ScannerType
    <3>2. QED
      BY <3>1 DEF OneLateBar, BeingSwitched
  <2>3. QED
    BY <1>5, <2>1, <2>2
<1>6. ASSUME NEW s \in Tickers, BarArrives(s) PROVE OneLateBar'
  <2>1. /\ s \in scanner.watching \cup BeingSwitched /\ listener'.symbol = s
        /\ UNCHANGED <<scanner, switching>>
    BY <1>6 DEF BarArrives, InStep, BeingSwitched, switchVars
  <2>2. QED
    BY <2>1 DEF OneLateBar, BeingSwitched
<1>7. CASE BarReceived
  <2>1. /\ listener.at = "add" /\ listener.symbol \in Tickers /\ listener'.at = "check"
        /\ scanner'.watching = scanner.watching
        /\ scanner'.bars = BarAdded(scanner.bars, listener.symbol) /\ UNCHANGED switching
        /\ scanner.bars \in [Tickers -> 0..BarCacheSize]
    BY <1>7 DEF BarReceived, ListenerType, ScannerType, switchVars
  <2>2. /\ \A x \in Tickers \ {listener.symbol} : scanner'.bars[x] = scanner.bars[x]
        /\ scanner.bars[listener.symbol] = 0 => scanner'.bars[listener.symbol] = 1
    BY <2>1, BarsKept
  <2>3. QED
    BY <2>1, <2>2 DEF OneLateBar, BeingSwitched
<1>8. CASE StartDetection \/ BarUnreadable
  <2>1. listener'.at = "read" /\ UNCHANGED <<scanner, switching>>
    BY <1>8 DEF StartDetection, BarUnreadable, Quiet, switchVars
  <2>2. QED
    BY <2>1 DEF OneLateBar, BeingSwitched
<1>9. CASE UNCHANGED <<scanner, switching, listener>>
  BY <1>9 DEF OneLateBar, BeingSwitched
<1>10. QED
  BY <1>1, <1>2, <1>3, <1>4, <1>5, <1>6, <1>7, <1>8, <1>9
     DEF ScanNext, SwitchStep, ConnectWs, ConnectionLost, CloseWs, LoadUniverse,
         LoadUniverseFails, ScannerStarted, RefreshUniverse, UniverseChanges, DetectSignal,
         SaveSignal, SaveSignalFails, scanVars, switchVars

LEMMA ScanStepInv == ScanInv /\ [ScanNext]_scanVars => ScanInv'
BY ScanStepShape, ScanStepInStep, ScanStepLateBar DEF ScanInv

LEMMA DetectionStepShape ==
  ScanShape /\ DetectionShape /\ [ScanNext]_scanVars => DetectionShape'
<1> SUFFICES ASSUME ScanShape, DetectionShape, [ScanNext]_scanVars PROVE DetectionShape'
  OBVIOUS
<1>1. \A what \in {"bars", "refreshes", "faults"} :
        Spend(what) => spent' \in [bars : Nat, refreshes : Nat, faults : Nat]
  BY DEF Spend, DetectionShape
<1>2. spent' \in [bars : Nat, refreshes : Nat, faults : Nat]
  BY <1>1 DEF DetectionShape, ScanFault, ScanNext, ConnectWs, ConnectionLost, CloseWs,
              StartScanner, LoadUniverse, LoadUniverseFails, WatchSymbol, ScannerStarted,
              StopScanner, RefreshUniverse, UpdateWatched, UniverseChanges, SwitchStep,
              Unsubscribe, UnsubscribeFails, UnregisterTopicHandler, ClearBars, Subscribe,
              SubscribeFails, RegisterTopicHandler, SymbolWatched, BarArrives, BarReceived,
              StartDetection, BarUnreadable, DetectSignal, SaveSignal, SaveSignalFails, scanVars
<1>3. CASE StartDetection
  <2>1. listener.symbol \in Tickers
    BY <1>3 DEF StartDetection, ScanShape
  <2>2. QED
    BY <1>2, <1>3, <2>1 DEF StartDetection, DetectionShape
<1>4. ASSUME NEW d \in detections, NEW sc \in SignalScores, DetectSignal(d, sc)
      PROVE  DetectionShape'
  BY <1>2, <1>4, ScannerAssumption DEF DetectSignal, Replaced, DetectionShape
<1>5. ASSUME NEW d \in detections, SaveSignal(d) \/ SaveSignalFails(d)
      PROVE  DetectionShape'
  BY <1>2, <1>5 DEF SaveSignal, SaveSignalFails, Replaced, DetectionShape
<1>6. CASE UNCHANGED detections
  BY <1>2, <1>6 DEF DetectionShape
<1>7. QED
  BY <1>3, <1>4, <1>5, <1>6
     DEF ScanNext, ConnectWs, ConnectionLost, CloseWs, StartScanner, LoadUniverse,
         LoadUniverseFails, WatchSymbol, ScannerStarted, StopScanner, RefreshUniverse,
         UpdateWatched, UniverseChanges, SwitchStep, Unsubscribe, UnsubscribeFails,
         UnregisterTopicHandler, ClearBars, Subscribe, SubscribeFails, RegisterTopicHandler,
         SymbolWatched, BarArrives, BarReceived, BarUnreadable, scanVars, detectVars

LEMMA ScanInvariant == ScanSpec => [](ScanInv /\ DetectionShape)
<1>1. ScanInit => DetectionShape
  BY DEF ScanInit, DetectionShape
<1>2. QED
  <2>1. ScanInv /\ DetectionShape /\ [ScanNext]_scanVars => (ScanInv /\ DetectionShape)'
    BY ScanStepInv, DetectionStepShape DEF ScanInv
  <2>2. QED
    BY ScanInitInv, <1>1, <2>1, PTL DEF ScanSpec

(* Every reachable state of client and scanner is well formed.             *)
THEOREM ScanTypeCorrect == ScanSpec => []ScanTypeOK
<1>1. ScanInv => ScanTypeOK
  BY DEF ScanInv, ScanShape, ClientType, ScannerType, ListenerType, SwitchingType, ScanTypeOK
<1>2. QED
  BY ScanInvariant, <1>1, PTL

(* Starting, refreshing, stopping and losing the connection in any order,  *)
(* with subscriptions and their ends that fail, never part the watched     *)
(* symbols from the handlers, nor, but for the topics whose Unsubscribe    *)
(* failed, from the topics that are streamed.                              *)
THEOREM InStepAlways == ScanSpec => []WatchedIsStreamed
<1>1. ScanInv => WatchedIsStreamed
  BY DEF ScanInv, InStep, Streamed, WatchedIsStreamed, Unlocked
<1>2. QED
  BY ScanInvariant, <1>1, PTL

(* A bar that was on its way when its symbol was unwatched starts no       *)
(* detection once the symbol's bars are cleared, whatever was watched and  *)
(* unwatched around it; while unwatchSymbol has not cleared them yet, or   *)
(* WatchSymbol has registered the handler only, a bar may.                 *)
THEOREM DetectionsWatched == ScanSpec => OnlyWatchedDetected
<1> DEFINE New == \A d \in detections' \ detections :
                    d.at = "detect" => d.symbol \in scanner.watching \cup BeingSwitched
<1>1. ScanInv /\ DetectionShape /\ [ScanNext]_scanVars => [New]_scanVars
  <2> SUFFICES ASSUME ScanInv, DetectionShape, ScanNext PROVE New
    BY DEF scanVars
  <2>1. CASE StartDetection
    <3>1. listener.symbol \in Tickers
      BY <2>1 DEF StartDetection, ScanInv, ScanShape
    <3>2. ASSUME NEW d \in detections' \ detections
          PROVE  d.symbol = listener.symbol /\ scanner.bars[listener.symbol] >= MinBars
      BY <2>1 DEF StartDetection, HasEnoughBars
    <3>3. ASSUME listener.symbol \notin scanner.watching \cup BeingSwitched
          PROVE  ~(scanner.bars[listener.symbol] >= MinBars)
      <4>1. scanner.bars[listener.symbol] <= 1
        BY <3>1, <3>3 DEF ScanInv, OneLateBar
      <4>2. scanner.bars[listener.symbol] \in 0..BarCacheSize
        BY <3>1 DEF ScanInv, ScanShape, ScannerType
      <4>3. QED
        BY <4>1, <4>2, ScannerAssumption
    <3>4. QED
      BY <3>2, <3>3
  <2>2. ASSUME NEW d \in detections, NEW sc \in SignalScores, DetectSignal(d, sc)
        PROVE  New
    BY <2>2 DEF DetectSignal, Replaced, DetectionShape
  <2>3. ASSUME NEW d \in detections, SaveSignal(d) \/ SaveSignalFails(d)
        PROVE  New
    BY <2>3 DEF SaveSignal, SaveSignalFails, Replaced, DetectionShape
  <2>4. CASE UNCHANGED detections
    BY <2>4
  <2>5. QED
    BY <2>1, <2>2, <2>3, <2>4
       DEF ScanNext, ConnectWs, ConnectionLost, CloseWs, StartScanner, LoadUniverse,
           LoadUniverseFails, WatchSymbol, ScannerStarted, StopScanner, RefreshUniverse,
           UpdateWatched, UniverseChanges, SwitchStep, Unsubscribe, UnsubscribeFails,
           UnregisterTopicHandler, ClearBars, Subscribe, SubscribeFails, RegisterTopicHandler,
           SymbolWatched, BarArrives, BarReceived, BarUnreadable, detectVars
<1>2. QED
  BY ScanInvariant, <1>1, PTL DEF ScanSpec, OnlyWatchedDetected

-----------------------------------------------------------------------------
(***************************************************************************)
(* Regime: any readings, window and days.                                  *)
(***************************************************************************)

(* The score of a day is a whole number from -10 to 10.                    *)
LEMMA ScoreBounded == ASSUME NEW x PROVE RegimeScore(x) \in -10..10
<1>1. /\ BasicScore(x) \in Int /\ ADXScore(x) \in Int /\ DirectionScore(x) \in Int
      /\ VolatilityScore(x) \in Int /\ VolumeScore(x) \in Int
  <2>1. BasicScore(x) \in Int
    <3>1. (CASE TrendStructure(x.highs, x.lows) = "higher_highs_lows" -> 2
             [] TrendStructure(x.highs, x.lows) = "lower_highs_lows" -> -2
             [] OTHER -> 0) \in Int
      OBVIOUS
    <3>2. QED
      BY <3>1 DEF BasicScore
  <2>2. ADXScore(x) \in Int
    BY DEF ADXScore
  <2>3. DirectionScore(x) \in Int
    BY DEF DirectionScore
  <2>4. VolatilityScore(x) \in Int
    BY DEF VolatilityScore
  <2>5. VolumeScore(x) \in Int
    BY DEF VolumeScore
  <2>6. QED
    BY <2>1, <2>2, <2>3, <2>4, <2>5
<1> DEFINE sum == BasicScore(x) + ADXScore(x) + DirectionScore(x) + VolatilityScore(x)
                    + VolumeScore(x)
<1>2. sum \in Int
  BY <1>1
<1>3. RegimeScore(x) = IF sum > 10 THEN 10 ELSE IF sum < -10 THEN -10 ELSE sum
  BY DEF RegimeScore
<1> HIDE DEF sum
<1>4. QED
  BY <1>2, <1>3

(* What a day is classified as is a regime.                                *)
LEMMA ClassifiedIsRegime ==
  ASSUME NEW s \in -10..10, NEW previous \in RegimeTypes \cup {""}
  PROVE  ClassifyWithHysteresis(s, previous)[1] \in RegimeTypes
BY DEF ClassifyWithHysteresis, PlainRegime, RegimeTypes

(* Hysteresis, in one step: if the score s has turned regime a into        *)
(* another one, a score within one point of s does not turn it back.       *)
LEMMA NoWayBack ==
  ASSUME NEW s \in -10..10, NEW t \in -10..10, t - s \in -1..1,
         NEW a \in RegimeTypes, NEW b \in RegimeTypes,
         b = ClassifyWithHysteresis(s, a)[1], b # a
  PROVE  ClassifyWithHysteresis(t, b)[1] # a
<1>1. CASE a = "strong_bull"
  BY <1>1 DEF ClassifyWithHysteresis, PlainRegime, RegimeTypes
<1>2. CASE a = "mild_bull"
  BY <1>2 DEF ClassifyWithHysteresis, PlainRegime, RegimeTypes
<1>3. CASE a = "range_bound"
  BY <1>3 DEF ClassifyWithHysteresis, PlainRegime, RegimeTypes
<1>4. CASE a = "mild_bear"
  BY <1>4 DEF ClassifyWithHysteresis, PlainRegime, RegimeTypes
<1>5. CASE a = "strong_bear"
  BY <1>5 DEF ClassifyWithHysteresis, PlainRegime, RegimeTypes
<1>6. QED
  BY <1>1, <1>2, <1>3, <1>4, <1>5 DEF RegimeTypes

-----------------------------------------------------------------------------
(* What an appended history is.                                            *)
LEMMA HistoryGrows ==
  ASSUME NEW s \in Seq(RegimeTypes), NEW e \in RegimeTypes
  PROVE  /\ Append(s, e) \in Seq(RegimeTypes)
         /\ Len(Append(s, e)) = Len(s) + 1
         /\ Append(s, e)[Len(s) + 1] = e
         /\ \A i \in 1..Len(s) : Append(s, e)[i] = s[i]
OBVIOUS

(* The places of a history hold its regimes.                               *)
LEMMA PendingHeld ==
  ASSUME NEW s \in Seq(RegimeTypes)
  PROVE  Len(s) \in Nat /\ \A i \in 1..Len(s) : s[i] \in RegimeTypes
OBVIOUS

(* The regime is the last of the history, and each of the history but the  *)
(* first was classified against the one before; the score is the last      *)
(* day's.                                                                  *)
RegimeInv ==
  /\ score \in -10..10
  /\ history \in Seq(RegimeTypes)
  /\ Len(history) = 0 => regime = ""
  /\ Len(history) # 0 => regime = history[Len(history)]
  /\ Len(history) >= 2 =>
       history[Len(history)] =
         ClassifyWithHysteresis(score, history[Len(history) - 1])[1]

(* A day adds its regime to the history.                                   *)
LEMMA DayAdded ==
  ASSUME RegimeInv, NEW x, NEW spike, DetectRegime(x, spike)
  PROVE  /\ score' \in -10..10
         /\ regime' = ClassifyWithHysteresis(score', regime)[1]
         /\ regime' \in RegimeTypes
         /\ history' = Append(history, regime')
<1>1. score' \in -10..10 /\ score' = RegimeScore(x)
  BY ScoreBounded DEF DetectRegime
<1>2. regime \in RegimeTypes \cup {""}
  <2>1. Len(history) \in Nat /\ \A i \in 1..Len(history) : history[i] \in RegimeTypes
    BY PendingHeld DEF RegimeInv
  <2>2. CASE Len(history) = 0
    BY <2>2 DEF RegimeInv
  <2>3. CASE Len(history) # 0
    <3>1. regime = history[Len(history)]
      BY <2>3 DEF RegimeInv
    <3>2. Len(history) \in 1..Len(history)
      BY <2>1, <2>3
    <3>3. QED
      BY <2>1, <3>1, <3>2
  <2>4. QED
    BY <2>2, <2>3
<1>3. regime' = ClassifyWithHysteresis(score', regime)[1] /\ history' = Append(history, regime')
  BY <1>1 DEF DetectRegime
<1>4. QED
  BY <1>1, <1>2, <1>3, ClassifiedIsRegime

LEMMA RegimeStepInv == RegimeInv /\ [RegimeNext]_regimeVars => RegimeInv'
<1> SUFFICES ASSUME RegimeInv, [RegimeNext]_regimeVars PROVE RegimeInv'
  OBVIOUS
<1>1. ASSUME NEW x \in Readings, NEW spike \in BOOLEAN, DetectRegime(x, spike)
      PROVE  RegimeInv'
  <2>1. /\ score' \in -10..10
        /\ regime' = ClassifyWithHysteresis(score', regime)[1]
        /\ regime' \in RegimeTypes
        /\ history' = Append(history, regime')
    BY <1>1, DayAdded
  <2>2. /\ history' \in Seq(RegimeTypes)
        /\ Len(history') = Len(history) + 1
        /\ history'[Len(history')] = regime'
        /\ \A i \in 1..Len(history) : history'[i] = history[i]
        /\ Len(history) \in Nat
    <3>1. history \in Seq(RegimeTypes)
      BY DEF RegimeInv
    <3>2. QED
      BY <2>1, <3>1, HistoryGrows, PendingHeld
  <2>3. Len(history') >= 2 => history'[Len(history') - 1] = regime
    <3>1. ASSUME Len(history') >= 2
          PROVE  /\ Len(history) \in 1..Len(history) /\ Len(history) # 0
                 /\ Len(history') - 1 = Len(history)
      BY <2>2, <3>1
    <3>2. QED
      BY <2>2, <3>1 DEF RegimeInv
  <2>4. Len(history') # 0 /\ Len(history') \in Nat
    BY <2>2
  <2>5. Len(history') >= 2 =>
          history'[Len(history')] =
            ClassifyWithHysteresis(score', history'[Len(history') - 1])[1]
    BY <2>1, <2>2, <2>3
  <2>6. QED
    BY <2>1, <2>2, <2>4, <2>5 DEF RegimeInv
<1>2. CASE UNCHANGED regimeVars
  BY <1>2 DEF RegimeInv, regimeVars
<1>3. QED
  BY <1>1, <1>2 DEF RegimeNext

LEMMA RegimeInvariant == RegimeSpec => []RegimeInv
<1>1. RegimeInit => RegimeInv
  <2>1. <<>> \in Seq(RegimeTypes) /\ Len(<<>>) = 0
    OBVIOUS
  <2> SUFFICES ASSUME RegimeInit PROVE RegimeInv
    OBVIOUS
  <2>2. history = <<>> /\ score = 0 /\ regime = ""
    BY DEF RegimeInit
  <2>3. history \in Seq(RegimeTypes) /\ Len(history) = 0
    BY <2>1, <2>2
  <2>4. score \in -10..10
    <3>1. score = 0
      BY DEF RegimeInit
    <3>2. 0 \in -10..10
      OBVIOUS
    <3>3. QED
      BY <3>1, <3>2
  <2>5. ~(Len(history) >= 2)
    BY <2>3
  <2>6. QED
    BY <2>2, <2>3, <2>4, <2>5 DEF RegimeInv
<1>2. QED
  BY <1>1, RegimeStepInv, PTL DEF RegimeSpec

(* A score that stays within one point never turns a regime back that the  *)
(* day before has turned, whatever the readings are.                       *)
THEOREM Hysteresis == RegimeSpec => NoWhipsaw
<1> DEFINE Kept == LET n == Len(history)
                   IN  n >= 2 /\ history[n] # history[n - 1] /\ score' - score \in -1..1
                         => history'[n + 1] # history[n - 1]
<1>1. RegimeInv /\ [RegimeNext]_regimeVars => [Kept]_regimeVars
  <2> SUFFICES ASSUME RegimeInv, NEW x \in Readings, NEW spike \in BOOLEAN,
                      DetectRegime(x, spike),
                      Len(history) >= 2, score' - score \in -1..1,
                      history[Len(history)] # history[Len(history) - 1]
               PROVE  history'[Len(history) + 1] # history[Len(history) - 1]
    BY DEF RegimeNext, regimeVars
  <2> DEFINE a == history[Len(history) - 1]
  <2>1. /\ score' \in -10..10
        /\ regime' = ClassifyWithHysteresis(score', regime)[1]
        /\ regime' \in RegimeTypes
        /\ history' = Append(history, regime')
    BY DayAdded
  <2>0. /\ Len(history) \in Nat /\ Len(history) # 0
        /\ history[Len(history)] \in RegimeTypes /\ a \in RegimeTypes
    <3>1. Len(history) \in Nat /\ \A i \in 1..Len(history) : history[i] \in RegimeTypes
      BY PendingHeld DEF RegimeInv
    <3>2. Len(history) \in 1..Len(history) /\ Len(history) - 1 \in 1..Len(history)
      BY <3>1
    <3>3. QED
      BY <3>1, <3>2
  <2>2. regime = history[Len(history)] /\ score \in -10..10
    BY <2>0 DEF RegimeInv
  <2>3. regime = ClassifyWithHysteresis(score, a)[1] /\ regime # a
    BY <2>2 DEF RegimeInv
  <2>4. history'[Len(history) + 1] = regime'
    BY <2>1, HistoryGrows DEF RegimeInv
  <2> HIDE DEF a
  <2>5. regime' # a
    BY <2>1, <2>0, <2>2, <2>3, NoWayBack
  <2>6. QED
    BY <2>4, <2>5 DEF a
<1>2. QED
  BY RegimeInvariant, <1>1, PTL DEF RegimeSpec, NoWhipsaw

(* What the scores of a day can be, whatever the readings.                 *)
LEMMA TransitionBounded ==
  ASSUME NEW x, NEW spike, NEW conf PROVE TransitionScore(x, spike, conf) \in 0..8
<1> DEFINE n == Len(history)
           recent == {history[i] : i \in (n - TransitionWindow + 1)..n}
           unlike == IF n < TransitionWindow THEN 0 ELSE Cardinality(recent)
           conflict == \/ BasicScore(x) > 0 /\ ADXScore(x) < 0
                       \/ BasicScore(x) < 0 /\ ADXScore(x) > 0
           changes == IF unlike >= 4 THEN 3 ELSE IF unlike = 3 THEN 2 ELSE 0
           volatile == IF spike THEN 2 ELSE 0
           unsure == IF conf = "Low" THEN 2 ELSE 0
           against == IF conflict THEN 1 ELSE 0
<1>1. TransitionScore(x, spike, conf) = changes + volatile + unsure + against
  BY DEF TransitionScore
<1>2. changes \in {0, 2, 3} /\ volatile \in {0, 2} /\ unsure \in {0, 2} /\ against \in {0, 1}
  OBVIOUS
<1> HIDE DEF changes, volatile, unsure, against
<1>3. QED
  BY <1>1, <1>2

LEMMA NeededBounded ==
  ASSUME NEW stock, NEW mkt PROVE NeededScore(stock, mkt) \in 5..12
<1>1. GetMinScoreByRegime(mkt) \in 7..10
  BY DEF GetMinScoreByRegime
<1>2. Alignment(stock, mkt) \in -2..2
  BY DEF Alignment
<1>3. QED
  BY <1>1, <1>2 DEF NeededScore

LEMMA ConfidenceGraded ==
  ASSUME NEW s, NEW previous
  PROVE  ClassifyWithHysteresis(s, previous)[2] \in {"High", "Moderate", "Low"}
<1>1. AssignConfidence(s) \in {"High", "Moderate", "Low"}
  BY DEF AssignConfidence
<1>2. QED
  BY <1>1 DEF ClassifyWithHysteresis

RegimeBounds ==
  /\ market \in RegimeTypes \cup {""} /\ confidence \in {"High", "Moderate", "Low"}
  /\ transition \in 0..8 /\ needed \in 5..12 /\ Len(history) <= RegimeDays

LEMMA RegimeBoundsStep ==
  ASSUME RegimeInv, RegimeBounds, [RegimeNext]_regimeVars PROVE RegimeBounds'
<1>1. ASSUME NEW x, NEW spike, DetectRegime(x, spike) PROVE RegimeBounds'
  <2>1. market' \in RegimeTypes
    BY <1>1 DEF DetectRegime, MarketRegime, RegimeTypes
  <2>2. confidence' \in {"High", "Moderate", "Low"}
    BY <1>1, ConfidenceGraded DEF DetectRegime
  <2>3. transition' \in 0..8
    BY <1>1, TransitionBounded DEF DetectRegime
  <2>4. needed' \in 5..12
    BY <1>1, NeededBounded DEF DetectRegime
  <2>5. Len(history') <= RegimeDays
    <3>1. history' = Append(history, regime') /\ regime' \in RegimeTypes
      BY <1>1, DayAdded
    <3>2. history \in Seq(RegimeTypes)
      BY DEF RegimeInv
    <3>3. Len(history) \in Nat /\ Len(history') = Len(history) + 1
      BY ONLY <3>1, <3>2
    <3>4. QED
      BY <1>1, <3>3, RegimeAssumption DEF DetectRegime
  <2>6. QED
    BY <2>1, <2>2, <2>3, <2>4, <2>5 DEF RegimeBounds
<1>2. QED
  BY <1>1 DEF RegimeNext, RegimeBounds, regimeVars

(* The scores of a day stay in the range they are graded on, and the score *)
(* a signal needs is one a signal can reach or miss (detector.go).         *)
THEOREM RegimeTypeCorrect == RegimeSpec => []RegimeTypeOK
<1>1. RegimeInit => RegimeBounds
  <2> SUFFICES ASSUME RegimeInit PROVE RegimeBounds
    OBVIOUS
  <2>1. history = <<>> /\ market = "" /\ confidence = "Low" /\ transition = 0 /\ needed = 8
    BY DEF RegimeInit
  <2>2. Len(<<>>) = 0 /\ 0 \in 0..8 /\ 8 \in 5..12
    OBVIOUS
  <2>3. Len(history) <= RegimeDays
    <3>1. Len(history) = 0
      BY <2>1, <2>2
    <3>2. 0 <= RegimeDays
      BY RegimeAssumption
    <3>3. QED
      BY <3>1, <3>2
  <2>4. transition \in 0..8 /\ needed \in 5..12
    BY <2>1, <2>2
  <2>5. QED
    BY <2>1, <2>3, <2>4 DEF RegimeBounds
<1>2. RegimeInv /\ RegimeBounds => RegimeTypeOK
  <2> SUFFICES ASSUME RegimeInv, RegimeBounds PROVE RegimeTypeOK
    OBVIOUS
  <2>1. regime \in RegimeTypes \cup {""}
    <3>1. history \in Seq(RegimeTypes)
      BY DEF RegimeInv
    <3>0. Len(history) \in Nat /\ \A i \in 1..Len(history) : history[i] \in RegimeTypes
      BY <3>1, PendingHeld
    <3>2. CASE Len(history) = 0
      BY <3>2 DEF RegimeInv
    <3>3. CASE Len(history) # 0
      <4>1. history[Len(history)] \in RegimeTypes
        BY <3>0, <3>3
      <4>2. QED
        BY <3>3, <4>1 DEF RegimeInv
    <3>4. QED
      BY <3>2, <3>3
  <2>2. QED
    BY <2>1 DEF RegimeInv, RegimeBounds, RegimeTypeOK
<1>3. QED
  BY <1>1, <1>2, RegimeInvariant, RegimeBoundsStep, PTL DEF RegimeSpec

-----------------------------------------------------------------------------
(***************************************************************************)
(* FtdRally: any closes, volumes, days and missed jobs.                    *)
(***************************************************************************)

(* The inductive invariant: each row whose number stands says of itself no *)
(* more than the row before it, whose number stands as well, allows.       *)
RowFields == {"close", "volume", "ratio", "day", "baseline", "isFtd", "score", "strength"}

RowTyped(row) ==
  /\ DOMAIN row = RowFields /\ row.close \in Nat \ {0} /\ row.day \in 0..7
  /\ row.baseline \in Nat /\ row.isFtd \in BOOLEAN

RallyTypes ==
  /\ rallyDay \in Nat /\ DOMAIN bars = 1..rallyDay
  /\ \A d \in DOMAIN bars : bars[d].close \in Nat \ {0}
  /\ DOMAIN regimes \subseteq 1..rallyDay
  /\ \A d \in DOMAIN regimes : RowTyped(regimes[d])
  /\ stale \subseteq DOMAIN regimes

Before(p, d) == p < d /\ \A x \in DOMAIN regimes : ~(p < x /\ x < d)

Follows(row, d) ==
  /\ row.day = 0 <=> row.baseline = 0
  /\ row.isFtd => row.day >= 4
  /\ row.day > 0 => row.close >= row.baseline
  /\ row.day = 1 => row.baseline = row.close
  /\ row.day > 1 => \E p \in DOMAIN regimes \ stale :
                      /\ Before(p, d) /\ regimes[p].day = row.day - 1
                      /\ regimes[p].baseline = row.baseline

Chained == \A d \in DOMAIN regimes \ stale : Follows(regimes[d], d)

(* The attempt of RallyUnbroken that starts on `first`.                    *)
Days(first, d) == {x \in DOMAIN regimes : first <= x /\ x <= d}
IsAttempt(first, d) ==
  /\ regimes[first].day = 1 /\ Cardinality(Days(first, d)) = regimes[d].day
  /\ \A x \in Days(first, d) : /\ regimes[x].close >= regimes[first].close
                               /\ regimes[x].baseline = regimes[first].close
                               /\ x # first => regimes[x].day > 1
Attempts ==
  \A d \in DOMAIN regimes \ stale :
    regimes[d].day > 0 => \E first \in DOMAIN regimes : first <= d /\ IsAttempt(first, d)

RallyInv == RallyTypes /\ Chained /\ Attempts

-----------------------------------------------------------------------------
LEMMA LeastNumber ==
  ASSUME NEW T \in SUBSET Nat, T # {}
  PROVE  \E x \in T : \A y \in T : x <= y
<1>1. \E x \in T : \A y \in T : ~(<<y, x>> \in OpToRel(<, Nat))
  BY NatLessThanWellFounded, WFMin
<1>2. PICK x \in T : \A y \in T : ~(<<y, x>> \in OpToRel(<, Nat))
  BY <1>1
<1>3. \A y \in T : ~(y < x)
  BY <1>2 DEF OpToRel
<1>4. QED
  BY <1>3

(* Latest is defined on a set of days that is not empty.                   *)
LEMMA LatestDay ==
  ASSUME NEW n \in Nat, NEW D \in SUBSET (1..n), D # {}
  PROVE  Latest(D) \in D /\ \A x \in D : x <= Latest(D)
<1> DEFINE T == {m \in Nat : n - m \in D}
<1>1. T # {}
  <2>1. PICK x \in D : TRUE
    OBVIOUS
  <2>2. n - x \in T
    BY <2>1
  <2>3. QED
    BY <2>2
<1>2. PICK m \in T : \A y \in T : m <= y
  <2> HIDE DEF T
  <2>1. T \in SUBSET Nat
    BY DEF T
  <2>2. QED
    BY <1>1, <2>1, LeastNumber
<1>3. ASSUME NEW x \in D PROVE x <= n - m
  <2>1. n - x \in T
    BY <1>3
  <2>2. m <= n - x
    BY <1>2, <2>1
  <2>3. QED
    BY <1>2, <2>2
<1>4. \E d \in D : \A x \in D : x <= d
  BY <1>2, <1>3
<1>5. QED
  BY <1>4 DEF Latest

LEMMA InitRally == RallyInit => RallyInv
<1> SUFFICES ASSUME RallyInit PROVE RallyInv
  OBVIOUS
<1>1. DOMAIN regimes = {} /\ DOMAIN bars = {} /\ rallyDay = 0 /\ stale = {}
  BY DEF RallyInit
<1>2. QED
  BY <1>1 DEF RallyInv, RallyTypes, Chained, Attempts

-----------------------------------------------------------------------------
(* A day's row is written.  The rows whose number stands were not counted  *)
(* through it: a first day, or a row out of a rally, lies in between.      *)
LEMMA WriteDay ==
  ASSUME RallyInv, NEW t \in 1..rallyDay, NEW row, RowTyped(row),
         t \notin stale' => Follows(row, t),
         regimes' = [x \in DOMAIN regimes \cup {t} |-> IF x = t THEN row ELSE regimes[x]],
         stale' \ {t} = (stale \cup CountedThrough(t)) \ {t},
         UNCHANGED <<rallyDay, bars>>
  PROVE  RallyInv'
<1>1. /\ DOMAIN regimes' = DOMAIN regimes \cup {t} /\ regimes'[t] = row
      /\ \A x \in DOMAIN regimes : x # t => regimes'[x] = regimes[x]
      /\ t \in Nat /\ RallyTypes /\ rallyDay \in Nat
  BY DEF RallyInv, RallyTypes
<1>2. \A x \in DOMAIN regimes : x \in Nat /\ regimes[x].day \in Nat
  <2>1. \A x \in DOMAIN regimes : RowTyped(regimes[x])
    BY <1>1 DEF RallyTypes
  <2>2. DOMAIN regimes \subseteq 1..rallyDay
    BY <1>1 DEF RallyTypes
  <2>3. \A x \in DOMAIN regimes : regimes[x].day \in 0..7
    BY <2>1 DEF RowTyped
  <2>4. \A x \in DOMAIN regimes : x \in 1..rallyDay /\ regimes[x].day \in Nat
    <3> HIDE <1>1
    <3>1. \A n \in 0..7 : n \in Nat
      OBVIOUS
    <3>2. QED
      BY <2>2, <2>3, <3>1
  <2>5. QED
    BY <1>1, <2>4
<1>3. RallyTypes'
  <2>1. \A d \in DOMAIN regimes' : RowTyped(regimes'[d])
    BY <1>1 DEF RallyTypes
  <2>2. DOMAIN regimes' \subseteq 1..rallyDay'
    BY <1>1 DEF RallyTypes
  <2>3. stale' \subseteq DOMAIN regimes'
    BY <1>1 DEF RallyTypes, CountedThrough
  <2>4. QED
    BY <1>1, <2>1, <2>2, <2>3 DEF RallyTypes
<1>4. ASSUME NEW d \in DOMAIN regimes, d # t, d \notin stale'
      PROVE  /\ d \notin stale /\ regimes'[d] = regimes[d]
             /\ t < d => \E y \in DOMAIN regimes : t < y /\ y <= d /\ ~(regimes[y].day > 1)
  <2>1. d \notin stale /\ d \notin CountedThrough(t)
    BY <1>4
  <2>2. QED
    BY <1>1, <1>4, <2>1 DEF CountedThrough
<1>5. ASSUME NEW p \in DOMAIN regimes, NEW d \in DOMAIN regimes', Before(p, d),
             ~(p < t /\ t < d)
      PROVE  Before(p, d)'
  BY <1>1, <1>5 DEF Before
<1>6. ASSUME NEW p \in DOMAIN regimes \ stale,
             p < t \/ \E y \in DOMAIN regimes : t < y /\ y <= p /\ ~(regimes[y].day > 1)
      PROVE  p \in DOMAIN regimes' \ stale' /\ p # t
  <2>1. p # t /\ p \notin CountedThrough(t)
    BY <1>1, <1>2, <1>6 DEF CountedThrough
  <2>2. QED
    BY <1>1, <1>6, <2>1
<1>7. Chained'
  <2> SUFFICES ASSUME NEW d \in DOMAIN regimes' \ stale' PROVE Follows(regimes[d], d)'
    BY DEF Chained
  <2>1. Follows(regimes'[d], d)
    <3>1. CASE d = t
      BY <1>1, <3>1
    <3>2. CASE d # t
      BY <1>1, <1>4, <3>2 DEF RallyInv, Chained
    <3>3. QED
      BY <3>1, <3>2
  <2>2. ASSUME regimes'[d].day > 1
        PROVE  \E p \in DOMAIN regimes' \ stale' :
                 /\ Before(p, d)' /\ regimes'[p].day = regimes'[d].day - 1
                 /\ regimes'[p].baseline = regimes'[d].baseline
    <3>1. PICK p \in DOMAIN regimes \ stale :
            /\ Before(p, d) /\ regimes[p].day = regimes'[d].day - 1
            /\ regimes[p].baseline = regimes'[d].baseline
      BY <2>1, <2>2 DEF Follows
    <3>2. d \in Nat /\ p \in Nat /\ p < d
      BY <1>1, <1>2, <3>1 DEF Before
    <3>3. CASE d <= t
      <4>1. p < t /\ ~(p < t /\ t < d)
        BY <1>1, <3>2, <3>3
      <4>2. QED
        BY <1>1, <1>5, <1>6, <3>1, <4>1
    <3>4. CASE t < d
      <4>1. PICK y \in DOMAIN regimes : t < y /\ y <= d /\ ~(regimes[y].day > 1)
        BY <1>1, <1>4, <3>2, <3>4
      <4>2. y # d /\ y \in Nat
        BY <1>1, <1>2, <1>4, <2>2, <3>4, <4>1
      <4>3. y <= p
        BY <1>2, <3>1, <3>2, <4>1, <4>2 DEF Before
      <4>4. ~(p < t /\ t < d)
        BY <1>1, <3>2, <4>1, <4>2, <4>3
      <4>5. QED
        BY <1>1, <1>5, <1>6, <3>1, <4>1, <4>3, <4>4
    <3>5. d <= t \/ t < d
      BY <1>1, <3>2
    <3>6. QED
      BY <3>3, <3>4, <3>5
  <2>3. QED
    BY <2>1, <2>2 DEF Follows
<1>8. ASSUME NEW first \in DOMAIN regimes, NEW d \in DOMAIN regimes, ~(first <= t /\ t <= d)
      PROVE  Days(first, d)' = Days(first, d) /\ \A x \in Days(first, d) : regimes'[x] = regimes[x]
  BY <1>1, <1>2, <1>8 DEF Days
<1>9. ASSUME NEW d \in DOMAIN regimes \ stale', d # t, regimes'[d].day > 0
      PROVE  \E first \in DOMAIN regimes : first <= d /\ IsAttempt(first, d)'
  <2>1. d \notin stale /\ regimes'[d] = regimes[d] /\ d \in Nat
    BY <1>1, <1>2, <1>4, <1>9
  <2>2. PICK first \in DOMAIN regimes : first <= d /\ IsAttempt(first, d)
    BY <1>9, <2>1 DEF RallyInv, Attempts
  <2>3. ~(first <= t /\ t <= d)
    <3>1. CASE d < t
      BY <1>1, <2>1, <3>1
    <3>2. CASE t < d
      <4>1. PICK y \in DOMAIN regimes : t < y /\ y <= d /\ ~(regimes[y].day > 1)
        BY <1>4, <1>9, <3>2
      <4>2. ASSUME first <= t PROVE FALSE
        <5>1. y \in Days(first, d) /\ y # first
          BY <1>1, <1>2, <2>2, <4>1, <4>2 DEF Days
        <5>2. QED
          BY <2>2, <4>1, <5>1 DEF IsAttempt
      <4>3. QED
        BY <4>2
    <3>3. QED
      BY <1>1, <1>9, <2>1, <3>1, <3>2
  <2>4. /\ Days(first, d)' = Days(first, d)
        /\ \A x \in Days(first, d) : regimes'[x] = regimes[x]
    BY <1>8, <2>3
  <2>5. first \in Days(first, d)
    BY <1>2, <2>2 DEF Days
  <2>6. IsAttempt(first, d)'
    BY <2>1, <2>2, <2>4, <2>5 DEF IsAttempt
  <2>7. QED
    BY <2>2, <2>6
<1>10. ASSUME t \notin stale', row.day > 0
       PROVE  \E first \in DOMAIN regimes' : first <= t /\ IsAttempt(first, t)'
  <2>1. row.day \in Nat /\ row.close \in Nat /\ row.close >= row.baseline
    BY <1>10 DEF Follows, RowTyped
  <2>2. CASE row.day = 1
    <3>1. Days(t, t)' = {t}
      BY <1>1, <1>2 DEF Days
    <3>2. Cardinality(Days(t, t)') = 1
      BY <3>1, FS_Singleton
    <3>3. row.baseline = row.close
      BY <1>10, <2>2 DEF Follows
    <3>4. IsAttempt(t, t)'
      BY <1>1, <2>1, <2>2, <3>1, <3>2, <3>3 DEF IsAttempt
    <3>5. QED
      BY <1>1, <3>4
  <2>3. CASE row.day > 1
    <3>1. PICK p \in DOMAIN regimes \ stale :
            Before(p, t) /\ regimes[p].day = row.day - 1 /\ regimes[p].baseline = row.baseline
      BY <1>10, <2>3 DEF Follows
    <3>2. p < t /\ p \in Nat /\ regimes[p].day > 0 /\ regimes'[p] = regimes[p] /\ p # t
      BY <1>1, <1>2, <2>1, <2>3, <3>1 DEF Before
    <3>3. p \in DOMAIN regimes \ stale'
      BY <1>6, <3>1, <3>2
    <3>4. PICK first \in DOMAIN regimes : first <= p /\ IsAttempt(first, p)'
      BY <1>9, <3>2, <3>3
    <3>5. first \in Nat /\ first < t /\ first \in Days(first, p)' /\ p \in Days(first, p)'
      BY <1>1, <1>2, <3>2, <3>4 DEF Days
    <3>6. Days(first, t)' = Days(first, p)' \cup {t} /\ t \notin Days(first, p)'
      BY <1>1, <1>2, <3>1, <3>2, <3>5 DEF Days, Before
    <3>7. IsFiniteSet(Days(first, p)')
      <4>1. IsFiniteSet(1..rallyDay)
        BY <1>1, FS_Interval
      <4>2. Days(first, p)' \in SUBSET (1..rallyDay)
        BY <1>3 DEF Days, RallyTypes
      <4>3. QED
        BY <4>1, <4>2, FS_Subset
    <3>8. Cardinality(Days(first, t)') = Cardinality(Days(first, p)') + 1
      BY <3>6, <3>7, FS_AddElement
    <3>9. /\ Cardinality(Days(first, p)') = row.day - 1
          /\ regimes'[first].day = 1 /\ row.baseline = regimes'[first].close
          /\ \A x \in Days(first, p)' : /\ regimes'[x].close >= regimes'[first].close
                                        /\ regimes'[x].baseline = regimes'[first].close
                                        /\ x # first => regimes'[x].day > 1
      BY <3>1, <3>2, <3>4, <3>5 DEF IsAttempt
    <3>10. Cardinality(Days(first, t)') = row.day
      BY <2>1, <3>8, <3>9
    <3>11. IsAttempt(first, t)'
      BY <1>1, <2>1, <2>3, <3>6, <3>9, <3>10 DEF IsAttempt
    <3>12. QED
      BY <1>1, <3>5, <3>11
  <2>4. QED
    BY <1>10, <2>1, <2>2, <2>3
<1>11. Attempts'
  <2> SUFFICES ASSUME NEW d \in DOMAIN regimes' \ stale', regimes'[d].day > 0
               PROVE  \E first \in DOMAIN regimes' : first <= d /\ IsAttempt(first, d)'
    BY DEF Attempts
  <2>1. CASE d = t
    BY <1>1, <1>10, <2>1
  <2>2. CASE d # t
    BY <1>1, <1>9, <2>2
  <2>3. QED
    BY <2>1, <2>2
<1>12. QED
  BY <1>3, <1>7, <1>11 DEF RallyInv

-----------------------------------------------------------------------------
LEMMA RowsKept ==
  ASSUME RallyInv, UNCHANGED <<regimes, stale>>
  PROVE  Chained' /\ Attempts'
<1>1. \A p, d : Before(p, d)' <=> Before(p, d)
  BY DEF Before
<1>2. Chained'
  <2> SUFFICES ASSUME NEW d \in DOMAIN regimes \ stale PROVE Follows(regimes[d], d)'
    BY DEF Chained
  <2>1. Follows(regimes[d], d)
    BY DEF RallyInv, Chained
  <2>2. QED
    BY <1>1, <2>1 DEF Follows
<1>3. \A first, d : Days(first, d)' = Days(first, d)
  BY DEF Days
<1>4. \A first, d : IsAttempt(first, d)' <=> IsAttempt(first, d)
  BY <1>3 DEF IsAttempt
<1>5. Attempts'
  BY <1>4 DEF RallyInv, Attempts
<1>6. QED
  BY <1>2, <1>5

LEMMA MarketDayInv ==
  ASSUME RallyInv, NEW bar \in [close : Closes, volume : Volumes], MarketDay(bar)
  PROVE  RallyInv'
<1>1. /\ rallyDay' = rallyDay + 1 /\ UNCHANGED <<regimes, stale>> /\ rallyDay \in Nat
      /\ bars' = [d \in 1..(rallyDay + 1) |-> IF d <= rallyDay THEN bars[d] ELSE bar]
  BY DEF MarketDay, RallyInv, RallyTypes
<1>2. bar.close \in Nat \ {0}
  BY RallyAssumption
<1>3. RallyTypes'
  <2>1. \A d \in DOMAIN bars' : bars'[d].close \in Nat \ {0}
    BY <1>1, <1>2 DEF RallyInv, RallyTypes
  <2>2. DOMAIN bars' = 1..rallyDay' /\ rallyDay' \in Nat
    BY <1>1
  <2>3. DOMAIN regimes' \subseteq 1..rallyDay'
    BY <1>1 DEF RallyInv, RallyTypes
  <2>4. QED
    BY <1>1, <2>1, <2>2, <2>3 DEF RallyInv, RallyTypes
<1>4. QED
  BY <1>1, <1>3, RowsKept DEF RallyInv

(* What the table does not accept changes nothing, nor does a row that is  *)
(* written as it was.                                                      *)
LEMMA Written ==
  ASSUME RallyInv, NEW t \in 1..rallyDay, NEW row, NEW doubtful \in BOOLEAN,
         WriteRow(t, row, doubtful),
         Accepted(row) => RowTyped(row), Accepted(row) /\ ~doubtful => Follows(row, t),
         UNCHANGED <<rallyDay, bars>>
  PROVE  RallyInv'
<1>1. CASE regimes' = regimes
  <2>1. UNCHANGED <<regimes, stale>>
    BY <1>1 DEF WriteRow
  <2>2. RallyTypes'
    BY <2>1 DEF RallyInv, RallyTypes
  <2>3. QED
    BY <2>1, <2>2, RowsKept DEF RallyInv
<1>2. CASE regimes' # regimes
  <2>1. /\ Accepted(row)
        /\ regimes' = [x \in DOMAIN regimes \cup {t} |-> IF x = t THEN row ELSE regimes[x]]
    BY <1>2 DEF WriteRow, UpsertMarketRegime
  <2>2. stale' = {x \in stale \cup CountedThrough(t) \cup {t} : x = t => doubtful}
    BY <1>2 DEF WriteRow
  <2>3. /\ stale' \ {t} = (stale \cup CountedThrough(t)) \ {t}
        /\ t \notin stale' => ~doubtful
    BY <2>2
  <2>4. QED
    BY <2>1, <2>3, WriteDay
<1>3. QED
  BY <1>1, <1>2

LEMMA SyncInv ==
  ASSUME RallyInv, NEW t \in 1..rallyDay, SyncDailyData(t)
  PROVE  RallyInv'
<1> DEFINE row == [RegimeRow(bars[t]) EXCEPT !.ratio = Ratio(t)]
<1>1. WriteRow(t, row, FALSE) /\ UNCHANGED <<rallyDay, bars>>
  BY DEF SyncDailyData
<1>2. /\ DOMAIN row = RowFields /\ row.close = bars[t].close /\ row.day = 0
      /\ row.baseline = 0 /\ row.isFtd = FALSE
  BY DEF RegimeRow, RowFields
<1>3. bars[t].close \in Nat \ {0}
  BY DEF RallyInv, RallyTypes
<1> HIDE DEF row
<1>4. RowTyped(row)
  <2>1. row.isFtd \in BOOLEAN
    BY <1>2
  <2>2. row.close \in Nat \ {0} /\ row.day \in 0..7 /\ row.baseline \in Nat
    BY <1>2, <1>3
  <2>3. QED
    BY <1>2, <2>1, <2>2 DEF RowTyped
<1>5. Follows(row, t)
  BY <1>2 DEF Follows
<1>6. QED
  BY <1>1, <1>4, <1>5, Written

-----------------------------------------------------------------------------
(* What the tracker works out for a day is a row with that day's close.    *)
LEMMA WorkedOutTyped ==
  ASSUME RallyTypes, NEW t \in DOMAIN regimes, NEW p \in DOMAIN regimes,
         NEW row \in {RallyFirstDay(t, p), NextDay(t, p)}, row.day \in 0..7
  PROVE  RowTyped(row) /\ row.close = regimes[t].close
<1> DEFINE current == regimes[t]
           prev == regimes[p]
<1>1. /\ DOMAIN current = RowFields /\ current.close \in Nat \ {0} /\ current.day \in 0..7
      /\ current.baseline \in Nat /\ current.isFtd \in BOOLEAN
      /\ prev.close \in Nat \ {0} /\ prev.day \in 0..7 /\ prev.baseline \in Nat
  BY DEF RallyTypes, RowTyped
<1>2. CASE row = RallyFirstDay(t, p)
  <2>1. \/ row = current
        \/ row = [current EXCEPT !.day = 1, !.baseline = current.close]
    BY <1>2 DEF RallyFirstDay
  <2> HIDE DEF current
  <2>2. /\ DOMAIN row = RowFields /\ row.close = current.close
        /\ row.baseline \in Nat /\ row.isFtd \in BOOLEAN
    BY <1>1, <2>1 DEF RowFields
  <2>3. QED
    BY <1>1, <2>2 DEF RowTyped, current
<1>3. CASE row = NextDay(t, p)
  <2> DEFINE s == ScoreTotal(current, prev)
             held == [current EXCEPT !.day = prev.day + 1, !.baseline = Baseline(prev)]
  <2>1. \/ row = [current EXCEPT !.day = 0, !.baseline = 0]
        \/ row = [held EXCEPT !.isFtd = TRUE, !.score = s, !.strength = Strength(s)]
        \/ row = held
    BY <1>3 DEF NextDay
  <2>2. Baseline(prev) \in Nat
    BY <1>1 DEF Baseline
  <2> HIDE DEF current, prev, s
  <2>3. /\ DOMAIN held = RowFields /\ held.close = current.close
        /\ held.baseline \in Nat /\ held.isFtd \in BOOLEAN
    BY <1>1, <2>2 DEF RowFields
  <2> HIDE DEF held
  <2>4. /\ DOMAIN row = RowFields /\ row.close = current.close
        /\ row.baseline \in Nat /\ row.isFtd \in BOOLEAN
    <3>1. CASE row = [current EXCEPT !.day = 0, !.baseline = 0]
      BY <1>1, <3>1 DEF RowFields
    <3>2. CASE row = [held EXCEPT !.isFtd = TRUE, !.score = s, !.strength = Strength(s)]
      BY <2>3, <3>2 DEF RowFields
    <3>3. CASE row = held
      BY <2>3, <3>3
    <3>4. QED
      BY <2>1, <3>1, <3>2, <3>3
  <2>5. QED
    BY <1>1, <2>4 DEF RowTyped, current
<1>4. QED
  BY <1>2, <1>3

(* If its number and that of the row before stand, the row the tracker     *)
(* works out goes with the one before.                                     *)
LEMMA WorkedOutFollows ==
  ASSUME RallyInv, NEW t \in DOMAIN regimes \ stale, NEW p \in DOMAIN regimes, Before(p, t),
         regimes[p].day > 0 => p \notin stale,
         NEW row, row = IF regimes[p].day = 0 THEN RallyFirstDay(t, p) ELSE NextDay(t, p)
  PROVE  Follows(row, t)
<1> DEFINE current == regimes[t]
           prev == regimes[p]
<1>1. \A x \in DOMAIN regimes : x \in Nat
  BY DEF RallyInv, RallyTypes
<1>2. \A q \in DOMAIN regimes : Before(q, t) => q = p
  BY <1>1 DEF Before
<1>3. /\ DOMAIN current = RowFields /\ current.close \in Nat \ {0} /\ current.day \in 0..7
      /\ current.baseline \in Nat /\ current.isFtd \in BOOLEAN
      /\ prev.close \in Nat \ {0} /\ prev.day \in 0..7 /\ prev.baseline \in Nat
  BY DEF RallyInv, RallyTypes, RowTyped
<1>4. Follows(current, t) /\ (prev.day > 0 => Follows(prev, p))
  BY DEF RallyInv, Chained
<1>5. current.isFtd => /\ current.day >= 4 /\ prev.day = current.day - 1
                       /\ prev.baseline = current.baseline /\ current.close >= prev.baseline
  BY <1>2, <1>3, <1>4 DEF Follows
<1>6. CASE prev.day = 0
  <2>1. ~current.isFtd
    BY <1>3, <1>5, <1>6
  <2>2. CASE row = current
    BY <1>4, <2>2
  <2>3. CASE row # current
    <3>1. row = [current EXCEPT !.day = 1, !.baseline = current.close]
      BY <1>6, <2>3 DEF RallyFirstDay
    <3>2. /\ DOMAIN row = RowFields /\ row.close = current.close /\ row.day = 1
          /\ row.baseline = current.close /\ row.isFtd = current.isFtd
      BY <1>3, <3>1 DEF RowFields
    <3> HIDE DEF current
    <3>3. QED
      BY <1>3, <2>1, <3>2 DEF Follows
  <2>4. QED
    BY <2>2, <2>3
<1>7. CASE prev.day # 0
  <2> DEFINE held == [current EXCEPT !.day = prev.day + 1, !.baseline = Baseline(prev)]
             s == ScoreTotal(current, prev)
  <2>1. row = IF Undercut(current, prev) THEN [current EXCEPT !.day = 0, !.baseline = 0]
              ELSE IF held.day >= 4 /\ FollowsThrough(current, prev)
              THEN [held EXCEPT !.isFtd = TRUE, !.score = s, !.strength = Strength(s)]
              ELSE held
    BY <1>7 DEF NextDay
  <2>2. Baseline(prev) = prev.baseline /\ prev.baseline > 0 /\ p \notin stale
    BY <1>3, <1>4, <1>7 DEF Baseline, Follows
  <2>3. /\ DOMAIN held = RowFields /\ held.close = current.close /\ held.day = prev.day + 1
        /\ held.baseline = prev.baseline /\ held.isFtd = current.isFtd
    BY <1>3, <2>2 DEF RowFields
  <2> HIDE DEF held, s
  <2>4. CASE Undercut(current, prev)
    <3>1. /\ DOMAIN row = RowFields /\ row.close = current.close /\ row.day = 0
          /\ row.baseline = 0 /\ row.isFtd = current.isFtd
      BY <1>3, <2>1, <2>4 DEF RowFields
    <3>2. ~current.isFtd
      BY <1>3, <1>5, <2>2, <2>4 DEF Undercut
    <3> HIDE DEF current
    <3>3. QED
      BY <1>3, <3>1, <3>2 DEF Follows
  <2>5. CASE ~Undercut(current, prev)
    <3>1. current.close >= prev.baseline
      BY <1>3, <2>2, <2>5 DEF Undercut
    <3>2. /\ DOMAIN row = RowFields /\ row.close = current.close /\ row.day = prev.day + 1
          /\ row.baseline = prev.baseline /\ row.isFtd \in BOOLEAN
          /\ row.isFtd => current.isFtd \/ row.day >= 4
      <4>1. CASE held.day >= 4 /\ FollowsThrough(current, prev)
        <5>1. row = [held EXCEPT !.isFtd = TRUE, !.score = s, !.strength = Strength(s)]
          BY <2>1, <2>5, <4>1
        <5>2. QED
          BY <2>3, <4>1, <5>1 DEF RowFields
      <4>2. CASE ~(held.day >= 4 /\ FollowsThrough(current, prev))
        <5>1. row = held
          BY <2>1, <2>5, <4>2
        <5>2. QED
          BY <1>3, <2>3, <5>1
      <4>3. QED
        BY <4>1, <4>2
    <3>3. row.isFtd => row.day >= 4
      BY <1>3, <1>5, <3>2
    <3> HIDE DEF current
    <3>4. prev.day \in Nat /\ prev.baseline \in Nat /\ prev.day # 0 /\ prev.baseline > 0
      BY <1>3, <1>7, <2>2
    <3>5. row.day > 1 /\ row.baseline \in Nat /\ row.baseline > 0 /\ row.day - 1 = prev.day
      BY <3>2, <3>4
    <3>6. \E q \in DOMAIN regimes \ stale :
            /\ Before(q, t) /\ regimes[q].day = row.day - 1
            /\ regimes[q].baseline = row.baseline
      BY <2>2, <3>2, <3>5
    <3>7. QED
      BY <3>1, <3>2, <3>3, <3>5, <3>6 DEF Follows
  <2>6. QED
    BY <2>4, <2>5
<1>8. QED
  BY <1>6, <1>7

(* The row UpdateState looks for is the one before, unless that could not  *)
(* be read.                                                                *)
LEMMA RowBefore ==
  ASSUME RallyTypes, NEW t \in DOMAIN regimes,
         NEW unread \in SUBSET {x \in DOMAIN regimes : x < t /\ x >= t - 5},
         {x \in DOMAIN regimes : x < t /\ x >= t - 5} \ unread # {}
  PROVE  LET p == Latest({x \in DOMAIN regimes : x < t /\ x >= t - 5} \ unread)
         IN  p \in DOMAIN regimes /\ (unread = {} => Before(p, t))
<1> DEFINE recent == {x \in DOMAIN regimes : x < t /\ x >= t - 5}
           p == Latest(recent \ unread)
<1>1. \A x \in DOMAIN regimes : x \in Nat
  BY DEF RallyTypes
<1>2. p \in recent /\ \A x \in recent \ unread : x <= p
  <2>1. recent \ unread \in SUBSET (1..rallyDay) /\ rallyDay \in Nat /\ recent \ unread # {}
    BY DEF RallyTypes
  <2> HIDE DEF recent
  <2>2. QED
    BY <2>1, LatestDay
<1> HIDE DEF p
<1>3. ASSUME unread = {}, NEW x \in DOMAIN regimes, p < x, x < t PROVE FALSE
  <2>1. x \in recent
    BY <1>1, <1>2, <1>3
  <2>2. x <= p
    BY <1>2, <1>3, <2>1
  <2>3. QED
    BY <1>1, <1>2, <1>3, <2>2
<1>4. p \in DOMAIN regimes /\ (unread = {} => Before(p, t))
  BY <1>2, <1>3 DEF Before
<1>5. QED
  BY <1>4 DEF p

(* The tracker writes a row that goes with the one before: a row that was  *)
(* worked out before comes out the same.                                   *)
LEMMA UpdateStateInv ==
  ASSUME RallyInv, NEW t \in DOMAIN regimes, UpdateState(t)
  PROVE  RallyInv'
<1> DEFINE recent == {x \in DOMAIN regimes : x < t /\ x >= t - 5}
<1>1. PICK unread \in SUBSET recent :
        LET prev == Latest(recent \ unread)
        IN  /\ recent \ unread # {}
            /\ WriteRow(t, IF regimes[prev].day = 0 THEN RallyFirstDay(t, prev)
                                                    ELSE NextDay(t, prev),
                        \/ t \in stale \/ unread # {}
                        \/ prev \in stale /\ regimes[prev].day > 0)
            /\ UNCHANGED <<rallyDay, bars>>
  BY DEF UpdateState
<1> DEFINE p == Latest(recent \ unread)
           row == IF regimes[p].day = 0 THEN RallyFirstDay(t, p) ELSE NextDay(t, p)
           doubtful == t \in stale \/ unread # {} \/ (p \in stale /\ regimes[p].day > 0)
<1>2. p \in DOMAIN regimes /\ (unread = {} => Before(p, t))
  BY <1>1, RowBefore DEF RallyInv
<1>3. WriteRow(t, row, doubtful) /\ UNCHANGED <<rallyDay, bars>> /\ t \in 1..rallyDay
  BY <1>1 DEF RallyInv, RallyTypes
<1> HIDE DEF p
<1>4. Accepted(row) => RowTyped(row)
  <2>1. row \in {RallyFirstDay(t, p), NextDay(t, p)}
    OBVIOUS
  <2> HIDE DEF row
  <2>2. QED
    BY <1>2, <2>1, WorkedOutTyped DEF Accepted, RallyInv
<1>5. ~doubtful => Follows(row, t)
  BY <1>2, WorkedOutFollows
<1>6. doubtful \in BOOLEAN
  OBVIOUS
<1> HIDE DEF row, doubtful
<1>7. QED
  BY <1>3, <1>4, <1>5, <1>6, Written

LEMMA RallyInvariant == RallySpec => []RallyInv
<1>1. RallyInit => RallyInv
  BY InitRally
<1>2. RallyInv /\ [RallyNext]_rallyVars => RallyInv'
  <2> SUFFICES ASSUME RallyInv, [RallyNext]_rallyVars PROVE RallyInv'
    OBVIOUS
  <2>1. CASE \E bar \in [close : Closes, volume : Volumes] : MarketDay(bar)
    BY <2>1, MarketDayInv
  <2>2. CASE \E d \in 1..rallyDay : SyncDailyData(d)
    BY <2>2, SyncInv
  <2>3. CASE \E d \in DOMAIN regimes : UpdateState(d)
    BY <2>3, UpdateStateInv
  <2>4. CASE UNCHANGED rallyVars
    <3>1. UNCHANGED <<rallyDay, bars, regimes, stale>>
      BY <2>4 DEF rallyVars
    <3>2. RallyTypes'
      BY <3>1 DEF RallyInv, RallyTypes
    <3>3. QED
      BY <3>1, <3>2, RowsKept DEF RallyInv
  <2>5. QED
    BY <2>1, <2>2, <2>3, <2>4 DEF RallyNext
<1>3. QED
  BY <1>1, <1>2, PTL DEF RallySpec

(* Whatever days the jobs miss, repeat, fill in or work out again, and for *)
(* any closes and volumes, a row on day n of an attempt is the n-th row    *)
(* from one that closed up, no row in between closed under that one, and a *)
(* follow-through day is day 4 or later (RallyAttemptTracker.UpdateState,  *)
(* SyncDailyData) -- unless the row was numbered through a row that was    *)
(* written since, or that could not be read.  Only those rows go wrong.    *)
THEOREM AttemptsUnbroken == RallySpec => []RallyUnbroken
<1>1. RallyInv => RallyUnbroken
  <2> SUFFICES ASSUME RallyInv, NEW d \in DOMAIN regimes \ stale
               PROVE  /\ regimes[d].isFtd => regimes[d].day >= 4
                      /\ regimes[d].day > 0 =>
                           \E first \in DOMAIN regimes : IsAttempt(first, d)
    BY DEF RallyUnbroken, IsAttempt, Days
  <2>1. QED
    BY DEF RallyInv, Chained, Follows, Attempts
<1>2. QED
  BY <1>1, RallyInvariant, PTL

RallyBounds ==
  /\ rallyDay <= RallyDays /\ jobFaults \in 0..MaxMissedJobs
  /\ \A d \in DOMAIN regimes : regimes[d].score \in 0..100

LEMMA TotalBounded == ASSUME NEW current, NEW prev PROVE ScoreTotal(current, prev) \in 0..100
<1> DEFINE gain == 1000 * (current.close - prev.close)
           price == IF gain >= 20 * prev.close THEN 30 ELSE IF gain >= 15 * prev.close THEN 25 ELSE 20
           volume == CASE current.ratio >= 20 -> 30 [] current.ratio \in 15..19 -> 25
                       [] current.ratio \in 12..14 -> 20 [] current.ratio = 11 -> 10 [] OTHER -> 0
<1>1. ScoreTotal(current, prev) = price + volume
  BY DEF ScoreTotal
<1>2. price \in {20, 25, 30}
  OBVIOUS
<1>3. volume \in {0, 10, 20, 25, 30}
  OBVIOUS
<1> HIDE DEF price, volume
<1>4. QED
  BY <1>1, <1>2, <1>3

(* Whatever row is written, no other row's score is touched.               *)
LEMMA ScoreUpserted ==
  ASSUME RallyInv, RallyBounds, NEW d, NEW row, row.score \in 0..100, UpsertMarketRegime(d, row)
  PROVE  \A x \in DOMAIN regimes' : regimes'[x].score \in 0..100
BY DEF UpsertMarketRegime, RallyBounds

(* The score the tracker writes is one of a follow-through, or the one the *)
(* row had.                                                                *)
LEMMA ScoreWorkedOut ==
  ASSUME RallyInv, RallyBounds, NEW t \in DOMAIN regimes, NEW p
  PROVE  RallyFirstDay(t, p).score \in 0..100 /\ NextDay(t, p).score \in 0..100
<1>1. RowTyped(regimes[t]) /\ regimes[t].score \in 0..100
  BY DEF RallyInv, RallyTypes, RallyBounds
<1>2. "score" \in DOMAIN regimes[t]
  BY <1>1 DEF RowTyped, RowFields
<1>3. RallyFirstDay(t, p).score \in 0..100
  BY <1>1, <1>2 DEF RallyFirstDay
<1>4. NextDay(t, p).score \in 0..100
  <2> DEFINE current == regimes[t]
             held == [current EXCEPT !.day = regimes[p].day + 1,
                                     !.baseline = Baseline(regimes[p])]
             total == ScoreTotal(current, regimes[p])
  <2>1. total \in 0..100
    BY TotalBounded
  <2>2. held.score = current.score /\ "score" \in DOMAIN held
    BY <1>2
  <2>3. [current EXCEPT !.day = 0, !.baseline = 0].score = current.score
    BY <1>2
  <2>4. [held EXCEPT !.isFtd = TRUE, !.score = total, !.strength = Strength(total)].score = total
    <3> HIDE DEF held, total
    <3>1. QED
      BY <2>2
  <2>5. NextDay(t, p) \in
          {held, [current EXCEPT !.day = 0, !.baseline = 0],
           [held EXCEPT !.isFtd = TRUE, !.score = total, !.strength = Strength(total)]}
    BY DEF NextDay
  <2> HIDE DEF current, held, total
  <2>6. QED
    BY <1>1, <2>1, <2>2, <2>3, <2>4, <2>5 DEF current
<1>5. QED
  BY <1>3, <1>4

LEMMA RallyBoundsStep ==
  ASSUME RallyInv, RallyBounds, [RallyNext]_rallyVars PROVE RallyBounds'
<1>0. /\ rallyDay \in Nat /\ RallyDays \in Nat /\ MaxMissedJobs \in Nat
      /\ rallyDay <= RallyDays /\ jobFaults \in 0..MaxMissedJobs
      /\ \A d \in DOMAIN regimes : regimes[d].score \in 0..100
  BY RallyAssumption DEF RallyInv, RallyTypes, RallyBounds
<1>1. CASE \E bar \in [close : Closes, volume : Volumes] : MarketDay(bar)
  BY <1>0, <1>1 DEF MarketDay, RallyBounds
<1>2. ASSUME NEW t \in 1..rallyDay, SyncDailyData(t) PROVE RallyBounds'
  <2> DEFINE row == [RegimeRow(bars[t]) EXCEPT !.ratio = Ratio(t)]
  <2>1. row.score = 0
    BY DEF RegimeRow
  <2>2. UpsertMarketRegime(t, row)
    BY <1>2 DEF SyncDailyData, WriteRow
  <2> HIDE DEF row
  <2>3. \A x \in DOMAIN regimes' : regimes'[x].score \in 0..100
    BY <2>1, <2>2, ScoreUpserted
  <2>4. rallyDay' = rallyDay /\ jobFaults' \in 0..MaxMissedJobs
    BY <1>0, <1>2 DEF SyncDailyData
  <2>5. QED
    BY <1>0, <2>3, <2>4 DEF RallyBounds
<1>3. ASSUME NEW t \in DOMAIN regimes, UpdateState(t) PROVE RallyBounds'
  <2> DEFINE recent == {x \in DOMAIN regimes : x < t /\ x >= t - 5}
  <2>1. PICK unread \in SUBSET recent :
          LET prev == Latest(recent \ unread)
          IN  /\ UpsertMarketRegime(t, IF regimes[prev].day = 0 THEN RallyFirstDay(t, prev)
                                                               ELSE NextDay(t, prev))
              /\ jobFaults' = jobFaults + Cardinality(unread)
              /\ jobFaults + Cardinality(unread) <= MaxMissedJobs /\ rallyDay' = rallyDay
    BY <1>3 DEF UpdateState, WriteRow
  <2> DEFINE p == Latest(recent \ unread)
             row == IF regimes[p].day = 0 THEN RallyFirstDay(t, p) ELSE NextDay(t, p)
  <2>2. UpsertMarketRegime(t, row)
    BY <2>1
  <2>3. row.score \in 0..100
    BY ScoreWorkedOut
  <2> HIDE DEF row
  <2>4. \A x \in DOMAIN regimes' : regimes'[x].score \in 0..100
    BY <2>2, <2>3, ScoreUpserted
  <2>5. Cardinality(unread) \in Nat
    <3>1. unread \subseteq 1..rallyDay
      BY DEF RallyInv, RallyTypes
    <3>2. IsFiniteSet(1..rallyDay)
      BY <1>0, FS_Interval
    <3>3. QED
      BY <3>1, <3>2, FS_Subset, FS_CardinalityType
  <2>6. QED
    BY <1>0, <2>1, <2>4, <2>5 DEF RallyBounds
<1>4. CASE UNCHANGED rallyVars
  BY <1>0, <1>4 DEF rallyVars, RallyBounds
<1>5. QED
  BY <1>1, <1>2, <1>3, <1>4 DEF RallyNext

(* A row's day never leaves the range the table accepts, its score the     *)
(* range of a follow-through (score.go, migration 000016).                 *)
THEOREM RallyTypeCorrect == RallySpec => []RallyTypeOK
<1>1. RallyInit => RallyBounds
  BY RallyAssumption DEF RallyInit, RallyBounds
<1>2. RallyInv /\ RallyBounds => RallyTypeOK
  BY RallyAssumption DEF RallyInv, RallyTypes, RowTyped, RallyBounds, RallyTypeOK
<1>3. QED
  BY <1>1, <1>2, RallyInvariant, RallyBoundsStep, PTL DEF RallySpec

-----------------------------------------------------------------------------
(***************************************************************************)
(* WeeklyAnalysis: any readers, bars and holidays.  The weeks a cache holds *)
(* are the weeks of the series it was read from, so what FoldLeft computes *)
(* of a series that grew has to be known: the groups end as its days end.  *)
(***************************************************************************)

(* The inductive invariant.                                                *)
DailyBar == [day : BarDays, close : BarCloses]
WeeklyTypes ==
  /\ series \in Seq(DailyBar) /\ appended \in 0..MaxAppended /\ Len(series) <= appended
  /\ readers \in [Readers -> {"idle", "aggregate", "weekly"}]
  /\ results \in [Readers -> [close : Nat, weeklyClose : Nat, weeklyBars : Nat]]
CachedWeeks == weeklySeries = NoSeries \/ weeklySeries = AggregateToWeekly(series)
ReadersHaveBars == \A c \in Readers : readers[c] # "idle" => Len(series) > 0
ReportsAgree ==
  \A c \in Readers :
    results[c].weeklyClose # 0 => results[c].weeklyClose = results[c].close

WeeklyInv == WeeklyTypes /\ CachedWeeks /\ ReadersHaveBars /\ ReportsAgree

-----------------------------------------------------------------------------
(* The function Grouped folds with, from the weeks of the first bars to    *)
(* those of all of them.                                                   *)
Grown(days, starts, weeks, i) ==
  IF i \in starts THEN Append(weeks, OneBar(days[i]))
  ELSE [weeks EXCEPT ![Len(weeks)] = Merged(@, days[i])]

IsGrouping(g, days, starts, index, n) ==
  g = [s \in SUBSET (1..n) |->
         IF s = {} THEN <<>> ELSE Grown(days, starts, g[s \ {Max(s)}], index[Max(s)])]

LEMMA LeastIndex ==
  ASSUME NEW T \in SUBSET Nat, T # {}
  PROVE  \E x \in T : \A y \in T : x <= y
<1>1. \E x \in T : \A y \in T : ~(<<y, x>> \in OpToRel(<, Nat))
  BY NatLessThanWellFounded, WFMin
<1>2. PICK x \in T : \A y \in T : ~(<<y, x>> \in OpToRel(<, Nat))
  BY <1>1
<1>3. \A y \in T : ~(y < x)
  BY <1>2 DEF OpToRel
<1>4. QED
  BY <1>3

LEMMA LastIndex ==
  ASSUME NEW n \in Nat, NEW s \in SUBSET (1..n), n \in s
  PROVE  Max(s) = n
<1>1. \A y \in s : n >= y
  OBVIOUS
<1>2. Max(s) \in s /\ \A y \in s : Max(s) >= y
  BY <1>1 DEF Max
<1>3. Max(s) \in 1..n /\ Max(s) >= n
  BY <1>2
<1>4. QED
  BY <1>3

(* The recursion has a solution: by the least number of bars for which it  *)
(* has none.                                                               *)
LEMMA GroupingExists ==
  ASSUME NEW days, NEW starts, NEW index, NEW n \in Nat
  PROVE  \E g : IsGrouping(g, days, starts, index, n)
<1> DEFINE T == {m \in Nat : ~\E g : IsGrouping(g, days, starts, index, m)}
<1>1. 0 \notin T
  <2> DEFINE g == [s \in SUBSET (1..0) |-> <<>>]
  <2>1. \A s \in SUBSET (1..0) : s = {}
    OBVIOUS
  <2>2. g = [s \in SUBSET (1..0) |->
               IF s = {} THEN <<>> ELSE Grown(days, starts, g[s \ {Max(s)}], index[Max(s)])]
    BY <2>1
  <2>3. IsGrouping(g, days, starts, index, 0)
    BY <2>2 DEF IsGrouping
  <2>4. QED
    BY <2>3
<1>2. ASSUME NEW m \in Nat, m \notin T PROVE m + 1 \notin T
  <2>1. PICK g : IsGrouping(g, days, starts, index, m)
    BY <1>2
  <2> DEFINE h == [s \in SUBSET (1..(m + 1)) |->
                     IF m + 1 \in s THEN Grown(days, starts, g[s \ {m + 1}], index[m + 1]) ELSE g[s]]
  <2>2. ASSUME NEW s \in SUBSET (1..(m + 1))
        PROVE  h[s] = IF s = {} THEN <<>> ELSE Grown(days, starts, h[s \ {Max(s)}], index[Max(s)])
    <3>1. CASE m + 1 \in s
      <4>1. Max(s) = m + 1 /\ s # {}
        BY <3>1, LastIndex
      <4>2. h[s \ {m + 1}] = g[s \ {m + 1}]
        OBVIOUS
      <4>3. h[s] = Grown(days, starts, g[s \ {m + 1}], index[m + 1])
        BY <3>1
      <4>4. QED
        BY <4>1, <4>2, <4>3
    <3>2. CASE m + 1 \notin s
      <4>1. \A x \in s : x \in 1..m
        BY <3>2
      <4>2. h[s] = g[s]
        BY <3>2
      <4>3. m + 1 \notin s \ {Max(s)} /\ s \ {Max(s)} \in SUBSET (1..(m + 1))
        BY <3>2
      <4>4. h[s \ {Max(s)}] = g[s \ {Max(s)}]
        BY <4>3
      <4>5. g[s] = IF s = {} THEN <<>> ELSE Grown(days, starts, g[s \ {Max(s)}], index[Max(s)])
        <5>1. s \in SUBSET (1..m)
          BY <4>1
        <5>2. QED
          BY <2>1, <5>1 DEF IsGrouping
      <4>6. QED
        BY <4>2, <4>4, <4>5
    <3>3. QED
      BY <3>1, <3>2
  <2>3. IsGrouping(h, days, starts, index, m + 1)
    <3>1. h = [s \in SUBSET (1..(m + 1)) |->
                 IF s = {} THEN <<>> ELSE Grown(days, starts, h[s \ {Max(s)}], index[Max(s)])]
      BY <2>2
    <3>2. QED
      BY <3>1 DEF IsGrouping
  <2>4. QED
    BY <2>3
<1>3. T = {}
  <2>1. SUFFICES ASSUME T # {} PROVE FALSE
    OBVIOUS
  <2>2. PICK x \in T : \A y \in T : x <= y
    <3> HIDE DEF T
    <3>1. T \in SUBSET Nat
      BY DEF T
    <3>2. QED
      BY <2>1, <3>1, LeastIndex
  <2>3. x \in Nat /\ x # 0
    BY <1>1
  <2>4. x - 1 \in Nat /\ x - 1 \notin T
    BY <2>2, <2>3
  <2>5. (x - 1) + 1 \notin T
    <3> HIDE DEF T
    <3> QED BY <1>2, <2>4
  <2>6. QED
    BY <2>3, <2>5
<1>4. QED
  BY <1>3

(* What Grouped computes.                                                  *)
Indices(days) == [i \in 1..Len(days) |-> i]

LEMMA GroupedBy ==
  ASSUME NEW days, NEW starts, Len(days) \in Nat
  PROVE  \E g : /\ IsGrouping(g, days, starts, Indices(days), Len(days))
                /\ Grouped(days, starts) = g[1..Len(days)]
<1> DEFINE S == 1..Len(days)
           index == [i \in S |-> i]
           g == CHOOSE g : g = [s \in SUBSET S |->
                   IF s = {} THEN <<>>
                   ELSE IF index[Max(s)] \in starts
                   THEN Append(g[s \ {Max(s)}], OneBar(days[index[Max(s)]]))
                   ELSE [g[s \ {Max(s)}] EXCEPT
                           ![Len(g[s \ {Max(s)}])] = Merged(@, days[index[Max(s)]])]]
<1>1. \E h : IsGrouping(h, days, starts, index, Len(days))
  BY GroupingExists
<1>2. IsGrouping(g, days, starts, index, Len(days))
  BY <1>1 DEF IsGrouping, Grown
<1>3. DOMAIN index = S
  OBVIOUS
<1>4. Grouped(days, starts) = g[DOMAIN index]
  BY <1>3, Zenon DEF Grouped, FoldLeft, MapThenFoldSet
<1>5. QED
  BY <1>2, <1>3, <1>4 DEF Indices


(* The last week of some bars closes where the last bar does.              *)
WeekBar == [open : Nat, high : Nat, low : Nat, close : Nat, volume : Nat]
EndsWith(weeks, bar) ==
  weeks \in Seq(WeekBar) /\ Len(weeks) > 0 /\ Last(weeks).close = bar.close

LEMMA WeekChanged ==
  ASSUME NEW week \in WeekBar, NEW h \in Nat, NEW l \in Nat, NEW c \in Nat, NEW v \in Nat
  PROVE  /\ [week EXCEPT !.high = h, !.low = l, !.close = c, !.volume = v] \in WeekBar
         /\ [week EXCEPT !.high = h, !.low = l, !.close = c, !.volume = v].close = c
BY DEF WeekBar

LEMMA MergedIsWeek ==
  ASSUME NEW week \in WeekBar, NEW bar, bar.close \in Nat
  PROVE  Merged(week, bar) \in WeekBar /\ Merged(week, bar).close = bar.close
<1>1. PICK h \in Nat : h = IF bar.close > week.high THEN bar.close ELSE week.high
  BY DEF WeekBar
<1>2. PICK l \in Nat : l = IF bar.close < week.low THEN bar.close ELSE week.low
  BY DEF WeekBar
<1>3. PICK v \in Nat : v = week.volume + 1
  BY DEF WeekBar
<1>4. Merged(week, bar)
        = [week EXCEPT !.high = h, !.low = l, !.close = bar.close, !.volume = v]
  BY <1>1, <1>2, <1>3 DEF Merged
<1> DEFINE changed == [week EXCEPT !.high = h, !.low = l, !.close = bar.close, !.volume = v]
<1>5. changed \in WeekBar
  BY WeekChanged
<1>6. changed.close = bar.close
  BY DEF WeekBar
<1>7. QED
  BY <1>4, <1>5, <1>6, Zenon

LEMMA GrownEndsWith ==
  ASSUME NEW days, NEW starts, NEW i, days[i].close \in Nat,
         NEW weeks \in Seq(WeekBar), weeks # <<>> \/ i \in starts
  PROVE  EndsWith(Grown(days, starts, weeks, i), days[i])
<1>1. CASE i \in starts
  <2> DEFINE after == Append(weeks, OneBar(days[i]))
  <2>1. OneBar(days[i]) \in WeekBar
    BY DEF OneBar, WeekBar
  <2>2. after \in Seq(WeekBar) /\ Len(after) = Len(weeks) + 1
    BY <2>1
  <2>3. Last(after) = OneBar(days[i])
    BY <2>1, <2>2 DEF Last
  <2>4. Last(after).close = days[i].close
    BY <2>3 DEF OneBar
  <2>5. Grown(days, starts, weeks, i) = after
    BY <1>1 DEF Grown
  <2>6. QED
    BY <2>2, <2>4, <2>5 DEF EndsWith
<1>2. CASE i \notin starts
  <2> DEFINE last == weeks[Len(weeks)]
             after == [weeks EXCEPT ![Len(weeks)] = Merged(last, days[i])]
  <2>1. Len(weeks) \in 1..Len(weeks)
    BY <1>2
  <2>2. last \in WeekBar
    BY <2>1
  <2>3. Merged(last, days[i]) \in WeekBar /\ Merged(last, days[i]).close = days[i].close
    <3> HIDE DEF last
    <3>1. QED
      BY <2>2, MergedIsWeek
  <2>4. after \in Seq(WeekBar) /\ Len(after) = Len(weeks)
    <3> HIDE DEF last
    <3>1. QED
      BY <2>1, <2>3
  <2>5. Last(after) = Merged(last, days[i])
    <3> HIDE DEF last
    <3>1. QED
      BY <2>1, <2>3, <2>4 DEF Last
  <2>6. Grown(days, starts, weeks, i) = after
    BY <1>2 DEF Grown
  <2>7. QED
    BY <2>3, <2>4, <2>5, <2>6 DEF EndsWith
<1>3. QED
  BY <1>1, <1>2

LEMMA GroupedEndsWith ==
  ASSUME NEW days \in Seq(DailyBar), Len(days) > 0, BarCloses \subseteq Nat,
         NEW starts, 1 \in starts
  PROVE  EndsWith(Grouped(days, starts), Last(days))
<1> DEFINE n == Len(days)
           index == Indices(days)
<1>1. PICK g : IsGrouping(g, days, starts, index, n) /\ Grouped(days, starts) = g[1..n]
  BY GroupedBy
<1>2. ASSUME NEW k \in 1..n
      PROVE  /\ index[k] = k /\ days[k].close \in Nat
             /\ g[1..k] = Grown(days, starts, g[1..(k - 1)], k)
  <2>1. index[k] = k /\ days[k].close \in Nat
    <3>1. days[k] \in DailyBar
      OBVIOUS
    <3>2. days[k].close \in BarCloses
      BY <3>1 DEF DailyBar
    <3>3. QED
      BY <3>2 DEF Indices
  <2>2. Max(1..k) = k
    BY LastIndex
  <2>3. (1..k) \ {k} = 1..(k - 1) /\ 1..k # {} /\ 1..k \in SUBSET (1..n)
    OBVIOUS
  <2>4. QED
    BY <1>1, <2>1, <2>2, <2>3 DEF IsGrouping
<1>3. g[1..0] = <<>>
  BY <1>1 DEF IsGrouping
<1> DEFINE T == {k \in 1..n : ~EndsWith(g[1..k], days[k])}
<1>4. T = {}
  <2>1. SUFFICES ASSUME T # {} PROVE FALSE
    OBVIOUS
  <2>2. PICK k \in T : \A y \in T : k <= y
    <3> HIDE DEF T
    <3>1. T \in SUBSET Nat
      BY DEF T
    <3>2. QED
      BY <2>1, <3>1, LeastIndex
  <2>3. k \in 1..n /\ days[k].close \in Nat /\ g[1..k] = Grown(days, starts, g[1..(k - 1)], k)
    BY <1>2
  <2>4. g[1..(k - 1)] \in Seq(WeekBar) /\ (g[1..(k - 1)] # <<>> \/ k \in starts)
    <3>1. CASE k = 1
      <4>1. 1..(k - 1) = 1..0
        BY <3>1
      <4>2. g[1..(k - 1)] = <<>>
        BY <1>3, <4>1
      <4>3. QED
        BY <3>1, <4>2
    <3>2. CASE k # 1
      <4>1. k - 1 \in 1..n /\ k - 1 \notin T
        BY <2>2, <2>3, <3>2
      <4>2. EndsWith(g[1..(k - 1)], days[k - 1])
        BY <4>1
      <4>3. QED
        BY <4>2 DEF EndsWith
    <3>3. QED
      BY <3>1, <3>2
  <2>5. EndsWith(g[1..k], days[k])
    <3> HIDE DEF T
    <3>1. QED
      BY <2>3, <2>4, GrownEndsWith
  <2>6. QED
    BY <2>5
<1>5. n \in 1..n /\ n \notin T
  <2> HIDE DEF T
  <2>1. QED
    BY <1>4
<1>6. EndsWith(g[1..n], days[n])
  BY <1>5
<1>7. QED
  BY <1>1, <1>6 DEF Last

LEMMA WeeksEndWith ==
  ASSUME NEW days \in Seq(DailyBar), Len(days) > 0
  PROVE  EndsWith(AggregateToWeekly(days), Last(days))
<1> DEFINE starts == {i \in DOMAIN days : i = 1 \/ IsFriday(days[i - 1].day)}
<1>1. 1 \in starts /\ BarCloses \subseteq Nat
  BY WeeklyAssumption
<1>2. QED
  <2> HIDE DEF starts
  <2>1. AggregateToWeekly(days) = Grouped(days, starts)
    BY DEF AggregateToWeekly, starts
  <2>2. QED
    BY <1>1, <2>1, GroupedEndsWith

-----------------------------------------------------------------------------
(* The invariant is inductive.                                             *)

LEMMA WeeklyInitInv == WeeklyInit => WeeklyInv
<1> SUFFICES ASSUME WeeklyInit PROVE WeeklyInv
  OBVIOUS
<1>1. series \in Seq(DailyBar) /\ Len(series) = 0
  BY DEF WeeklyInit
<1>2. appended \in 0..MaxAppended /\ Len(series) <= appended
  BY <1>1, WeeklyAssumption DEF WeeklyInit
<1>3. readers \in [Readers -> {"idle", "aggregate", "weekly"}]
  BY DEF WeeklyInit
<1>4. results \in [Readers -> [close : Nat, weeklyClose : Nat, weeklyBars : Nat]]
  BY DEF WeeklyInit, NoResult
<1>5. CachedWeeks
  BY DEF WeeklyInit, CachedWeeks
<1>6. ReadersHaveBars
  BY DEF WeeklyInit, ReadersHaveBars
<1>7. ReportsAgree
  BY DEF WeeklyInit, ReportsAgree, NoResult
<1>8. QED
  BY <1>1, <1>2, <1>3, <1>4, <1>5, <1>6, <1>7 DEF WeeklyInv, WeeklyTypes

LEMMA AppendedBars ==
  ASSUME NEW days \in Seq(DailyBar), NEW bar \in DailyBar
  PROVE  /\ Appended(days, bar) \in Seq(DailyBar)
         /\ Len(Appended(days, bar)) \in 1..(Len(days) + 1)
<1>1. CASE Window > 0 /\ Len(days) >= Window
  <2>1. Len(days) > 0
    BY <1>1, WeeklyAssumption
  <2>2. Tail(days) \in Seq(DailyBar) /\ Len(Tail(days)) = Len(days) - 1
    BY <2>1
  <2>3. QED
    BY <1>1, <2>1, <2>2 DEF Appended
<1>2. CASE ~(Window > 0 /\ Len(days) >= Window)
  BY <1>2 DEF Appended
<1>3. QED
  BY <1>1, <1>2

LEMMA AddBarKeeps ==
  ASSUME NEW day \in BarDays, NEW close \in BarCloses, WeeklyInv, AddBar(day, close)
  PROVE  WeeklyInv'
<1> DEFINE bar == [day |-> day, close |-> close]
<1> USE DEF WeeklyInv
<1>1. series' \in Seq(DailyBar) /\ Len(series') \in 1..(Len(series) + 1)
  <2>1. bar \in DailyBar
    BY DEF DailyBar
  <2>2. series' = Appended(series, bar)
    BY DEF AddBar
  <2> HIDE DEF bar
  <2>3. QED
    BY <2>1, <2>2, AppendedBars DEF WeeklyTypes
<1>2. WeeklyTypes'
  <2>1. appended' \in 0..MaxAppended /\ Len(series') <= appended'
    BY <1>1, WeeklyAssumption DEF WeeklyTypes, AddBar
  <2>2. QED
    BY <1>1, <2>1 DEF WeeklyTypes, AddBar
<1>3. CachedWeeks'
  BY DEF CachedWeeks, AddBar
<1>4. ReadersHaveBars'
  BY <1>1 DEF ReadersHaveBars, AddBar
<1>5. ReportsAgree'
  BY DEF ReportsAgree, AddBar
<1>6. QED
  BY <1>2, <1>3, <1>4, <1>5

LEMMA AnalyzeKeeps ==
  ASSUME NEW c \in Readers, WeeklyInv, Analyze(c)
  PROVE  WeeklyInv'
<1> USE DEF WeeklyInv
<1>1. readers' \in [Readers -> {"idle", "aggregate", "weekly"}]
  BY DEF WeeklyTypes, Analyze
<1>2. WeeklyTypes'
  BY <1>1 DEF WeeklyTypes, Analyze
<1>3. CachedWeeks'
  BY DEF CachedWeeks, Analyze
<1>4. ReadersHaveBars'
  <2>1. Len(series) > 0
    BY WeeklyAssumption DEF Analyze, WeeklyTypes
  <2>2. QED
    BY <2>1 DEF ReadersHaveBars, Analyze
<1>5. ReportsAgree'
  BY DEF ReportsAgree, Analyze
<1>6. QED
  BY <1>2, <1>3, <1>4, <1>5

LEMMA FillCacheKeeps ==
  ASSUME NEW c \in Readers, WeeklyInv, FillCache(c)
  PROVE  WeeklyInv'
<1> USE DEF WeeklyInv
<1>1. WeeklyTypes'
  BY DEF WeeklyTypes, FillCache
<1>2. CachedWeeks'
  BY DEF CachedWeeks, FillCache, AggregateToWeekly
<1>3. ReadersHaveBars'
  BY DEF ReadersHaveBars, WeeklyTypes, FillCache
<1>4. ReportsAgree'
  BY DEF ReportsAgree, FillCache
<1>5. QED
  BY <1>1, <1>2, <1>3, <1>4

(* The report is of the bars and the weeks that the reader finds.          *)
LEMMA WeeklyIndicatorsKeeps ==
  ASSUME NEW c \in Readers, WeeklyInv, WeeklyIndicators(c)
  PROVE  WeeklyInv'
<1> USE DEF WeeklyInv
<1> DEFINE n == Len(weeklySeries)
           last == Last(series).close
           reported == IF n < MinWeeklyBars THEN 0 ELSE Last(weeklySeries).close
           report == [close |-> last, weeklyBars |-> n, weeklyClose |-> reported]
<1>1. Len(series) > 0 /\ series \in Seq(DailyBar)
  BY DEF ReadersHaveBars, WeeklyIndicators, WeeklyTypes
<1>2. last \in Nat
  <2>1. Last(series) \in DailyBar
    BY <1>1 DEF Last
  <2>2. QED
    BY <2>1, WeeklyAssumption DEF DailyBar
<1>3. n \in Nat /\ reported \in Nat /\ (reported # 0 => reported = last)
  <2>1. CASE weeklySeries = NoSeries
    <3>1. n = 0
      BY <2>1 DEF NoSeries
    <3>2. QED
      BY <3>1, WeeklyAssumption
  <2>2. CASE weeklySeries = AggregateToWeekly(series)
    <3>1. EndsWith(weeklySeries, Last(series))
      BY <1>1, <2>2, WeeksEndWith
    <3>2. n \in Nat /\ Last(weeklySeries).close = last
      BY <3>1 DEF EndsWith
    <3>3. QED
      BY <1>2, <3>2
  <2>3. QED
    BY <2>1, <2>2 DEF CachedWeeks
<1>4. results' = [results EXCEPT ![c] = report]
  BY DEF WeeklyIndicators
<1> HIDE DEF n, last, reported
<1>5. report \in [close : Nat, weeklyClose : Nat, weeklyBars : Nat]
  BY <1>2, <1>3
<1>6. report.weeklyClose # 0 => report.weeklyClose = report.close
  BY <1>3
<1> HIDE DEF report
<1>7. WeeklyTypes'
  BY <1>4, <1>5 DEF WeeklyTypes, WeeklyIndicators
<1>8. CachedWeeks'
  BY DEF CachedWeeks, WeeklyIndicators, AggregateToWeekly
<1>9. ReadersHaveBars'
  BY DEF ReadersHaveBars, WeeklyTypes, WeeklyIndicators
<1>10. ReportsAgree'
  BY <1>4, <1>6 DEF ReportsAgree, WeeklyTypes
<1>11. QED
  BY <1>7, <1>8, <1>9, <1>10

LEMMA WeeklyStep ==
  WeeklyInv /\ [WeeklyNext]_weeklyVars => WeeklyInv'
<1> SUFFICES ASSUME WeeklyInv, [WeeklyNext]_weeklyVars PROVE WeeklyInv'
  OBVIOUS
<1>1. CASE \E day \in BarDays, close \in BarCloses : AddBar(day, close)
  BY <1>1, AddBarKeeps
<1>2. CASE \E c \in Readers : Analyze(c) \/ FillCache(c) \/ WeeklyIndicators(c)
  BY <1>2, AnalyzeKeeps, FillCacheKeeps, WeeklyIndicatorsKeeps
<1>3. CASE UNCHANGED weeklyVars
  BY <1>3 DEF weeklyVars, WeeklyInv, WeeklyTypes, CachedWeeks, ReadersHaveBars, ReportsAgree
<1>4. QED
  BY <1>1, <1>2, <1>3 DEF WeeklyNext

LEMMA WeeklyInvariant == WeeklySpec => []WeeklyInv
<1>1. QED
  BY WeeklyInitInv, WeeklyStep, PTL DEF WeeklySpec

(* However bars and analyses interleave, the cached weeks are those of the *)
(* present window, and the weekly close an analysis reports is the close   *)
(* of the last daily bar (manager.go, aggregator.go).                      *)
THEOREM WeeklyStaysCurrent == WeeklySpec => []WeeklyIsCurrent
<1>1. WeeklyInv => WeeklyIsCurrent
  BY DEF WeeklyInv, CachedWeeks, ReportsAgree, WeeklyIsCurrent
<1>2. QED
  BY <1>1, WeeklyInvariant, PTL

LEMMA SameWeeks ==
  ASSUME NEW days \in Seq(DailyBar), OneFridayBarAWeek(days)
  PROVE  AggregateToWeekly(days) = AggregateByISOWeek(days)
<1> DEFINE fridays == {i \in DOMAIN days : i = 1 \/ IsFriday(days[i - 1].day)}
           weeks == {i \in DOMAIN days : i = 1 \/ Week(days[i].day) # Week(days[i - 1].day)}
<1>1. ASSUME NEW i \in DOMAIN days, i # 1
      PROVE  IsFriday(days[i - 1].day) <=> Week(days[i].day) # Week(days[i - 1].day)
  <2>1. i - 1 \in 1..(Len(days) - 1) /\ (i - 1) + 1 = i
    BY <1>1
  <2>2. \A j \in 1..(Len(days) - 1) :
          IsFriday(days[j].day) <=> Week(days[j].day) # Week(days[j + 1].day)
    BY DEF OneFridayBarAWeek
  <2>3. IsFriday(days[i - 1].day) <=> Week(days[i - 1].day) # Week(days[(i - 1) + 1].day)
    BY <2>1, <2>2
  <2>4. QED
    BY <2>1, <2>3
<1>2. fridays = weeks
  BY <1>1
<1>3. QED
  BY <1>2 DEF AggregateToWeekly, AggregateByISOWeek

(* Where every week has one bar of its Friday, the two aggregations of the *)
(* repository give the same weeks (data/aggregator.go,                     *)
(* analysis/weekly_aggregator.go).                                         *)
THEOREM AggregationsAgree == WeeklySpec => []WeeksAgree
<1>1. WeeklyInv => WeeksAgree
  BY SameWeeks DEF WeeklyInv, WeeklyTypes, WeeksAgree
<1>2. QED
  BY <1>1, WeeklyInvariant, PTL

(* Types and bounds of the analyzer.                                       *)
THEOREM WeeklyTypeCorrect == WeeklySpec => []WeeklyTypeOK
<1>1. ASSUME WeeklyInv PROVE WeeklyTypeOK
  <2>1. ASSUME NEW i \in DOMAIN series
        PROVE  series[i].day \in BarDays /\ series[i].close \in BarCloses
    <3>1. series[i] \in DailyBar
      BY <1>1 DEF WeeklyInv, WeeklyTypes
    <3>2. QED
      BY <3>1 DEF DailyBar
  <2>2. Len(series) <= appended /\ appended <= MaxAppended
    BY <1>1, WeeklyAssumption DEF WeeklyInv, WeeklyTypes
  <2>3. \A c \in Readers : readers[c] \in {"idle", "aggregate", "weekly"}
    BY <1>1 DEF WeeklyInv, WeeklyTypes
  <2>4. QED
    BY <2>1, <2>2, <2>3 DEF WeeklyTypeOK
<1>2. QED
  BY <1>1, WeeklyInvariant, PTL

-----------------------------------------------------------------------------
(***************************************************************************)
(* Signals: any list of symbols, charts, providers and windows.            *)
(***************************************************************************)

(* What every signal found is, and a list of such signals.                 *)
Scored(r) ==
  /\ r.symbol \in ToSet(ScannedSymbols) /\ r.direction \in {"long", "short"}
  /\ r.confidence \in {"Very High", "High", "Moderate", "Low"}
  /\ r.type \in {"Pullback", "Breakout", "Crossover", "MeanReversion"}

IsList(s) == s \in Seq(ToSet(s))
AllScored(s) == IsList(s) /\ \A i \in DOMAIN s : Scored(s[i])

LEMMA ListLen ==
  ASSUME NEW s, IsList(s)
  PROVE  Len(s) \in Nat /\ DOMAIN s = 1..Len(s)
BY DEF IsList

LEMMA NoSignal == AllScored(<<>>)
BY DEF AllScored, IsList

LEMMA OneSignal ==
  ASSUME NEW r, Scored(r)
  PROVE  AllScored(<<r>>)
<1> DEFINE s == <<r>>
<1>1. DOMAIN s = 1..1 /\ s[1] = r
  OBVIOUS
<1>2. r \in ToSet(s)
  BY <1>1 DEF ToSet
<1>3. s \in Seq(ToSet(s))
  BY <1>2
<1> HIDE DEF s
<1>4. AllScored(s)
  BY <1>1, <1>3 DEF AllScored, IsList
<1>5. QED
  BY <1>4 DEF s

LEMMA Joined ==
  ASSUME NEW s, NEW t, AllScored(s), AllScored(t)
  PROVE  AllScored(s \o t)
<1> DEFINE U == ToSet(s) \cup ToSet(t)
           m == Len(s)
           n == Len(t)
           j == s \o t
<1>1. ToSet(s) \subseteq U /\ ToSet(t) \subseteq U /\ s \in Seq(ToSet(s)) /\ t \in Seq(ToSet(t))
  BY DEF AllScored, IsList
<1> HIDE DEF U
<1>2. s \in Seq(U) /\ t \in Seq(U)
  BY <1>1
<1>3. /\ m \in Nat /\ n \in Nat /\ DOMAIN s = 1..m /\ DOMAIN t = 1..n
      /\ Len(j) = m + n /\ DOMAIN j = 1..(m + n)
      /\ \A i \in 1..m : j[i] = s[i]
      /\ \A i \in (m + 1)..(m + n) : j[i] = t[i - m]
  BY <1>2
<1> HIDE DEF j, m, n
<1>4. \A i \in DOMAIN j : Scored(j[i])
  <2> SUFFICES ASSUME NEW i \in 1..(m + n) PROVE Scored(j[i])
    BY <1>3
  <2>1. CASE i \in 1..m
    BY <1>3, <2>1 DEF AllScored
  <2>2. CASE i \notin 1..m
    <3>1. i \in (m + 1)..(m + n) /\ i - m \in 1..n
      BY <1>3, <2>2
    <3>2. QED
      BY <1>3, <3>1 DEF AllScored
  <2>3. QED
    BY <2>1, <2>2
<1>5. j \in Seq(ToSet(j))
  <2>1. j \in Seq(U)
    BY <1>2 DEF j
  <2>2. \A i \in 1..Len(j) : j[i] \in ToSet(j)
    BY <1>3 DEF ToSet
  <2>3. QED
    BY <2>1, <2>2
<1>6. QED
  BY <1>4, <1>5 DEF AllScored, IsList, j

(* Each detector finds nothing, or one signal for the symbol it is given.  *)
LEMMA PullbackScored ==
  ASSUME NEW symbol \in ToSet(ScannedSymbols), NEW chart
  PROVE  AllScored(PullbackSignal(symbol, chart))
<1>1. ASSUME NEW stop, NEW c \in {"Very High", "High", "Moderate"}
      PROVE  AllScored(<<Signal(symbol, "Pullback", chart, stop, "long", c)>>)
  <2>1. Scored(Signal(symbol, "Pullback", chart, stop, "long", c))
    BY DEF Signal, Scored
  <2>2. QED
    BY <2>1, OneSignal
<1>2. QED
  BY <1>1, NoSignal DEF PullbackSignal

LEMMA BreakoutScored ==
  ASSUME NEW symbol \in ToSet(ScannedSymbols), NEW chart, NEW percentile
  PROVE  AllScored(BreakoutSignal(symbol, chart, percentile))
<1>1. ASSUME NEW stop, NEW c \in {"High", "Moderate"}
      PROVE  AllScored(<<Signal(symbol, "Breakout", chart, stop, "long", c)>>)
  <2>1. Scored(Signal(symbol, "Breakout", chart, stop, "long", c))
    BY DEF Signal, Scored
  <2>2. QED
    BY <2>1, OneSignal
<1>2. QED
  BY <1>1, NoSignal DEF BreakoutSignal

LEMMA CrossoverScored ==
  ASSUME NEW symbol \in ToSet(ScannedSymbols), NEW chart, NEW known
  PROVE  AllScored(CrossoverSignal(symbol, chart, known))
<1>1. CrossoverConfidence(chart) \in {"Very High", "Moderate", "Low"}
  BY DEF CrossoverConfidence
<1>2. ASSUME NEW stop, NEW c \in {"Very High", "Moderate", "Low"}
      PROVE  AllScored(<<Signal(symbol, "Crossover", chart, stop, "long", c)>>)
  <2>1. Scored(Signal(symbol, "Crossover", chart, stop, "long", c))
    BY DEF Signal, Scored
  <2>2. QED
    BY <2>1, OneSignal
<1>3. QED
  BY <1>1, <1>2, NoSignal DEF CrossoverSignal

LEMMA MeanReversionScored ==
  ASSUME NEW symbol \in ToSet(ScannedSymbols), NEW provider, NEW chart, NEW sr
  PROVE  AllScored(MeanReversionSignal(symbol, provider, chart, sr))
<1> DEFINE way == Direction(Current(chart).c, sr)
<1>1. way \in {"long", "short", "none"}
  BY DEF Direction
<1>2. ASSUME NEW stop, NEW w \in {"long", "short"}, NEW c \in {"High", "Moderate"}
      PROVE  AllScored(<<Signal(symbol, "MeanReversion", chart, stop, w, c)>>)
  <2>1. Scored(Signal(symbol, "MeanReversion", chart, stop, w, c))
    BY DEF Signal, Scored
  <2>2. QED
    BY <2>1, OneSignal
<1>3. QED
  BY <1>1, <1>2, NoSignal DEF MeanReversionSignal

LEMMA SignalsScored ==
  ASSUME NEW symbol \in ToSet(ScannedSymbols), NEW provider, NEW chart, NEW sr
  PROVE  AllScored(SignalsOf(symbol, provider, chart, sr))
<1> DEFINE a == PullbackSignal(symbol, chart)
           b == BreakoutSignal(symbol, chart, GetVolumePercentile(provider, chart))
           c == CrossoverSignal(symbol, chart, HasSeries(provider))
           d == MeanReversionSignal(symbol, provider, chart, sr)
<1>1. AllScored(a) /\ AllScored(b) /\ AllScored(c) /\ AllScored(d)
  BY PullbackScored, BreakoutScored, CrossoverScored, MeanReversionScored
<1>2. SignalsOf(symbol, provider, chart, sr) = ((a \o b) \o c) \o d
  BY DEF SignalsOf
<1> HIDE DEF a, b, c, d
<1>3. AllScored(a \o b)
  BY <1>1, Joined
<1>4. AllScored((a \o b) \o c)
  BY <1>1, <1>3, Joined
<1>5. QED
  BY <1>1, <1>2, <1>4, Joined

(* Ranks are numbers, confidence before type.                              *)
Rank(r) == 10 * ConfidenceToScore(r.confidence) + SignalTypeToScore(r.type)

LEMMA RankOrders ==
  ASSUME NEW a, NEW b, Scored(a), Scored(b)
  PROVE  Rank(a) \in Int /\ (ShouldSwap(a, b) <=> Rank(b) > Rank(a))
<1>1. ASSUME NEW r, Scored(r)
      PROVE  ConfidenceToScore(r.confidence) \in 1..4 /\ SignalTypeToScore(r.type) \in 1..4
  <2>1. /\ ConfidenceToScore("Very High") = 4 /\ ConfidenceToScore("High") = 3
        /\ ConfidenceToScore("Moderate") = 2 /\ ConfidenceToScore("Low") = 1
    BY DEF ConfidenceToScore
  <2>2. /\ SignalTypeToScore("Pullback") = 4 /\ SignalTypeToScore("Breakout") = 3
        /\ SignalTypeToScore("Crossover") = 2 /\ SignalTypeToScore("MeanReversion") = 1
    BY DEF SignalTypeToScore
  <2>3. ConfidenceToScore(r.confidence) \in 1..4
    <3>1. r.confidence \in {"Very High", "High", "Moderate", "Low"}
      BY <1>1 DEF Scored
    <3>2. \A c \in {"Very High", "High", "Moderate", "Low"} : ConfidenceToScore(c) \in {1, 2, 3, 4}
      BY <2>1, Zenon
    <3>3. ConfidenceToScore(r.confidence) \in {1, 2, 3, 4}
      BY <3>1, <3>2, Zenon
    <3>4. QED
      BY <3>3
  <2>4. SignalTypeToScore(r.type) \in 1..4
    <3>1. r.type \in {"Pullback", "Breakout", "Crossover", "MeanReversion"}
      BY <1>1 DEF Scored
    <3>2. \A t \in {"Pullback", "Breakout", "Crossover", "MeanReversion"} :
            SignalTypeToScore(t) \in {1, 2, 3, 4}
      BY <2>2, Zenon
    <3>3. QED
      BY <3>1, <3>2
  <2>5. QED
    BY <2>3, <2>4
<1>2. PICK ca, ta, cb, tb \in 1..4 :
        /\ ca = ConfidenceToScore(a.confidence) /\ ta = SignalTypeToScore(a.type)
        /\ cb = ConfidenceToScore(b.confidence) /\ tb = SignalTypeToScore(b.type)
  BY <1>1
<1>3. (cb > ca \/ (cb = ca /\ tb > ta)) <=> 10 * cb + tb > 10 * ca + ta
  OBVIOUS
<1>4. QED
  BY <1>2, <1>3 DEF Rank, ShouldSwap

(* The inductive invariant.  What RankSignals has placed stays placed; the *)
(* best of those it has looked at for the next place is in that place.     *)
ScanRecord ==
  [at : {"scan", "rank", "done", "panic"}, provider : Providers,
   left : Seq(ToSet(ScannedSymbols)), i : Nat, j : Nat]

SignalTypes ==
  /\ scan \in ScanRecord /\ AllScored(found) /\ AllScored(ranked)
  /\ scan.at = "rank" => 1 <= scan.i /\ scan.i < scan.j /\ scan.j <= Len(ranked)

PlacedUpTo(s, i, j) ==
  /\ \A a, b \in DOMAIN s : a < i /\ a < b => Rank(s[a]) >= Rank(s[b])
  /\ \A b \in DOMAIN s : i < b /\ b < j => Rank(s[i]) >= Rank(s[b])

RankedSoFar ==
  /\ scan.at = "rank" => PlacedUpTo(ranked, scan.i, scan.j)
  /\ scan.at = "done" => \A a, b \in DOMAIN ranked : a < b => Rank(ranked[a]) >= Rank(ranked[b])

Reordered(s, t) ==
  \E p \in [DOMAIN t -> DOMAIN t] :
    /\ \A a, b \in DOMAIN t : p[a] = p[b] => a = b
    /\ DOMAIN s = DOMAIN t /\ \A a \in DOMAIN s : s[a] = t[p[a]]

NoneLost == scan.at \in {"rank", "done"} => Reordered(ranked, found)

SignalsInv == SignalTypes /\ RankedSoFar /\ NoneLost

Exchanged(s, i, j) == [s EXCEPT ![i] = s[j], ![j] = s[i]]

LEMMA ExchangedIs ==
  ASSUME NEW s, AllScored(s), NEW i \in DOMAIN s, NEW j \in DOMAIN s, i # j
  PROVE  /\ DOMAIN Exchanged(s, i, j) = DOMAIN s /\ Len(Exchanged(s, i, j)) = Len(s)
         /\ Exchanged(s, i, j)[i] = s[j] /\ Exchanged(s, i, j)[j] = s[i]
         /\ \A k \in DOMAIN s : k # i /\ k # j => Exchanged(s, i, j)[k] = s[k]
         /\ AllScored(Exchanged(s, i, j))
<1> DEFINE e == Exchanged(s, i, j)
<1>1. s \in Seq(ToSet(s)) /\ DOMAIN s = 1..Len(s) /\ Len(s) \in Nat
  BY DEF AllScored, IsList
<1>2. s[i] \in ToSet(s) /\ s[j] \in ToSet(s)
  BY DEF ToSet
<1>3. e \in Seq(ToSet(s)) /\ Len(e) = Len(s) /\ DOMAIN e = DOMAIN s
  BY <1>1, <1>2 DEF Exchanged
<1>4. /\ e[i] = s[j] /\ e[j] = s[i]
      /\ \A k \in DOMAIN s : k # i /\ k # j => e[k] = s[k]
  BY <1>1 DEF Exchanged
<1> HIDE DEF e
<1>5. \A k \in DOMAIN e : Scored(e[k])
  BY <1>3, <1>4 DEF AllScored
<1>6. e \in Seq(ToSet(e))
  <2>1. \A k \in 1..Len(e) : e[k] \in ToSet(e)
    BY <1>1, <1>3 DEF ToSet
  <2>2. QED
    BY <1>3, <2>1
<1>7. AllScored(e)
  BY <1>5, <1>6 DEF AllScored, IsList
<1>8. QED
  BY <1>3, <1>4, <1>7 DEF e

LEMMA ExchangedReordered ==
  ASSUME NEW s, NEW t, AllScored(s), Reordered(s, t),
         NEW i \in DOMAIN s, NEW j \in DOMAIN s, i # j
  PROVE  Reordered(Exchanged(s, i, j), t)
<1>1. PICK p \in [DOMAIN t -> DOMAIN t] :
        /\ \A a, b \in DOMAIN t : p[a] = p[b] => a = b
        /\ DOMAIN s = DOMAIN t /\ \A a \in DOMAIN s : s[a] = t[p[a]]
  BY DEF Reordered
<1> DEFINE q == [p EXCEPT ![i] = p[j], ![j] = p[i]]
           e == Exchanged(s, i, j)
<1>2. /\ q \in [DOMAIN t -> DOMAIN t] /\ q[i] = p[j] /\ q[j] = p[i]
      /\ \A k \in DOMAIN t : k # i /\ k # j => q[k] = p[k]
  BY <1>1
<1>3. /\ DOMAIN e = DOMAIN s /\ e[i] = s[j] /\ e[j] = s[i]
      /\ \A k \in DOMAIN s : k # i /\ k # j => e[k] = s[k]
  BY ExchangedIs
<1> HIDE DEF q, e
<1>4. \A a, b \in DOMAIN t : q[a] = q[b] => a = b
  BY <1>1, <1>2
<1>5. \A a \in DOMAIN e : e[a] = t[q[a]]
  BY <1>1, <1>2, <1>3
<1>6. Reordered(e, t)
  BY <1>1, <1>2, <1>3, <1>4, <1>5 DEF Reordered
<1>7. QED
  BY <1>6 DEF e

(* One comparison: the better of the two comes first.                      *)
LEMMA PlacedOneMore ==
  ASSUME NEW s, AllScored(s), NEW i \in DOMAIN s, NEW j \in DOMAIN s, i < j, PlacedUpTo(s, i, j),
         NEW e, e = IF ShouldSwap(s[i], s[j]) THEN Exchanged(s, i, j) ELSE s
  PROVE  PlacedUpTo(e, i, j + 1)
<1>1. DOMAIN s \subseteq Int /\ \A k \in DOMAIN s : Scored(s[k]) /\ Rank(s[k]) \in Int
  BY ListLen, RankOrders DEF AllScored
<1>2. CASE ~ShouldSwap(s[i], s[j])
  <2>1. e = s /\ Rank(s[i]) >= Rank(s[j])
    BY <1>1, <1>2, RankOrders
  <2>2. QED
    BY <1>1, <2>1 DEF PlacedUpTo
<1>3. CASE ShouldSwap(s[i], s[j])
  <2>1. Rank(s[j]) > Rank(s[i]) /\ e = Exchanged(s, i, j)
    BY <1>1, <1>3, RankOrders
  <2>2. /\ DOMAIN e = DOMAIN s /\ e[i] = s[j] /\ e[j] = s[i]
        /\ \A k \in DOMAIN s : k # i /\ k # j => e[k] = s[k]
    BY <1>1, <2>1, ExchangedIs
  <2>3. ASSUME NEW a \in DOMAIN e, NEW b \in DOMAIN e, a < i, a < b PROVE Rank(e[a]) >= Rank(e[b])
    <3>1. e[a] = s[a] /\ a # i /\ a # j
      BY <1>1, <2>2, <2>3
    <3>2. Rank(s[a]) >= Rank(s[i]) /\ Rank(s[a]) >= Rank(s[j])
      BY <1>1, <2>2, <2>3 DEF PlacedUpTo
    <3>3. b # i /\ b # j => Rank(s[a]) >= Rank(s[b])
      BY <2>2, <2>3 DEF PlacedUpTo
    <3>4. QED
      BY <2>2, <3>1, <3>2, <3>3
  <2>4. ASSUME NEW b \in DOMAIN e, i < b, b < j + 1 PROVE Rank(e[i]) >= Rank(e[b])
    <3>1. CASE b = j
      BY <1>1, <2>1, <2>2, <3>1
    <3>2. CASE b # j
      <4>1. b < j /\ b # i /\ e[b] = s[b]
        BY <1>1, <2>2, <2>4, <3>2
      <4>2. Rank(s[i]) >= Rank(s[b])
        BY <2>2, <2>4, <4>1 DEF PlacedUpTo
      <4>3. QED
        BY <1>1, <2>1, <2>2, <4>1, <4>2
    <3>3. QED
      BY <3>1, <3>2
  <2>5. QED
    BY <2>3, <2>4 DEF PlacedUpTo
<1>4. QED
  BY <1>2, <1>3

LEMMA RankStepInv ==
  ASSUME SignalsInv, RankStep
  PROVE  SignalsInv'
<1> DEFINE i == scan.i
           j == scan.j
           n == Len(ranked)
<1>1. /\ scan.at = "rank" /\ scan \in ScanRecord /\ i \in Nat /\ j \in Nat
      /\ 1 <= i /\ i < j /\ j <= n /\ AllScored(ranked) /\ PlacedUpTo(ranked, i, j)
      /\ Reordered(ranked, found) /\ UNCHANGED found /\ AllScored(found)
  BY DEF RankStep, SignalsInv, SignalTypes, RankedSoFar, NoneLost, ScanRecord
<1>2. n \in Nat /\ DOMAIN ranked = 1..n
  BY <1>1, ListLen DEF AllScored
<1>3. /\ ranked' = IF ShouldSwap(ranked[i], ranked[j]) THEN Exchanged(ranked, i, j) ELSE ranked
      /\ scan' = IF j < n THEN [scan EXCEPT !.j = j + 1]
                 ELSE IF i + 1 < n THEN [scan EXCEPT !.i = i + 1, !.j = i + 2]
                 ELSE [scan EXCEPT !.at = "done"]
  BY DEF RankStep, Exchanged
<1> HIDE DEF i, j, n
<1>4. i \in DOMAIN ranked /\ j \in DOMAIN ranked /\ i # j
  BY <1>1, <1>2
<1>5. AllScored(ranked') /\ DOMAIN ranked' = 1..n /\ Len(ranked') = n
  BY <1>1, <1>2, <1>3, <1>4, ExchangedIs DEF n
<1>6. Reordered(ranked', found)
  BY <1>1, <1>3, <1>4, ExchangedReordered
<1>7. PlacedUpTo(ranked', i, j + 1)
  BY <1>1, <1>3, <1>4, PlacedOneMore
<1>8. CASE j < n
  <2>1. scan' = [scan EXCEPT !.j = j + 1]
    BY <1>3, <1>8
  <2>2. scan' \in ScanRecord /\ scan'.at = "rank" /\ scan'.i = i /\ scan'.j = j + 1
    BY <1>1, <2>1 DEF ScanRecord, i
  <2>3. SignalTypes'
    BY <1>1, <1>2, <1>5, <1>8, <2>2 DEF SignalTypes
  <2>4. QED
    BY <1>1, <1>6, <1>7, <2>2, <2>3 DEF SignalsInv, RankedSoFar, NoneLost
<1>9. CASE ~(j < n)
  <2>1. \A a, b \in DOMAIN ranked' : a < i + 1 /\ a < b => Rank(ranked'[a]) >= Rank(ranked'[b])
    <3>1. SUFFICES ASSUME NEW a \in 1..n, NEW b \in 1..n, a < i + 1, a < b
                   PROVE  Rank(ranked'[a]) >= Rank(ranked'[b])
      BY <1>5
    <3>2. CASE a < i
      BY <1>5, <1>7, <3>1, <3>2 DEF PlacedUpTo
    <3>3. CASE a = i
      <4>1. b < j + 1
        BY <1>1, <1>2, <1>9
      <4>2. QED
        BY <1>5, <1>7, <3>1, <3>3, <4>1 DEF PlacedUpTo
    <3>4. QED
      BY <1>1, <3>1, <3>2, <3>3
  <2>2. CASE i + 1 < n
    <3>1. scan' = [scan EXCEPT !.i = i + 1, !.j = i + 2]
      BY <1>3, <1>9, <2>2
    <3>2. scan' \in ScanRecord /\ scan'.at = "rank" /\ scan'.i = i + 1 /\ scan'.j = i + 2
      <4>1. i + 1 \in Nat /\ i + 2 \in Nat
        BY <1>1
      <4>2. QED
        BY <1>1, <3>1, <4>1 DEF ScanRecord
    <3>3. PlacedUpTo(ranked', i + 1, i + 2)
      <4>1. \A b \in DOMAIN ranked' : ~(i + 1 < b /\ b < i + 2)
        BY <1>1, <1>5
      <4>2. QED
        BY <2>1, <4>1 DEF PlacedUpTo
    <3>4. SignalTypes'
      BY <1>1, <1>2, <1>5, <2>2, <3>2 DEF SignalTypes
    <3>5. QED
      BY <1>1, <1>6, <3>2, <3>3, <3>4 DEF SignalsInv, RankedSoFar, NoneLost
  <2>3. CASE ~(i + 1 < n)
    <3>1. scan' = [scan EXCEPT !.at = "done"]
      BY <1>3, <1>9, <2>3
    <3>2. scan' \in ScanRecord /\ scan'.at = "done"
      <4>1. scan \in ScanRecord
        BY <1>1
      <4>2. QED
        BY <3>1, <4>1 DEF ScanRecord
    <3>3. \A a, b \in DOMAIN ranked' : a < b => Rank(ranked'[a]) >= Rank(ranked'[b])
      <4>1. \A a, b \in 1..n : a < b => a < i + 1
        BY <1>1, <1>2, <2>3
      <4>2. QED
        BY <1>5, <2>1, <4>1
    <3>4. SignalTypes'
      BY <1>1, <1>5, <3>2 DEF SignalTypes
    <3>5. QED
      BY <1>1, <1>6, <3>2, <3>3, <3>4 DEF SignalsInv, RankedSoFar, NoneLost
  <2>4. QED
    BY <2>2, <2>3
<1>10. QED
  BY <1>8, <1>9

LEMMA SignalsStep ==
  ASSUME SignalsInv, [SignalsNext]_signalVars
  PROVE  SignalsInv'
<1>1. scan \in ScanRecord /\ AllScored(found) /\ AllScored(ranked)
  BY DEF SignalsInv, SignalTypes
<1>2. CASE ScanSymbol
  <2> DEFINE symbol == Head(scan.left)
             chart == GetDailyData(scan.provider, charts[symbol])
  <2>1. /\ scan.at = "scan" /\ scan.left # <<>> /\ UNCHANGED ranked
        /\ symbol \in ToSet(ScannedSymbols) /\ Tail(scan.left) \in Seq(ToSet(ScannedSymbols))
    <3>1. scan.left \in Seq(ToSet(ScannedSymbols))
      BY <1>1 DEF ScanRecord
    <3>2. scan.at = "scan" /\ scan.left # <<>> /\ UNCHANGED ranked
      BY <1>2 DEF ScanSymbol
    <3>3. QED
      BY <3>1, <3>2
  <2>2. CASE Panics(scan.provider, chart)
    <3>1. scan' = [scan EXCEPT !.at = "panic"] /\ UNCHANGED found
      BY <1>2, <2>2 DEF ScanSymbol
    <3>2. scan' \in ScanRecord /\ scan'.at = "panic"
      BY <1>1, <3>1 DEF ScanRecord
    <3>3. QED
      BY <1>1, <2>1, <3>1, <3>2 DEF SignalsInv, SignalTypes, RankedSoFar, NoneLost
  <2>3. CASE ~Panics(scan.provider, chart)
    <3>1. scan' = [scan EXCEPT !.left = Tail(@)]
      BY <1>2, <2>3 DEF ScanSymbol
    <3>2. PICK sr : found' = found \o SignalsOf(symbol, scan.provider, chart, sr)
      BY <1>2, <2>3 DEF ScanSymbol
    <3>3. scan' \in ScanRecord /\ scan'.at = "scan"
      BY <1>1, <2>1, <3>1 DEF ScanRecord
    <3>4. AllScored(found')
      <4> HIDE DEF symbol, chart
      <4>1. QED
        BY <1>1, <2>1, <3>2, SignalsScored, Joined
    <3>5. QED
      BY <1>1, <2>1, <3>3, <3>4 DEF SignalsInv, SignalTypes, RankedSoFar, NoneLost
  <2>4. QED
    BY <2>2, <2>3
<1>3. CASE SymbolUnavailable
  <2>1. /\ scan.at = "scan" /\ scan.left # <<>> /\ scan' = [scan EXCEPT !.left = Tail(@)]
        /\ UNCHANGED <<found, ranked>>
    BY <1>3 DEF SymbolUnavailable
  <2>2. scan' \in ScanRecord /\ scan'.at = "scan"
    <3>1. Tail(scan.left) \in Seq(ToSet(ScannedSymbols))
      <4>1. scan.left \in Seq(ToSet(ScannedSymbols))
        BY <1>1 DEF ScanRecord
      <4>2. QED
        BY <2>1, <4>1
    <3>2. QED
      BY <1>1, <2>1, <3>1 DEF ScanRecord
  <2>3. QED
    BY <1>1, <2>1, <2>2 DEF SignalsInv, SignalTypes, RankedSoFar, NoneLost
<1>4. CASE StartRanking
  <2>1. /\ ranked' = found /\ UNCHANGED found
        /\ scan' = [scan EXCEPT !.at = IF Len(found) < 2 THEN "done" ELSE "rank",
                                !.i = 1, !.j = 2]
    BY <1>4 DEF StartRanking
  <2>2. Len(found) \in Nat /\ DOMAIN found = 1..Len(found)
    BY <1>1, ListLen DEF AllScored
  <2>3. scan' \in ScanRecord /\ scan'.i = 1 /\ scan'.j = 2
        /\ scan'.at = IF Len(found) < 2 THEN "done" ELSE "rank"
    BY <1>1, <2>1 DEF ScanRecord
  <2>4. SignalTypes'
    BY <1>1, <2>1, <2>2, <2>3 DEF SignalTypes
  <2>5. Reordered(found, found)
    <3> DEFINE p == [k \in DOMAIN found |-> k]
    <3>1. p \in [DOMAIN found -> DOMAIN found] /\ \A k \in DOMAIN found : p[k] = k
      OBVIOUS
    <3> HIDE DEF p
    <3>2. QED
      BY <3>1 DEF Reordered
  <2>6. PlacedUpTo(found, 1, 2)
    BY <2>2 DEF PlacedUpTo
  <2>7. scan'.at = "done" => \A a, b \in DOMAIN found : ~(a < b)
    BY <2>2, <2>3
  <2>8. QED
    BY <2>1, <2>3, <2>4, <2>5, <2>6, <2>7 DEF SignalsInv, RankedSoFar, NoneLost
<1>5. CASE RankStep
  BY <1>5, RankStepInv
<1>6. CASE UNCHANGED signalVars
  BY <1>6 DEF signalVars, SignalsInv, SignalTypes, RankedSoFar, NoneLost
<1>7. QED
  BY <1>2, <1>3, <1>4, <1>5, <1>6 DEF SignalsNext

LEMMA InitSignals == SignalsInit => SignalsInv
<1> SUFFICES ASSUME SignalsInit PROVE SignalsInv
  OBVIOUS
<1>1. PICK p \in Providers :
        scan = [at |-> "scan", provider |-> p, left |-> ScannedSymbols, i |-> 0, j |-> 0]
  BY DEF SignalsInit
<1>2. scan \in ScanRecord /\ scan.at = "scan"
  BY <1>1, SignalsAssumption DEF ScanRecord
<1>3. found = <<>> /\ ranked = <<>>
  BY DEF SignalsInit
<1>4. QED
  BY <1>2, <1>3, NoSignal DEF SignalsInv, SignalTypes, RankedSoFar, NoneLost

LEMMA SignalsInvariant == SignalsSpec => []SignalsInv
BY InitSignals, SignalsStep, PTL DEF SignalsSpec

(* Whatever charts a scan is given, through whichever provider, a signal   *)
(* names a symbol of the scan and says long or short (the detectors of     *)
(* internal/signals).                                                      *)
THEOREM SignalsTypeCorrect == SignalsSpec => []SignalsTypeOK
<1>1. SignalsInv => SignalsTypeOK
  BY DEF SignalsInv, SignalTypes, ScanRecord, AllScored, Scored, SignalsTypeOK
<1>2. QED
  BY <1>1, SignalsInvariant, PTL

(* What a scan returns: every signal that was found, once, in an order no  *)
(* exchange would improve.                                                 *)
RankingSorts ==
  scan.at = "done" =>
    /\ Reordered(ranked, found)
    /\ \A a, b \in DOMAIN ranked : a < b => ~ShouldSwap(ranked[a], ranked[b])

(* RankSignals, exchange by exchange and pass by pass, leaves every signal *)
(* that was found, once, and none before one it should be swapped with     *)
(* (scanner.go), for any signals, of equal strength too.                   *)
THEOREM SignalsRanked == SignalsSpec => []RankingSorts
<1>1. SignalsInv => RankingSorts
  <2> SUFFICES ASSUME SignalsInv, scan.at = "done"
               PROVE  /\ Reordered(ranked, found)
                      /\ \A a, b \in DOMAIN ranked : a < b => ~ShouldSwap(ranked[a], ranked[b])
    BY DEF RankingSorts
  <2>1. Reordered(ranked, found) /\ AllScored(ranked)
    BY DEF SignalsInv, SignalTypes, NoneLost
  <2>2. ASSUME NEW a \in DOMAIN ranked, NEW b \in DOMAIN ranked, a < b
        PROVE  ~ShouldSwap(ranked[a], ranked[b])
    <3>1. Rank(ranked[a]) >= Rank(ranked[b])
      BY <2>2 DEF SignalsInv, RankedSoFar
    <3>2. Scored(ranked[a]) /\ Scored(ranked[b])
      BY <2>1 DEF AllScored
    <3>3. QED
      BY <3>1, <3>2, RankOrders
  <2>3. QED
    BY <2>1, <2>2
<1>2. QED
  BY <1>1, SignalsInvariant, PTL
=============================================================================

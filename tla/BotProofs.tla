----------------------------- MODULE BotProofs ------------------------------
(***************************************************************************)
(* Proofs about the Telegram flows: ImportFlow and OtpFlow, for any        *)
(* symbols, documents, commands, chats, passwords and failures.            *)
(***************************************************************************)
EXTENDS ImportFlow, OtpFlow, TLAPS

-----------------------------------------------------------------------------
(***************************************************************************)
(* ImportFlow: any symbols, documents and commands.                        *)
(***************************************************************************)

(* What a further command leaves of the ones before it.                    *)
LEMMA Commanded ==
  ASSUME NEW s \in Seq(Symbols), NEW e \in Symbols
  PROVE  /\ Append(s, e) \in Seq(Symbols)
         /\ Len(s) \in Nat /\ Len(Append(s, e)) = Len(s) + 1
         /\ Append(s, e)[Len(s) + 1] = e
         /\ \A i \in 1..Len(s) : Append(s, e)[i] = s[i]
OBVIOUS

-----------------------------------------------------------------------------
(* The symbol at hand is the one of the last command.                      *)
SymbolInHand ==
  /\ importState \in [waiting : BOOLEAN, symbol : Symbols \cup {NoSymbol}]
  /\ importState.waiting => importState.symbol # NoSymbol
  /\ commands \in Seq(Symbols)
  /\ importState.symbol # NoSymbol =>
       Len(commands) \in 1..Len(commands) /\ commands[Len(commands)] = importState.symbol

(* A temp file holds a document that was sent.                             *)
FilesSent == \A p \in DOMAIN onDisk : onDisk[p] \in Uploads /\ onDisk[p] \in Sent

(* A document came after the commands it is counted with.                  *)
SentAfter ==
  /\ paths \in [Uploads -> (Symbols \cup {NoSymbol}) \X Nat]
  /\ second \in Nat
  /\ askedFor \in [Uploads -> Nat]
  /\ \A u \in Uploads : askedFor[u] <= Len(commands)

(* What was imported was asked for by a command not before the last one    *)
(* the document came after.                                                *)
AskedBefore(u, symbol) == \E i \in 1..Len(commands) : askedFor[u] <= i /\ commands[i] = symbol
ImportsAsked ==
  \A im \in imports : /\ im[1] \in Uploads /\ im[1] \in Sent /\ AskedBefore(im[1], im[2])

ImportInv == SymbolInHand /\ FilesSent /\ SentAfter /\ ImportsAsked

-----------------------------------------------------------------------------
LEMMA InitImport == ImportInit => ImportInv
<1> SUFFICES ASSUME ImportInit PROVE ImportInv
  OBVIOUS
<1>1. SymbolInHand
  <2>1. importState = [waiting |-> FALSE, symbol |-> NoSymbol]
    BY DEF ImportInit, NoImport
  <2>2. commands \in Seq(Symbols)
    BY DEF ImportInit
  <2>3. QED
    BY <2>1, <2>2 DEF SymbolInHand
<1>2. FilesSent
  BY DEF ImportInit, FilesSent
<1>3. SentAfter
  <2>1. NoPath \in (Symbols \cup {NoSymbol}) \X Nat
    BY DEF NoPath
  <2>2. Len(<<>>) = 0
    OBVIOUS
  <2>3. QED
    BY <2>1, <2>2 DEF ImportInit, SentAfter
<1>4. ImportsAsked
  BY DEF ImportInit, ImportsAsked
<1>5. QED
  BY <1>1, <1>2, <1>3, <1>4 DEF ImportInv

(* A command replaces the symbol at hand and leaves every import asked     *)
(* for.                                                                    *)
LEMMA CommandInv ==
  ASSUME ImportInv, NEW symbol \in Symbols, HandleImportCommand(symbol)
  PROVE  ImportInv'
<1>1. commands \in Seq(Symbols)
  BY DEF ImportInv, SymbolInHand
<1>2. /\ importState' = [waiting |-> TRUE, symbol |-> symbol]
      /\ commands' = Append(commands, symbol)
      /\ UNCHANGED <<paths, onDisk, second, imports, askedFor>>
  BY DEF HandleImportCommand, BeginImport
<1>3. /\ commands' \in Seq(Symbols) /\ Len(commands) \in Nat
      /\ Len(commands') = Len(commands) + 1 /\ commands'[Len(commands')] = symbol
      /\ \A i \in 1..Len(commands) : commands'[i] = commands[i]
  BY <1>1, <1>2, Commanded
<1>4. Len(commands') \in 1..Len(commands') /\ \A i \in 1..Len(commands) : i \in 1..Len(commands')
  BY <1>3
<1>5. SymbolInHand'
  BY <1>2, <1>3, <1>4, SymbolsNamed DEF SymbolInHand
<1>6. FilesSent' /\ Sent' = Sent
  BY <1>2 DEF ImportInv, FilesSent, Sent
<1>7. SentAfter'
  <2>1. \A u \in Uploads : askedFor[u] \in Nat /\ askedFor[u] <= Len(commands)
    BY DEF ImportInv, SentAfter
  <2>2. \A u \in Uploads : askedFor[u] <= Len(commands')
    BY <2>1, <1>3
  <2>3. QED
    BY <2>2, <1>2 DEF ImportInv, SentAfter
<1>8. ASSUME NEW u, NEW s, AskedBefore(u, s) PROVE AskedBefore(u, s)'
  BY <1>2, <1>3, <1>4, <1>8 DEF AskedBefore
<1>9. ImportsAsked'
  BY <1>2, <1>6, <1>8 DEF ImportInv, ImportsAsked
<1>10. QED
  BY <1>5, <1>6, <1>7, <1>9 DEF ImportInv

(* A document that is sent has not been imported yet, so the count it gets *)
(* disturbs no import.                                                     *)
LEMMA UploadInv ==
  ASSUME ImportInv, NEW u \in Uploads, HandleFileUpload(u)
  PROVE  ImportInv'
<1> DEFINE path == <<importState.symbol, second>>
<1>1. /\ u \notin Sent /\ importState.symbol # NoSymbol
      /\ paths' = [paths EXCEPT ![u] = path]
      /\ onDisk' = [p \in DOMAIN onDisk \cup {path} |-> IF p = path THEN u ELSE onDisk[p]]
      /\ askedFor' = [askedFor EXCEPT ![u] = Len(commands)]
      /\ UNCHANGED <<importState, second, imports, commands>>
  BY DEF HandleFileUpload, ImportInv, SymbolInHand
<1>2. path \in (Symbols \cup {NoSymbol}) \X Nat /\ path # NoPath
  BY <1>1 DEF ImportInv, SymbolInHand, SentAfter, NoPath
<1>3. paths \in [Uploads -> (Symbols \cup {NoSymbol}) \X Nat]
  BY DEF ImportInv, SentAfter
<1> HIDE DEF path
<1>4. u \in Sent' /\ \A v \in Sent : v \in Sent'
  BY <1>1, <1>2, <1>3 DEF Sent
<1>5. SymbolInHand'
  BY <1>1 DEF ImportInv, SymbolInHand
<1>6. FilesSent'
  BY <1>1, <1>4 DEF ImportInv, FilesSent
<1>7. SentAfter'
  <2>1. Len(commands) \in Nat
    BY Commanded DEF ImportInv, SymbolInHand
  <2>2. askedFor \in [Uploads -> Nat] /\ \A v \in Uploads : askedFor[v] <= Len(commands)
    BY DEF ImportInv, SentAfter
  <2>3. /\ askedFor' \in [Uploads -> Nat]
        /\ \A v \in Uploads : askedFor'[v] <= Len(commands')
    BY <1>1, <2>1, <2>2
  <2>4. paths' \in [Uploads -> (Symbols \cup {NoSymbol}) \X Nat]
    BY <1>1, <1>2, <1>3
  <2>5. QED
    BY <1>1, <2>3, <2>4 DEF ImportInv, SentAfter
<1>8. ImportsAsked'
  <2>1. ASSUME NEW im \in imports
        PROVE  /\ im[1] \in Uploads /\ im[1] \in Sent /\ AskedBefore(im[1], im[2])
    BY <2>1 DEF ImportInv, ImportsAsked
  <2>2. ASSUME NEW im \in imports PROVE AskedBefore(im[1], im[2])'
    <3>1. im[1] # u /\ im[1] \in Uploads
      BY <2>1, <2>2, <1>1
    <3>2. askedFor'[im[1]] = askedFor[im[1]]
      BY <3>1, <1>1 DEF ImportInv, SentAfter
    <3>3. QED
      BY <2>1, <2>2, <3>2, <1>1 DEF AskedBefore
  <2>3. QED
    BY <1>1, <1>4, <2>1, <2>2 DEF ImportsAsked
<1>9. QED
  BY <1>5, <1>6, <1>7, <1>8 DEF ImportInv

(* What the steps that end an import share: the state is reset, no file    *)
(* appears, and no count and no command changes.                           *)
LEMMA ResetInv ==
  ASSUME ImportInv, importState' = NoImport, ImportsAsked',
         DOMAIN onDisk' \subseteq DOMAIN onDisk,
         \A p \in DOMAIN onDisk' : onDisk'[p] = onDisk[p],
         UNCHANGED <<paths, second, commands, askedFor>>
  PROVE  ImportInv'
<1>1. SymbolInHand'
  BY DEF ImportInv, SymbolInHand, NoImport
<1>2. FilesSent'
  BY DEF ImportInv, FilesSent, Sent
<1>3. SentAfter'
  BY DEF ImportInv, SentAfter
<1>4. QED
  BY <1>1, <1>2, <1>3 DEF ImportInv

LEMMA ImportStepInv == ImportInv /\ [ImportNext]_importVars => ImportInv'
<1> SUFFICES ASSUME ImportInv, [ImportNext]_importVars PROVE ImportInv'
  OBVIOUS
<1>1. ASSUME UNCHANGED <<imports, commands, askedFor, paths>> PROVE ImportsAsked'
  BY <1>1 DEF ImportInv, ImportsAsked, AskedBefore, Sent
<1>2. ASSUME NEW symbol \in Symbols, HandleImportCommand(symbol) PROVE ImportInv'
  BY <1>2, CommandInv
<1>3. ASSUME NEW u \in Uploads, HandleFileUpload(u) PROVE ImportInv'
  BY <1>3, UploadInv
<1>4. ASSUME NEW u \in Uploads, HandleCallbackOther(u) \/ HandleSimplizeImportFails(u)
      PROVE  ImportInv'
  BY <1>1, <1>4, ResetInv
     DEF HandleCallbackOther, HandleSimplizeImportFails, RemoveFile, ResetImportState,
         importHistory
<1>5. ASSUME NEW u \in Uploads, HandleSimplizeImport(u) PROVE ImportInv'
  <2>1. ImportsAsked'
    <3>1. /\ UNCHANGED <<paths, commands, askedFor>> /\ importState.symbol # NoSymbol
          /\ \/ imports' = imports
             \/ /\ paths[u] \in DOMAIN onDisk
                /\ imports' = imports \cup {<<onDisk[paths[u]], importState.symbol>>}
      BY <1>5 DEF HandleSimplizeImport
    <3>2. CASE imports' = imports
      BY <1>1, <3>1, <3>2
    <3>3. CASE /\ paths[u] \in DOMAIN onDisk
               /\ imports' = imports \cup {<<onDisk[paths[u]], importState.symbol>>}
      <4> DEFINE d == onDisk[paths[u]]
      <4>1. d \in Uploads /\ d \in Sent
        BY <3>3 DEF ImportInv, FilesSent
      <4>2. askedFor[d] <= Len(commands)
        BY <4>1 DEF ImportInv, SentAfter
      <4>3. Len(commands) \in 1..Len(commands) /\ commands[Len(commands)] = importState.symbol
        BY <3>1 DEF ImportInv, SymbolInHand
      <4>4. AskedBefore(d, importState.symbol)
        BY <4>2, <4>3 DEF AskedBefore
      <4> HIDE DEF d
      <4>5. \A im \in imports' : /\ im[1] \in Uploads /\ im[1] \in Sent
                                 /\ AskedBefore(im[1], im[2])
        BY <3>3, <4>1, <4>4 DEF ImportInv, ImportsAsked, d
      <4>6. QED
        BY <3>1, <4>5 DEF ImportsAsked, AskedBefore, Sent
    <3>4. QED
      BY <3>1, <3>2, <3>3
  <2>2. QED
    BY <1>5, <2>1, ResetInv DEF HandleSimplizeImport, RemoveFile, ResetImportState
<1>6. CASE HandleFileUploadFails
  BY <1>1, <1>6, ResetInv DEF HandleFileUploadFails, ResetImportState, importHistory
<1>7. CASE NextSecond
  <2>1. UNCHANGED <<importState, paths, onDisk, imports, commands, askedFor>>
        /\ second' = second + 1
    BY <1>7 DEF NextSecond, importHistory
  <2>2. SymbolInHand' /\ FilesSent'
    BY <2>1 DEF ImportInv, SymbolInHand, FilesSent, Sent
  <2>3. SentAfter'
    BY <2>1 DEF ImportInv, SentAfter
  <2>4. QED
    BY <1>1, <2>1, <2>2, <2>3 DEF ImportInv
<1>8. CASE UNCHANGED importVars
  BY <1>8 DEF importVars, importHistory, ImportInv, SymbolInHand, FilesSent, Sent, SentAfter,
              ImportsAsked, AskedBefore
<1>9. QED
  BY <1>2, <1>3, <1>4, <1>5, <1>6, <1>7, <1>8 DEF ImportNext

(* A document is imported for the symbol of the last /import before it or  *)
(* of a later one, in whatever order chats send commands, documents and    *)
(* presses and whatever fails.                                             *)
THEOREM AskedFor == ImportSpec => []ImportedAsAsked
<1>1. ImportInv => ImportedAsAsked
  <2> SUFFICES ASSUME ImportInv, NEW im \in imports
               PROVE  \E i \in askedFor[im[1]]..Len(commands) : commands[i] = im[2]
    BY DEF ImportedAsAsked
  <2>1. im[1] \in Uploads /\ AskedBefore(im[1], im[2])
    BY DEF ImportInv, ImportsAsked
  <2>2. askedFor[im[1]] \in Nat /\ Len(commands) \in Nat
    BY <2>1, Commanded DEF ImportInv, SentAfter, SymbolInHand
  <2>3. QED
    BY <2>1, <2>2 DEF AskedBefore
<1>2. QED
  BY InitImport, ImportStepInv, <1>1, PTL DEF ImportSpec

(* Every file on disk is a document that was sent, and every keyboard      *)
(* names a symbol and a second (bot_service.go).                           *)
THEOREM ImportTypeCorrect == ImportSpec => []ImportTypeOK
<1>1. ImportInv => ImportTypeOK
  BY DEF ImportInv, SymbolInHand, FilesSent, SentAfter, ImportTypeOK
<1>2. QED
  BY InitImport, ImportStepInv, <1>1, PTL DEF ImportSpec

-----------------------------------------------------------------------------
(***************************************************************************)
(* OtpFlow: any chats, attempts, passwords, restarts and failures.         *)
(***************************************************************************)

(* The updates of Telegram, and what sending, taking and losing one does.  *)
Update == [kind : {"otp", "restart"}, chat : Chats, otp : Nat]

LEMMA Queued ==
  ASSUME NEW s \in Seq(Update), NEW m \in Update
  PROVE  /\ Append(s, m) \in Seq(Update)
         /\ Len(s) \in Nat /\ Len(Append(s, m)) = Len(s) + 1
         /\ Append(s, m)[Len(s) + 1] = m
         /\ \A i \in 1..Len(s) : Append(s, m)[i] = s[i]
OBVIOUS

LEMMA Taken ==
  ASSUME NEW s \in Seq(Update), s # <<>>
  PROVE  /\ Head(s) \in Update /\ Head(s) = s[1]
         /\ Tail(s) \in Seq(Update)
         /\ Len(s) \in Nat /\ Len(s) >= 1 /\ Len(Tail(s)) = Len(s) - 1
         /\ \A i \in 1..Len(Tail(s)) : Tail(s)[i] = s[i + 1]
OBVIOUS

LEMMA Kept ==
  ASSUME NEW s \in Seq(Update), NEW k \in 1..(Len(s) + 1)
  PROVE  /\ SubSeq(s, k, Len(s)) \in Seq(Update)
         /\ Len(s) \in Nat /\ Len(SubSeq(s, k, Len(s))) = Len(s) - k + 1
         /\ \A i \in 1..Len(SubSeq(s, k, Len(s))) : SubSeq(s, k, Len(s))[i] = s[i + k - 1]
OBVIOUS

-----------------------------------------------------------------------------
(* Types, by the variables that change together.                           *)
TokenTypes == {memory, cached} \subseteq Tokens
FlagTypes == waitingOTP \subseteq Chats \cup {App} /\ isRestartOTP \subseteq Chats
LoopTypes ==
  loop \in [at : {"idle", "dispatch"} \cup Exchanging, chat : Chats \cup {App},
            otp : Tokens]
StartupTypes ==
  /\ startup \in {"boot", "login", "lookup", "ask", "notify", "receive", "leaving", "done"}
                 \cup Carrying
  /\ attempt \in 0..MaxAttempts
  /\ startupOtp \in Tokens
InboxTypes ==
  /\ inbox \in Seq(Update)
  /\ sent \in 0..MaxPasswords
  /\ \A i \in 1..Len(inbox) : inbox[i].kind = "otp" => inbox[i].otp \in 1..sent

OtpTypes == TokenTypes /\ FlagTypes /\ LoopTypes /\ StartupTypes /\ InboxTypes

(* The three places where a password may stand before it is presented.     *)
InInbox(p) == \E i \in 1..Len(inbox) : inbox[i].kind = "otp" /\ inbox[i].otp = p
AtLoop(p) == loop.at = "dispatch" /\ loop.otp = p
AtMain(p) == startup = "leaving" /\ startupOtp = p

(* A password stands in one place at most, and there it has not been       *)
(* presented; none has that was not sent.                                  *)
InboxDistinct ==
  \A i, j \in 1..Len(inbox) :
    inbox[i].kind = "otp" /\ inbox[j].kind = "otp" /\ inbox[i].otp = inbox[j].otp => i = j

OnePlace ==
  \A p \in 1..MaxPasswords :
    /\ ~(InInbox(p) /\ AtLoop(p))
    /\ ~(InInbox(p) /\ AtMain(p))
    /\ ~(AtLoop(p) /\ AtMain(p))

UnusedInPlace ==
  /\ exchanged \in [1..MaxPasswords -> {0, 1}]
  /\ \A p \in 1..MaxPasswords :
       p > sent \/ InInbox(p) \/ AtLoop(p) \/ AtMain(p) => exchanged[p] = 0

SentInHand ==
  /\ loop.at = "dispatch" => loop.otp \in 1..sent
  /\ startup = "leaving" => startupOtp \in 0..sent

PasswordInv == InboxDistinct /\ OnePlace /\ UnusedInPlace /\ SentInHand

(* While nothing has parted them, one goroutine at a time has a token in   *)
(* hand, and carries it from memory to Redis or from Redis to memory.      *)
TokenCarried ==
  ~parted =>
    /\ ~(loop.at \in Carrying /\ startup \in Carrying)
    /\ loop.at \notin {"read", "cache"} /\ startup \notin {"read", "cache", "set"} /\ ~Starting
         => cached \in {memory, NoToken}
    /\ loop.at = "cache" => loop.otp = memory
    /\ startup = "cache" => startupOtp = memory
    /\ startup = "set" => cached \in {startupOtp, NoToken}

TokenInv == parted \in BOOLEAN /\ TokenCarried

OtpInv == OtpTypes /\ PasswordInv /\ TokenInv

-----------------------------------------------------------------------------
(* Init.                                                                   *)
LEMMA InitOtp == OtpInit => OtpInv
<1> SUFFICES ASSUME OtpInit PROVE OtpInv
  OBVIOUS
<1>1. OtpTypes
  <2>1. inbox = <<>> /\ inbox \in Seq(Update) /\ Len(inbox) = 0
    BY DEF OtpInit
  <2>2. InboxTypes
    BY <2>1, OtpBounds DEF OtpInit, InboxTypes
  <2>3. LoopTypes /\ StartupTypes /\ TokenTypes /\ FlagTypes
    BY OtpBounds DEF OtpInit, LoopTypes, StartupTypes, TokenTypes, FlagTypes, Idle, NoPassword,
                     NoToken, Tokens
  <2>4. QED
    BY <2>2, <2>3 DEF OtpTypes
<1>2. PasswordInv
  BY OtpBounds DEF OtpInit, PasswordInv, InboxDistinct, OnePlace, UnusedInPlace, SentInHand,
                   InInbox, AtLoop, AtMain, Idle
<1>3. TokenInv
  BY DEF OtpInit, TokenInv, TokenCarried, Idle, Exchanging, Carrying, Starting
<1>4. QED
  BY <1>1, <1>2, <1>3 DEF OtpInv

-----------------------------------------------------------------------------
(* Types.                                                                  *)
LEMMA OtpTypesStep == OtpTypes /\ [OtpNext]_otpVars => OtpTypes'
<1> SUFFICES ASSUME OtpTypes, [OtpNext]_otpVars PROVE OtpTypes'
  OBVIOUS
<1> USE OtpBounds DEF OtpTypes, TokenTypes, FlagTypes, LoopTypes, StartupTypes, Tokens
<1>1. ASSUME UNCHANGED <<inbox, sent>> PROVE InboxTypes'
  BY <1>1 DEF InboxTypes
<1>2. ASSUME NEW chat \in Chats, SendPassword(chat) PROVE OtpTypes'
  <2> DEFINE m == [kind |-> "otp", chat |-> chat, otp |-> sent + 1]
  <2>1. /\ inbox \in Seq(Update) /\ m \in Update /\ inbox' = Append(inbox, m)
        /\ sent' = sent + 1 /\ sent \in 0..MaxPasswords /\ sent < MaxPasswords
    BY <1>2 DEF SendPassword, InboxTypes, Update
  <2>2. \A i \in 1..Len(inbox) : inbox[i].kind = "otp" => inbox[i].otp \in 1..sent
    BY DEF InboxTypes
  <2>3. m.otp \in 1..sent'
    BY <2>1
  <2> HIDE DEF m
  <2>4. \A i \in 1..Len(inbox') : inbox'[i].kind = "otp" => inbox'[i].otp \in 1..sent'
    <3> SUFFICES ASSUME NEW i \in 1..Len(inbox'), inbox'[i].kind = "otp"
                 PROVE  inbox'[i].otp \in 1..sent'
      OBVIOUS
    <3>1. CASE i \in 1..Len(inbox)
      BY <2>1, <2>2, <3>1, Queued
    <3>2. CASE i = Len(inbox) + 1
      BY <2>1, <2>3, <3>2, Queued
    <3>3. QED
      BY <2>1, <3>1, <3>2, Queued
  <2>5. InboxTypes'
    BY <2>1, <2>4, Queued DEF InboxTypes
  <2>6. QED
    BY <1>2, <2>5 DEF SendPassword, startupVars, flagVars, tokenVars
<1>3. ASSUME NEW chat \in Chats, SendRestart(chat) PROVE OtpTypes'
  <2> DEFINE m == [kind |-> "restart", chat |-> chat, otp |-> NoPassword]
  <2>1. /\ inbox \in Seq(Update) /\ m \in Update /\ inbox' = Append(inbox, m)
        /\ sent' = sent /\ m.kind = "restart"
    BY <1>3 DEF SendRestart, InboxTypes, Update, NoPassword
  <2> HIDE DEF m
  <2>2. InboxTypes'
    BY <2>1, Queued DEF InboxTypes
  <2>3. QED
    BY <1>3, <2>2 DEF SendRestart, startupVars, flagVars, tokenVars
<1>4. ASSUME inbox # <<>>, inbox' = Tail(inbox), sent' = sent PROVE InboxTypes'
  BY <1>4, Taken DEF InboxTypes
<1>5. ASSUME inbox # <<>>
      PROVE  /\ Head(inbox).chat \in Chats
             /\ Head(inbox).kind = "otp" => Head(inbox).otp \in 1..sent /\ sent \in 0..MaxPasswords
  <2>1. inbox \in Seq(Update)
    BY DEF InboxTypes
  <2>2. Head(inbox) \in Update /\ Head(inbox) = inbox[1] /\ 1 \in 1..Len(inbox)
    BY <1>5, <2>1, Taken
  <2>3. Head(inbox).chat \in Chats
    BY <2>2 DEF Update
  <2>4. QED
    BY <2>2, <2>3 DEF InboxTypes
<1>6. CASE HandleMessage
  <2>1. loop' \in [at : {"idle", "dispatch"} \cup Exchanging, chat : Chats \cup {App},
                   otp : Tokens]
    BY <1>5, <1>6 DEF HandleMessage, Idle, NoPassword
  <2>2. QED
    BY <1>4, <1>6, <2>1 DEF HandleMessage, startupVars, flagVars, tokenVars
<1>7. CASE HandleRestartCommand
  BY <1>4, <1>5, <1>7 DEF HandleRestartCommand, startupVars, flagVars, tokenVars
<1>8. CASE Dispatch
  BY <1>1, <1>8 DEF Dispatch, DispatchRestart, Idle, NoPassword, Exchanging, chatVars, flagVars,
                    tokenVars
<1>9. CASE RestartAccepted \/ RestartReads
  <2>1. /\ loop.otp \in Tokens /\ memory \in Tokens
        /\ loop \in [at : {"idle", "dispatch"} \cup Exchanging, chat : Chats \cup {App},
                    otp : Tokens]
    BY <1>1 DEF LoopTypes, TokenTypes
  <2>2. {"read", "cache"} \subseteq Exchanging
    BY DEF Exchanging
  <2>3. memory' \in {memory, loop.otp} /\ UNCHANGED <<chatVars, startupVars, flagVars, cached>>
    BY <1>9 DEF RestartAccepted, RestartReads, tokenVars
  <2>4. LoopTypes'
    <3>1. CASE RestartAccepted
      <4>1. loop' = [loop EXCEPT !.at = "read"]
        BY <3>1 DEF RestartAccepted
      <4>2. QED
        BY <2>1, <2>2, <4>1 DEF LoopTypes
    <3>2. CASE RestartReads
      <4>1. loop' = [loop EXCEPT !.at = "cache", !.otp = memory]
        BY <3>2 DEF RestartReads
      <4>2. QED
        BY <2>1, <2>2, <4>1 DEF LoopTypes
    <3>3. QED
      BY <1>9, <3>1, <3>2
  <2>5. QED
    BY <1>1, <2>1, <2>3, <2>4 DEF TokenTypes, FlagTypes, StartupTypes, InboxTypes, OtpTypes,
                                 chatVars, startupVars, flagVars
<1>10. CASE RestartRefused \/ RestartCached \/ RestartCacheFails
  <2>1. loop' = [at |-> "idle", chat |-> App, otp |-> 0]
    BY <1>10 DEF RestartRefused, RestartCached, RestartCacheFails, Idle, NoPassword
  <2>2. waitingOTP' \subseteq waitingOTP /\ isRestartOTP' \subseteq isRestartOTP
    BY <1>10 DEF RestartRefused, RestartCached, RestartCacheFails, ResetFlags
  <2>3. memory' = memory /\ cached' \in {cached, loop.otp} /\ UNCHANGED <<chatVars, startupVars>>
    BY <1>10 DEF RestartRefused, RestartCached, RestartCacheFails, SetTradingToken, tokenVars
  <2>4. QED
    BY <1>1, <2>1, <2>2, <2>3 DEF chatVars, startupVars
<1>11. CASE StartupStep \/ LoginFails \/ LookUpFails \/ NotifyFails \/ StartupCacheFails
  <2>1. UNCHANGED <<inbox, sent, loop>>
    BY <1>11 DEF StartupStep, SetRestartHandler, Login, LookUpToken, UseCachedToken, Ask, Notify,
                Timeout, LeaveRequest, StartupAccepted, StartupReads, StartupRefused,
                StartupCached, LoginFails, LookUpFails, NotifyFails, StartupCacheFails, chatVars
  <2>2. CASE SetRestartHandler \/ Login \/ LookUpToken \/ UseCachedToken \/ LoginFails
             \/ LookUpFails
    BY <1>1, <2>1, <2>2 DEF SetRestartHandler, Login, LookUpToken, UseCachedToken, LoginFails,
                LookUpFails, AskFirst, Exchanging, Carrying, startupVars, flagVars, tokenVars
  <2>3. CASE Ask \/ Notify \/ Timeout \/ LeaveRequest \/ NotifyFails
    BY <1>1, <2>1, <2>3 DEF Ask, Notify, Timeout, LeaveRequest, NotifyFails, NoAnswer, NoPassword,
                Exchanging, Carrying, startupVars, flagVars, tokenVars
  <2>4. CASE StartupAccepted \/ StartupReads \/ StartupRefused \/ StartupCached
             \/ StartupCacheFails
    BY <1>1, <2>1, <2>4 DEF StartupAccepted, StartupReads, StartupRefused, StartupCached,
                StartupCacheFails, TriesLeft, SetTradingToken, NoPassword, Exchanging, Carrying,
                startupVars, flagVars, tokenVars
  <2>5. QED
    BY <1>11, <2>2, <2>3, <2>4 DEF StartupStep
<1>12. CASE CrashApp
  <2>1. PICK k \in 1..(Len(inbox) + 1) : inbox' = SubSeq(inbox, k, Len(inbox))
    BY <1>12 DEF CrashApp
  <2>2. InboxTypes'
    <3>1. inbox \in Seq(Update) /\ sent' = sent
      BY <1>12 DEF InboxTypes, CrashApp
    <3>2. inbox' \in Seq(Update) /\ \A i \in 1..Len(inbox') : \E j \in 1..Len(inbox) : inbox'[i] = inbox[j]
      BY <2>1, <3>1, Kept
    <3>3. QED
      BY <3>1, <3>2 DEF InboxTypes
  <2>3. QED
    <3>1. /\ loop' = Idle /\ startup' = "boot" /\ attempt' = 0 /\ startupOtp' = NoPassword
          /\ waitingOTP' = {} /\ isRestartOTP' = {} /\ memory' = NoToken /\ cached' = cached
      BY <1>12 DEF CrashApp
    <3>2. LoopTypes'
      BY <3>1 DEF Idle, NoPassword
    <3>3. StartupTypes' /\ FlagTypes' /\ TokenTypes'
      BY <3>1 DEF NoPassword, NoToken
    <3>4. QED
      BY <2>2, <3>2, <3>3
<1>13. CASE TokenExpires
  BY <1>1, <1>13 DEF TokenExpires, NoToken, chatVars, startupVars, flagVars
<1>14. CASE UNCHANGED otpVars
  BY <1>1, <1>14 DEF otpVars, chatVars, startupVars, flagVars, tokenVars
<1>15. QED
  BY <1>2, <1>3, <1>6, <1>7, <1>8, <1>9, <1>10, <1>11, <1>12, <1>13, <1>14
     DEF OtpNext, LoopStep

-----------------------------------------------------------------------------
(* Passwords.                                                              *)

(* An update leaves the inbox at its head, or is lost there.               *)
LEMMA InboxShrinks ==
  ASSUME OtpTypes, InboxDistinct, inbox' \in Seq(Update), NEW k \in Nat,
         Len(inbox) = Len(inbox') + k,
         \A i \in 1..Len(inbox') : inbox'[i] = inbox[i + k]
  PROVE  InboxDistinct' /\ \A p : InInbox(p)' => InInbox(p)
<1>1. Len(inbox) \in Nat /\ Len(inbox') \in Nat
  BY DEF OtpTypes, InboxTypes
<1>2. \A i \in 1..Len(inbox') : i + k \in 1..Len(inbox)
  BY <1>1
<1>3. InboxDistinct'
  <2> SUFFICES ASSUME NEW i \in 1..Len(inbox'), NEW j \in 1..Len(inbox'),
                      inbox'[i].kind = "otp", inbox'[j].kind = "otp", inbox'[i].otp = inbox'[j].otp
               PROVE  i = j
    BY DEF InboxDistinct
  <2>1. i + k \in 1..Len(inbox) /\ j + k \in 1..Len(inbox)
    BY <1>2
  <2>2. inbox'[i] = inbox[i + k] /\ inbox'[j] = inbox[j + k]
    OBVIOUS
  <2>3. i + k = j + k
    BY <2>1, <2>2, Zenon DEF InboxDistinct
  <2>4. QED
    BY <1>1, <2>3
<1>4. \A p : InInbox(p)' => InInbox(p)
  BY <1>1, <1>2 DEF InInbox
<1>5. QED
  BY <1>3, <1>4

(* The update at the head has a number no later one has.                   *)
LEMMA HeadTaken ==
  ASSUME OtpTypes, InboxDistinct, inbox # <<>>, inbox' = Tail(inbox)
  PROVE  /\ InboxDistinct' /\ \A p : InInbox(p)' => InInbox(p)
         /\ Head(inbox).kind = "otp" => Head(inbox).otp \in 1..sent /\ InInbox(Head(inbox).otp)
         /\ \A p : Head(inbox).kind = "otp" /\ p = Head(inbox).otp => ~InInbox(p)'
<1>1. inbox \in Seq(Update)
  BY DEF OtpTypes, InboxTypes
<1>2. /\ inbox' \in Seq(Update) /\ Len(inbox) \in Nat /\ Len(inbox) >= 1
      /\ Len(inbox') = Len(inbox) - 1 /\ Head(inbox) = inbox[1]
      /\ \A i \in 1..Len(inbox') : inbox'[i] = inbox[i + 1]
  BY <1>1, Taken
<1>3. InboxDistinct' /\ \A p : InInbox(p)' => InInbox(p)
  BY <1>2, InboxShrinks
<1>4. 1 \in 1..Len(inbox) /\ \A i \in 1..Len(inbox') : i + 1 \in 1..Len(inbox) /\ i + 1 # 1
  BY <1>2
<1>5. ASSUME NEW p, Head(inbox).kind = "otp", p = Head(inbox).otp PROVE ~InInbox(p)'
  <2>1. \A i \in 1..Len(inbox) : inbox[i].kind = "otp" /\ inbox[i].otp = p => i = 1
    BY <1>2, <1>4, <1>5 DEF InboxDistinct
  <2>2. QED
    BY <1>2, <1>4, <2>1 DEF InInbox
<1>6. Head(inbox).kind = "otp" => Head(inbox).otp \in 1..sent /\ InInbox(Head(inbox).otp)
  BY <1>2, <1>4 DEF OtpTypes, InboxTypes, InInbox
<1>7. QED
  BY <1>3, <1>5, <1>6

(* A password that is presented once is no longer in any place.            *)
LEMMA PresentedOnce ==
  ASSUME NEW q \in 1..MaxPasswords, UnusedInPlace, exchanged[q] = 0, sent \in Nat, q <= sent,
         exchanged' = [exchanged EXCEPT ![q] = @ + 1], sent' = sent,
         \A p : InInbox(p)' \/ AtLoop(p)' \/ AtMain(p)' =>
                 p # q /\ (InInbox(p) \/ AtLoop(p) \/ AtMain(p))
  PROVE  UnusedInPlace'
<1>1. exchanged \in [1..MaxPasswords -> {0, 1}]
  BY DEF UnusedInPlace
<1>2. exchanged' = [exchanged EXCEPT ![q] = 1]
  BY <1>1
<1>3. exchanged' \in [1..MaxPasswords -> {0, 1}]
  BY <1>1, <1>2
<1>4. \A p \in 1..MaxPasswords : p # q => exchanged'[p] = exchanged[p]
  BY <1>1, <1>2
<1>5. QED
  BY <1>3, <1>4 DEF UnusedInPlace

LEMMA PasswordStep == OtpTypes /\ PasswordInv /\ [OtpNext]_otpVars => PasswordInv'
<1> SUFFICES ASSUME OtpTypes, PasswordInv, [OtpNext]_otpVars PROVE PasswordInv'
  OBVIOUS
<1> USE DEF PasswordInv
<1>1. /\ sent \in 0..MaxPasswords /\ sent \in Nat /\ MaxPasswords \in Nat
      /\ inbox \in Seq(Update) /\ Len(inbox) \in Nat
  BY OtpBounds DEF OtpTypes, InboxTypes
<1>2. ASSUME UNCHANGED <<inbox, sent>>
      PROVE  InboxDistinct' /\ \A p : InInbox(p)' <=> InInbox(p)
  BY <1>2 DEF InboxDistinct, InInbox
<1>3. ASSUME InboxDistinct', \A p : InInbox(p)' => InInbox(p),
             \A p : AtLoop(p)' => AtLoop(p),
             \A p : AtMain(p)' => AtMain(p) \/ p = NoPassword,
             loop' = loop \/ loop'.at # "dispatch",
             \/ UNCHANGED startup /\ UNCHANGED startupOtp
             \/ startup' # "leaving" \/ startupOtp' = NoPassword,
             UNCHANGED <<sent, exchanged>>
      PROVE  PasswordInv'
  BY <1>1, <1>3 DEF OnePlace, UnusedInPlace, SentInHand, NoPassword
<1>4. ASSUME NEW chat \in Chats, SendPassword(chat) PROVE PasswordInv'
  <2> DEFINE m == [kind |-> "otp", chat |-> chat, otp |-> sent + 1]
  <2>1. /\ m \in Update /\ inbox' = Append(inbox, m) /\ m.kind = "otp" /\ m.otp = sent + 1
        /\ sent' = sent + 1 /\ sent < MaxPasswords /\ UNCHANGED <<loop, startup, startupOtp, exchanged>>
    BY <1>1, <1>4 DEF SendPassword, Update, startupVars, otpHistory
  <2> HIDE DEF m
  <2>2. /\ Len(inbox') = Len(inbox) + 1 /\ inbox'[Len(inbox) + 1] = m
        /\ \A i \in 1..Len(inbox) : inbox'[i] = inbox[i]
    BY <1>1, <2>1, Queued
  <2>3. \A i \in 1..Len(inbox') : i \in 1..Len(inbox) \/ i = Len(inbox) + 1
    BY <1>1, <2>2
  <2>4. \A i \in 1..Len(inbox) : inbox[i].kind = "otp" => inbox[i].otp # sent + 1
    BY DEF OtpTypes, InboxTypes
  <2>5. InboxDistinct'
    BY <2>1, <2>2, <2>3, <2>4 DEF InboxDistinct
  <2>6. \A p : InInbox(p)' => InInbox(p) \/ p = sent + 1
    BY <2>1, <2>2, <2>3 DEF InInbox
  <2>7. SentInHand' /\ \A p : AtLoop(p)' = AtLoop(p) /\ AtMain(p)' = AtMain(p)
    BY <1>1, <2>1 DEF SentInHand, AtLoop, AtMain
  <2>8. \A p : AtLoop(p) \/ AtMain(p) => p # sent + 1
    BY <1>1 DEF SentInHand, AtLoop, AtMain
  <2>9. OnePlace'
    BY <2>6, <2>7, <2>8 DEF OnePlace
  <2>10. UnusedInPlace'
    BY <1>1, <2>1, <2>6, <2>7 DEF UnusedInPlace
  <2>11. QED
    BY <2>5, <2>7, <2>9, <2>10
<1>5. ASSUME NEW chat \in Chats, SendRestart(chat) PROVE PasswordInv'
  <2> DEFINE m == [kind |-> "restart", chat |-> chat, otp |-> NoPassword]
  <2>1. /\ m \in Update /\ inbox' = Append(inbox, m) /\ m.kind # "otp"
        /\ UNCHANGED <<sent, loop, startup, startupOtp, exchanged>>
    BY <1>5 DEF SendRestart, Update, NoPassword, startupVars, otpHistory
  <2> HIDE DEF m
  <2>2. /\ Len(inbox') = Len(inbox) + 1 /\ inbox'[Len(inbox) + 1] = m
        /\ \A i \in 1..Len(inbox) : inbox'[i] = inbox[i]
    BY <1>1, <2>1, Queued
  <2>3. \A i \in 1..Len(inbox') : i \in 1..Len(inbox) \/ i = Len(inbox) + 1
    BY <1>1, <2>2
  <2>4. InboxDistinct' /\ \A p : InInbox(p)' => InInbox(p)
    BY <2>1, <2>2, <2>3 DEF InboxDistinct, InInbox
  <2>5. QED
    BY <1>3, <2>1, <2>4 DEF AtLoop, AtMain
<1>6. CASE HandleMessage
  <2>1. /\ inbox # <<>> /\ inbox' = Tail(inbox) /\ Head(inbox).kind = "otp" /\ loop.at = "idle"
        /\ UNCHANGED <<sent, startup, startupOtp, exchanged>>
        /\ loop'.at # "dispatch" \/ loop'.otp = Head(inbox).otp
    BY <1>6 DEF HandleMessage, Idle, startupVars, otpHistory
  <2>2. InboxDistinct' /\ \A p : InInbox(p)' => InInbox(p)
    BY <2>1, HeadTaken
  <2>3. /\ Head(inbox).otp \in 1..sent /\ InInbox(Head(inbox).otp)
        /\ \A p : p = Head(inbox).otp => ~InInbox(p)'
    BY <2>1, HeadTaken
  <2>4. \A p : /\ AtLoop(p)' => InInbox(p) /\ ~InInbox(p)'
               /\ AtMain(p)' = AtMain(p)
    BY <2>1, <2>3 DEF AtLoop, AtMain
  <2>5. OnePlace'
    BY <2>2, <2>4 DEF OnePlace
  <2>6. UnusedInPlace'
    BY <2>1, <2>2, <2>4 DEF UnusedInPlace
  <2>7. SentInHand'
    BY <2>1, <2>3 DEF SentInHand
  <2>8. QED
    BY <2>2, <2>5, <2>6, <2>7
<1>7. CASE HandleRestartCommand
  <2>1. /\ inbox # <<>> /\ inbox' = Tail(inbox)
        /\ UNCHANGED <<sent, loop, startup, startupOtp, exchanged>>
    BY <1>7 DEF HandleRestartCommand, startupVars, otpHistory
  <2>2. InboxDistinct' /\ \A p : InInbox(p)' => InInbox(p)
    BY <2>1, HeadTaken
  <2>3. QED
    BY <1>3, <2>1, <2>2 DEF AtLoop, AtMain
<1>8. CASE Dispatch
  <2>1. /\ loop.at = "dispatch" /\ loop'.at # "dispatch" /\ UNCHANGED <<inbox, sent>>
        /\ loop.otp \in 1..sent /\ AtLoop(loop.otp)
    BY <1>8 DEF Dispatch, DispatchRestart, Idle, LoopTypes, OtpTypes, chatVars, SentInHand, AtLoop
  <2>2. \A p : ~AtLoop(p)' /\ (InInbox(p)' <=> InInbox(p))
    BY <1>2, <2>1 DEF AtLoop
  <2>3. CASE loop.chat \in isRestartOTP
    <3>1. exchanged' = [exchanged EXCEPT ![loop.otp] = @ + 1] /\ UNCHANGED <<startup, startupOtp>>
      BY <1>8, <2>3 DEF Dispatch, DispatchRestart, Present
    <3> DEFINE q == loop.otp
    <3>6. q \in 1..MaxPasswords /\ q <= sent
      BY <1>1, <2>1
    <3>7. AtLoop(q)
      BY <2>1
    <3> HIDE DEF q
    <3>2. exchanged[q] = 0 /\ ~InInbox(q) /\ ~AtMain(q)
      BY <3>6, <3>7 DEF UnusedInPlace, OnePlace
    <3>3. \A p : AtMain(p)' = AtMain(p)
      BY <3>1 DEF AtMain
    <3>4. UnusedInPlace'
      <4>1. \A p : InInbox(p)' \/ AtLoop(p)' \/ AtMain(p)' =>
                    p # q /\ (InInbox(p) \/ AtLoop(p) \/ AtMain(p))
        BY <2>2, <3>2, <3>3
      <4>2. exchanged' = [exchanged EXCEPT ![q] = @ + 1]
        BY <3>1 DEF q
      <4>3. QED
        BY <1>1, <2>1, <3>2, <3>6, <4>1, <4>2, PresentedOnce
    <3>5. QED
      BY <1>2, <2>1, <2>2, <3>1, <3>3, <3>4 DEF OnePlace, SentInHand
  <2>4. CASE loop.chat \notin isRestartOTP
    <3>1. /\ exchanged' = exchanged
          /\ \/ startup' = "leaving" /\ startupOtp' = loop.otp
             \/ UNCHANGED <<startup, startupOtp>>
      BY <1>8, <2>4 DEF Dispatch, otpHistory
    <3>2. \A p : AtMain(p)' => AtMain(p) \/ AtLoop(p)
      BY <2>1, <3>1 DEF AtMain, AtLoop
    <3>3. QED
      BY <1>2, <2>1, <2>2, <3>1, <3>2 DEF OnePlace, UnusedInPlace, SentInHand
  <2>5. QED
    BY <2>3, <2>4
<1>9. CASE LeaveRequest
  <2>1. /\ startup = "leaving" /\ startup' # "leaving" /\ startupOtp \in 0..sent
        /\ UNCHANGED <<inbox, sent, loop>>
    BY <1>9 DEF LeaveRequest, NoAnswer, chatVars, SentInHand
  <2>2. \A p : ~AtMain(p)' /\ AtLoop(p)' = AtLoop(p) /\ (InInbox(p)' <=> InInbox(p))
    BY <1>2, <2>1 DEF AtMain, AtLoop
  <2>3. UnusedInPlace'
    <3>1. CASE startupOtp = NoPassword
      BY <1>9, <2>1, <2>2, <3>1 DEF LeaveRequest, otpHistory, UnusedInPlace
    <3>2. CASE startupOtp # NoPassword
      <4>1. exchanged' = [exchanged EXCEPT ![startupOtp] = @ + 1]
        BY <1>9, <3>2 DEF LeaveRequest, Present
      <4> DEFINE q == startupOtp
      <4>2. q \in 1..MaxPasswords /\ q <= sent /\ AtMain(q)
        BY <1>1, <2>1, <3>2 DEF NoPassword, AtMain
      <4>3. exchanged' = [exchanged EXCEPT ![q] = @ + 1]
        BY <4>1
      <4> HIDE DEF q
      <4>4. exchanged[q] = 0 /\ ~InInbox(q) /\ ~AtLoop(q)
        BY <4>2 DEF UnusedInPlace, OnePlace
      <4>5. \A p : InInbox(p)' \/ AtLoop(p)' \/ AtMain(p)' =>
                    p # q /\ (InInbox(p) \/ AtLoop(p) \/ AtMain(p))
        BY <2>2, <4>4
      <4>6. QED
        BY <1>1, <2>1, <4>2, <4>3, <4>4, <4>5, PresentedOnce
    <3>3. QED
      BY <3>1, <3>2
  <2>4. QED
    BY <1>2, <2>1, <2>2, <2>3 DEF OnePlace, SentInHand
<1>10. CASE \/ RestartAccepted \/ RestartReads \/ RestartRefused \/ RestartCached
            \/ RestartCacheFails
  <2>1. UNCHANGED <<inbox, sent, startup, startupOtp, exchanged>>
    BY <1>10 DEF RestartAccepted, RestartReads, RestartRefused, RestartCached, RestartCacheFails,
                 chatVars, startupVars, otpHistory
  <2>2. RestartAccepted \/ RestartReads => loop'.at # "dispatch"
    BY DEF RestartAccepted, RestartReads, OtpTypes, LoopTypes
  <2>3. RestartRefused \/ RestartCached \/ RestartCacheFails => loop'.at # "dispatch"
    <3>1. RestartRefused \/ RestartCached \/ RestartCacheFails => loop' = Idle
      BY DEF RestartRefused, RestartCached, RestartCacheFails
    <3>2. Idle.at # "dispatch"
      BY DEF Idle
    <3>3. QED
      BY <3>1, <3>2
  <2>4. \A p : (AtLoop(p)' => AtLoop(p)) /\ (AtMain(p)' => AtMain(p))
    BY <1>10, <2>1, <2>2, <2>3 DEF AtLoop, AtMain
  <2>5. InboxDistinct' /\ \A p : InInbox(p)' => InInbox(p)
    BY <1>2, <2>1
  <2>6. QED
    BY <1>3, <1>10, <2>1, <2>2, <2>3, <2>4, <2>5
<1>11. CASE \/ SetRestartHandler \/ Login \/ LookUpToken \/ UseCachedToken \/ Ask \/ Notify
            \/ Timeout \/ StartupAccepted \/ StartupReads \/ StartupRefused \/ StartupCached
            \/ LoginFails \/ LookUpFails \/ NotifyFails \/ StartupCacheFails
  <2>1. /\ UNCHANGED <<inbox, sent, loop, exchanged>>
        /\ startup' # "leaving" \/ startupOtp' = NoPassword
    BY <1>11 DEF SetRestartHandler, Login, LookUpToken, UseCachedToken, Ask, Notify, Timeout,
                StartupAccepted, StartupReads, StartupRefused, StartupCached, LoginFails,
                LookUpFails, NotifyFails, StartupCacheFails, AskFirst, chatVars, otpHistory
  <2>2. \A p : (AtLoop(p)' => AtLoop(p)) /\ (AtMain(p)' => p = NoPassword)
    BY <2>1 DEF AtLoop, AtMain
  <2>3. InboxDistinct' /\ \A p : InInbox(p)' => InInbox(p)
    BY <1>2, <2>1
  <2>4. QED
    BY <1>3, <2>1, <2>2, <2>3
<1>12. CASE CrashApp
  <2>1. PICK k \in 1..(Len(inbox) + 1) : inbox' = SubSeq(inbox, k, Len(inbox))
    BY <1>12 DEF CrashApp
  <2>2. /\ inbox' \in Seq(Update) /\ Len(inbox') = Len(inbox) - k + 1
        /\ \A i \in 1..Len(inbox') : inbox'[i] = inbox[i + k - 1]
    BY <1>1, <2>1, Kept
  <2>3. k - 1 \in Nat /\ Len(inbox) = Len(inbox') + (k - 1)
        /\ \A i \in 1..Len(inbox') : i + k - 1 = i + (k - 1)
    BY <1>1, <2>2
  <2>4. InboxDistinct' /\ \A p : InInbox(p)' => InInbox(p)
    BY <2>2, <2>3, InboxShrinks
  <2>5. QED
    BY <1>3, <1>12, <2>4 DEF CrashApp, Idle, otpHistory, AtLoop, AtMain
<1>13. CASE TokenExpires
  BY <1>2, <1>3, <1>13 DEF TokenExpires, chatVars, startupVars, otpHistory, AtLoop, AtMain
<1>14. CASE UNCHANGED otpVars
  BY <1>2, <1>3, <1>14 DEF otpVars, chatVars, startupVars, otpHistory, AtLoop, AtMain
<1>15. QED
  BY <1>4, <1>5, <1>6, <1>7, <1>8, <1>9, <1>10, <1>11, <1>12, <1>13, <1>14
     DEF OtpNext, LoopStep, StartupStep

-----------------------------------------------------------------------------
(* Tokens.                                                                 *)
LEMMA TokenStep == OtpTypes /\ TokenInv /\ [OtpNext]_otpVars => TokenInv'
<1> SUFFICES ASSUME OtpTypes, TokenInv, [OtpNext]_otpVars PROVE TokenInv'
  OBVIOUS
<1> USE DEF TokenInv, TokenCarried, Starting
<1>1. /\ loop.at \in {"idle", "dispatch", "exchange", "read", "cache"}
      /\ startup \in {"boot", "login", "lookup", "ask", "notify", "receive", "leaving", "done",
                      "exchange", "read", "cache", "set"}
      /\ loop \in [at : {"idle", "dispatch"} \cup Exchanging, chat : Chats \cup {App},
                   otp : Tokens]
  BY DEF OtpTypes, LoopTypes, StartupTypes, Exchanging, Carrying
<1>2. Carrying = {"exchange", "read", "cache", "set"} /\ Idle.at = "idle"
  BY DEF Exchanging, Carrying, Idle
<1>3. ASSUME UNCHANGED <<loop, startup, startupOtp, memory, cached, parted>>
      PROVE  TokenInv'
  BY <1>3
<1>4. ASSUME NEW chat \in Chats, SendPassword(chat) \/ SendRestart(chat) PROVE TokenInv'
  BY <1>3, <1>4 DEF SendPassword, SendRestart, startupVars, tokenVars, otpHistory
<1>5. CASE HandleMessage
  <2>1. /\ loop'.at \in {"idle", "dispatch"} /\ loop.at = "idle"
        /\ UNCHANGED <<startup, startupOtp, memory, cached, parted>>
    BY <1>2, <1>5 DEF HandleMessage, startupVars, tokenVars, otpHistory
  <2>2. QED
    BY <1>2, <2>1
<1>6. CASE HandleRestartCommand
  BY <1>3, <1>6 DEF HandleRestartCommand, startupVars, tokenVars, otpHistory
<1>7. CASE Dispatch
  <2>1. CASE loop.chat \in isRestartOTP
    <3>1. /\ loop.at = "dispatch" /\ loop'.at = "exchange" /\ parted' \in BOOLEAN
          /\ ~parted' => ~parted /\ startup \notin Carrying
          /\ UNCHANGED <<startup, startupOtp, memory, cached>>
      BY <1>1, <1>7, <2>1 DEF Dispatch, DispatchRestart, Present, TakeInHand, tokenVars
    <3>2. QED
      BY <1>2, <3>1
  <2>2. CASE loop.chat \notin isRestartOTP
    <3>1. /\ loop.at = "dispatch" /\ loop' = Idle
          /\ \/ UNCHANGED <<startup, startupOtp>>
             \/ startup = "receive" /\ startup' = "leaving"
          /\ UNCHANGED <<memory, cached, parted>>
      BY <1>7, <2>2 DEF Dispatch, tokenVars, otpHistory
    <3>2. QED
      BY <1>2, <3>1
  <2>3. QED
    BY <2>1, <2>2
<1>8. CASE RestartAccepted
  <2>1. /\ loop.at = "exchange" /\ loop'.at = "read"
        /\ UNCHANGED <<startup, startupOtp, cached, parted>>
    BY <1>1, <1>8 DEF RestartAccepted, startupVars, otpHistory
  <2>2. QED
    BY <1>2, <2>1
<1>9. CASE RestartReads
  <2>1. /\ loop.at = "read" /\ loop'.at = "cache" /\ loop'.otp = memory
        /\ UNCHANGED <<startup, startupOtp, memory, cached, parted>>
    BY <1>1, <1>9 DEF RestartReads, startupVars, tokenVars, otpHistory
  <2>2. QED
    BY <1>2, <2>1
<1>10. CASE RestartRefused \/ RestartCached \/ RestartCacheFails
  <2>1. loop' = Idle /\ UNCHANGED <<startup, startupOtp, memory>>
    BY <1>10 DEF RestartRefused, RestartCached, RestartCacheFails, startupVars, tokenVars
  <2>2. CASE RestartRefused
    BY <1>2, <2>1, <2>2 DEF RestartRefused, tokenVars, otpHistory
  <2>3. CASE RestartCached
    BY <1>2, <2>1, <2>3 DEF RestartCached, SetTradingToken, otpHistory
  <2>4. CASE RestartCacheFails
    BY <1>2, <2>1, <2>4 DEF RestartCacheFails
  <2>5. QED
    BY <1>10, <2>2, <2>3, <2>4
<1>11. CASE SetRestartHandler \/ Login
  BY <1>1, <1>2, <1>11 DEF SetRestartHandler, Login, tokenVars, otpHistory
<1>12. CASE LoginFails \/ LookUpFails \/ StartupCacheFails
  BY <1>12 DEF LoginFails, LookUpFails, StartupCacheFails
<1>13. CASE LookUpToken
  <2>1. CASE cached # NoToken
    <3>1. /\ startup' = "set" /\ startupOtp' = cached /\ UNCHANGED <<loop, memory, cached>>
          /\ parted' = (parted \/ loop.at \in Carrying)
      BY <1>13, <2>1 DEF LookUpToken, TakeInHand, tokenVars
    <3>2. QED
      BY <1>1, <1>2, <3>1
  <2>2. CASE cached = NoToken
    <3>1. startup' = "ask" /\ UNCHANGED <<loop, memory, cached, parted>>
      BY <1>13, <2>2 DEF LookUpToken, AskFirst, tokenVars
    <3>2. QED
      BY <1>1, <1>2, <2>2, <3>1
  <2>3. QED
    BY <2>1, <2>2
<1>14. CASE UseCachedToken
  BY <1>1, <1>2, <1>14 DEF UseCachedToken, otpHistory
<1>15. CASE Ask \/ Notify \/ Timeout \/ NotifyFails
  BY <1>1, <1>2, <1>15 DEF Ask, Notify, Timeout, NotifyFails, tokenVars, otpHistory
<1>16. CASE LeaveRequest
  BY <1>1, <1>2, <1>16 DEF LeaveRequest, NoAnswer, Present, TakeInHand, tokenVars, otpHistory
<1>17. CASE StartupAccepted \/ StartupReads
  BY <1>1, <1>2, <1>17 DEF StartupAccepted, StartupReads, tokenVars, otpHistory
<1>18. CASE StartupRefused
  BY <1>1, <1>2, <1>18 DEF StartupRefused, tokenVars, otpHistory
<1>19. CASE StartupCached
  BY <1>1, <1>2, <1>19 DEF StartupCached, SetTradingToken, otpHistory
<1>20. CASE CrashApp
  BY <1>2, <1>20 DEF CrashApp
<1>21. CASE TokenExpires
  BY <1>21 DEF TokenExpires, startupVars, otpHistory
<1>22. CASE UNCHANGED otpVars
  BY <1>3, <1>22 DEF otpVars, startupVars, tokenVars, otpHistory
<1>23. QED
  BY <1>4, <1>5, <1>6, <1>7, <1>8, <1>9, <1>10, <1>11, <1>12, <1>13, <1>14, <1>15, <1>16, <1>17,
     <1>18, <1>19, <1>20, <1>21, <1>22 DEF OtpNext, LoopStep, StartupStep

-----------------------------------------------------------------------------
LEMMA OtpInvariant == OtpSpec => []OtpInv
<1>1. OtpInv /\ [OtpNext]_otpVars => OtpInv'
  BY OtpTypesStep, PasswordStep, TokenStep DEF OtpInv
<1>2. QED
  BY InitOtp, <1>1, PTL DEF OtpSpec

(* No password is presented to the broker twice, whichever of main and the *)
(* restarts of any chats gets it and wherever the process dies.            *)
THEOREM OncePerPassword == OtpSpec => []PasswordUsedOnce
<1>1. OtpInv => PasswordUsedOnce
  BY DEF OtpInv, PasswordInv, UnusedInPlace, PasswordUsedOnce
<1>2. QED
  BY OtpInvariant, <1>1, PTL

(* Once main has its token and nobody has one in hand, the token in Redis  *)
(* is the one in memory, or there is none, unless a call failed or two     *)
(* goroutines had a token in hand at the same time: main reads the cached  *)
(* token in one step and sets it in another (cmd/app/main.go), and a       *)
(* /restart may exchange a password in between.                            *)
THEOREM CacheAgrees == OtpSpec => []CacheHoldsTheToken
<1>1. OtpInv => CacheHoldsTheToken
  BY DEF OtpInv, TokenInv, TokenCarried, CacheHoldsTheToken, Carrying, Exchanging
<1>2. QED
  BY OtpInvariant, <1>1, PTL

(* The state of the flow is well formed.                                   *)
THEOREM OtpTypeCorrect == OtpSpec => []OtpTypeOK
<1>1. OtpInv => OtpTypeOK
  BY DEF OtpInv, OtpTypes, TokenTypes, FlagTypes, LoopTypes, StartupTypes, OtpTypeOK
<1>2. QED
  BY OtpInvariant, <1>1, PTL
=============================================================================

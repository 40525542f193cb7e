------------------------------ MODULE OtpFlow ------------------------------
(***************************************************************************)
(* How the application gets its trading token.  The main goroutine asks    *)
(* for a one-time password in Telegram (cmd/app/main.go,                   *)
(* RequestSmartOTP) while the message loop of the bot runs on its own      *)
(* (service/telegram/bot_service.go) and may be serving a /restart, which  *)
(* also takes a password; both exchange theirs at the broker through the   *)
(* same AuthService and cache the token in Redis.  At the start, main sets *)
(* the handler of /restart, logs in, looks in Redis and sets the token it  *)
(* finds there: four steps, between which the loop goes on.                *)
(*                                                                         *)
(* Passwords are numbered in the order they are sent, a token carries the  *)
(* number of the password it was exchanged for.  Messages other than       *)
(* /restart and passwords are one kind: they change nothing here.          *)
(***************************************************************************)
EXTENDS Integers, Sequences, FiniteSets

CONSTANTS
  Chats,        \* chats that talk to the bot
  MaxAttempts,  \* passwords asked for at startup, 3 in main.go
  MaxPasswords, \* bound: passwords sent
  MaxRestarts,  \* bound: /restart messages sent
  MaxOtpFaults  \* bound: failed logins, sends and Redis calls, crashes

ASSUME ChatsAssumption == IsFiniteSet(Chats) /\ "app" \notin Chats
ASSUME OtpBounds ==
  MaxAttempts \in Nat \ {0} /\ {MaxPasswords, MaxRestarts, MaxOtpFaults} \subseteq Nat

App == "app"       \* key 0 of waitingOTP: the request of the main goroutine
NoToken == 0
NoPassword == 0
EarlierToken == -1 \* one that an earlier run of the application left in Redis
Tokens == {EarlierToken} \cup 0..MaxPasswords

VARIABLES
  inbox,         \* updates of Telegram that the loop has not taken
  sent,          \* passwords sent so far
  restarts,      \* /restart messages sent so far
  loop,          \* the message loop: where it stands, the chat and password in hand
  waitingOTP,    \* the keys that are true
  isRestartOTP,  \* the keys that are true
  startup,       \* where the main goroutine stands
  attempt,       \* its attempt
  startupOtp,    \* the password, later the token, it has in hand
  memory,        \* tradingToken of AuthService
  cached,        \* the trading token in Redis
  exchanged,     \* history: how often each password was presented to the broker
  parted,        \* history: two goroutines had a token in hand at the same
                 \* time, or a call failed that joins memory and Redis
  otpFaults      \* failures so far

chatVars == <<inbox, sent, restarts>>
flagVars == <<waitingOTP, isRestartOTP>>
startupVars == <<startup, attempt, startupOtp>>
tokenVars == <<memory, cached>>
otpHistory == <<exchanged, parted>>
otpVars == <<chatVars, loop, flagVars, startupVars, tokenVars, otpHistory, otpFaults>>

Idle == [at |-> "idle", chat |-> App, otp |-> NoPassword]

OtpInit ==
  /\ inbox = <<>> /\ sent = 0 /\ restarts = 0
  /\ loop = Idle
  /\ waitingOTP = {} /\ isRestartOTP = {}
  /\ startup = "boot" /\ attempt = 0 /\ startupOtp = NoPassword
  /\ memory = NoToken /\ cached \in {NoToken, EarlierToken}
  /\ exchanged = [p \in 1..MaxPasswords |-> 0] /\ parted = FALSE
  /\ otpFaults = 0

OtpFault == otpFaults < MaxOtpFaults /\ otpFaults' = otpFaults + 1

(* A goroutine has a token in hand: it exchanges a password, or is about   *)
(* to set the token it has read from Redis.                                *)
Exchanging == {"exchange", "read", "cache"}
Carrying == Exchanging \cup {"set"}

TakeInHand(other) == parted' = (parted \/ other \in Carrying)

(* A password is presented to the broker.                                  *)
Present(p, other) ==
  /\ exchanged' = [exchanged EXCEPT ![p] = @ + 1]
  /\ TakeInHand(other)

-----------------------------------------------------------------------------
(* Users.                                                                  *)

SendPassword(chat) ==
  /\ sent < MaxPasswords
  /\ sent' = sent + 1
  /\ inbox' = Append(inbox, [kind |-> "otp", chat |-> chat, otp |-> sent + 1])
  /\ UNCHANGED <<restarts, loop, flagVars, startupVars, tokenVars, otpHistory, otpFaults>>

SendRestart(chat) ==
  /\ restarts < MaxRestarts
  /\ restarts' = restarts + 1
  /\ inbox' = Append(inbox, [kind |-> "restart", chat |-> chat, otp |-> NoPassword])
  /\ UNCHANGED <<sent, loop, flagVars, startupVars, tokenVars, otpHistory, otpFaults>>

-----------------------------------------------------------------------------
(* The message loop.                                                       *)

(* Nobody waits: the sender is told so.                                    *)
Waiting(chat) == waitingOTP \cap {chat, App} # {}

HandleMessage ==
  /\ loop.at = "idle" /\ inbox # <<>> /\ Head(inbox).kind = "otp"
  /\ inbox' = Tail(inbox)
  /\ loop' = IF Waiting(Head(inbox).chat)
             THEN [at |-> "dispatch", chat |-> Head(inbox).chat, otp |-> Head(inbox).otp]
             ELSE Idle
  /\ UNCHANGED <<sent, restarts, flagVars, startupVars, tokenVars, otpHistory, otpFaults>>

(* Refused until main has set the handler, and while this chat waits.      *)
HandleRestartCommand ==
  /\ loop.at = "idle" /\ inbox # <<>> /\ Head(inbox).kind = "restart"
  /\ inbox' = Tail(inbox)
  /\ LET chat == Head(inbox).chat
     IN  IF startup = "boot" \/ chat \in waitingOTP
         THEN UNCHANGED flagVars
         ELSE /\ waitingOTP' = waitingOTP \cup {chat}
              /\ isRestartOTP' = isRestartOTP \cup {chat}
  /\ UNCHANGED <<sent, restarts, loop, startupVars, tokenVars, otpHistory, otpFaults>>

(* Seeded fault: the password of a restart is offered to main as well.     *)
DispatchRestart_Both(chat, otp) ==
  /\ loop' = [loop EXCEPT !.at = "exchange"]
  /\ IF startup = "receive"
     THEN startup' = "leaving" /\ startupOtp' = otp
     ELSE UNCHANGED <<startup, startupOtp>>

DispatchRestart(chat, otp) ==
  /\ loop' = [loop EXCEPT !.at = "exchange"]
  /\ UNCHANGED <<startup, startupOtp>>

(* A pending restart of the chat takes the password.  Otherwise it is      *)
(* offered to main without blocking: if main is not at its select, the     *)
(* password is dropped and the sender hears nothing.  (The channel per     *)
(* chat, otpChans, is never filled.)                                       *)
Dispatch ==
  /\ loop.at = "dispatch"
  /\ IF loop.chat \in isRestartOTP
     THEN /\ DispatchRestart(loop.chat, loop.otp)
          /\ Present(loop.otp, startup)
     ELSE /\ loop' = Idle
          /\ IF startup = "receive"
             THEN startup' = "leaving" /\ startupOtp' = loop.otp
             ELSE UNCHANGED <<startup, startupOtp>>
          /\ UNCHANGED otpHistory
  /\ UNCHANGED <<chatVars, flagVars, attempt, tokenVars, otpFaults>>

(* The broker accepts or refuses the password; GetTradingToken sets the    *)
(* token in memory, reads it again there and writes it to Redis.           *)
RestartAccepted ==
  /\ loop.at = "exchange"
  /\ memory' = loop.otp
  /\ loop' = [loop EXCEPT !.at = "read"]
  /\ UNCHANGED <<chatVars, flagVars, startupVars, cached, otpHistory, otpFaults>>

RestartReads ==
  /\ loop.at = "read"
  /\ loop' = [loop EXCEPT !.at = "cache", !.otp = memory]
  /\ UNCHANGED <<chatVars, flagVars, startupVars, tokenVars, otpHistory, otpFaults>>

(* Seeded fault: the flags are reset after a success only.                 *)
ResetFlags_OnSuccess(success) ==
  IF success THEN /\ waitingOTP' = waitingOTP \ {loop.chat}
                  /\ isRestartOTP' = isRestartOTP \ {loop.chat}
  ELSE UNCHANGED flagVars

ResetFlags(success) ==
  /\ waitingOTP' = waitingOTP \ {loop.chat}
  /\ isRestartOTP' = isRestartOTP \ {loop.chat}

RestartRefused ==
  /\ loop.at = "exchange"
  /\ ResetFlags(FALSE)
  /\ loop' = Idle
  /\ UNCHANGED <<chatVars, startupVars, tokenVars, otpHistory, otpFaults>>

(* Seeded fault: a token that is still in Redis is kept.                   *)
SetTradingToken_IfAbsent(token) == IF cached = NoToken THEN token ELSE cached

SetTradingToken(token) == token

RestartCached ==
  /\ loop.at = "cache"
  /\ cached' = SetTradingToken(loop.otp)
  /\ ResetFlags(TRUE)
  /\ loop' = Idle
  /\ UNCHANGED <<chatVars, startupVars, memory, otpHistory, otpFaults>>

(* A failed write to Redis is only logged.                                 *)
RestartCacheFails ==
  /\ loop.at = "cache"
  /\ OtpFault
  /\ ResetFlags(TRUE)
  /\ loop' = Idle
  /\ parted' = TRUE
  /\ UNCHANGED <<chatVars, startupVars, tokenVars, exchanged>>

-----------------------------------------------------------------------------
(* The main goroutine.                                                     *)

SetRestartHandler ==
  /\ startup = "boot"
  /\ startup' = "login"
  /\ UNCHANGED <<chatVars, loop, flagVars, attempt, startupOtp, tokenVars,
                 otpHistory, otpFaults>>

Login ==
  /\ startup = "login"
  /\ startup' = "lookup"
  /\ UNCHANGED <<chatVars, loop, flagVars, attempt, startupOtp, tokenVars,
                 otpHistory, otpFaults>>

(* Without a login main neither looks for a token nor asks for one.        *)
LoginFails ==
  /\ startup = "login"
  /\ OtpFault
  /\ startup' = "done"
  /\ parted' = TRUE
  /\ UNCHANGED <<chatVars, loop, flagVars, attempt, startupOtp, tokenVars, exchanged>>

(* The token in Redis is read here and set in a later step.  A failed read *)
(* counts as no token.                                                     *)
AskFirst == startup' = "ask" /\ attempt' = 1 /\ UNCHANGED startupOtp

LookUpToken ==
  /\ startup = "lookup"
  /\ IF cached # NoToken
     THEN /\ startup' = "set" /\ startupOtp' = cached /\ UNCHANGED attempt
          /\ TakeInHand(loop.at)
     ELSE AskFirst /\ UNCHANGED parted
  /\ UNCHANGED <<chatVars, loop, flagVars, tokenVars, exchanged, otpFaults>>

LookUpFails ==
  /\ startup = "lookup"
  /\ OtpFault
  /\ AskFirst
  /\ parted' = TRUE
  /\ UNCHANGED <<chatVars, loop, flagVars, tokenVars, exchanged>>

UseCachedToken ==
  /\ startup = "set"
  /\ memory' = startupOtp
  /\ startup' = "done"
  /\ UNCHANGED <<chatVars, loop, flagVars, attempt, startupOtp, cached,
                 otpHistory, otpFaults>>

Ask ==
  /\ startup = "ask"
  /\ waitingOTP' = waitingOTP \cup {App}
  /\ startup' = "notify"
  /\ UNCHANGED <<chatVars, loop, isRestartOTP, attempt, startupOtp, tokenVars,
                 otpHistory, otpFaults>>

Notify ==
  /\ startup = "notify"
  /\ startup' = "receive"
  /\ UNCHANGED <<chatVars, loop, flagVars, attempt, startupOtp, tokenVars,
                 otpHistory, otpFaults>>

(* The message cannot be sent, or no password comes in time.               *)
NotifyFails ==
  /\ startup = "notify"
  /\ OtpFault
  /\ startup' = "leaving" /\ startupOtp' = NoPassword
  /\ UNCHANGED <<chatVars, loop, flagVars, attempt, tokenVars, otpHistory>>

Timeout ==
  /\ startup = "receive"
  /\ startup' = "leaving" /\ startupOtp' = NoPassword
  /\ UNCHANGED <<chatVars, loop, flagVars, attempt, tokenVars, otpHistory, otpFaults>>

(* Seeded fault: a request without answer is repeated without end.         *)
NoAnswer_AskAgain == "ask"

NoAnswer == "done"

(* The deferred reset, then the exchange or the end.                       *)
LeaveRequest ==
  /\ startup = "leaving"
  /\ waitingOTP' = waitingOTP \ {App}
  /\ IF startupOtp = NoPassword
     THEN startup' = NoAnswer /\ UNCHANGED otpHistory
     ELSE startup' = "exchange" /\ Present(startupOtp, loop.at)
  /\ UNCHANGED <<chatVars, loop, isRestartOTP, attempt, startupOtp, tokenVars, otpFaults>>

StartupAccepted ==
  /\ startup = "exchange"
  /\ memory' = startupOtp
  /\ startup' = "read"
  /\ UNCHANGED <<chatVars, loop, flagVars, attempt, startupOtp, cached, otpHistory, otpFaults>>

StartupReads ==
  /\ startup = "read"
  /\ startup' = "cache" /\ startupOtp' = memory
  /\ UNCHANGED <<chatVars, loop, flagVars, attempt, tokenVars, otpHistory, otpFaults>>

(* Seeded fault: the last try is not counted.                              *)
TriesLeft_OneMore == attempt <= MaxAttempts

TriesLeft == attempt < MaxAttempts

StartupRefused ==
  /\ startup = "exchange"
  /\ IF TriesLeft
     THEN startup' = "ask" /\ attempt' = attempt + 1
     ELSE startup' = "done" /\ UNCHANGED attempt
  /\ startupOtp' = NoPassword
  /\ UNCHANGED <<chatVars, loop, flagVars, tokenVars, otpHistory, otpFaults>>

StartupCached ==
  /\ startup = "cache"
  /\ cached' = SetTradingToken(startupOtp)
  /\ startup' = "done"
  /\ UNCHANGED <<chatVars, loop, flagVars, attempt, startupOtp, memory, otpHistory, otpFaults>>

StartupCacheFails ==
  /\ startup = "cache"
  /\ OtpFault
  /\ startup' = "done"
  /\ parted' = TRUE
  /\ UNCHANGED <<chatVars, loop, flagVars, attempt, startupOtp, tokenVars, exchanged>>

-----------------------------------------------------------------------------
(* The process dies and starts again: updates already fetched may be lost, *)
(* the ones not fetched are delivered.  Redis keeps its token.             *)
CrashApp ==
  /\ OtpFault
  /\ \E kept \in 1..(Len(inbox) + 1) : inbox' = SubSeq(inbox, kept, Len(inbox))
  /\ loop' = Idle
  /\ waitingOTP' = {} /\ isRestartOTP' = {}
  /\ startup' = "boot" /\ attempt' = 0 /\ startupOtp' = NoPassword
  /\ memory' = NoToken
  /\ parted' = FALSE
  /\ UNCHANGED <<sent, restarts, cached, exchanged>>

(* The token in Redis expires.                                             *)
TokenExpires ==
  /\ cached # NoToken
  /\ cached' = NoToken
  /\ UNCHANGED <<chatVars, loop, flagVars, startupVars, memory, otpHistory, otpFaults>>

LoopStep == \/ HandleMessage \/ HandleRestartCommand \/ Dispatch
            \/ RestartAccepted \/ RestartReads \/ RestartRefused \/ RestartCached

StartupStep == \/ SetRestartHandler \/ Login \/ LookUpToken \/ UseCachedToken
               \/ Ask \/ Notify \/ Timeout \/ LeaveRequest
               \/ StartupAccepted \/ StartupReads \/ StartupRefused
               \/ StartupCached

OtpNext ==
  \/ \E chat \in Chats : SendPassword(chat) \/ SendRestart(chat)
  \/ LoopStep \/ RestartCacheFails
  \/ StartupStep \/ LoginFails \/ LookUpFails \/ NotifyFails \/ StartupCacheFails
  \/ CrashApp \/ TokenExpires

OtpSpec == OtpInit /\ [][OtpNext]_otpVars

(* Both goroutines run; every HTTP call has a timeout of 30 seconds and    *)
(* the request one of two minutes.                                         *)
OtpFairness == WF_otpVars(LoopStep) /\ WF_otpVars(StartupStep)

FairOtpSpec == OtpSpec /\ OtpFairness

-----------------------------------------------------------------------------
(* Properties.                                                             *)

OtpTypeOK ==
  /\ waitingOTP \subseteq Chats \cup {App}
  /\ isRestartOTP \subseteq Chats
  /\ loop.at \in {"idle", "dispatch"} \cup Exchanging
  /\ startup \in {"boot", "login", "lookup", "ask", "notify", "receive", "leaving", "done"}
                  \cup Carrying
  /\ attempt \in 0..MaxAttempts
  /\ {memory, cached} \subseteq Tokens

(* A one-time password is presented to the broker at most once, although   *)
(* the request of main and a /restart both take passwords from the same    *)
(* chats.                                                                  *)
PasswordUsedOnce == \A p \in DOMAIN exchanged : exchanged[p] <= 1

(* Main has not decided yet which token it uses.                           *)
Starting == startup \in {"boot", "login", "lookup"}

(* Once main has its token and nobody has one in hand, the token in Redis, *)
(* which the next start will use, is the one in memory, or there is none;  *)
(* only a failed call, or two goroutines with a token in hand at the same  *)
(* time (they share tradingToken and the key in Redis without a lock), can *)
(* part them, and a crash ends what they did.                              *)
CacheHoldsTheToken ==
  (loop.at \notin Carrying /\ startup \notin Carrying /\ ~Starting)
    => cached \in {memory, NoToken} \/ parted

(* The start always comes to its end: main waits for no password forever,  *)
(* whatever the users send and /restart takes from it.                     *)
StartupEnds == []<>(startup = "done")

(* A password that a chat sends while its /restart is pending ends the     *)
(* restart, whatever the broker answers.                                   *)
RestartEnds ==
  \A chat \in Chats :
    (chat \in isRestartOTP /\ \E i \in DOMAIN inbox :
                                inbox[i].kind = "otp" /\ inbox[i].chat = chat)
      ~> chat \notin isRestartOTP
=============================================================================

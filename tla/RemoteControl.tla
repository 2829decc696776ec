---------------------------- MODULE RemoteControl ----------------------------
(***************************************************************************)
(* The chat side of the program: the thread of FeishuWSClient delivers one *)
(* message after the other to GatewayController._handle_command, which     *)
(* toggles the notification, changes the configuration and replies through *)
(* the notifier, while pool workers send alerts through the same notifier  *)
(* and the thread that opens and closes the camera connects and            *)
(* disconnects it.  Composes FeishuNotifier and ConfigService.             *)
(*                                                                         *)
(* One camera session, and with it one notifier; commands may also come    *)
(* before and after it, because the client of the first session goes on    *)
(* for as long as the process does.  "query" stands for init, help,        *)
(* status, the other forms of config and every unknown command: they       *)
(* change nothing and reply.  "state" is the alias of status.              *)
(***************************************************************************)
EXTENDS FeishuNotifier, ConfigService

CONSTANTS
  Workers,      \* threads of the pool
  MaxCommands,  \* bound: commands received
  MaxAlerts     \* bound: alerts sent

ChatThread == "chat"
Opener     == "opener"
Commands   == {"query", "start", "stop", "set", "state"}
NoCommand  == "none"

ASSUME RemoteAssumption ==
  /\ Senders = Workers \cup {ChatThread, Opener} /\ Nobody \notin Senders
  /\ Persisters = {ChatThread, Opener}
  /\ MaxCommands \in Nat /\ MaxAlerts \in Nat

VARIABLES
  session,    \* "none", "opening" (there is a notifier), "open" (and services), "closed"
  opening,    \* where the opener is: "connect", "list", "persist", "build"
  notifying,  \* _notification_enabled
  ws,         \* "off", "on", or "dead": it is never started again
  command,    \* the command that is handled, or NoCommand
  step,       \* where the chat thread is in _handle_command
  told,       \* history: the snapshot service existed when set was called
  commands, alerts  \* bounds

gateway == <<session, opening, notifying, ws>>
handler == <<command, step, told>>
bounds  == <<commands, alerts>>
vars    == <<notifierVars, configVars, gateway, handler, bounds>>

Init ==
  /\ NotifierInit /\ ConfigInit
  /\ session = "none" /\ opening = "connect" /\ notifying = FALSE
  /\ ws \in {"off", "on"}
  /\ command = NoCommand /\ step = "idle" /\ told = FALSE
  /\ commands = 0 /\ alerts = 0

HasNotifier == session \in {"opening", "open"}
HasServices == session = "open"

-----------------------------------------------------------------------------
(* open_camera and _release_adapters, as far as they concern the chat      *)

OpenBegins ==
  /\ session = "none" /\ session' = "opening"
  /\ UNCHANGED <<notifierVars, configVars, opening, notifying, ws, handler, bounds>>

(* connect looks for a chat when none is configured. *)
ConnectNotifier ==
  /\ session = "opening" /\ opening = "connect"
  /\ Connect
  /\ opening' = IF chat = NoChat THEN "list" ELSE "build"
  /\ UNCHANGED <<configVars, session, notifying, ws, handler, bounds>>

ListChats ==
  /\ opening = "list" /\ Begin(Opener, "list")
  /\ opening' = "listing"
  /\ UNCHANGED <<configVars, session, notifying, ws, handler, bounds>>

ChatListed ==
  /\ opening = "listing" /\ Done(Opener)
  /\ IF result[Opener] = "true"
     THEN opening' = "persist" /\ \E c \in Chats : LearnChat(Opener, c)
     ELSE opening' = "build" /\ UNCHANGED configVars
  /\ UNCHANGED <<session, notifying, ws, handler, bounds>>

ChatPersisted ==
  /\ opening = "persist" /\ persist[Opener] = "idle" /\ opening' = "build"
  /\ UNCHANGED <<notifierVars, configVars, session, notifying, ws, handler, bounds>>

(* The services get the option as it is in memory, and the client of the   *)
(* chat is started unless it ever was.                                     *)
OpenEnds ==
  /\ session = "opening" /\ opening = "build"
  /\ session' = "open" /\ notifying' \in BOOLEAN
  /\ BuildServices
  /\ ws' = IF ws = "off" THEN "on" ELSE ws
  /\ UNCHANGED <<notifierVars, opening, handler, bounds>>

CloseSession ==
  /\ session = "open" /\ session' = "closed"
  /\ Disconnect
  /\ UNCHANGED <<configVars, opening, notifying, ws, handler, bounds>>

-----------------------------------------------------------------------------
(* _dispatch_aggregated on a worker *)

SendAlert(w) ==
  /\ HasServices /\ notifying /\ alerts < MaxAlerts
  /\ alerts' = alerts + 1 /\ UNCHANGED commands
  /\ \E form \in {"image", "text"} :
       IF connected /\ chat # NoChat THEN Begin(w, form) ELSE BeginNothing(w, form)
  /\ UNCHANGED <<configVars, gateway, handler>>

(* NOTIFICATION_SENT, ERROR_OCCURRED or nothing, as the result is. *)
AlertDone(w) ==
  /\ Done(w)
  /\ UNCHANGED <<configVars, gateway, handler, bounds>>

(* A worker that has taken the task before the session closed.             *)
SendLate(w) ==
  /\ session = "closed" /\ notifying /\ alerts < MaxAlerts
  /\ alerts' = alerts + 1 /\ UNCHANGED commands
  /\ BeginNothing(w, "text")
  /\ UNCHANGED <<configVars, gateway, handler>>

-----------------------------------------------------------------------------
(* FeishuWSClient and _handle_command *)

WsDies ==
  /\ ws = "on" /\ command = NoCommand /\ ws' = "dead"
  /\ UNCHANGED <<notifierVars, configVars, session, opening, notifying, handler, bounds>>

StepTo(point) == step' = point

(* _on_message and _parse_command: what is no command is dropped. *)
Receive ==
  /\ ws = "on" /\ command = NoCommand /\ commands < MaxCommands
  /\ commands' = commands + 1
  /\ command' \in Commands /\ StepTo("chat")
  /\ UNCHANGED <<notifierVars, configVars, gateway, told, alerts>>

(* set_chat_id: alerts follow whoever sent the last command. *)
SetChatId ==
  /\ step = "chat"
  /\ \E from \in Chats :
       IF HasNotifier /\ from # chat
       THEN LearnChat(ChatThread, from) /\ StepTo("persist")
       ELSE UNCHANGED configVars /\ StepTo("handle")
  /\ UNCHANGED <<notifierVars, gateway, command, told, bounds>>

ChatIdSet ==
  /\ step = "persist" /\ persist[ChatThread] = "idle" /\ StepTo("handle")
  /\ UNCHANGED <<notifierVars, configVars, gateway, command, told, bounds>>

(* Done with the command, for better or worse. *)
Finish == command' = NoCommand /\ StepTo("idle")

HandleQuery ==
  /\ step = "handle" /\ command = "query" /\ StepTo("reply")
  /\ UNCHANGED <<notifierVars, configVars, gateway, command, told, bounds>>

(* Without services, before or during the opening, nothing is toggled, but *)
(* the reply is the same.                                                  *)
HandleToggle ==
  /\ step = "handle" /\ command \in {"start", "stop"} /\ StepTo("reply")
  /\ notifying' = IF HasServices THEN command = "start" ELSE notifying
  /\ UNCHANGED <<notifierVars, configVars, session, opening, ws, command, told, bounds>>

(* The parser accepts the alias, and no branch of _handle_command knows it.*)
HandleAlias ==
  /\ step = "handle" /\ command = "state" /\ Finish
  /\ UNCHANGED <<notifierVars, configVars, gateway, told, bounds>>

(* save_config has raised what _render_config does not catch: the error    *)
(* ends the handling of the message, and nobody replies.                   *)
SetEscapes ==
  /\ step = "set" /\ SaveEscapes /\ Finish
  /\ UNCHANGED <<notifierVars, gateway, told, bounds>>

(* The text of the reply is rendered only when there is a notifier, and    *)
(* rendering it is what changes the configuration.                         *)
HandleSet ==
  /\ step = "handle" /\ command = "set"
  /\ \/ HasNotifier /\ StepTo("set") /\ told' = HasServices
        /\ \E v \in Options : SetMemory(v)
     \/ HasNotifier /\ StepTo("reply") /\ UNCHANGED told /\ SetRefused
     \/ ~HasNotifier /\ StepTo("reply") /\ UNCHANGED <<told, configVars>>
  /\ UNCHANGED <<notifierVars, gateway, command, bounds>>

ConfigStep ==
  /\ step = "set"
  /\ SaveOpen \/ SaveDump \/ SaveFails \/ Notify(HasServices)
  /\ UNCHANGED <<notifierVars, gateway, handler, bounds>>

SetAnswered ==
  /\ step = "set" /\ SetReturns /\ StepTo("reply")
  /\ UNCHANGED <<notifierVars, gateway, command, told, bounds>>

(* No notifier, no reply; without a chat or a client send_text gives up.   *)
Reply ==
  /\ step = "reply"
  /\ \/ /\ ~HasNotifier /\ Finish /\ UNCHANGED notifierVars
     \/ /\ HasNotifier /\ (~connected \/ chat = NoChat)
        /\ Finish /\ UNCHANGED notifierVars
     \/ /\ HasNotifier /\ connected /\ chat # NoChat
        /\ Begin(ChatThread, "reply") /\ StepTo("replying")
        /\ UNCHANGED command
  /\ UNCHANGED <<configVars, gateway, told, bounds>>

Replied ==
  /\ step = "replying" /\ Done(ChatThread)
  /\ Finish
  /\ UNCHANGED <<configVars, gateway, told, bounds>>

-----------------------------------------------------------------------------
NotifierStep(t) == SenderStep(t) /\ UNCHANGED <<configVars, gateway, handler, bounds>>
Persisting(t) == PersistStep(t) /\ UNCHANGED <<notifierVars, gateway, handler, bounds>>
TimePasses == (Tick \/ Rest) /\ UNCHANGED <<configVars, gateway, handler, bounds>>

ChatStep ==
  \/ SetChatId \/ ChatIdSet \/ HandleQuery \/ HandleToggle \/ HandleAlias
  \/ HandleSet \/ ConfigStep \/ SetEscapes \/ SetAnswered \/ Reply \/ Replied

OpenerStep == ListChats \/ ChatListed \/ ChatPersisted

Next ==
  \/ OpenBegins \/ ConnectNotifier \/ OpenerStep \/ OpenEnds \/ CloseSession
  \/ \E w \in Workers : SendAlert(w) \/ SendLate(w) \/ AlertDone(w)
  \/ WsDies \/ Receive \/ ChatStep
  \/ \E t \in Senders : NotifierStep(t)
  \/ \E t \in Persisters : Persisting(t)
  \/ TimePasses

Spec == Init /\ [][Next]_vars

(* Threads go on, requests end and time passes; nobody need open, close,   *)
(* send or ask.                                                            *)
FairSpec ==
  /\ Spec
  /\ WF_vars(ChatStep) /\ WF_vars(TimePasses)
  /\ \A t \in Senders : WF_vars(NotifierStep(t))
  /\ \A t \in Persisters : WF_vars(Persisting(t))

-----------------------------------------------------------------------------
(* The type invariant of the chat thread, the opener and the notifier. *)
TypeOK ==
  /\ session \in {"none", "opening", "open", "closed"}
  /\ opening \in {"connect", "list", "listing", "persist", "build"}
  /\ notifying \in BOOLEAN /\ ws \in {"off", "on", "dead"} /\ told \in BOOLEAN
  /\ command \in Commands \cup {NoCommand}
  /\ step \in {"idle", "chat", "persist", "handle", "set", "reply", "replying"}
  /\ commands \in 0 .. MaxCommands /\ alerts \in 0 .. MaxAlerts
  /\ at \in [Senders -> Points] /\ goal \in [Senders -> Goals]
  /\ result \in [Senders -> Results]
  /\ trusted \in 0 .. Expire /\ valid \in 0 .. Expire
  /\ lag \in 0 .. TooLong /\ held \in [Senders -> Tokens]
  /\ attempt \in [Senders -> 0 .. MaxRetries] /\ copies \in [Senders -> 0 .. MaxRetries]

(* What /config set replies is so.  Success: the text of the file has held *)
(* the value, and holds it still unless the search for a chat wrote back   *)
(* what it had read before; and the services that existed run with it, if  *)
(* it is of a kind that reaches them.  Failure: services that are told of  *)
(* changes have not changed.                                               *)
ReplyIsTrue ==
  /\ saving = "saved" =>
       /\ file = wanted \/ clobbered \/ persist[Opener] = "dump"
       /\ kind \in {"pushed", "shared"} /\ told /\ HasServices => live = wanted
  /\ saving = "failed" /\ told /\ kind = "pushed" => live = before

(* A command comes to an end, so that the one thread of the chat goes on   *)
(* to the next: neither a slow token, nor a failing save, nor an alert     *)
(* that holds the token lock, nor the camera closing in between keeps it   *)
(* for ever (FeishuWSClient._on_message, _handle_command).                 *)
CommandsEnd == command # NoCommand ~> command = NoCommand
=============================================================================

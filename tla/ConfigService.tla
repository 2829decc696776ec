---------------------------- MODULE ConfigService ----------------------------
(***************************************************************************)
(* The configuration of config/service.py and config/loader.py: one model  *)
(* in memory, one YAML file, and subscribers that pass a change on to the  *)
(* running services.  A second writer of the file is the notifier, whose   *)
(* _persist_chat_id reads it, changes one key and writes it back.          *)
(*                                                                         *)
(* One option stands for all; what differs is how a running program comes  *)
(* to work with a new value, its kind:                                     *)
(*   pushed   _on_config_changed copies it, as gateway.snapshot_dir;       *)
(*   shared   an adapter reads the model itself, as notifier.app_id;       *)
(*   unused   nothing takes it: those of RESTART_REQUIRED_PREFIXES, of     *)
(*            which the reply says so, and others, as                      *)
(*            gateway.frame_queue_maxsize, of which it does not.           *)
(*                                                                         *)
(* Of the file there is the option's value, or Torn when the file is cut   *)
(* off and options are missing, and whether it holds the tag of a Python   *)
(* tuple, which yaml.dump writes for detector.mock.confidence_range and    *)
(* yaml.safe_load refuses.  Writing opens the file with "w", which empties *)
(* it, and then dumps into it: two steps, each of which may fail.  The     *)
(* lock of the service is not here because only the thread of the chat     *)
(* commands calls set.  Composed in RemoteControl.                         *)
(***************************************************************************)
EXTENDS Integers

CONSTANTS
  Options,   \* values of the option
  Chats,     \* chat ids
  Kinds,     \* kinds of options that are set
  Persisters \* threads that call _persist_chat_id

NoChat == "none"
Torn   == "torn"

ASSUME ConfigAssumption ==
  /\ Options # {} /\ Chats # {} /\ Torn \notin Options /\ NoChat \notin Chats
  /\ Kinds \subseteq {"pushed", "shared", "unused"}

VARIABLES
  kind,       \* the kind of the option
  memory,     \* the option in the AppConfig
  chat,       \* notifier.chat_id in the AppConfig
  file,       \* the option in config.yaml
  tagged,     \* the file holds the tag of a tuple
  live,       \* the option as the running services work with it
  saving,     \* where ConfigService.set is
  wanted,     \* the value it was called with
  before,     \* history: live when it was called
  persist,    \* persist[t]: where t is in _persist_chat_id
  read,       \* read[t]: the option it has read from the file
  clobbered   \* history: a chat id was written back with an older option

setting    == <<saving, wanted, before>>
persisting == <<persist, read, clobbered>>
stored     == <<kind, chat, file, tagged>>
configVars == <<memory, live, stored, setting, persisting>>

(* The process may have saved before, or failed to.                        *)
ConfigInit ==
  /\ kind \in Kinds
  /\ memory = (CHOOSE o \in Options : TRUE) /\ live = memory
  /\ file \in Options \cup {Torn} /\ tagged \in BOOLEAN
  /\ chat \in Chats \cup {NoChat}
  /\ saving = "idle" /\ wanted = memory /\ before = live
  /\ persist = [t \in Persisters |-> "idle"]
  /\ read = [t \in Persisters |-> Torn] /\ clobbered = FALSE

SetGoto(point) == saving' = point
PersistGoto(t, point) == persist' = [persist EXCEPT ![t] = point]
PersistEnds(t) == PersistGoto(t, "idle") /\ read' = [read EXCEPT ![t] = Torn]

-----------------------------------------------------------------------------
(* set: refused before anything is changed for a bad path, bad JSON or a   *)
(* value of the wrong type; then memory, file, subscribers.                *)

SetRefused == saving = "idle" /\ UNCHANGED configVars

SetMemory(v) ==
  /\ saving = "idle" /\ SetGoto("open")
  /\ wanted' = v /\ memory' = v /\ before' = live
  /\ live' = IF kind = "shared" THEN v ELSE live
  /\ UNCHANGED <<stored, persisting>>

(* The directory cannot be made, which is no ConfigError.                  *)
SaveEscapes ==
  /\ saving = "open" /\ SetGoto("idle")
  /\ wanted' = memory /\ before' = live
  /\ UNCHANGED <<memory, live, stored, persisting>>

SaveOpen ==
  /\ saving = "open" /\ SetGoto("dump") /\ file' = Torn /\ tagged' = FALSE
  /\ UNCHANGED <<kind, memory, chat, live, wanted, before, persisting>>

(* When somebody else has written since, what is longer sticks out.        *)
SaveDump ==
  /\ saving = "dump" /\ SetGoto("notify")
  /\ file' \in {wanted} \cup (IF file = Torn THEN {} ELSE {Torn})
  /\ tagged' = TRUE
  /\ clobbered' = (clobbered \/ file' = Torn)
  /\ UNCHANGED <<kind, memory, chat, live, wanted, before, persist, read>>

(* Mutation: a save that fails is only logged. *)
SaveIgnored ==
  /\ saving \in {"open", "dump"} /\ SetGoto("notify")
  /\ UNCHANGED <<memory, live, stored, wanted, before, persisting>>

(* save_config raises ConfigError; the value stays in memory and what was  *)
(* written of the file stays written.                                      *)
SaveFails ==
  /\ saving \in {"open", "dump"} /\ SetGoto("failed")
  /\ UNCHANGED <<memory, live, stored, wanted, before, persisting>>

(* _notify and _on_config_changed, which knows five options: a service     *)
(* that does not exist yet is not told.                                    *)
Notify(exists) ==
  /\ saving = "notify" /\ SetGoto("saved")
  /\ live' = IF exists /\ kind = "pushed" THEN wanted ELSE live
  /\ UNCHANGED <<memory, stored, wanted, before, persisting>>

SetReturns ==
  /\ saving \in {"saved", "failed"} /\ SetGoto("idle")
  /\ wanted' = memory /\ before' = live
  /\ UNCHANGED <<memory, live, stored, persisting>>

(* open_camera builds the services from memory. *)
BuildServices == live' = memory /\ UNCHANGED <<memory, stored, setting, persisting>>

-----------------------------------------------------------------------------
(* set_chat_id and _persist_chat_id: every exception ends it silently.     *)

LearnChat(t, c) ==
  /\ persist[t] = "idle" /\ chat' = c
  /\ PersistGoto(t, "read")
  /\ UNCHANGED <<kind, memory, file, tagged, live, setting, read, clobbered>>

PersistRead(t) ==
  /\ persist[t] = "read" /\ ~tagged /\ PersistGoto(t, "open")
  /\ read' = [read EXCEPT ![t] = file]
  /\ UNCHANGED <<memory, stored, live, setting, clobbered>>

PersistOpen(t) ==
  /\ persist[t] = "open" /\ PersistGoto(t, "dump")
  /\ clobbered' = (clobbered \/ file # read[t])
  /\ file' = Torn /\ tagged' = FALSE
  /\ UNCHANGED <<kind, memory, chat, live, setting, read>>

(* An empty file reads as no options at all, and is written like that; the *)
(* end of what somebody else has written since may stick out.              *)
PersistDump(t) ==
  /\ persist[t] = "dump" /\ PersistEnds(t)
  /\ clobbered' = (clobbered \/ file # Torn \/ read[t] = Torn)
  /\ \/ file' = read[t] /\ tagged' = FALSE
     \/ file # Torn /\ file' = Torn /\ tagged' \in {FALSE, tagged}
  /\ UNCHANGED <<kind, memory, chat, live, setting>>

(* Reading a file with the tag always fails.                               *)
PersistFails(t) ==
  /\ persist[t] \in {"read", "open", "dump"} /\ PersistEnds(t)
  /\ clobbered' = (clobbered \/ persist[t] = "dump")
  /\ UNCHANGED <<memory, stored, live, setting>>

PersistStep(t) ==
  PersistRead(t) \/ PersistOpen(t) \/ PersistDump(t) \/ PersistFails(t)
=============================================================================

--------------------------- MODULE FeishuNotifier ---------------------------
(***************************************************************************)
(* The notifier of adapters/notifier/feishu_adapter.py: the cached tenant  *)
(* token with its lock, alerts with an image or as text, with retries, the *)
(* plain texts that answer commands, and the search for a chat.            *)
(*                                                                         *)
(* Threads of the rest of the program call it: the workers of the pool     *)
(* send alerts, the thread of the chat commands replies, the thread that   *)
(* opens the camera connects.  Composed in RemoteControl.                  *)
(*                                                                         *)
(* Time is counted in ticks.  Computing takes none: time passes while      *)
(* every thread waits for the network, for a pause to end or for the lock. *)
(* A request may last for any time: the 30 s of the HTTP client bound each *)
(* of its phases, and an answer may trickle.                               *)
(***************************************************************************)
EXTENDS Integers, FiniteSets

CONSTANTS
  Senders,       \* threads that use the adapter
  MaxRetries,    \* retry.max_retries
  RetryTicks,    \* retry.retry_interval
  Expire,        \* how long the server accepts a token it has issued
  Margin         \* how much earlier the adapter stops using it: 300 s

ASSUME NotifierAssumption ==
  /\ MaxRetries \in Nat \ {0} /\ RetryTicks \in Nat
  /\ Expire \in Nat /\ Margin \in Nat /\ Margin < Expire

Nobody  == "nobody"
Goals   == {"none", "image", "upload", "text", "reply", "list"}
Results == {"none", "true", "false", "raised"}
Waiting == {"refresh", "upload", "post", "pause", "companion", "reply", "list"}
Points  == {"idle", "token"} \cup Waiting

(* A token as a thread holds it: for how long the server will accept it,   *)
(* and how much of the margin is spent, which is how long its answer was   *)
(* on the way and how long the thread has held it since.  More than the    *)
(* margin is as good as any amount.                                        *)
TooLong == Margin + 1
Tokens  == [left : 0 .. Expire, spent : 0 .. TooLong]
NoToken == [left |-> 0, spent |-> 0]

VARIABLES
  connected,  \* self._client is not None
  trusted,    \* for how long the cached token will be used, 0 for none
  valid,      \* for how long the server will accept it
  lag,        \* history: how long its answer was on the way
  owner,      \* of self._token_lock, during a request
  at,         \* at[t]: where t is
  goal,       \* goal[t]: what t is doing, or did last
  held,       \* held[t]: the token t works with, and the history of it
  attempt,    \* attempt[t]: number of the attempt, from 1
  since,      \* since[t]: how long t has paused, or waited for a token
  result,     \* result[t]: what the last call has returned
  copies      \* history: copies of t's alert that reached the chat

token        == <<trusted, valid, lag, owner>>
progress     == <<goal, held, attempt, copies>>
notifierVars == <<connected, token, at, progress, since, result>>

NotifierInit ==
  /\ connected = FALSE /\ trusted = 0 /\ valid = 0 /\ lag = 0 /\ owner = Nobody
  /\ at = [t \in Senders |-> "idle"] /\ goal = [t \in Senders |-> "none"]
  /\ held = [t \in Senders |-> NoToken] /\ attempt = [t \in Senders |-> 0]
  /\ since = [t \in Senders |-> 0]
  /\ result = [t \in Senders |-> "none"] /\ copies = [t \in Senders |-> 0]

-----------------------------------------------------------------------------
(* Moving a thread.  Posting without a client is an AttributeError, which  *)
(* nothing in the sending of an alert catches.                             *)

Goto(t, point) ==
  at' = [at EXCEPT ![t] = point] /\ since' = [since EXCEPT ![t] = 0]

Hold(t, tok) == held' = [held EXCEPT ![t] = tok]
Return(t, what) ==
  Goto(t, "idle") /\ Hold(t, NoToken) /\ result' = [result EXCEPT ![t] = what]
Continue(t, point, tok) == Goto(t, point) /\ Hold(t, tok) /\ UNCHANGED result

(* send_text and _auto_detect_chat_id catch everything.                    *)
Raise(t) == Return(t, IF goal[t] \in {"reply", "list"} THEN "false" ELSE "raised")

Request(t, point, tok) == IF connected THEN Continue(t, point, tok) ELSE Raise(t)

Aim(t, what) == goal' = [goal EXCEPT ![t] = what]

(* Entering send_message, send_text or _auto_detect_chat_id: all begin     *)
(* with a token.                                                           *)
Begin(t, what) ==
  /\ at[t] = "idle" /\ result[t] = "none"
  /\ Aim(t, what) /\ Goto(t, "token")
  /\ attempt' = [attempt EXCEPT ![t] = 1]
  /\ UNCHANGED <<connected, token, held, result, copies>>

(* Returning at once: no client or no chat to send to.                     *)
BeginNothing(t, what) ==
  /\ at[t] = "idle" /\ result[t] = "none"
  /\ Aim(t, what) /\ Return(t, "false")
  /\ UNCHANGED <<connected, token, attempt, copies>>

(* The caller has looked at what was returned. *)
Done(t) ==
  /\ at[t] = "idle" /\ result[t] # "none"
  /\ Aim(t, "none") /\ result' = [result EXCEPT ![t] = "none"]
  /\ attempt' = [attempt EXCEPT ![t] = 0] /\ copies' = [copies EXCEPT ![t] = 0]
  /\ UNCHANGED <<connected, token, at, held, since>>

Connect == connected' = TRUE /\ UNCHANGED <<token, at, progress, since, result>>

(* disconnect takes no lock and asks nobody.                               *)
Disconnect ==
  /\ connected' = FALSE /\ trusted' = 0 /\ valid' = 0 /\ lag' = 0
  /\ UNCHANGED <<owner, at, progress, since, result>>

-----------------------------------------------------------------------------
(* _get_tenant_token, and how its callers go on.  _send_image_message gets *)
(* a token of its own before _upload_image asks for one, and keeps it; the *)
(* later one is not older.                                                 *)

(* Formatting the text fails when the template names a key that only       *)
(* NotificationService knows; the template may have been set in between.   *)
GoOn(t, tok) ==
  CASE goal[t] = "image"  -> Aim(t, "upload") /\ Continue(t, "token", tok)
    [] goal[t] = "upload" -> Request(t, "upload", held[t]) /\ UNCHANGED goal
    [] goal[t] = "text"   -> (Request(t, "post", tok) \/ Raise(t)) /\ UNCHANGED goal
    [] OTHER              -> Request(t, goal[t], tok) /\ UNCHANGED goal

(* A NotifierError in _upload_image falls back to text, any other error    *)
(* does not.                                                               *)
NotifierError(t) ==
  IF goal[t] = "upload"
  THEN Aim(t, "text") /\ Continue(t, "token", NoToken)
  ELSE Raise(t) /\ UNCHANGED goal

LockFree(t) == at[t] = "token" /\ owner = Nobody

CachedToken(t) ==
  /\ LockFree(t) /\ trusted > 0
  /\ GoOn(t, [left |-> valid, spent |-> lag])
  /\ UNCHANGED <<connected, token, attempt, copies>>

NoClient(t) ==
  /\ LockFree(t) /\ trusted = 0 /\ ~connected
  /\ NotifierError(t)
  /\ UNCHANGED <<connected, token, attempt, copies>>

(* Mutation: the cache is looked at before the lock is taken.              *)
RequestUnlocked(t) ==
  /\ at[t] = "token" /\ trusted = 0 /\ connected
  /\ owner' = t /\ Goto(t, "refresh")
  /\ UNCHANGED <<connected, trusted, valid, lag, progress, result>>

RequestToken(t) ==
  /\ LockFree(t) /\ trusted = 0 /\ connected
  /\ owner' = t /\ Goto(t, "refresh")
  /\ UNCHANGED <<connected, trusted, valid, lag, progress, result>>

Least(m, n) == IF m < n THEN m ELSE n

(* The answer was on the way for a part of the time since it was asked for. *)
Answered(t, trust) ==
  \E late \in 0 .. since[t] :
    /\ trusted' = trust /\ valid' = Expire - late /\ lag' = Least(late, TooLong)
    /\ GoOn(t, [left |-> Expire - late, spent |-> Least(late, TooLong)])

(* Mutation: the token is used until the server refuses it.                *)
GrantedToTheEnd(t) ==
  /\ at[t] = "refresh" /\ Answered(t, Expire) /\ owner' = Nobody
  /\ UNCHANGED <<connected, attempt, copies>>

(* The server counts from when it issued the token, the adapter from when  *)
(* the answer came.                                                        *)
TokenGranted(t) ==
  /\ at[t] = "refresh" /\ Answered(t, Expire - Margin) /\ owner' = Nobody
  /\ UNCHANGED <<connected, attempt, copies>>

(* Mutation: an exception leaves the lock taken. *)
TokenKeepsLock(t) ==
  /\ at[t] = "refresh"
  /\ (NotifierError(t) \/ (Raise(t) /\ UNCHANGED goal))
  /\ UNCHANGED <<connected, token, attempt, copies>>

(* Refused by the server, or the request failed. *)
TokenRefused(t) ==
  /\ at[t] = "refresh" /\ owner' = Nobody
  /\ (NotifierError(t) \/ (Raise(t) /\ UNCHANGED goal))
  /\ UNCHANGED <<connected, trusted, valid, lag, attempt, copies>>

-----------------------------------------------------------------------------
(* _upload_image *)

Uploaded(t) ==
  /\ at[t] = "upload" /\ Aim(t, "image") /\ Request(t, "post", held[t])
  /\ UNCHANGED <<connected, token, attempt, copies>>

(* The file is gone or the server refuses it; or the request fails. *)
UploadFailed(t) ==
  /\ at[t] = "upload"
  /\ (NotifierError(t) \/ (Raise(t) /\ UNCHANGED goal))
  /\ UNCHANGED <<connected, token, attempt, copies>>

-----------------------------------------------------------------------------
(* The attempts of _send_image_message and _send_text_message *)

Arrives(t) == copies' = [copies EXCEPT ![t] = @ + 1]

(* A text is done with; an image is followed by its companion text, whose  *)
(* formatting may fail as any other.                                       *)
PostAccepted(t) ==
  /\ at[t] = "post" /\ Arrives(t)
  /\ IF goal[t] = "text" THEN Return(t, "true") ELSE Request(t, "companion", held[t]) \/ Raise(t)
  /\ UNCHANGED <<connected, token, goal, attempt>>

AgainOrGiveUp(t) ==
  IF attempt[t] < MaxRetries THEN Continue(t, "pause", held[t])
  ELSE Return(t, "false")

(* Mutation: the last attempt is taken for a success. *)
AgainOrTrue(t) ==
  /\ at[t] = "post"
  /\ IF attempt[t] < MaxRetries THEN Continue(t, "pause", held[t])
     ELSE Return(t, "true")
  /\ Arrives(t) \/ UNCHANGED copies
  /\ UNCHANGED <<connected, token, goal, attempt>>

(* Refused, or lost on the way, or it arrived and the answer was lost.  An *)
(* answer that cannot be read, or a client that was closed, is no          *)
(* RequestError and ends the sending.                                      *)
PostFailed(t) ==
  /\ at[t] = "post" /\ (AgainOrGiveUp(t) \/ Raise(t))
  /\ Arrives(t) \/ UNCHANGED copies
  /\ UNCHANGED <<connected, token, goal, attempt>>

Retry(t) ==
  /\ at[t] = "pause" /\ since[t] = RetryTicks
  /\ attempt' = [attempt EXCEPT ![t] = @ + 1] /\ Request(t, "post", held[t])
  /\ UNCHANGED <<connected, token, goal, copies>>

(* Whether the companion arrived is not looked at; a closed client raises. *)
CompanionDone(t) ==
  /\ at[t] = "companion" /\ (Return(t, "true") \/ Raise(t))
  /\ UNCHANGED <<connected, token, goal, attempt, copies>>

(* send_text, and the request for the list of chats: one attempt. *)
SingleRequestDone(t) ==
  /\ at[t] \in {"reply", "list"}
  /\ \E what \in {"true", "false"} : Return(t, what)
  /\ UNCHANGED <<connected, token, goal, attempt, copies>>

-----------------------------------------------------------------------------
SenderStep(t) ==
  \/ CachedToken(t) \/ NoClient(t) \/ RequestToken(t)
  \/ TokenGranted(t) \/ TokenRefused(t)
  \/ Uploaded(t) \/ UploadFailed(t)
  \/ PostAccepted(t) \/ PostFailed(t) \/ Retry(t) \/ CompanionDone(t)
  \/ SingleRequestDone(t)

(* Nobody has anything to do but wait, and nobody's pause is over. *)
MayPass(t) ==
  \/ at[t] = "idle"
  \/ at[t] = "token" /\ owner # Nobody
  \/ at[t] \in Waiting /\ (at[t] = "pause" => since[t] < RetryTicks)

Less(n) == IF n > 0 THEN n - 1 ELSE 0
Aged(tok) == IF tok = NoToken THEN tok
             ELSE [left |-> Less(tok.left), spent |-> Least(tok.spent + 1, TooLong)]

(* A request for a token that lasts longer than the token is not timed. *)
Timed(t) == CASE at[t] = "pause"   -> RetryTicks
              [] at[t] = "refresh" -> Expire
              [] OTHER             -> 0

Tick ==
  /\ \A t \in Senders : MayPass(t)
  /\ \E t \in Senders : at[t] # "idle"
  /\ trusted' = Less(trusted) /\ valid' = Less(valid)
  /\ held' = [t \in Senders |-> Aged(held[t])]
  /\ since' = [t \in Senders |-> Least(since[t] + 1, Timed(t))]
  /\ UNCHANGED <<connected, lag, owner, at, goal, attempt, result, copies>>

(* While nobody does anything any amount of time may pass. *)
Rest ==
  /\ \A t \in Senders : at[t] = "idle"
  /\ valid > 0
  /\ trusted' = Less(trusted) /\ valid' = Less(valid)
  /\ UNCHANGED <<connected, lag, owner, at, progress, since, result>>

-----------------------------------------------------------------------------
(* No request is out with a token that the server does not accept any      *)
(* more, unless the thread has used up the five minutes by which           *)
(* _get_tenant_token refreshes early: the time for which it has had the    *)
(* token, through the upload, the attempts, their pauses and the waits for *)
(* the lock, with the time for which the token's own answer was on the     *)
(* way, is more than the margin.                                           *)
TokenFresh ==
  \A t \in Senders :
    at[t] \in Waiting \ {"refresh"} /\ held[t].left = 0 => held[t].spent > Margin

(* The auth endpoint is never asked while a token is cached that would     *)
(* still be used, whoever refreshed it while others waited.                *)
NoNeedlessRefresh ==
  /\ \A t \in Senders : at[t] = "refresh" => owner = t /\ trusted = 0
  /\ Cardinality({t \in Senders : at[t] = "refresh"}) <= 1

(* An alert for which send_message returned True, for which                *)
(* NotificationService announces NOTIFICATION_SENT, has reached the chat,  *)
(* whatever was refused, lost or retried before; and no alert reaches it   *)
(* more often than max_retries.                                            *)
SentMeansDelivered ==
  \A t \in Senders : goal[t] \in {"image", "text"} =>
    /\ result[t] = "true" => copies[t] > 0
    /\ copies[t] <= MaxRetries
=============================================================================

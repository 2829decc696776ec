------------------------- MODULE RemoteControlProofs -------------------------
(***************************************************************************)
(* Theorems about RemoteControl for any number of pool workers, retries,   *)
(* commands and alerts and any times: one refresh of the token at a time   *)
(* and none without need, what counts as sent has arrived, and what the    *)
(* reply to /config set says is so.                                        *)
(***************************************************************************)
EXTENDS RemoteControl, FiniteSetTheorems, TLAPS

(* What a step of the program is to the notifier.                          *)
NotifierOp ==
  \/ Connect \/ Disconnect \/ Tick \/ Rest
  \/ \E t \in Senders : SenderStep(t) \/ Done(t)
  \/ \E t \in Senders, what \in {"image", "text", "reply", "list"} :
       Begin(t, what) \/ BeginNothing(t, what)

LEMMA NextIsNotifierOp == [Next]_vars => [NotifierOp]_notifierVars
<1> SUFFICES ASSUME [Next]_vars PROVE [NotifierOp]_notifierVars
  OBVIOUS
<1> USE RemoteAssumption DEF ChatThread, Opener, NotifierOp
<1>1. CASE OpenBegins
  BY <1>1 DEF OpenBegins
<1>2. CASE ConnectNotifier
  BY <1>2 DEF ConnectNotifier
<1>3. CASE OpenerStep
  BY <1>3 DEF OpenerStep, ListChats, ChatListed, ChatPersisted
<1>4. CASE OpenEnds
  BY <1>4 DEF OpenEnds
<1>5. CASE CloseSession
  BY <1>5 DEF CloseSession
<1>6. ASSUME NEW w \in Workers, SendAlert(w) \/ SendLate(w) \/ AlertDone(w)
      PROVE  NotifierOp
  BY <1>6 DEF SendAlert, SendLate, AlertDone
<1>7. CASE WsDies \/ Receive
  BY <1>7 DEF WsDies, Receive
<1>8. CASE ChatStep
  <2>1. CASE Reply \/ Replied
    BY <1>8, <2>1 DEF Reply, Replied
  <2>2. CASE ~(Reply \/ Replied)
    BY <1>8, <2>2 DEF ChatStep, SetChatId, ChatIdSet, HandleQuery, HandleToggle,
       HandleAlias, HandleSet, ConfigStep, SetEscapes, SetAnswered
  <2> QED
    BY <2>1, <2>2
<1>9. ASSUME NEW t \in Senders, NotifierStep(t) PROVE NotifierOp
  BY <1>9 DEF NotifierStep
<1>10. ASSUME NEW t \in Persisters, Persisting(t) PROVE UNCHANGED notifierVars
  BY <1>10 DEF Persisting
<1>11. CASE TimePasses
  BY <1>11 DEF TimePasses
<1>12. CASE UNCHANGED vars
  BY <1>12 DEF vars
<1> QED
  BY <1>1, <1>2, <1>3, <1>4, <1>5, <1>6, <1>7, <1>8, <1>9, <1>10, <1>11, <1>12
  DEF Next

-----------------------------------------------------------------------------
(* What a thread is sending, where it is in it, and how many copies of its *)
(* alert may have arrived by then.                                         *)

NotifierTypes ==
  /\ trusted \in Nat
  /\ at \in [Senders -> Points] /\ goal \in [Senders -> Goals]
  /\ attempt \in [Senders -> 0 .. MaxRetries] /\ result \in [Senders -> Results]
  /\ copies \in [Senders -> 0 .. MaxRetries]

Errand(t) ==
  /\ goal[t] = "none" <=> at[t] = "idle" /\ result[t] = "none"
  /\ at[t] \in {"reply", "list"} => goal[t] = at[t]
  /\ at[t] = "upload" => goal[t] = "upload"
  /\ at[t] \in {"post", "pause", "companion"} => goal[t] \in {"image", "text"}

Copies(t) ==
  /\ goal[t] \in {"none", "reply", "list"} => copies[t] = 0
  /\ at[t] \in {"token", "refresh", "upload"} => attempt[t] = 1 /\ copies[t] = 0
  /\ at[t] = "post" => copies[t] < attempt[t]
  /\ at[t] = "pause" => attempt[t] < MaxRetries /\ copies[t] <= attempt[t]
  /\ at[t] = "companion" => copies[t] > 0
  /\ result[t] = "true" /\ goal[t] \in {"image", "text"} => copies[t] > 0
  /\ at[t] # "idle" => result[t] = "none"

(* A refresh needs the lock from its beginning to its end, and begins only *)
(* when no token is trusted.                                               *)
Refreshes(t) == at[t] = "refresh" => owner = t /\ trusted = 0

NotifierInv ==
  NotifierTypes /\ \A t \in Senders : Errand(t) /\ Copies(t) /\ Refreshes(t)

LEMMA InitNotifierInv == Init => NotifierInv
BY NotifierAssumption DEF Init, NotifierInit, NotifierInv, NotifierTypes, Errand, Copies, Refreshes,
   Points, Waiting, Goals, Results

(* It is enough that a step touches one thread and leaves it in order, and *)
(* that it leaves the token to a thread that refreshes it.                 *)
Touches(t) ==
  \A u \in Senders \ {t} :
    /\ at'[u] = at[u] /\ goal'[u] = goal[u] /\ attempt'[u] = attempt[u]
    /\ result'[u] = result[u] /\ copies'[u] = copies[u]

LEMMA OneThread ==
  ASSUME NotifierInv, NotifierTypes', NEW t \in Senders, Touches(t),
         Errand(t)', Copies(t)', Refreshes(t)',
         \/ UNCHANGED <<owner, trusted>> \/ owner = t
         \/ owner = Nobody /\ UNCHANGED trusted
  PROVE  NotifierInv'
<1>1. \A u \in Senders \ {t} : Errand(u)' /\ Copies(u)'
  BY DEF NotifierInv, Touches, Errand, Copies
<1>2. \A u \in Senders \ {t} : Refreshes(u)'
  BY RemoteAssumption DEF NotifierInv, Touches, Refreshes
<1> QED
  BY <1>1, <1>2 DEF NotifierInv

LEMMA SenderKeeps ==
  ASSUME NotifierInv, NEW t \in Senders, SenderStep(t)
  PROVE  NotifierInv'
<1> USE NotifierAssumption, RemoteAssumption
    DEF NotifierTypes, Touches, Errand, Copies, Refreshes, Points, Waiting, Goals,
        Results, token, Goto, Hold, Return, Continue, Raise, Request, Aim
<1> DEFINE Kept == /\ NotifierTypes' /\ Touches(t)
                   /\ Errand(t)' /\ Copies(t)' /\ Refreshes(t)'
                   /\ \/ UNCHANGED <<owner, trusted>> \/ owner = t
                      \/ owner = Nobody /\ UNCHANGED trusted
<1>0. NotifierTypes /\ Errand(t) /\ Copies(t) /\ Refreshes(t)
  BY DEF NotifierInv
<1>1. CachedToken(t) => Kept
  BY <1>0 DEF CachedToken, LockFree, GoOn
<1>2. NoClient(t) => Kept
  BY <1>0 DEF NoClient, LockFree, NotifierError
<1>3. RequestToken(t) => Kept
  BY <1>0 DEF RequestToken, LockFree, progress
<1>4. TokenGranted(t) => Kept
  <2> SUFFICES ASSUME TokenGranted(t) PROVE Kept
    OBVIOUS
  <2>1. PICK late \in 0 .. since[t] : GoOn(t, [left |-> Expire - late, spent |-> Least(late, TooLong)])
    BY DEF TokenGranted, Answered
  <2>2. at[t] = "refresh" /\ trusted' = Expire - Margin /\ owner' = Nobody /\ UNCHANGED <<attempt, copies>>
    BY DEF TokenGranted, Answered
  <2> QED
    BY <1>0, <2>1, <2>2 DEF GoOn
<1>5. TokenRefused(t) => Kept
  BY <1>0 DEF TokenRefused, NotifierError
<1>6. Uploaded(t) => Kept
  BY <1>0 DEF Uploaded
<1>7. UploadFailed(t) => Kept
  BY <1>0 DEF UploadFailed, NotifierError
<1>8. PostAccepted(t) => Kept
  BY <1>0 DEF PostAccepted, Arrives
<1>9. PostFailed(t) => Kept
  BY <1>0 DEF PostFailed, Arrives, AgainOrGiveUp
<1>10. Retry(t) => Kept
  BY <1>0 DEF Retry
<1>11. CompanionDone(t) => Kept
  BY <1>0 DEF CompanionDone
<1>12. SingleRequestDone(t) => Kept
  BY <1>0 DEF SingleRequestDone
<1>13. Kept
  BY <1>1, <1>2, <1>3, <1>4, <1>5, <1>6, <1>7, <1>8, <1>9, <1>10, <1>11, <1>12
  DEF SenderStep
<1> QED
  BY <1>13, OneThread

LEMMA OpKeeps ==
  ASSUME NotifierInv, NotifierOp
  PROVE  NotifierInv'
<1> USE NotifierAssumption, RemoteAssumption
    DEF NotifierTypes, Touches, Errand, Copies, Refreshes, Points, Waiting, Goals,
        Results, token, Goto, Hold, Return, Aim
<1>1. CASE Connect
  BY <1>1 DEF Connect, NotifierInv, progress
<1>2. CASE Disconnect
  BY <1>2 DEF Disconnect, NotifierInv, progress
<1>3. CASE Tick \/ Rest
  BY <1>3 DEF Tick, Rest, Less, NotifierInv, progress
<1>4. ASSUME NEW t \in Senders, SenderStep(t) PROVE NotifierInv'
  BY <1>4, SenderKeeps
<1>5. ASSUME NEW t \in Senders, Done(t) PROVE NotifierInv'
  BY <1>5, OneThread DEF Done, NotifierInv
<1>6. ASSUME NEW t \in Senders, NEW what \in {"image", "text", "reply", "list"},
             Begin(t, what) \/ BeginNothing(t, what)
      PROVE  NotifierInv'
  BY <1>6, OneThread DEF Begin, BeginNothing, NotifierInv
<1> QED
  BY NotifierOp, <1>1, <1>2, <1>3, <1>4, <1>5, <1>6 DEF NotifierOp

LEMMA NotifierInvariant == Spec => []NotifierInv
<1>1. NotifierInv /\ [Next]_vars => NotifierInv'
  <2> SUFFICES ASSUME NotifierInv, [Next]_vars PROVE NotifierInv'
    OBVIOUS
  <2>1. CASE NotifierOp
    BY <2>1, OpKeeps
  <2>2. CASE UNCHANGED notifierVars
    BY <2>2 DEF NotifierInv, NotifierTypes, Errand, Copies, Refreshes, notifierVars, token, progress
  <2> QED
    BY <2>1, <2>2, NextIsNotifierOp
<1> QED
  BY <1>1, InitNotifierInv, PTL DEF Spec

(* The auth endpoint is asked by one thread at a time and never while a    *)
(* token is trusted, for any number of threads (_get_tenant_token).        *)
THEOREM OneRefreshAtATime == Spec => []NoNeedlessRefresh
<1>1. NotifierInv => NoNeedlessRefresh
  <2> SUFFICES ASSUME NotifierInv PROVE NoNeedlessRefresh
    OBVIOUS
  <2> DEFINE R == {t \in Senders : at[t] = "refresh"}
  <2>1. \A t \in R : owner = t /\ trusted = 0
    BY DEF NotifierInv, Refreshes
  <2>2. R \in SUBSET {owner}
    BY <2>1
  <2>3. IsFiniteSet({owner}) /\ Cardinality({owner}) = 1
    BY FS_Singleton
  <2> HIDE DEF R
  <2>4. Cardinality(R) <= 1
    BY <2>2, <2>3, FS_Subset, Zenon
  <2> QED
    BY <2>1, <2>4 DEF NoNeedlessRefresh, R
<1> QED
  BY <1>1, NotifierInvariant, PTL

(* An alert that counts as sent has arrived, and none arrives more often   *)
(* than max_retries, whatever was refused, lost or retried, for any number *)
(* of retries (_send_image_message, _send_text_message).                   *)
THEOREM SentIsDelivered == Spec => []SentMeansDelivered
<1>1. NotifierInv => SentMeansDelivered
  BY DEF NotifierInv, NotifierTypes, Copies, SentMeansDelivered
<1> QED
  BY <1>1, NotifierInvariant, PTL

-----------------------------------------------------------------------------
(* The life of a token.  What the server still grants and what is spent of *)
(* the margin are together more than the margin: each tick takes from the  *)
(* one what it gives to the other.                                         *)

Granted(tok) == tok.left + tok.spent > Margin

TimeTypes ==
  /\ trusted \in 0 .. Expire /\ valid \in 0 .. Expire /\ lag \in 0 .. TooLong
  /\ held \in [Senders -> Tokens]
  /\ since \in [Senders -> Nat] /\ \A t \in Senders : since[t] <= Timed(t)

(* A trusted token is accepted for the margin longer, less the time its    *)
(* answer was on the way.                                                  *)
TrustInv == trusted > 0 => valid + lag >= trusted + Margin \/ lag > Margin

(* A thread that is sending holds a token, and one that is about to upload *)
(* holds the first of its two.                                             *)
Holds(t) == at[t] \in Waiting \ {"refresh"} \/ (at[t] # "idle" /\ goal[t] = "upload")
HeldInv  == \A t \in Senders : Holds(t) => Granted(held[t])

TimeInv == TimeTypes /\ TrustInv /\ HeldInv

(* The token that a thread finds in the cache or gets as an answer.        *)
LEMMA CachedIsGranted ==
  ASSUME TimeTypes, TrustInv, trusted > 0
  PROVE  /\ [left |-> valid, spent |-> lag] \in Tokens
         /\ Granted([left |-> valid, spent |-> lag])
BY NotifierAssumption DEF TimeTypes, TrustInv, Tokens, Granted, TooLong

LEMMA AnswerIsGranted ==
  ASSUME NEW late \in 0 .. Expire
  PROVE  /\ [left |-> Expire - late, spent |-> Least(late, TooLong)] \in Tokens
         /\ Granted([left |-> Expire - late, spent |-> Least(late, TooLong)])
         /\ Expire - late + Least(late, TooLong) >= Expire \/ Least(late, TooLong) > Margin
BY NotifierAssumption DEF Tokens, Granted, Least, TooLong

LEMMA AgedIsGranted ==
  ASSUME NEW tok \in Tokens
  PROVE  Aged(tok) \in Tokens /\ (Granted(tok) => Granted(Aged(tok)))
<1>1. tok.left \in 0 .. Expire /\ tok.spent \in 0 .. TooLong
  BY DEF Tokens
<1>2. CASE tok = NoToken
  BY <1>2 DEF Aged, NoToken, Granted
<1>3. CASE tok # NoToken
  <2>1. Aged(tok) = [left |-> Less(tok.left), spent |-> Least(tok.spent + 1, TooLong)]
    BY <1>3 DEF Aged
  <2>2. Less(tok.left) \in 0 .. Expire /\ Least(tok.spent + 1, TooLong) \in 0 .. TooLong
    BY <1>1, NotifierAssumption DEF Less, Least, TooLong
  <2>3. tok.left + tok.spent > Margin => Less(tok.left) + Least(tok.spent + 1, TooLong) > Margin
    BY <1>1, NotifierAssumption DEF Less, Least, TooLong
  <2> QED
    BY <2>1, <2>2, <2>3 DEF Tokens, Granted
<1> QED
  BY <1>2, <1>3

(* The steps of a sending thread that ask for no token, and those that do. *)
LEMMA SenderIsTimed ==
  ASSUME NotifierInv, TimeInv, NEW t \in Senders, SenderStep(t)
  PROVE  TimeInv'
<1> USE NotifierAssumption, RemoteAssumption
    DEF Points, Waiting, Goals, token, Timed, Goto, Hold, Return, Continue, Raise, Request, Aim
<1> DEFINE Kept == TimeTypes' /\ TrustInv' /\ HeldInv'
<1>0. /\ NotifierTypes /\ TimeTypes /\ TrustInv /\ HeldInv
      /\ Errand(t) /\ Refreshes(t)
  BY DEF NotifierInv, TimeInv
<1>n. NoToken \in Tokens
  BY DEF NoToken, Tokens, TooLong
<1>t. since[t] \in Nat /\ held[t] \in Tokens
  BY <1>0 DEF TimeTypes
<1> USE DEF NotifierTypes, Errand, TimeTypes, TrustInv, Holds, HeldInv
<1>1. CachedToken(t) => Kept
  <2> SUFFICES ASSUME CachedToken(t) PROVE Kept
    OBVIOUS
  <2> DEFINE tok == [left |-> valid, spent |-> lag]
  <2>1. tok \in Tokens /\ Granted(tok)
    BY <1>0, CachedIsGranted DEF CachedToken
  <2>2. GoOn(t, tok) /\ at[t] = "token" /\ UNCHANGED <<trusted, valid, lag>>
    BY DEF CachedToken, LockFree
  <2> HIDE DEF tok
  <2> QED
    BY <1>0, <1>n, <2>1, <2>2 DEF GoOn
<1>2. NoClient(t) => Kept
  BY <1>0, <1>n DEF NoClient, LockFree, NotifierError
<1>3. RequestToken(t) => Kept
  BY <1>0 DEF RequestToken, LockFree, progress
<1>4. TokenGranted(t) => Kept
  <2> SUFFICES ASSUME TokenGranted(t) PROVE Kept
    OBVIOUS
  <2>1. PICK late \in 0 .. since[t] :
          /\ valid' = Expire - late /\ lag' = Least(late, TooLong)
          /\ GoOn(t, [left |-> Expire - late, spent |-> Least(late, TooLong)])
    BY DEF TokenGranted, Answered
  <2>2. at[t] = "refresh" /\ trusted' = Expire - Margin
    BY DEF TokenGranted, Answered
  <2>3. late \in 0 .. Expire
    BY <1>0, <1>t, <2>2
  <2> DEFINE tok == [left |-> Expire - late, spent |-> Least(late, TooLong)]
  <2>4. /\ tok \in Tokens /\ Granted(tok)
        /\ Expire - late + Least(late, TooLong) >= Expire \/ Least(late, TooLong) > Margin
    BY <2>3, AnswerIsGranted
  <2>5. GoOn(t, tok)
    BY <2>1
  <2>6. tok.spent = Least(late, TooLong)
    OBVIOUS
  <2> HIDE DEF tok
  <2>7. Least(late, TooLong) \in 0 .. TooLong
    BY <2>4, <2>6 DEF Tokens
  <2>8. TrustInv' /\ trusted' \in 0 .. Expire /\ valid' \in 0 .. Expire /\ lag' \in 0 .. TooLong
    BY <2>1, <2>2, <2>3, <2>4, <2>7
  <2> QED
    BY <1>0, <1>n, <2>2, <2>4, <2>5, <2>8 DEF GoOn
<1>5. TokenRefused(t) => Kept
  BY <1>0, <1>n DEF TokenRefused, NotifierError
<1>6. Uploaded(t) => Kept
  BY <1>0, <1>n DEF Uploaded
<1>7. UploadFailed(t) => Kept
  BY <1>0, <1>n DEF UploadFailed, NotifierError
<1>8. PostAccepted(t) => Kept
  BY <1>0, <1>n DEF PostAccepted, Arrives
<1>9. PostFailed(t) => Kept
  BY <1>0, <1>n DEF PostFailed, Arrives, AgainOrGiveUp
<1>10. Retry(t) => Kept
  BY <1>0, <1>n DEF Retry
<1>11. CompanionDone(t) => Kept
  BY <1>0, <1>n DEF CompanionDone
<1>12. SingleRequestDone(t) => Kept
  BY <1>0, <1>n DEF SingleRequestDone
<1>13. Kept
  BY <1>1, <1>2, <1>3, <1>4, <1>5, <1>6, <1>7, <1>8, <1>9, <1>10, <1>11, <1>12
  DEF SenderStep
<1> QED
  BY <1>13 DEF TimeInv

(* Time itself. *)
LEMMA TickIsTimed ==
  ASSUME NotifierInv, TimeInv, Tick
  PROVE  TimeInv'
<1> USE NotifierAssumption DEF TimeInv, TimeTypes
<1>1. TrustInv' /\ trusted' \in 0 .. Expire /\ valid' \in 0 .. Expire /\ lag' \in 0 .. TooLong
  BY DEF TrustInv, Tick, Less
<1>2. ASSUME NEW t \in Senders
      PROVE  held'[t] \in Tokens /\ (Granted(held[t]) => Granted(held'[t]))
  BY AgedIsGranted DEF Tick
<1>3. held' \in [Senders -> Tokens]
  BY <1>2 DEF Tick
<1>4. HeldInv'
  BY <1>2 DEF HeldInv, Holds, Tick, Granted
<1>5. ASSUME NEW t \in Senders PROVE since'[t] \in Nat /\ since'[t] <= Timed(t)'
  BY DEF Tick, Least, Timed
<1>6. since' \in [Senders -> Nat]
  BY <1>5 DEF Tick
<1> QED
  BY <1>1, <1>3, <1>4, <1>5, <1>6

LEMMA OpIsTimed ==
  ASSUME NotifierInv, TimeInv, NotifierOp
  PROVE  TimeInv'
<1> USE NotifierAssumption, RemoteAssumption
    DEF NotifierInv, NotifierTypes, Errand, TimeInv, TimeTypes, TrustInv, HeldInv, Holds, Timed,
        Points, Waiting, token, progress, Goto, Hold, Return, Aim
<1>n. NoToken \in Tokens
  BY DEF NoToken, Tokens, TooLong
<1>1. CASE Connect
  BY <1>1 DEF Connect
<1>2. CASE Disconnect
  BY <1>2 DEF Disconnect, TooLong
<1>3. CASE Tick
  BY <1>3, TickIsTimed
<1>4. CASE Rest
  BY <1>4 DEF Rest, Less
<1>5. ASSUME NEW t \in Senders, SenderStep(t) PROVE TimeInv'
  BY <1>5, SenderIsTimed
<1>6. ASSUME NEW t \in Senders, Done(t) PROVE TimeInv'
  BY <1>6 DEF Done
<1>7. ASSUME NEW t \in Senders, NEW what \in {"image", "text", "reply", "list"},
             Begin(t, what) \/ BeginNothing(t, what)
      PROVE  TimeInv'
  BY <1>7, <1>n DEF Begin, BeginNothing
<1> QED
  BY NotifierOp, <1>1, <1>2, <1>3, <1>4, <1>5, <1>6, <1>7 DEF NotifierOp

LEMMA InitTimeInv == Init => TimeInv
<1>1. NoToken \in Tokens
  BY NotifierAssumption DEF NoToken, Tokens, TooLong
<1> QED
  BY <1>1, NotifierAssumption
  DEF Init, NotifierInit, TimeInv, TimeTypes, TrustInv, HeldInv, Holds, Waiting, Timed, TooLong

LEMMA TimeInvariant == Spec => []TimeInv
<1>1. NotifierInv /\ TimeInv /\ [Next]_vars => TimeInv'
  <2> SUFFICES ASSUME NotifierInv, TimeInv, [Next]_vars PROVE TimeInv'
    OBVIOUS
  <2>1. CASE NotifierOp
    BY <2>1, OpIsTimed
  <2>2. CASE UNCHANGED notifierVars
    BY <2>2 DEF TimeInv, TimeTypes, TrustInv, HeldInv, Holds, Timed, Granted,
       notifierVars, token, progress
  <2> QED
    BY <2>1, <2>2, NextIsNotifierOp
<1> QED
  BY <1>1, InitTimeInv, NotifierInvariant, PTL DEF Spec

(* A token that the server refuses for its age was in use for longer than  *)
(* the margin of _get_tenant_token, for any times, however long requests   *)
(* last, and for any number of threads, attempts and pauses.               *)
THEOREM TokenIsFresh == Spec => []TokenFresh
<1>1. TimeInv => TokenFresh
  <2> SUFFICES ASSUME TimeInv, NEW t \in Senders,
                      at[t] \in Waiting \ {"refresh"}, held[t].left = 0
               PROVE  held[t].spent > Margin
    BY DEF TokenFresh
  <2>1. held[t] \in Tokens /\ Granted(held[t])
    BY DEF TimeInv, TimeTypes, HeldInv, Holds
  <2> QED
    BY <2>1, NotifierAssumption DEF Granted, Tokens, TooLong
<1> QED
  BY <1>1, TimeInvariant, PTL

-----------------------------------------------------------------------------
(* The control variables of RemoteControl.                                 *)

Flags == notifying \in BOOLEAN /\ told \in BOOLEAN

ControlTypes ==
  /\ session \in {"none", "opening", "open", "closed"}
  /\ opening \in {"connect", "list", "listing", "persist", "build"}
  /\ ws \in {"off", "on", "dead"}
  /\ command \in Commands \cup {NoCommand}
  /\ step \in {"idle", "chat", "persist", "handle", "set", "reply", "replying"}
  /\ commands \in 0 .. MaxCommands /\ alerts \in 0 .. MaxAlerts

LEMMA ControlKeeps ==
  ASSUME ControlTypes, [Next]_vars
  PROVE  ControlTypes'
<1> USE RemoteAssumption DEF ControlTypes, gateway, handler, bounds, StepTo
<1>1. CASE OpenBegins \/ ConnectNotifier \/ OpenEnds \/ CloseSession
  BY <1>1 DEF OpenBegins, ConnectNotifier, OpenEnds, CloseSession
<1>2. CASE OpenerStep
  BY <1>2 DEF OpenerStep, ListChats, ChatListed, ChatPersisted
<1>3. ASSUME NEW w \in Workers, SendAlert(w) \/ SendLate(w) \/ AlertDone(w)
      PROVE  ControlTypes'
  BY <1>3 DEF SendAlert, SendLate, AlertDone
<1>4. CASE WsDies \/ Receive
  BY <1>4 DEF WsDies, Receive
<1>5. CASE ChatStep
  BY <1>5 DEF ChatStep, SetChatId, ChatIdSet, HandleQuery, HandleToggle, HandleAlias, HandleSet,
     ConfigStep, SetEscapes, SetAnswered, Reply, Replied, Finish
<1>6. ASSUME NEW t \in Senders, NotifierStep(t) PROVE ControlTypes'
  BY <1>6 DEF NotifierStep
<1>7. ASSUME NEW t \in Persisters, Persisting(t) PROVE ControlTypes'
  BY <1>7 DEF Persisting
<1>8. CASE TimePasses \/ UNCHANGED vars
  BY <1>8 DEF TimePasses, vars
<1> QED
  BY <1>1, <1>2, <1>3, <1>4, <1>5, <1>6, <1>7, <1>8 DEF Next

LEMMA FlagsKeep ==
  ASSUME Flags, [Next]_vars
  PROVE  Flags'
<1> USE DEF Flags, gateway, handler
<1>1. CASE OpenBegins \/ ConnectNotifier \/ OpenEnds \/ CloseSession
  BY <1>1 DEF OpenBegins, ConnectNotifier, OpenEnds, CloseSession
<1>2. CASE OpenerStep
  BY <1>2 DEF OpenerStep, ListChats, ChatListed, ChatPersisted
<1>3. ASSUME NEW w \in Workers, SendAlert(w) \/ SendLate(w) \/ AlertDone(w)
      PROVE  Flags'
  BY <1>3 DEF SendAlert, SendLate, AlertDone
<1>4. CASE WsDies \/ Receive
  BY <1>4 DEF WsDies, Receive
<1>5. CASE ChatStep
  <2>1. CASE SetChatId \/ ChatIdSet \/ HandleQuery \/ HandleAlias \/ ConfigStep \/ SetEscapes \/ SetAnswered
    BY <2>1 DEF SetChatId, ChatIdSet, HandleQuery, HandleAlias, ConfigStep, SetEscapes, SetAnswered
  <2>2. CASE HandleToggle
    BY <2>2 DEF HandleToggle
  <2>3. CASE HandleSet
    BY <2>3 DEF HandleSet, HasServices
  <2>4. CASE Reply \/ Replied
    BY <2>4 DEF Reply, Replied
  <2> QED
    BY <1>5, <2>1, <2>2, <2>3, <2>4 DEF ChatStep
<1>6. ASSUME NEW t \in Senders, NotifierStep(t) PROVE Flags'
  BY <1>6 DEF NotifierStep
<1>7. ASSUME NEW t \in Persisters, Persisting(t) PROVE Flags'
  BY <1>7 DEF Persisting
<1>8. CASE TimePasses \/ UNCHANGED vars
  BY <1>8 DEF TimePasses, vars
<1> QED
  BY <1>1, <1>2, <1>3, <1>4, <1>5, <1>6, <1>7, <1>8 DEF Next

(* Every variable of the chat thread, the opener and the notifier keeps    *)
(* its type, no thread makes more attempts than max_retries, and no token  *)
(* is counted for longer than the server grants.                           *)
THEOREM TypeCorrect == Spec => []TypeOK
<1>1. Init => ControlTypes /\ Flags
  <2>1. Init => ControlTypes
    BY RemoteAssumption DEF Init, ControlTypes
  <2>2. Init => Flags
    BY Zenon DEF Init, Flags
  <2> QED
    BY <2>1, <2>2
<1>2. ControlTypes /\ Flags /\ [Next]_vars => ControlTypes' /\ Flags'
  BY ControlKeeps, FlagsKeep
<1>3. ControlTypes /\ Flags /\ NotifierInv /\ TimeInv => TypeOK
  BY DEF ControlTypes, Flags, NotifierInv, NotifierTypes, TimeInv, TimeTypes, TypeOK
<1> QED
  BY <1>1, <1>2, <1>3, NotifierInvariant, TimeInvariant, PTL DEF Spec

-----------------------------------------------------------------------------
(* What set and _persist_chat_id have done to the file and to the services *)
(* by the time the reply is written.                                       *)

ConfigTypes ==
  /\ memory \in Options /\ wanted \in Options /\ file \in Options \cup {Torn}
  /\ persist \in [Persisters -> {"idle", "read", "open", "dump"}]
  /\ read \in [Persisters -> Options \cup {Torn}]
  /\ step = "set" <=> saving # "idle"
  /\ command = NoCommand => step = "idle"
  /\ persist[ChatThread] # "idle" => step = "persist"

(* The file holds the value, or is about to get it back from the opener,   *)
(* which has read it there.                                                *)
FileInv ==
  saving \in {"notify", "saved"} =>
    \/ file = wanted \/ clobbered
    \/ persist[Opener] = "dump" /\ file = Torn /\ read[Opener] = wanted

ServicesInv ==
  step = "set" /\ told =>
    /\ session \in {"open", "closed"}
    /\ kind = "pushed" /\ saving # "saved" => live = before
    /\ kind = "pushed" /\ saving = "saved" /\ session = "open" => live = wanted
    /\ kind = "shared" => live = wanted

ConfigInv == ConfigTypes /\ FileInv /\ ServicesInv

LEMMA InitConfigInv == Init => ConfigInv
<1>1. (CHOOSE o \in Options : TRUE) \in Options
  BY ConfigAssumption
<1>2. Init => ConfigTypes
  BY <1>1, RemoteAssumption DEF Init, ConfigInit, ConfigTypes, ChatThread
<1>3. Init => FileInv /\ ServicesInv
  BY DEF Init, ConfigInit, FileInv, ServicesInv
<1> QED
  BY <1>2, <1>3 DEF ConfigInv

(* One thread in _persist_chat_id, while set is anywhere.                  *)
LEMMA PersistKeeps ==
  ASSUME ConfigInv, NEW t \in Persisters, Persisting(t)
  PROVE  ConfigInv'
<1> USE ConfigAssumption, RemoteAssumption
    DEF ConfigInv, ConfigTypes, FileInv, ServicesInv, Persisting, gateway, handler, setting, stored,
        PersistGoto, PersistEnds, ChatThread, Opener
<1>1. CASE PersistRead(t)
  BY <1>1 DEF PersistRead
<1>2. CASE PersistOpen(t)
  BY <1>2 DEF PersistOpen
<1>3. CASE PersistDump(t)
  BY <1>3 DEF PersistDump
<1>4. CASE PersistFails(t)
  BY <1>4 DEF PersistFails
<1> QED
  BY <1>1, <1>2, <1>3, <1>4 DEF PersistStep

LEMMA ConfigStepKeeps ==
  ASSUME ConfigInv, ConfigStep
  PROVE  ConfigInv'
<1> USE ConfigAssumption, RemoteAssumption
    DEF ConfigInv, ConfigTypes, FileInv, ServicesInv, ConfigStep, gateway, handler, persisting, stored,
        SetGoto, HasServices
<1>1. CASE SaveOpen
  BY <1>1 DEF SaveOpen
<1>2. CASE SaveDump
  BY <1>2 DEF SaveDump
<1>3. CASE SaveFails
  BY <1>3 DEF SaveFails
<1>4. CASE Notify(HasServices)
  BY <1>4 DEF Notify
<1> QED
  BY <1>1, <1>2, <1>3, <1>4

LEMMA ChatKeeps ==
  ASSUME ConfigInv, ChatStep
  PROVE  ConfigInv'
<1> USE ConfigAssumption, RemoteAssumption
    DEF ConfigInv, ConfigTypes, FileInv, ServicesInv, gateway, handler, bounds, configVars,
        setting, persisting, stored, StepTo, ChatThread, Opener
<1>1. CASE SetChatId
  BY <1>1 DEF SetChatId, LearnChat, PersistGoto
<1>2. CASE ChatIdSet
  BY <1>2 DEF ChatIdSet
<1>3. CASE HandleQuery \/ HandleToggle \/ HandleAlias
  BY <1>3 DEF HandleQuery, HandleToggle, HandleAlias, Finish
<1>4. CASE HandleSet
  <2>1. CASE \E v \in Options : SetMemory(v) /\ StepTo("set") /\ told' = HasServices
    <3>1. PICK v \in Options : SetMemory(v)
      BY <2>1
    <3>2. told' => session = "open"
      BY <2>1, Zenon DEF HasServices
    <3>3. before' = live
      BY <3>1 DEF SetMemory
    <3>4. step' = "set" /\ UNCHANGED <<session, command>>
      BY <1>4, <2>1 DEF HandleSet
    <3> QED
      BY <1>4, <3>1, <3>2, <3>3, <3>4 DEF HandleSet, SetMemory, SetGoto
  <2>2. CASE step' = "reply" /\ UNCHANGED <<told, configVars>>
    BY <1>4, <2>2 DEF HandleSet
  <2> QED
    BY <1>4, <2>1, <2>2 DEF HandleSet, SetRefused
<1>5. CASE ConfigStep
  BY <1>5, ConfigStepKeeps
<1>6. CASE SetAnswered \/ SetEscapes
  BY <1>6 DEF SetAnswered, SetReturns, SetEscapes, SaveEscapes, Finish, SetGoto
<1>7. CASE Reply \/ Replied
  BY <1>7 DEF Reply, Replied, Finish
<1> QED
  BY <1>1, <1>2, <1>3, <1>4, <1>5, <1>6, <1>7 DEF ChatStep

LEMMA ConfigInvariant == Spec => []ConfigInv
<1>1. ConfigInv /\ [Next]_vars => ConfigInv'
  <2> SUFFICES ASSUME ConfigInv, [Next]_vars PROVE ConfigInv'
    OBVIOUS
  <2> USE RemoteAssumption
      DEF ConfigInv, ConfigTypes, FileInv, ServicesInv, configVars, setting, persisting, stored,
          gateway, handler, bounds
  <2>1. CASE OpenBegins \/ ConnectNotifier \/ OpenEnds \/ CloseSession
    BY <2>1 DEF OpenBegins, ConnectNotifier, OpenEnds, CloseSession, BuildServices
  <2>2. CASE OpenerStep
    BY <2>2 DEF OpenerStep, ListChats, ChatListed, ChatPersisted, LearnChat, PersistGoto,
       ChatThread, Opener
  <2>3. ASSUME NEW w \in Workers, SendAlert(w) \/ SendLate(w) \/ AlertDone(w)
        PROVE  ConfigInv'
    BY <2>3 DEF SendAlert, SendLate, AlertDone
  <2>4. CASE WsDies \/ Receive
    BY <2>4 DEF WsDies, Receive, StepTo, Commands, NoCommand
  <2>5. CASE ChatStep
    BY <2>5, ChatKeeps
  <2>6. ASSUME NEW t \in Senders, NotifierStep(t) PROVE ConfigInv'
    BY <2>6 DEF NotifierStep
  <2>7. ASSUME NEW t \in Persisters, Persisting(t) PROVE ConfigInv'
    BY <2>7, PersistKeeps
  <2>8. CASE TimePasses \/ UNCHANGED vars
    BY <2>8 DEF TimePasses, vars
  <2> QED
    BY <2>1, <2>2, <2>3, <2>4, <2>5, <2>6, <2>7, <2>8 DEF Next
<1> QED
  BY <1>1, InitConfigInv, PTL DEF Spec

(* What /config set replies is so, whatever fails in between and whoever   *)
(* else writes the file (ConfigService.set, _render_config).               *)
THEOREM ReplyHolds == Spec => []ReplyIsTrue
<1>1. ConfigInv => ReplyIsTrue
  BY DEF ConfigInv, ConfigTypes, FileInv, ServicesInv, ReplyIsTrue, HasServices
<1> QED
  BY <1>1, ConfigInvariant, PTL
=============================================================================

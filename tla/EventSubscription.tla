-------------------------- MODULE EventSubscription --------------------------
(***************************************************************************)
(* One subscription from the durable log of a DWN to the consumer's        *)
(* handler: the event log's catch-up and live drain (DurableEventLog), the *)
(* server's sliding window of unacknowledged events (FlowController), the  *)
(* socket, and the client's tracked subscription, which acknowledges what  *)
(* its handler has settled and resumes at its last cursor after a          *)
(* reconnection (WebSocketDwnRpcClient, JsonRpcSocket).                    *)
(*                                                                         *)
(* An event is its token, the log's epoch and a position; the positions in *)
(* Visible match the subscription's filters.  A read of the log is one     *)
(* step (ReplicationLog takes it apart).  Every await of the code that     *)
(* another party can step into is the end of an action.                    *)
(***************************************************************************)
EXTENDS Integers, Sequences, SequencesExt, FiniteSetsExt

CONSTANTS
  MaxHead,      \* bound: positions of the log
  MaxEpoch,     \* bound: generations of the store
  Visible,      \* the positions that match the filters
  ReadLimit,    \* readLimit, the events of a page
  MaxInFlight,  \* maxInFlight of the flow controller
  MaxBuffer,    \* MAX_BUFFER_SIZE
  MaxDrops,     \* bound: connections lost
  Cursored,     \* the choices of a first request: with a cursor or without
  None

ASSUME SubscriptionAssumption ==
  /\ MaxHead \in Nat /\ MaxEpoch \in Nat \ {0} /\ Visible \subseteq 1 .. MaxHead
  /\ ReadLimit \in Nat \ {0} /\ MaxInFlight \in Nat \ {0} /\ MaxBuffer \in Nat \ {0}
  /\ MaxDrops \in Nat /\ Cursored \subseteq BOOLEAN

VARIABLES
  log,      \* the epoch and the head of the store
  wake,     \* a published wake is on its way to the event log
  srv,      \* the server's subscription, and where its producer is
  flow,     \* the flow controller: unacked tokens and buffered messages
  toServer, \* frames to the server
  toClient, \* frames to the client
  up,       \* the socket is connected
  client,   \* the tracked subscription and its ack chain
  start,    \* the cursor of the first request, or None
  seen,     \* history: tokens the handler was called with
  handled,  \* history: tokens whose handler has settled
  drops     \* number of connections lost

logVars == <<log, wake>>
vars == <<log, wake, srv, flow, toServer, toClient, up, client, start, seen, handled, drops>>

Token == [epoch : 1 .. MaxEpoch, position : 0 .. MaxHead]
At(epoch, position) == [epoch |-> epoch, position |-> position]
Frame(kind, token) == [kind |-> kind, token |-> token]

\* logBounds: the latest token, which for an empty log is the zero position.
Latest == At(log.epoch, log.head)

\* validateCursor of a read.
CursorValid(cursor) == cursor.epoch = log.epoch /\ cursor.position <= log.head

NoSub ==
  [state |-> "none", at |-> "idle", cursor |-> None, frozen |-> None, page |-> <<>>,
   pageEnd |-> None, drained |-> FALSE, redrain |-> FALSE, held |-> None, replied |-> FALSE]

NoFlow == [unacked |-> <<>>, buffer |-> <<>>]

Tracked(state) == [state |-> state, last |-> None, pending |-> None, chain |-> <<>>, told |-> FALSE]

Init ==
  /\ log = [epoch |-> 1, head |-> 0]
  /\ wake = FALSE
  /\ srv = NoSub /\ flow = NoFlow
  /\ start \in {IF given THEN At(1, 0) ELSE None : given \in Cursored}
  /\ toServer = <<Frame("subscribe", start)>> /\ toClient = <<>>
  /\ up = TRUE
  /\ client = Tracked("opening")
  /\ seen = {} /\ handled = {} /\ drops = 0

-----------------------------------------------------------------------------
(* The store. *)

\* A commit is durable before its wake is published.
Commit ==
  /\ log.head < MaxHead
  /\ log' = [log EXCEPT !.head = @ + 1]
  /\ wake' = TRUE
  /\ UNCHANGED <<srv, flow, toServer, toClient, up, client, start, seen, handled, drops>>

\* clear(): a fresh epoch, whose positions start over.
Reset ==
  /\ log.epoch < MaxEpoch
  /\ log' = [epoch |-> log.epoch + 1, head |-> 0]
  /\ UNCHANGED <<wake, srv, flow, toServer, toClient, up, client, start, seen, handled, drops>>

\* Wakes are best effort.
LoseWake ==
  /\ wake /\ wake' = FALSE
  /\ UNCHANGED <<log, srv, flow, toServer, toClient, up, client, start, seen, handled, drops>>

-----------------------------------------------------------------------------
(* FlowController. *)

\* push: within the window a message is sent, else it is buffered.  (The
\* branch for a producer that does not wait at capacity is never taken: see
\* WindowAccounted.)
Push(message) ==
  IF Len(flow.unacked) < MaxInFlight
  THEN /\ flow' = [flow EXCEPT !.unacked = Append(@, message.token)]
       /\ toClient' = Append(toClient, message)
  ELSE /\ flow' = [flow EXCEPT !.buffer = Append(@, message)]
       /\ UNCHANGED toClient

\* push returns a promise at capacity, which the producer awaits.
Holds == Len(flow.unacked) >= MaxInFlight /\ Len(flow.buffer) + 1 = MaxBuffer

\* The first unacked entry that an acknowledgement names, if it is of the
\* window's domain.
Acknowledged(token) ==
  {i \in DOMAIN flow.unacked :
     /\ flow.unacked[1].epoch = token.epoch
     /\ flow.unacked[i].position = token.position
     /\ \A j \in 1 .. i - 1 : flow.unacked[j].position # token.position}

\* Mutant: what is flushed is not tracked.
FlushedUntracked(token) ==
  LET left == SubSeq(flow.unacked, Max(Acknowledged(token)) + 1, Len(flow.unacked))
      n    == Min({MaxInFlight - Len(left), Len(flow.buffer)})
  IN [unacked |-> left, buffer |-> SubSeq(flow.buffer, n + 1, Len(flow.buffer)),
      sent |-> SubSeq(flow.buffer, 1, n)]

\* ack: drop the entries up to the named one and flush the buffer into the
\* window.
Flushed(token) ==
  LET left == SubSeq(flow.unacked, Max(Acknowledged(token)) + 1, Len(flow.unacked))
      n    == Min({MaxInFlight - Len(left), Len(flow.buffer)})
      sent == SubSeq(flow.buffer, 1, n)
  IN [unacked |-> left \o [i \in 1 .. n |-> sent[i].token],
      buffer  |-> SubSeq(flow.buffer, n + 1, Len(flow.buffer)),
      sent    |-> sent]

-----------------------------------------------------------------------------
(* DurableEventLog. *)

\* The listener's promise is settled: an event moves the cursor, and the end
\* of the stored events opens the live drain.
Delivered(s, token) ==
  IF s.state = "gone" THEN [s EXCEPT !.held = None]
  ELSE IF s.state = "eose"
  THEN [s EXCEPT !.state = "live", !.held = None, !.redrain = FALSE,
                 !.at = IF s.redrain THEN "read" ELSE "idle"]
  ELSE [s EXCEPT !.cursor = token, !.held = None, !.page = Tail(s.page)]

\* subscribe: a cursor starts a catch-up, none starts at the head.
ServeSubscribe ==
  /\ toServer # <<>> /\ Head(toServer).kind = "subscribe"
  /\ LET cursor == Head(toServer).token IN
     srv' = [NoSub EXCEPT !.state = IF cursor = None THEN "opening" ELSE "catchup",
                          !.at = "bounds", !.cursor = cursor]
  /\ flow' = NoFlow
  /\ toServer' = Tail(toServer)
  /\ UNCHANGED <<logVars, toClient, up, client, start, seen, handled, drops>>

\* getInitialCursor; the subscription gets no wakes yet.
ReadInitialCursor ==
  /\ srv.state = "opening" /\ srv.at = "bounds"
  /\ srv' = [srv EXCEPT !.cursor = Latest, !.at = "register"]
  /\ UNCHANGED <<logVars, flow, toServer, toClient, up, client, start, seen, handled, drops>>

Register ==
  /\ srv.state = "opening" /\ srv.at = "register"
  /\ srv' = [srv EXCEPT !.state = "live", !.at = "idle"]
  /\ UNCHANGED <<logVars, flow, toServer, toClient, up, client, start, seen, handled, drops>>

\* getCatchUpHighWater, with the check of the cursor by an empty read.
FreezeHighWater ==
  /\ srv.state = "catchup" /\ srv.at = "bounds"
  /\ CursorValid(srv.cursor)
  /\ srv' = IF srv.cursor.position < log.head
            THEN [srv EXCEPT !.frozen = Latest, !.at = "read"]
            ELSE [srv EXCEPT !.frozen = Latest, !.cursor = Latest, !.state = "eose"]
  /\ UNCHANGED <<logVars, flow, toServer, toClient, up, client, start, seen, handled, drops>>

\* A failed open is answered with an error and releases the subscription.
RefuseOpen ==
  /\ srv' = [NoSub EXCEPT !.state = "ended"]
  /\ flow' = NoFlow
  /\ toClient' = Append(toClient, Frame("refused", None))
  /\ UNCHANGED <<logVars, toServer, up, client, start, seen, handled, drops>>

CatchUpGap ==
  /\ srv.state = "catchup" /\ srv.at \in {"bounds", "read"}
  /\ ~CursorValid(srv.cursor)
  /\ RefuseOpen

\* Mutant: the row at the cursor is read again.
UpcomingInclusive == {p \in Visible : srv.cursor.position <= p /\ p <= log.head}

Upcoming == {p \in Visible : srv.cursor.position < p /\ p <= log.head}

\* readSubscriptionPage: up to the limit of matching rows behind the cursor.
ReadPage ==
  /\ srv.state \in {"catchup", "live"} /\ srv.at = "read"
  /\ CursorValid(srv.cursor)
  /\ LET rows == SetToSortSeq(Upcoming, <)
         page == SubSeq(rows, 1, Min({ReadLimit, Len(rows)}))
         all  == Len(rows) <= ReadLimit
     IN srv' = [srv EXCEPT !.at = "deliver", !.page = page, !.drained = all,
                           !.pageEnd = IF all THEN Latest ELSE At(log.epoch, Last(page))]
  /\ UNCHANGED <<logVars, flow, toServer, toClient, up, client, start, seen, handled, drops>>

\* A read fails: an open is refused; a drain leaves its cursor to the next
\* wake, or to one that came meanwhile, after a pause.
ReadFails ==
  /\ srv.at = "read"
  /\ \/ srv.state = "catchup" /\ RefuseOpen
     \/ /\ srv.state = "live"
        /\ srv' = [srv EXCEPT !.at = IF srv.redrain THEN "read" ELSE "idle", !.redrain = FALSE]
        /\ UNCHANGED <<logVars, flow, toServer, toClient, up, client, start, seen, handled, drops>>

\* Mutant: the subscription is closed without telling the listener.
DrainGapSilent ==
  /\ srv.state = "live" /\ srv.at = "read"
  /\ ~CursorValid(srv.cursor)
  /\ srv' = [srv EXCEPT !.state = "gone", !.at = "idle"]
  /\ UNCHANGED <<logVars, flow, toServer, toClient, up, client, start, seen, handled, drops>>

\* handleDrainError of a progress gap: the subscription is closed and its
\* listener gets the terminal error.
DrainGap ==
  /\ srv.state = "live" /\ srv.at = "read"
  /\ ~CursorValid(srv.cursor)
  /\ srv' = [srv EXCEPT !.state = "gone", !.at = "idle",
                        !.held = IF Holds THEN srv.cursor ELSE None]
  /\ Push(Frame("error", srv.cursor))
  /\ UNCHANGED <<logVars, toServer, up, client, start, seen, handled, drops>>

PastFrozen == srv.state = "catchup" /\ srv.page # <<>> /\ Head(srv.page) > srv.frozen.position

\* deliverEntry, and SendEose after the catch-up.
DeliverEntry ==
  /\ srv.at = "deliver" /\ srv.page # <<>> /\ srv.held = None
  /\ ~PastFrozen
  /\ LET token == At(srv.pageEnd.epoch, Head(srv.page)) IN
     /\ Push(Frame("event", token))
     /\ srv' = IF Holds THEN [srv EXCEPT !.held = token] ELSE Delivered(srv, token)
  /\ UNCHANGED <<logVars, toServer, up, client, start, seen, handled, drops>>

SendEose ==
  /\ srv.state = "eose" /\ srv.held = None
  /\ Push(Frame("eose", srv.frozen))
  /\ srv' = IF Holds THEN [srv EXCEPT !.held = srv.frozen] ELSE Delivered(srv, srv.frozen)
  /\ UNCHANGED <<logVars, toServer, up, client, start, seen, handled, drops>>

\* Mutant: the catch-up ends with its first page.
FinishCatchUpPageOnce ==
  /\ srv.state = "catchup" /\ srv.at = "deliver" /\ srv.held = None
  /\ PastFrozen \/ srv.page = <<>>
  /\ srv' = [srv EXCEPT !.state = "eose", !.cursor = srv.pageEnd, !.page = <<>>]
  /\ UNCHANGED <<logVars, flow, toServer, toClient, up, client, start, seen, handled, drops>>

\* The end of a catch-up page (isCatchUpComplete) and of a drained page.
FinishCatchUpPage ==
  /\ srv.state = "catchup" /\ srv.at = "deliver" /\ srv.held = None
  /\ PastFrozen \/ srv.page = <<>>
  /\ srv' = IF PastFrozen \/ srv.drained \/ srv.pageEnd.position >= srv.frozen.position
            THEN [srv EXCEPT !.state = "eose", !.cursor = srv.frozen, !.page = <<>>]
            ELSE [srv EXCEPT !.at = "read", !.cursor = srv.pageEnd]
  /\ UNCHANGED <<logVars, flow, toServer, toClient, up, client, start, seen, handled, drops>>

\* Mutant: a drained page moves the cursor to the present head.
FinishDrainPageAtHead ==
  /\ srv.state = "live" /\ srv.at = "deliver" /\ srv.held = None /\ srv.page = <<>>
  /\ srv' = [srv EXCEPT !.cursor = [srv.pageEnd EXCEPT !.position = log.head],
                        !.at = IF srv.drained /\ ~srv.redrain THEN "idle" ELSE "read",
                        !.redrain = srv.redrain /\ ~srv.drained]
  /\ UNCHANGED <<logVars, flow, toServer, toClient, up, client, start, seen, handled, drops>>

FinishDrainPage ==
  /\ srv.state = "live" /\ srv.at = "deliver" /\ srv.held = None /\ srv.page = <<>>
  /\ srv' = IF srv.drained /\ ~srv.redrain
            THEN [srv EXCEPT !.cursor = srv.pageEnd, !.at = "idle"]
            ELSE [srv EXCEPT !.cursor = srv.pageEnd, !.at = "read",
                             !.redrain = srv.redrain /\ ~srv.drained]
  /\ UNCHANGED <<logVars, flow, toServer, toClient, up, client, start, seen, handled, drops>>

\* scheduleDrain of a registered subscription.
ScheduleDrain ==
  srv' = CASE srv.state = "live" /\ srv.at = "idle" -> [srv EXCEPT !.at = "read", !.redrain = FALSE]
           [] srv.state \in {"catchup", "eose"} \/ (srv.state = "live" /\ srv.at # "idle") ->
                [srv EXCEPT !.redrain = TRUE]
           [] OTHER -> srv

HandleWake ==
  /\ wake /\ wake' = FALSE
  /\ ScheduleDrain
  /\ UNCHANGED <<log, flow, toServer, toClient, up, client, start, seen, handled, drops>>

\* Mutant: no idle re-drain, a lost wake is not made up for.
RedrainAllOff == UNCHANGED vars

\* The idle re-drain interval.
RedrainAll ==
  /\ ScheduleDrain
  /\ UNCHANGED <<logVars, flow, toServer, toClient, up, client, start, seen, handled, drops>>

\* The reply follows the open; the live drain does not wait for it.
ReplyOpened ==
  /\ srv.state \in {"live", "gone"} /\ ~srv.replied
  /\ srv' = [srv EXCEPT !.replied = TRUE]
  /\ toClient' = Append(toClient, Frame("opened", None))
  /\ UNCHANGED <<logVars, flow, toServer, up, client, start, seen, handled, drops>>

-----------------------------------------------------------------------------
(* The server's socket connection. *)

ServeAck ==
  /\ toServer # <<>> /\ Head(toServer).kind = "ack"
  /\ toServer' = Tail(toServer)
  /\ LET token == Head(toServer).token IN
     IF Acknowledged(token) = {}
     THEN UNCHANGED <<flow, toClient, srv>>
     ELSE LET f == Flushed(token) IN
          /\ flow' = [unacked |-> f.unacked, buffer |-> f.buffer]
          /\ toClient' = toClient \o f.sent
          /\ srv' = IF srv.held # None /\ Len(f.buffer) < MaxBuffer
                    THEN Delivered(srv, srv.held) ELSE srv
  /\ UNCHANGED <<logVars, up, client, start, seen, handled, drops>>

\* An open that is cancelled before its reply is answered with an error.
Cancelled == IF srv.state \notin {"none", "ended"} /\ ~srv.replied
             THEN <<Frame("refused", None)>> ELSE <<>>

\* fail, after a full buffer has waited too long for acknowledgements: what
\* is buffered is dropped, the error is sent outside the window.
CapacityTimeout ==
  /\ srv.held # None
  /\ srv' = [NoSub EXCEPT !.state = "ended"]
  /\ flow' = NoFlow
  /\ toClient' = toClient \o <<Frame("error", srv.held)>> \o Cancelled
  /\ UNCHANGED <<logVars, toServer, up, client, start, seen, handled, drops>>

ServeClose ==
  /\ toServer # <<>> /\ Head(toServer).kind = "close"
  /\ toServer' = Tail(toServer)
  /\ srv' = [NoSub EXCEPT !.state = "ended"]
  /\ flow' = NoFlow
  /\ toClient' = toClient \o Cancelled
  /\ UNCHANGED <<logVars, up, client, start, seen, handled, drops>>

-----------------------------------------------------------------------------
(* The client. *)

\* shouldReplaceLastCursor.
Advance(current, token) ==
  IF current = None THEN token
  ELSE IF token.epoch # current.epoch \/ token.position > current.position THEN token
  ELSE current

InMap == client.state \in {"open", "down"}
Awaiting == client.state \in {"opening", "renewing"}

\* closeTrackedSubscription and the stable close: the transport subscription
\* is closed if the socket is up.
CloseTracked(told) ==
  /\ client' = [client EXCEPT !.state = "closed", !.chain = <<>>, !.told = @ \/ told]
  /\ toServer' = IF up THEN Append(toServer, Frame("close", None)) ELSE toServer

\* A frame for the current establishment: the handler is called at once, its
\* acknowledgement is chained.
ReceiveEvent ==
  /\ toClient # <<>> /\ Head(toClient).kind \in {"event", "eose"}
  /\ toClient' = Tail(toClient)
  /\ IF client.state = "closed" THEN UNCHANGED <<client, seen>>
     ELSE /\ client' = [client EXCEPT !.chain = Append(@, [frame |-> Head(toClient), settled |-> FALSE])]
          /\ seen' = IF Head(toClient).kind = "event" THEN seen \cup {Head(toClient).token} ELSE seen
  /\ UNCHANGED <<logVars, srv, flow, toServer, up, start, handled, drops>>

\* Handlers of several events may run at the same time and settle in any
\* order; an ordinary failure counts as settled.
HandlerSettles(i) ==
  /\ i \in DOMAIN client.chain /\ ~client.chain[i].settled
  /\ client' = [client EXCEPT !.chain[i].settled = TRUE]
  /\ handled' = handled \cup {client.chain[i].frame.token}
  /\ UNCHANGED <<logVars, srv, flow, toServer, toClient, up, start, seen, drops>>

\* Mutant: an event is acknowledged on arrival.
AckOnArrival ==
  /\ client.chain # <<>>
  /\ LET token == Head(client.chain).frame.token IN
     /\ client' = IF InMap
                  THEN [client EXCEPT !.chain = Tail(@), !.last = Advance(@, token)]
                  ELSE [client EXCEPT !.chain = Tail(@), !.pending = Advance(@, token)]
     /\ toServer' = IF up /\ client.state # "preparing"
                    THEN Append(toServer, Frame("ack", token)) ELSE toServer
  /\ UNCHANGED <<logVars, srv, flow, toClient, up, start, seen, handled, drops>>

\* The ack chain: the cursor of the reconnection and the acknowledgement move
\* when the first handler in arrival order has settled.  (A new connection
\* does not know the id of the establishment before it.)
AckSettled ==
  /\ client.chain # <<>> /\ Head(client.chain).settled
  /\ LET token == Head(client.chain).frame.token IN
     /\ client' = IF InMap
                  THEN [client EXCEPT !.chain = Tail(@), !.last = Advance(@, token)]
                  ELSE [client EXCEPT !.chain = Tail(@), !.pending = Advance(@, token)]
     /\ toServer' = IF up /\ client.state # "preparing"
                    THEN Append(toServer, Frame("ack", token)) ELSE toServer
  /\ UNCHANGED <<logVars, srv, flow, toClient, up, start, seen, handled, drops>>

\* A handler ends with SubscriptionHandlerTerminalError; the thrower has told
\* its consumer.
HandlerTerminal ==
  /\ client.chain # <<>> /\ ~Head(client.chain).settled
  /\ CloseTracked(TRUE)
  /\ UNCHANGED <<logVars, srv, flow, toClient, up, start, seen, handled, drops>>

\* A terminal error reaches the handler and closes the subscription.
ReceiveError ==
  /\ toClient # <<>> /\ Head(toClient).kind = "error"
  /\ toClient' = Tail(toClient)
  /\ IF client.state = "closed" THEN UNCHANGED <<client, toServer>> ELSE CloseTracked(TRUE)
  /\ UNCHANGED <<logVars, srv, flow, up, start, seen, handled, drops>>

\* The opening reply installs the transport binding, with what the replay has
\* already acknowledged; a subscription closed meanwhile is torn down.
ReceiveOpened ==
  /\ toClient # <<>> /\ Head(toClient).kind = "opened"
  /\ toClient' = Tail(toClient)
  /\ IF client.state = "closed"
     THEN /\ toServer' = Append(toServer, Frame("close", None))
          /\ UNCHANGED client
     ELSE /\ client' = [client EXCEPT !.state = "open",
                          !.last = IF @ = None \/ client.pending = None
                                   THEN IF @ = None THEN client.pending ELSE @
                                   ELSE Advance(@, client.pending)]
          /\ UNCHANGED toServer
  /\ UNCHANGED <<logVars, srv, flow, up, start, seen, handled, drops>>

\* A refused open is thrown to the caller, a refused renewal told the handler
\* (notifyRecoveryFailed).
ReceiveRefused ==
  /\ toClient # <<>> /\ Head(toClient).kind = "refused"
  /\ toClient' = Tail(toClient)
  /\ client' = IF Awaiting THEN [client EXCEPT !.state = "closed", !.chain = <<>>, !.told = TRUE]
               ELSE client
  /\ UNCHANGED <<logVars, srv, flow, toServer, up, start, seen, handled, drops>>

\* The request times out without progress; the pending open is relinquished.
RequestTimeout ==
  /\ Awaiting /\ toClient = <<>>
  /\ CloseTracked(TRUE)
  /\ UNCHANGED <<logVars, srv, flow, toClient, up, start, seen, handled, drops>>

UserClose ==
  /\ client.state \in {"open", "down", "preparing", "renewing"}
  /\ CloseTracked(FALSE)
  /\ UNCHANGED <<logVars, srv, flow, toClient, up, start, seen, handled, drops>>

\* The socket closes: both sides drop what is in transit, the server closes
\* its subscriptions, and a pending request is rejected.
Drop ==
  /\ up /\ up' = FALSE
  /\ drops < MaxDrops /\ drops' = drops + 1
  /\ toServer' = <<>> /\ toClient' = <<>>
  /\ srv' = NoSub /\ flow' = NoFlow
  /\ client' = CASE Awaiting -> [client EXCEPT !.state = "closed", !.chain = <<>>, !.told = TRUE]
                 [] client.state = "open" -> [client EXCEPT !.state = "down"]
                 [] OTHER -> client
  /\ UNCHANGED <<logVars, start, seen, handled>>

\* onreconnected: resubscribeAll takes the subscription out of the map and
\* asks for a message that resumes at its last cursor.
Reconnect ==
  /\ ~up /\ up' = TRUE
  /\ client' = IF client.state = "down" THEN [client EXCEPT !.state = "preparing"] ELSE client
  /\ UNCHANGED <<logVars, srv, flow, toServer, toClient, start, seen, handled, drops>>

ResumeCursor == IF client.last = None THEN start ELSE client.last

\* resubscribeTracked, once the message is signed: the request replaces the
\* establishment, or finds the socket gone again.
Resubscribe ==
  /\ client.state = "preparing"
  /\ client' = IF up THEN [client EXCEPT !.state = "renewing", !.chain = <<>>, !.pending = None]
               ELSE [client EXCEPT !.state = "closed", !.chain = <<>>, !.told = TRUE]
  /\ toServer' = IF up THEN Append(toServer, Frame("subscribe", ResumeCursor)) ELSE toServer
  /\ UNCHANGED <<logVars, srv, flow, toClient, up, start, seen, handled, drops>>

-----------------------------------------------------------------------------
Producer ==
  \/ ReadInitialCursor \/ Register \/ FreezeHighWater \/ CatchUpGap
  \/ ReadPage \/ DrainGap \/ DeliverEntry \/ SendEose
  \/ FinishCatchUpPage \/ FinishDrainPage \/ ReplyOpened

Transport ==
  \/ ServeSubscribe \/ ServeAck \/ ServeClose
  \/ ReceiveEvent \/ ReceiveError \/ ReceiveOpened \/ ReceiveRefused

Next ==
  \/ Commit \/ Reset \/ LoseWake \/ HandleWake \/ RedrainAll
  \/ Producer \/ ReadFails \/ CapacityTimeout
  \/ Transport
  \/ (\E i \in 1 .. Len(client.chain) : HandlerSettles(i)) \/ AckSettled \/ HandlerTerminal
  \/ RequestTimeout \/ UserClose
  \/ Drop \/ Reconnect \/ Resubscribe

Spec == Init /\ [][Next]_vars

(***************************************************************************)
(* Fairness: promises of the server and of the client are run, frames are  *)
(* carried while the socket is up, the idle re-drain interval fires, reads *)
(* of the log that are tried over and over succeed, handlers settle, and   *)
(* the socket, which retries without limit, reconnects.                    *)
(***************************************************************************)
Fairness ==
  /\ WF_vars(RedrainAll /\ srv' # srv)
  /\ WF_vars(Producer) /\ SF_vars(ReadPage)
  /\ WF_vars(Transport)
  /\ WF_vars(HandlerSettles(1) \/ AckSettled)
  /\ WF_vars(Reconnect \/ Resubscribe)

LiveSpec == Spec /\ Fairness

-----------------------------------------------------------------------------
(* Properties *)

\* The variables have their types, and no token is beyond the log's bound.
TypeOK ==
  /\ log \in [epoch : 1 .. MaxEpoch, head : 0 .. MaxHead]
  /\ wake \in BOOLEAN /\ up \in BOOLEAN
  /\ srv.state \in {"none", "opening", "catchup", "eose", "live", "gone", "ended"}
  /\ srv.at \in {"idle", "bounds", "register", "read", "deliver"}
  /\ {srv.cursor, srv.frozen, srv.pageEnd, srv.held} \subseteq Token \cup {None}
  /\ Range(flow.unacked) \subseteq Token
  /\ client.state \in {"opening", "open", "down", "preparing", "renewing", "closed"}
  /\ {client.last, client.pending, start} \subseteq Token \cup {None}
  /\ seen \cup handled \subseteq Token

Ends(frames) == SelectSeq(frames, LAMBDA m : m.kind \in {"error", "refused"})

\* The matching positions of start's generation that a consumer who has got
\* as far as `position` should have had.
Due(position) == {At(start.epoch, p) : p \in {q \in Visible : start.position < q /\ q <= position}}

\* A consumer that subscribed at a cursor has seen a gap-free stretch of one
\* generation of the log, whatever pages, wakes, failures, reconnections and
\* resets have happened: nothing is skipped, and nothing of a later
\* generation is mixed in.
NoGap ==
  start # None => \A t \in seen : t.epoch = start.epoch /\ Due(t.position) \subseteq seen

\* "an event the consumer never fully processed must be replayed by a
\* resubscription, never skipped, so cursor and ack move together or not at
\* all": the cursor a reconnection resumes at covers settled events only.
CursorCoversSettled ==
  start # None /\ client.last # None => Due(client.last.position) \subseteq handled

\* The frames of an establishment in the order the client sees them: those in
\* the ack chain, on the wire and in the server's buffer.
Pipeline ==
  [i \in DOMAIN client.chain |-> client.chain[i].frame]
    \o SelectSeq(toClient \o flow.buffer, LAMBDA m : m.kind \in {"event", "eose"})

\* In one establishment events come in log order without repetition, from the
\* drain through the flow controller to the client's handlers.
InOrder ==
  client.state \in {"opening", "open", "renewing"} =>
    LET line == Pipeline IN
    \A i \in 2 .. Len(line) :
      \/ line[i - 1].token.position < line[i].token.position
      \/ line[i].kind = "eose" /\ line[i - 1].token = line[i].token

\* Window and buffer are within their limits, a message waits in the buffer
\* only while the window is full, and the producer is held exactly while the
\* buffer is full.  No slot of the window leaks: each unacknowledged token is
\* on its way to the client, waits for its handler, or its acknowledgement is
\* on its way back.
WindowAccounted ==
  /\ TypeOK
  /\ Len(flow.unacked) <= MaxInFlight /\ Len(flow.buffer) <= MaxBuffer
  /\ flow.buffer # <<>> => Len(flow.unacked) = MaxInFlight
  /\ (srv.held # None) = (Len(flow.buffer) = MaxBuffer)
  /\ up /\ client.state \in {"opening", "open", "renewing"} /\ srv.state \notin {"gone", "ended"} =>
       Len(flow.unacked) =
         Len(SelectSeq(toServer, LAMBDA m : m.kind = "ack")) + Len(client.chain)
           + Len(SelectSeq(toClient, LAMBDA m : m.kind \in {"event", "eose"}))

\* A consumer is never left with a subscription that is dead on the server
\* and not reported: it is live, or its end is on its way.
EndIsReported ==
  up /\ client.state = "open" =>
    srv.state = "live" \/ Ends(toClient \o flow.buffer) # <<>>

\* The end of stored events is announced after every stored event.
EoseComplete ==
  start # None /\ client.state # "closed" =>
  \A i \in DOMAIN toClient : toClient[i].kind = "eose" =>
    LET ahead == {toClient[j].token : j \in 1 .. i - 1}
    IN Due(toClient[i].token.position) \subseteq seen \cup ahead

\* A committed event reaches a settled handler, or the subscription ends, in
\* spite of lost wakes, failed reads and reconnections.
EveryEventHandled ==
  \A p \in Visible :
    (start # None /\ log = [epoch |-> 1, head |-> p])
      ~> (At(1, p) \in handled \/ client.state = "closed" \/ log.epoch > 1)
=============================================================================

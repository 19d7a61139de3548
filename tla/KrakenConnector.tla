--------------------------- MODULE KrakenConnector ---------------------------
(***************************************************************************)
(* connectors/kraken.py: the WebSocket connector of one symbol, from the   *)
(* connection attempt over the subscription to the drop and the backoff,   *)
(* and the exchange on the other side.                                     *)
(*                                                                         *)
(* The exchange executes trades 1, 2, 3, ...; a subscription is sent those *)
(* executed while it lasts (no snapshot is requested) in order, one or     *)
(* more per message, until the connection drops.                           *)
(***************************************************************************)
EXTENDS TradeSeq

CONSTANTS
    MaxTrade,    \* bound on the trades executed
    MaxBackoff,  \* MAX_BACKOFF_SECONDS
    MaxMessage,  \* bound on the entries of one message
    MaxDrops     \* bound on the count of drops; backoff is at its cap by then

\* 1, 2, 4, ...: the n-th power of two.
Doubled[n \in Nat] == IF n = 0 THEN 1 ELSE 2 * Doubled[n - 1]

ASSUME ConnectorAssumption ==
    /\ MaxTrade \in Nat
    /\ MaxBackoff \in Nat \ {0}
    /\ MaxMessage \in Nat \ {0}
    /\ MaxDrops \in Nat \ {0} /\ Doubled[MaxDrops - 1] >= MaxBackoff

Trade == 1..MaxTrade

VARIABLES
    link,      \* "connecting" | "open" | "subscribed" | "refused" |
               \* "backingOff" | "crashed"
    backoff,   \* the local variable of run()
    drops,     \* connections lost in a row without a subscription sent
               \* between, counted up to MaxDrops
    market,    \* trades executed so far
    seen,      \* trades up to here were sent to, or missed by, the connector
    since,     \* seen when the current subscription began
    malformed, \* entries logged and dropped
    spilled,   \* entries of messages that raised
    handed     \* trades put on the asyncio queue, over all processes

exchangeVars == <<market>>
feedVars == <<seen, since, malformed, spilled, handed>>
vars == <<link, backoff, drops, market, seen, since, malformed, spilled, handed>>

Init ==
    /\ link = "connecting"
    /\ backoff = 1
    /\ drops = 0
    /\ market = 0
    /\ seen = 0
    /\ since = 0
    /\ malformed = {} /\ spilled = {}
    /\ handed = <<>>

Smaller(a, b) == IF a <= b THEN a ELSE b

-----------------------------------------------------------------------------
(* The exchange. *)

Execute ==
    /\ market < MaxTrade
    /\ market' = market + 1
    /\ UNCHANGED <<link, backoff, drops, feedVars>>

-----------------------------------------------------------------------------
(* run() *)

\* websockets.connect succeeds within its open_timeout.
Connected ==
    /\ link = "connecting"
    /\ link' = "open"
    /\ UNCHANGED <<backoff, drops, exchangeVars, feedVars>>

MutSubscribedKeepsBackoff ==
    /\ link = "open"
    /\ link' = "subscribed"
    /\ drops' = 0
    /\ seen' = market
    /\ since' = market
    /\ UNCHANGED <<backoff, exchangeVars, malformed, spilled, handed>>

MutSubscribedSnapshot ==
    /\ link = "open"
    /\ link' = "subscribed"
    /\ backoff' = 1
    /\ drops' = 0
    /\ seen' = since
    /\ UNCHANGED <<exchangeVars, since, malformed, spilled, handed>>

\* The subscription is sent and granted; trades executed before are never
\* sent.
Subscribed ==
    /\ link = "open"
    /\ link' = "subscribed"
    /\ backoff' = 1
    /\ drops' = 0
    /\ seen' = market
    /\ since' = market
    /\ UNCHANGED <<exchangeVars, malformed, spilled, handed>>

\* The subscription is sent and refused: to parse_trade_message the reply is
\* one of the messages without trades, and the connection stays open.
SubscriptionRefused ==
    /\ link = "open"
    /\ link' = "refused"
    /\ backoff' = 1
    /\ drops' = 0
    /\ UNCHANGED <<exchangeVars, feedVars>>

MutDropped ==
    /\ link \in {"connecting", "open", "subscribed", "refused"}
    /\ link' = IF link = "connecting" THEN "crashed" ELSE "backingOff"
    /\ drops' = Smaller(drops + 1, MaxDrops)
    /\ UNCHANGED <<backoff, exchangeVars, feedVars>>

\* A WebSocketException or OSError, at any point of the connection: what
\* was on the wire is gone.
Dropped ==
    /\ link \in {"connecting", "open", "subscribed", "refused"}
    /\ link' = "backingOff"
    /\ drops' = Smaller(drops + 1, MaxDrops)
    /\ UNCHANGED <<backoff, exchangeVars, feedVars>>

\* The server closes normally: the loop over the socket ends, and the outer
\* loop connects again at once.
ClosedNormally ==
    /\ link \in {"subscribed", "refused"}
    /\ link' = "connecting"
    /\ UNCHANGED <<backoff, drops, exchangeVars, feedVars>>

MutSleepDone ==
    /\ link = "backingOff"
    /\ link' = "connecting"
    /\ backoff' = backoff * 2
    /\ UNCHANGED <<drops, exchangeVars, feedVars>>

\* The sleep of backoff seconds ends.
SleepDone ==
    /\ link = "backingOff"
    /\ link' = "connecting"
    /\ backoff' = Smaller(backoff * 2, MaxBackoff)
    /\ UNCHANGED <<drops, exchangeVars, feedVars>>

-----------------------------------------------------------------------------
(* Messages. *)

\* What parse_trade_message can make of a message with the trades up to hi:
\* its well-formed entries, in order.
Parsed(hi) ==
    {s \in UNION {[1..k -> seen + 1..hi] : k \in 0..hi - seen} : Increasing(s)}

MutReceive(hi, s) ==
    /\ link = "subscribed"
    /\ hi \in seen + 1..market
    /\ seen' = hi
    /\ malformed' = malformed \cup ((seen + 1..hi) \ Ids(s))
    /\ handed' = IF Len(s) = hi - seen THEN handed \o s ELSE handed
    /\ UNCHANGED <<link, backoff, drops, since, spilled, exchangeVars>>

\* A message with the trades up to hi arrives, s among them well-formed; the
\* others are skipped one by one.  The asyncio queue has no bound, so s is
\* put without the task being suspended.
Receive(hi, s) ==
    /\ link = "subscribed"
    /\ hi \in seen + 1..market
    /\ seen' = hi
    /\ malformed' = malformed \cup ((seen + 1..hi) \ Ids(s))
    /\ handed' = handed \o s
    /\ UNCHANGED <<link, backoff, drops, since, spilled, exchangeVars>>

\* parse_trade_message raises what it does not catch (data is null, or a
\* timestamp is a number): the exception leaves run() and ends the task, and
\* no entry of the message is put on the queue.
ReceiveRaises(hi) ==
    /\ link = "subscribed"
    /\ hi \in seen..market
    /\ link' = "crashed"
    /\ seen' = hi
    /\ spilled' = spilled \cup (seen + 1..hi)
    /\ UNCHANGED <<backoff, drops, since, malformed, handed, exchangeVars>>

Messages == {hi \in Trade : hi \in seen + 1..seen + MaxMessage}

Receiving == \E hi \in Messages : \E s \in Parsed(hi) : Receive(hi, s)

\* Everything the connector and the exchange do short of a message.
LinkStep ==
    \/ Execute
    \/ Connected
    \/ Subscribed
    \/ SubscriptionRefused
    \/ Dropped
    \/ ClosedNormally
    \/ SleepDone

\* Sleeps end, messages that were sent arrive unless the connection drops,
\* and an endpoint that is tried again and again is reached, and grants the
\* subscription, some time.
ConnectorFairness ==
    /\ WF_vars(SleepDone)
    /\ WF_vars(Receiving)
    /\ SF_vars(Connected)
    /\ SF_vars(Subscribed)

-----------------------------------------------------------------------------
(* Type invariant. *)
TypeOK ==
    /\ link \in {"connecting", "open", "subscribed", "refused",
                "backingOff", "crashed"}
    /\ backoff \in 1..MaxBackoff
    /\ drops \in 0..MaxDrops
    /\ market \in 0..MaxTrade
    /\ seen \in 0..market /\ since \in 0..seen
    /\ malformed \subseteq 1..seen /\ spilled \subseteq 1..seen
    /\ handed \in Seq(1..seen)

(* What the connector hands to the core is a log: over all drops, clean    *)
(* closes and resubscriptions, trades are put in exchange order and none   *)
(* twice (kraken.py:62-77).                                                *)
Handed == INSTANCE TradeLog WITH log <- handed
QueueIsALog == Handed!Spec

(* Within one subscription there is no silent gap: of the trades received  *)
(* since it began, exactly the malformed ones were not put on the queue,   *)
(* whatever shares a message with them, but for the message that ends the  *)
(* task and the subscription with it (kraken.py:32-48, 71-73).             *)
NoGapInSubscription ==
    \A n \in since + 1..seen :
        /\ n \in Ids(handed) <=> n \notin malformed \cup spilled
        /\ n \in spilled => link # "subscribed"

(* The wait before the next attempt is 1 s after a subscription that was   *)
(* lost and doubles with each attempt that fails, up to the cap: "backoff  *)
(* (1s, 2s, 4s... capped 60s)" (design document:66, kraken.py:63-77).      *)
BackoffSchedule ==
    link = "backingOff" => backoff = Smaller(Doubled[drops - 1], MaxBackoff)

(* A lost connection is followed by a new subscription, however many       *)
(* attempts it takes ("reconnects with exponential backoff and resubscribes*)
(* on drop", kraken.py:54-55), provided that no connection on which the    *)
(* subscription was refused stays open for ever: nothing in run() ends it. *)
RefusalsEnd == []<>(link # "refused")
Resubscribes == RefusalsEnd => (link = "backingOff" ~> link = "subscribed")
=============================================================================

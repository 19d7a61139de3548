----------------------------- MODULE Dashboard -----------------------------
(***************************************************************************)
(* The web page (web/index.html) and its server (api.py) on top of the     *)
(* ingestion process: the page loads the history once, over HTTP from the  *)
(* table of trades, then follows the live feed over a WebSocket that the   *)
(* server fills from a Redis subscription of its own.  When the socket     *)
(* closes the page opens a new one after 3 s; it never reloads history.    *)
(*                                                                         *)
(* The ingestion process is IngestionCore; table and channel are its       *)
(* stored and published.                                                   *)
(***************************************************************************)
EXTENDS TradeSeq, FiniteSets

CONSTANTS
    MaxTrade, MaxBurst, Attempts, Crashes, None,  \* the ingestion process
    Second,    \* [trade -> the whole second it was executed in]
    MaxPoints, \* MAX_POINTS, the limit of the history request
    MaxShown   \* trades the page keeps

VARIABLES
    accepted, queue, buffer, publishing, delivered, batch, writer,
    stored, published, dropped, lost,
    page,    \* "loading" | "connecting" | "open" | "live" | "waiting"
    rows,    \* the history the page loaded
    shown,   \* trades, the page's list
    pipe,    \* on the way from the subscription to the page
    since,   \* Len(published) when the current subscription took effect
    ticks,   \* received from the current subscription
    feed     \* received from all subscriptions

Core == INSTANCE IngestionCore

ASSUME DashboardAssumption ==
    /\ Core!CoreAssumption
    /\ Second \in [1..MaxTrade -> Nat]
    /\ \A m, n \in 1..MaxTrade : m < n => Second[m] <= Second[n]
    /\ MaxPoints \in Nat \ {0} /\ MaxShown \in Nat \ {0}

coreVars == <<accepted, queue, buffer, publishing, delivered, batch, writer,
              stored, published, dropped, lost>>
pageVars == <<page, rows, shown, pipe, since, ticks, feed>>
vars == <<accepted, queue, buffer, publishing, delivered, batch, writer,
          stored, published, dropped, lost,
          page, rows, shown, pipe, since, ticks, feed>>

Init ==
    /\ Core!Init
    /\ page = "loading"
    /\ rows = <<>> /\ shown = <<>> /\ pipe = <<>>
    /\ since = 0 /\ ticks = <<>> /\ feed = <<>>

-----------------------------------------------------------------------------
(* The ingestion process. *)

\* Redis hands a message to every subscriber of the moment.
Publishes ==
    /\ Core!PublishDelivered
    /\ pipe' = IF page = "live" THEN Append(pipe, publishing) ELSE pipe
    /\ UNCHANGED <<page, rows, shown, since, ticks, feed>>

TradesArrive ==
    /\ \E s \in Core!Bursts : Core!Put(s)
    /\ UNCHANGED pageVars

Ingests ==
    /\ \/ Core!Take
       \/ Core!PublishEnds
       \/ Core!Flush
       \/ Core!Commit
       \/ Core!WriteReturns
       \/ Core!WriteFails
    /\ UNCHANGED pageVars

IngestionRestarts == Core!Restart /\ UNCHANGED pageVars

-----------------------------------------------------------------------------
(* recent_trades: ORDER BY ts DESC LIMIT, reversed.  ts is a whole second: *)
(* within one the database may return any order, and cut anywhere.         *)

Sorted(s) == \A i, j \in 1..Len(s) : i < j => Second[s[i]] <= Second[s[j]]

Newest(T, limit) ==
    {S \in SUBSET T :
        /\ Cardinality(S) = IF Cardinality(T) <= limit THEN Cardinality(T) ELSE limit
        /\ \A m \in S, n \in T \ S : Second[n] <= Second[m]}

Arrangements(S) == {s \in [1..Cardinality(S) -> S] : Ids(s) = S /\ Sorted(s)}

\* The rows left as the database ordered them, newest first.
MutRecentTrades(limit) ==
    {[i \in 1..Len(s) |-> s[Len(s) + 1 - i]] :
        s \in UNION {Arrangements(S) : S \in Newest(Ids(stored), limit)}}

RecentTrades(limit) == UNION {Arrangements(S) : S \in Newest(Ids(stored), limit)}

-----------------------------------------------------------------------------
(* The page. *)

\* onTrade for each trade of s: the list keeps the last MaxShown.
Show(s) ==
    LET all == shown \o s
    IN  shown' = IF Len(all) <= MaxShown THEN all
                 ELSE SubSeq(all, Len(all) - MaxShown + 1, Len(all))

\* loadHistory
HistoryLoaded ==
    /\ page = "loading"
    /\ \E s \in RecentTrades(MaxPoints) : rows' = s /\ Show(s)
    /\ page' = "connecting"
    /\ UNCHANGED <<coreVars, pipe, since, ticks, feed>>

\* The request fails: the page goes on to the live feed all the same.
HistoryUnreachable ==
    /\ page = "loading"
    /\ page' = "connecting"
    /\ UNCHANGED <<coreVars, rows, shown, pipe, since, ticks, feed>>

\* accept(): the page says it is live.
Opens ==
    /\ page = "connecting"
    /\ page' = "open"
    /\ UNCHANGED <<coreVars, rows, shown, pipe, since, ticks, feed>>

\* The server's own subscription takes effect.
Subscribes ==
    /\ page = "open"
    /\ page' = "live"
    /\ since' = Len(published)
    /\ ticks' = <<>>
    /\ UNCHANGED <<coreVars, rows, shown, pipe, feed>>

MutTick ==
    /\ page = "live"
    /\ pipe # <<>>
    /\ pipe' = SubSeq(pipe, 1, Len(pipe) - 1)
    /\ ticks' = Append(ticks, pipe[Len(pipe)])
    /\ feed' = Append(feed, pipe[Len(pipe)])
    /\ Show(<<pipe[Len(pipe)]>>)
    /\ UNCHANGED <<coreVars, page, rows, since>>

MutTickKnown ==
    /\ page = "live"
    /\ pipe # <<>>
    /\ Head(pipe) \notin Ids(rows)
    /\ pipe' = Tail(pipe)
    /\ ticks' = Append(ticks, Head(pipe))
    /\ feed' = Append(feed, Head(pipe))
    /\ Show(<<Head(pipe)>>)
    /\ UNCHANGED <<coreVars, page, rows, since>>

\* A message of the subscription is sent over the socket and shown.
Tick ==
    /\ page = "live"
    /\ pipe # <<>>
    /\ pipe' = Tail(pipe)
    /\ ticks' = Append(ticks, Head(pipe))
    /\ feed' = Append(feed, Head(pipe))
    /\ Show(<<Head(pipe)>>)
    /\ UNCHANGED <<coreVars, page, rows, since>>

MutCloses ==
    /\ page \in {"connecting", "open", "live"}
    /\ page' = "waiting"
    /\ UNCHANGED <<coreVars, rows, shown, pipe, since, ticks, feed>>

\* Only the close of a socket that had opened is followed by a retry.
MutClosesUnopened ==
    /\ page \in {"connecting", "open", "live"}
    /\ page' = IF page = "connecting" THEN "failed" ELSE "waiting"
    /\ pipe' = <<>>
    /\ ticks' = <<>>
    /\ UNCHANGED <<coreVars, rows, shown, since, feed>>

\* The connection fails or is lost, with everything on its way.
Closes ==
    /\ page \in {"connecting", "open", "live"}
    /\ page' = "waiting"
    /\ pipe' = <<>>
    /\ ticks' = <<>>
    /\ UNCHANGED <<coreVars, rows, shown, since, feed>>

\* The server's connection to Redis is lost and the client library renews
\* the subscription: the page notices nothing.
SubscriptionLost ==
    /\ page = "live"
    /\ page' = "open"
    /\ pipe' = <<>>
    /\ UNCHANGED <<coreVars, rows, shown, since, ticks, feed>>

\* The timer set by onclose.
Retry ==
    /\ page = "waiting"
    /\ page' = "connecting"
    /\ UNCHANGED <<coreVars, rows, shown, pipe, since, ticks, feed>>

Next ==
    \/ Publishes
    \/ TradesArrive
    \/ Ingests
    \/ IngestionRestarts
    \/ HistoryLoaded
    \/ HistoryUnreachable
    \/ Opens
    \/ Subscribes
    \/ Tick
    \/ Closes
    \/ SubscriptionLost
    \/ Retry

Spec == Init /\ [][Next]_vars

\* The browser's timer fires, the history request ends and messages sent
\* arrive unless the connection is lost.  A server that is tried again and
\* again accepts some time, and its subscription takes effect some time.
FairSpec ==
    /\ Spec
    /\ WF_vars(HistoryLoaded \/ HistoryUnreachable)
    /\ WF_vars(Tick)
    /\ WF_vars(Retry)
    /\ SF_vars(Opens)
    /\ SF_vars(Subscribes)

-----------------------------------------------------------------------------
(* Type invariant of the page. *)
TypeOK ==
    /\ page \in {"loading", "connecting", "open", "live", "waiting"}
    /\ rows \in Seq(1..MaxTrade) /\ Len(rows) <= MaxPoints
    /\ shown \in Seq(1..MaxTrade) /\ Len(shown) <= MaxShown
    /\ pipe \in Seq(1..MaxTrade)
    /\ since \in 0..Len(published)
    /\ ticks \in Seq(1..MaxTrade)
    /\ feed \in Seq(1..MaxTrade)
    /\ page # "live" => pipe = <<>>

(* While a subscription lasts the page is shown the feed without a gap:    *)
(* what it received and what is on its way is exactly what was published   *)
(* since the subscription took effect (api.py:36-41, redis_bus.py:26-33,   *)
(* web/index.html:780-799).                                                *)
GaplessWhileLive ==
    page = "live" =>
        ticks \o pipe = SubSeq(published, since + 1, Len(published))

(* The page never goes back in time: the live feed is in exchange order    *)
(* over all its connections, and no trade of it is older than one of the   *)
(* history loaded before, although history and feed take different ways    *)
(* out of the ingestion process (ingestion.py:50-68, index.html:801-806).  *)
NeverGoesBack ==
    /\ NonDecreasing(feed)
    /\ \A m \in Ids(rows), n \in Ids(feed) : m <= n

(* The list the charts are drawn from is in order of time, to the second,  *)
(* across the history, whose rows the database may arrange, the live feed  *)
(* that follows it, all reconnections and what the list has dropped        *)
(* (timescale.py:26-39, index.html:736-757, 764-806).                      *)
ListInOrder == Sorted(shown)

(* What reaches the subscription reaches the page, unless the connection   *)
(* or the subscription is lost (api.py:40-43).                             *)
TicksAreShown ==
    \A n \in 1..MaxTrade :
        n \in Ids(pipe) ~> n \in Ids(ticks) \/ page # "live"

(* A page that lost its connection is live again, however many attempts    *)
(* fail before or after the socket opens (index.html:792-797).             *)
ComesBack == page = "waiting" ~> page = "live"
=============================================================================

---------------------------- MODULE IngestionCore ----------------------------
(***************************************************************************)
(* ingestion.py with the two storage calls it is given in main.py: the     *)
(* consumer task and the flush task of IngestionCore share a TradeBatcher, *)
(* fed by the connector's unbounded asyncio queue, and await Redis and     *)
(* TimescaleDB.  The tasks run on one event loop, so an action is the code *)
(* between two awaits; whatever the servers do in between is an action of  *)
(* its own.                                                                *)
(***************************************************************************)
EXTENDS TradeSeq

CONSTANTS
    MaxTrade, \* bound on the trades executed at the exchange
    MaxBurst, \* bound on the trades of one message
    Attempts, \* how often the Redis client sends one publish at most
    Crashes,  \* whether the process may be killed and started again
    None      \* no publish in progress

ASSUME CoreAssumption ==
    /\ MaxTrade \in Nat
    /\ MaxBurst \in Nat
    /\ Attempts \in Nat \ {0}
    /\ Crashes \in BOOLEAN
    /\ None \notin Nat

Trade == 1..MaxTrade

VARIABLES
    accepted,   \* trades put on the queue so far, over all processes
    queue,      \* asyncio.Queue between connector and core
    buffer,     \* TradeBatcher._buffer
    publishing, \* the trade whose publish is awaited, or None
    delivered,  \* how often that publish has reached Redis
    batch,      \* the batch whose write is awaited, or empty
    writer,     \* flush task: "sleeping" | "writing" | "committed"
    stored,     \* table trades, in order of insertion
    published,  \* what subscribers of the Redis channel were sent
    dropped,    \* trades of batches logged as dropped
    lost        \* trades in memory when a process died

consumerVars == <<publishing, delivered, published>>
writerVars == <<batch, writer, stored, dropped>>
vars == <<accepted, queue, buffer, publishing, delivered, batch, writer,
          stored, published, dropped, lost>>

Init ==
    /\ accepted = {}
    /\ queue = <<>>
    /\ buffer = <<>>
    /\ publishing = None
    /\ delivered = 0
    /\ batch = <<>>
    /\ writer = "sleeping"
    /\ stored = <<>>
    /\ published = <<>>
    /\ dropped = {}
    /\ lost = {}

-----------------------------------------------------------------------------
(* The connector. *)

\* The trades of one message: put one after the other on a queue without
\* bound, so that the connector is not suspended in between.
Bursts == {s \in UNION {[1..k -> Trade] : k \in 1..MaxBurst} : Increasing(s)}

\* Trades arrive in exchange order; those executed while nobody was
\* subscribed, and malformed entries, never arrive.
Put(s) ==
    /\ Before(accepted, Ids(s))
    /\ accepted' = accepted \cup Ids(s)
    /\ queue' = queue \o s
    /\ UNCHANGED <<buffer, publishing, delivered, batch, writer,
                   stored, published, dropped, lost>>

-----------------------------------------------------------------------------
(* _consume *)

MutTakeNewest ==
    /\ publishing = None
    /\ queue # <<>>
    /\ queue' = SubSeq(queue, 1, Len(queue) - 1)
    /\ buffer' = Append(buffer, queue[Len(queue)])
    /\ publishing' = queue[Len(queue)]
    /\ delivered' = 0
    /\ UNCHANGED <<accepted, batch, writer, stored, published, dropped, lost>>

\* get, batcher.add and the start of the publish, without an await between.
Take ==
    /\ publishing = None
    /\ queue # <<>>
    /\ queue' = Tail(queue)
    /\ buffer' = Append(buffer, Head(queue))
    /\ publishing' = Head(queue)
    /\ delivered' = 0
    /\ UNCHANGED <<accepted, batch, writer, stored, published, dropped, lost>>

\* Redis hands the message to its subscribers; the client may have sent it
\* before, when the reply was lost.
PublishDelivered ==
    /\ publishing # None
    /\ delivered < Attempts
    /\ published' = Append(published, publishing)
    /\ delivered' = delivered + 1
    /\ UNCHANGED <<accepted, queue, buffer, publishing, writerVars, lost>>

\* The await ends, with a reply or with an exception that is only logged;
\* in the second case the message may have been delivered or not.
PublishEnds ==
    /\ publishing # None
    /\ publishing' = None
    /\ delivered' = 0
    /\ UNCHANGED <<accepted, queue, buffer, writerVars, published, lost>>

-----------------------------------------------------------------------------
(* _flush_loop *)

MutFlush ==
    /\ writer = "sleeping"
    /\ buffer # <<>>
    /\ batch' = buffer
    /\ writer' = "writing"
    /\ UNCHANGED <<accepted, queue, buffer, consumerVars, stored, dropped, lost>>

\* The timer fires: flush swaps the buffer for an empty one.  An empty batch
\* sends the task back to sleep, which changes nothing.
Flush ==
    /\ writer = "sleeping"
    /\ buffer # <<>>
    /\ batch' = buffer
    /\ buffer' = <<>>
    /\ writer' = "writing"
    /\ UNCHANGED <<accepted, queue, consumerVars, stored, dropped, lost>>

\* TimescaleDB commits the one transaction of executemany.
Commit ==
    /\ writer = "writing"
    /\ stored' = stored \o batch
    /\ writer' = "committed"
    /\ UNCHANGED <<accepted, queue, buffer, consumerVars, batch, dropped, lost>>

MutWriteReturns ==
    /\ writer = "committed"
    /\ batch' = <<>>
    /\ buffer' = <<>>
    /\ writer' = "sleeping"
    /\ UNCHANGED <<accepted, queue, consumerVars, stored, dropped, lost>>

WriteReturns ==
    /\ writer = "committed"
    /\ batch' = <<>>
    /\ writer' = "sleeping"
    /\ UNCHANGED <<accepted, queue, buffer, consumerVars, stored, dropped, lost>>

MutWriteFails ==
    /\ writer \in {"writing", "committed"}
    /\ dropped' = dropped \cup Ids(batch)
    /\ batch' = <<>>
    /\ writer' = "stopped"
    /\ UNCHANGED <<accepted, queue, buffer, consumerVars, stored, lost>>

\* write_batch raises, before the commit or because its reply was lost: the
\* batch is logged as dropped and the loop goes on.
WriteFails ==
    /\ writer \in {"writing", "committed"}
    /\ dropped' = dropped \cup Ids(batch)
    /\ batch' = <<>>
    /\ writer' = "sleeping"
    /\ UNCHANGED <<accepted, queue, buffer, consumerVars, stored, lost>>

-----------------------------------------------------------------------------
\* Trades held only in the memory of the process.
Uncommitted == IF writer = "committed" THEN <<>> ELSE batch
InMemory == Ids(queue) \cup Ids(buffer) \cup Ids(Uncommitted)

\* The process dies and is started again: nothing was saved.
Restart ==
    /\ Crashes
    /\ lost' = lost \cup InMemory
    /\ queue' = <<>>
    /\ buffer' = <<>>
    /\ publishing' = None
    /\ delivered' = 0
    /\ batch' = <<>>
    /\ writer' = "sleeping"
    /\ UNCHANGED <<accepted, stored, published, dropped>>

CoreStep ==
    \/ Take
    \/ PublishDelivered
    \/ PublishEnds
    \/ Flush
    \/ Commit
    \/ WriteReturns
    \/ WriteFails

Next ==
    \/ \E s \in Bursts : Put(s)
    \/ CoreStep
    \/ Restart

Spec == Init /\ [][Next]_vars

\* The event loop runs every ready task and the timer fires.  Nothing is
\* assumed of Redis and TimescaleDB: neither client has a timeout, and an
\* await of either may last for ever.
FairSpec == Spec /\ WF_vars(Take) /\ WF_vars(Flush)

-----------------------------------------------------------------------------
(* Type invariant. *)
TypeOK ==
    /\ accepted \subseteq Trade
    /\ queue \in Seq(Trade)
    /\ buffer \in Seq(Trade)
    /\ publishing \in Trade \cup {None}
    /\ delivered \in 0..Attempts
    /\ batch \in Seq(Trade)
    /\ writer \in {"sleeping", "writing", "committed"}
    /\ writer = "sleeping" => batch = <<>>
    /\ stored \in Seq(Trade)
    /\ published \in Seq(Trade)
    /\ dropped \subseteq Trade
    /\ lost \subseteq Trade

(* The history implements TradeLog: across flushes that overlap arriving   *)
(* trades, failed writes, writes whose success is not known and restarts,  *)
(* the table only grows, in exchange order and without a repeated trade    *)
(* (ingestion.py:50-68, timescale.py:15-24).                               *)
History == INSTANCE TradeLog WITH log <- stored
HistoryIsALog == History!Spec

(* Live subscribers see the trades in exchange order; a publish the Redis  *)
(* client repeats shows a trade again, never an older one                  *)
(* (ingestion.py:50-57, redis_bus.py:22-24).                               *)
FeedInOrder == NonDecreasing(published)

(* Where the trades are: each accepted trade is on exactly one stage of    *)
(* the pipeline, in the table, or known to be gone.  Only a trade whose    *)
(* commit was not acknowledged is both stored and logged as dropped.       *)
(* Nothing is published that was not accepted.                             *)
Accounted ==
    /\ accepted = InMemory \cup Ids(stored) \cup dropped \cup lost
    /\ Ids(queue) \cap Ids(buffer) = {}
    /\ Ids(queue) \cap Ids(Uncommitted) = {}
    /\ Ids(buffer) \cap Ids(Uncommitted) = {}
    /\ InMemory \cap (Ids(stored) \cup dropped \cup lost) = {}
    /\ lost \cap (Ids(stored) \cup dropped) = {}
    /\ Ids(published) \subseteq accepted
    /\ writer = "committed" => Ids(batch) \subseteq Ids(stored)

(* At every moment the trades still in memory are newer than all of the    *)
(* table, stage by stage: a batch being written is older than the buffer   *)
(* that fills meanwhile, the buffer older than the queue.  This is what    *)
(* makes the next commit an append (ingestion.py:50-68).                   *)
PipelineOrder ==
    /\ Increasing(stored) /\ Increasing(Uncommitted)
    /\ Increasing(buffer) /\ Increasing(queue)
    /\ Before(Ids(stored), InMemory)
    /\ Before(Ids(Uncommitted), Ids(buffer) \cup Ids(queue))
    /\ Before(Ids(buffer), Ids(queue))
    /\ Ids(stored) \cup InMemory \subseteq accepted

(* The strengthening of FeedInOrder: what was published is not newer than  *)
(* the trade being published, and that is older than the queue.            *)
FeedOrder ==
    /\ FeedInOrder
    /\ publishing # None =>
          /\ \A m \in Ids(published) : m <= publishing
          /\ Before({publishing}, Ids(queue))
          /\ publishing \in accepted
    /\ Before(Ids(published), Ids(queue))
    /\ Ids(published) \cup Ids(queue) \subseteq accepted

\* The awaits end: no publish, and no write of a batch, lasts for ever.
PublishesEnd == []<>(publishing = None)
WritesEnd == []<>(batch = <<>>)

EachSettles ==
    \A n \in Trade :
        n \in accepted ~> n \in Ids(stored) \cup dropped \cup lost

(* As long as Redis and TimescaleDB let the awaits end, well or badly,     *)
(* every trade the connector hands over reaches the table, is dropped with *)
(* a batch whose write failed, or is lost in a restart: none is stuck in a *)
(* buffer, whatever fails (ingestion.py:50-68).  A batch is dropped at its *)
(* first failure: write_batch is called once.                              *)
Settles == PublishesEnd /\ WritesEnd => EachSettles

(* The same with only the database answering: "Redis publish is            *)
(* best-effort/fire-and-forget ... Postgres is source of truth for         *)
(* history" (docs/superpowers/specs/2026-08-22-data-ingestion-design.md:69)*)
SettlesWithoutRedis == WritesEnd => EachSettles
=============================================================================

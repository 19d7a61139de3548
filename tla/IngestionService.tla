-------------------------- MODULE IngestionService --------------------------
(***************************************************************************)
(* main.py: the connector and the core in one process.  They share the     *)
(* asyncio queue and nothing else: what the connector hands over is what   *)
(* the core has accepted.  asyncio.gather ends the process when the        *)
(* connector's task ends with an exception, and whoever runs the service   *)
(* may start it again at any time.                                         *)
(***************************************************************************)
EXTENDS KrakenConnector

CONSTANTS Attempts, Crashes, None  \* the core's

VARIABLES
    queue, buffer, publishing, delivered, batch, writer,
    stored, published, dropped, lost

Core == INSTANCE IngestionCore WITH MaxBurst <- MaxMessage, accepted <- Ids(handed)

ASSUME ServiceAssumption == Core!CoreAssumption

coreOnly == <<queue, buffer, publishing, delivered, batch, writer,
              stored, published, dropped, lost>>
serviceVars == <<link, backoff, drops, market, seen, since, malformed, spilled, handed,
                 queue, buffer, publishing, delivered, batch, writer,
                 stored, published, dropped, lost>>

ServiceInit == Init /\ Core!Init

-----------------------------------------------------------------------------
LinkMoves == LinkStep /\ UNCHANGED coreOnly

\* A message is parsed and its trades are put on the queue of the core.
MessageArrives ==
    \E hi \in Messages : \E s \in Parsed(hi) :
        /\ Receive(hi, s)
        /\ queue' = queue \o s
        /\ UNCHANGED <<buffer, publishing, delivered, batch, writer,
                       stored, published, dropped, lost>>

\* The exception leaves run(), gather() and main(): nothing runs any more.
ConnectorRaises ==
    /\ \E hi \in seen..seen + MaxMessage : ReceiveRaises(hi)
    /\ UNCHANGED coreOnly

CoreMoves ==
    /\ link # "crashed"
    /\ UNCHANGED vars
    /\ Core!CoreStep

\* A new process starts from nothing: the database, the channel and the
\* exchange are what they were.
ProcessRestarts ==
    /\ link' = "connecting"
    /\ backoff' = 1
    /\ drops' = 0
    /\ UNCHANGED <<market, feedVars>>
    /\ Core!Restart

ServiceNext ==
    \/ LinkMoves
    \/ MessageArrives
    \/ ConnectorRaises
    \/ CoreMoves
    \/ ProcessRestarts

ServiceSpec == ServiceInit /\ [][ServiceNext]_serviceVars

FairServiceSpec == ServiceSpec /\ ConnectorFairness

-----------------------------------------------------------------------------
(* The service implements the core as specified on its own: what the core  *)
(* assumes of its producer, trades in exchange order and none twice, is    *)
(* what the connector delivers over drops, resubscriptions and restarts    *)
(* (kraken.py:62-77, main.py:13-21).  Everything shown of the core, the    *)
(* order of the history above all, therefore holds of the service.         *)
ImplementsCore == Core!Spec

(* From the socket to the table no trade disappears: each trade received   *)
(* since the current subscription began was malformed or in the message    *)
(* that ended the process, is in memory or in the table, or was given up   *)
(* by a failed write or a restart (kraken.py:71-73, ingestion.py:50-68).   *)
ReceivedIsAccounted ==
    \A n \in since + 1..seen :
        n \in malformed \cup spilled \cup Core!InMemory \cup Ids(stored)
                        \cup dropped \cup lost
=============================================================================

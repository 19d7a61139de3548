--------------------------- MODULE DashboardProofs ---------------------------
(***************************************************************************)
(* Proofs about Dashboard, for any number of trades, lengths of history    *)
(* and list, losses and restarts: a subscription shows the feed without a  *)
(* gap, the page never goes back in time, and the list the charts are      *)
(* drawn from stays in order.                                              *)
(***************************************************************************)
EXTENDS Dashboard, TradeSeqProofs, FiniteSetTheorems

USE DashboardAssumption

\* What is proved of the ingestion process below the page.
CoreFacts == INSTANCE IngestionCoreProofs

(* The page runs on the ingestion process, and leaves it alone.            *)
LEMMA RunsOnCore == Spec => CoreFacts!Spec
<1>1. Init => CoreFacts!Init
  BY DEF Init, Core!Init, CoreFacts!Init
<1>2. [Next]_vars => [CoreFacts!Next]_(CoreFacts!vars)
  <2> SUFFICES ASSUME [Next]_vars PROVE [CoreFacts!Next]_(CoreFacts!vars)
    OBVIOUS
  <2>1. CASE UNCHANGED coreVars
    BY <2>1 DEF coreVars, CoreFacts!vars
  <2>2. CASE Publishes \/ TradesArrive \/ Ingests \/ IngestionRestarts
    BY <2>2 DEF Publishes, TradesArrive, Ingests, IngestionRestarts,
         Core!consumerVars, Core!writerVars, Core!Trade, Core!Bursts,
         Core!Increasing, Core!Put, Core!Before, Core!Ids, Core!Take,
         Core!PublishDelivered, Core!PublishEnds, Core!Flush,
         Core!Commit, Core!WriteReturns, Core!WriteFails, Core!Restart,
         Core!InMemory, Core!Uncommitted,
         CoreFacts!Next, CoreFacts!CoreStep, CoreFacts!vars,
         CoreFacts!consumerVars, CoreFacts!writerVars, CoreFacts!Trade,
         CoreFacts!Bursts, CoreFacts!Increasing, CoreFacts!Put,
         CoreFacts!Before, CoreFacts!Ids, CoreFacts!Take,
         CoreFacts!PublishDelivered, CoreFacts!PublishEnds,
         CoreFacts!Flush, CoreFacts!Commit, CoreFacts!WriteReturns,
         CoreFacts!WriteFails, CoreFacts!Restart, CoreFacts!InMemory,
         CoreFacts!Uncommitted
  <2>3. CASE UNCHANGED vars
    BY <2>3 DEF vars, CoreFacts!vars
  <2> QED
    BY <2>1, <2>2, <2>3 DEF Next, HistoryLoaded, HistoryUnreachable, Opens,
       Subscribes, Tick, Closes, SubscriptionLost, Retry
<1> QED
  BY <1>1, <1>2, PTL DEF Spec, CoreFacts!Spec

Trade == 1..MaxTrade

\* What the page relies on.
Beneath ==
    /\ queue \in Seq(Nat) /\ stored \in Seq(Trade)
    /\ published \in Seq(Trade)
    /\ publishing \in Trade \cup {None}
    /\ Before(Ids(stored), Ids(queue))
    /\ Ids(stored) \subseteq accepted /\ accepted \subseteq Nat
    /\ publishing # None =>
          \A m \in Ids(stored) \cup Ids(published) : m <= publishing

(* It holds in every reachable state, by what is proved of the core.       *)
LEMMA BeneathHolds == Spec => []Beneath
<1>1. CoreFacts!CoreAssumption
  BY DEF Core!CoreAssumption, CoreFacts!CoreAssumption
<1>2. /\ CoreFacts!Spec => []CoreFacts!TypeOK
      /\ CoreFacts!Spec => []CoreFacts!PipelineOrder
      /\ CoreFacts!Spec => []CoreFacts!FeedOrder
      /\ CoreFacts!Spec => []CoreFacts!TakenOrder
  BY <1>1, CoreFacts!TypeCorrect, CoreFacts!PipelineOrdered,
     CoreFacts!FeedOrderHolds, CoreFacts!TakenOrderHolds
<1>3. ASSUME CoreFacts!TypeOK, CoreFacts!PipelineOrder, CoreFacts!FeedOrder,
             CoreFacts!TakenOrder
      PROVE  Beneath
  <2>1. /\ queue \in Seq(1..MaxTrade) /\ stored \in Seq(1..MaxTrade)
        /\ published \in Seq(1..MaxTrade)
        /\ publishing \in 1..MaxTrade \cup {None}
        /\ accepted \subseteq Nat
    BY <1>3 DEF CoreFacts!TypeOK, CoreFacts!Trade
  <2>2. queue \in Seq(Nat)
    BY <2>1, SeqMonotonic, 1..MaxTrade \subseteq Nat
  <2>3. /\ Before(Ids(stored), Ids(queue))
        /\ Ids(stored) \subseteq accepted
    BY <1>3 DEF CoreFacts!PipelineOrder, CoreFacts!InMemory, CoreFacts!Before,
                CoreFacts!Ids, Before, Ids
  <2>4. publishing # None =>
            \A m \in Ids(stored) \cup Ids(published) : m <= publishing
    BY <1>3 DEF CoreFacts!FeedOrder, CoreFacts!TakenOrder, CoreFacts!Ids, Ids
  <2> QED
    BY <2>1, <2>2, <2>3, <2>4 DEF Beneath, Trade
<1> QED
  BY <1>2, <1>3, RunsOnCore, PTL

-----------------------------------------------------------------------------
(* Facts about the sequences a message moves through.                      *)
LEMMA ConcatAppend ==
    ASSUME NEW s \in Seq(Trade), NEW t \in Seq(Trade), NEW x \in Trade
    PROVE  s \o Append(t, x) = Append(s \o t, x)
<1>1. <<x>> \in Seq(Trade) /\ s \o t \in Seq(Trade)
  BY ConcatProperties
<1> QED
  BY <1>1, AppendIsConcat, ConcatAssociative

LEMMA HeadMoves ==
    ASSUME NEW s \in Seq(Trade), NEW t \in Seq(Trade), t # <<>>
    PROVE  /\ Append(s, Head(t)) \in Seq(Trade) /\ Tail(t) \in Seq(Trade)
           /\ Append(s, Head(t)) \o Tail(t) = s \o t
<1>1. Head(t) \in Trade /\ Tail(t) \in Seq(Trade) /\ <<Head(t)>> \in Seq(Trade)
  BY HeadTailProperties
<1>2. t = <<Head(t)>> \o Tail(t)
  BY <1>1
<1> QED
  BY <1>1, <1>2, AppendProperties, AppendIsConcat, ConcatAssociative

LEMMA SuffixAppend ==
    ASSUME NEW s \in Seq(Trade), NEW x \in Trade, NEW k \in 0..Len(s)
    PROVE  SubSeq(Append(s, x), k + 1, Len(s) + 1)
              = Append(SubSeq(s, k + 1, Len(s)), x)
<1> DEFINE a == Append(s, x)
           long == SubSeq(a, k + 1, Len(s) + 1)
           short == SubSeq(s, k + 1, Len(s))
<1>1. /\ Len(s) \in Nat /\ a \in Seq(Trade) /\ Len(a) = Len(s) + 1
      /\ \A i \in 1..Len(s) : a[i] = s[i] /\ s[i] \in Trade
      /\ a[Len(s) + 1] = x
  BY LenProperties, AppendProperties, ElementOfSeq
<1> HIDE DEF a
<1>2. /\ long \in Seq(Trade) /\ Len(long) = Len(s) - k + 1
      /\ \A i \in 1..Len(s) - k + 1 : long[i] = a[k + i]
  <2>1. \A i \in k + 1..Len(s) + 1 : a[i] \in Trade
    BY <1>1
  <2> QED
    BY <1>1, <2>1, SubSeqProperties
<1>3. /\ short \in Seq(Trade) /\ Len(short) = Len(s) - k
      /\ \A i \in 1..Len(s) - k : short[i] = s[k + i]
  <2>1. \A i \in k + 1..Len(s) : s[i] \in Trade
    BY <1>1
  <2> QED
    BY <1>1, <2>1, SubSeqProperties
<1> HIDE DEF long, short
<1>4. /\ Append(short, x) \in Seq(Trade) /\ Len(Append(short, x)) = Len(s) - k + 1
      /\ \A i \in 1..Len(s) - k : Append(short, x)[i] = short[i]
      /\ Append(short, x)[Len(s) - k + 1] = x
  BY <1>1, <1>3, AppendProperties
<1>5. \A i \in 1..Len(long) : long[i] = Append(short, x)[i]
  <2> SUFFICES ASSUME NEW i \in 1..Len(s) - k + 1
               PROVE  long[i] = Append(short, x)[i]
    BY <1>2
  <2>1. CASE i <= Len(s) - k
    <3>1. i \in 1..Len(s) - k /\ k + i \in 1..Len(s)
      BY <1>1, <2>1
    <3> QED
      BY <1>1, <1>2, <1>3, <1>4, <3>1
  <2>2. CASE i = Len(s) - k + 1
    <3>1. k + i = Len(s) + 1
      BY <1>1, <2>2
    <3> QED
      BY <1>1, <1>2, <1>4, <2>2, <3>1
  <2>3. i <= Len(s) - k \/ i = Len(s) - k + 1
    BY <1>1
  <2> QED
    BY <2>1, <2>2, <2>3
<1>6. long = Append(short, x)
  BY <1>2, <1>4, <1>5, SeqEqual
<1> QED
  BY <1>6 DEF a, long, short

LEMMA PrefixOfConcat ==
    ASSUME NEW s \in Seq(Nat), NEW t \in Seq(Nat), NonDecreasing(s \o t)
    PROVE  NonDecreasing(s)
<1>1. /\ Len(s \o t) = Len(s) + Len(t) /\ Len(s) \in Nat /\ Len(t) \in Nat
      /\ \A i \in 1..Len(s) : (s \o t)[i] = s[i]
  BY ConcatProperties, LenProperties
<1> SUFFICES ASSUME NEW i \in 1..Len(s), NEW j \in 1..Len(s), i < j
             PROVE  s[i] <= s[j]
  BY DEF NonDecreasing
<1>2. i \in 1..Len(s \o t) /\ j \in 1..Len(s \o t)
  BY <1>1
<1>3. (s \o t)[i] <= (s \o t)[j]
  BY <1>2 DEF NonDecreasing
<1> QED
  BY <1>1, <1>3

-----------------------------------------------------------------------------
\* Everything received from the subscriptions or on its way.
Stream == feed \o pipe

Wired ==
    /\ pipe \in Seq(Trade) /\ ticks \in Seq(Trade)
    /\ feed \in Seq(Trade)
    /\ since \in 0..Len(published)
    /\ page # "live" => pipe = <<>>
    /\ page = "loading" => feed = <<>>

\* The stream never runs ahead of the channel, nor back.
InStream == NonDecreasing(Stream) /\ Ids(Stream) \subseteq Ids(published)

\* The history the page loaded is older than whatever is published later.
RowsPast ==
    /\ Ids(rows) \subseteq accepted
    /\ Before(Ids(rows), Ids(queue))
    /\ publishing # None => \A m \in Ids(rows) : m <= publishing

RowsBelow == \A m \in Ids(rows), n \in Ids(Stream) : m <= n

PageInv == Wired /\ GaplessWhileLive /\ InStream /\ RowsPast /\ RowsBelow

(* A message of the channel reaches a live page at the end of its stream.  *)
LEMMA PublishKeeps ==
    ASSUME Beneath, Beneath', PageInv, Publishes
    PROVE  PageInv'
<1>1. /\ publishing # None /\ published' = Append(published, publishing)
      /\ pipe' = IF page = "live" THEN Append(pipe, publishing) ELSE pipe
      /\ UNCHANGED <<accepted, queue, publishing, page, rows, since, ticks, feed>>
  BY DEF Publishes, Core!PublishDelivered
<1>2. /\ publishing \in Trade /\ published \in Seq(Trade)
      /\ \A m \in Ids(published) : m <= publishing
      /\ pipe \in Seq(Trade) /\ ticks \in Seq(Trade) /\ feed \in Seq(Trade)
      /\ Stream \in Seq(Trade) /\ since \in 0..Len(published)
  BY <1>1, ConcatProperties DEF Beneath, PageInv, Wired, Stream
<1>3. /\ published \in Seq(Nat) /\ Stream \in Seq(Nat) /\ publishing \in Nat
  BY <1>2, SeqMonotonic, Trade \subseteq Nat DEF Trade
<1>4. Ids(published') = Ids(published) \cup {publishing}
      /\ Len(published') = Len(published) + 1 /\ Len(published) \in Nat
  BY <1>1, <1>2, <1>3, IdsAppend, AppendProperties, LenProperties
<1>5. /\ feed \o Append(pipe, publishing) = Append(feed \o pipe, publishing)
      /\ ticks \o Append(pipe, publishing) = Append(ticks \o pipe, publishing)
  BY <1>2, ConcatAppend
<1>6. CASE page = "live"
  <2>1. pipe' = Append(pipe, publishing) /\ pipe' \in Seq(Trade)
    BY <1>1, <1>2, <1>6, AppendProperties
  <2>2. Stream' = Append(Stream, publishing)
    BY <1>1, <1>5, <2>1 DEF Stream
  <2>3. InStream' /\ Ids(Stream') = Ids(Stream) \cup {publishing}
    BY <1>2, <1>3, <1>4, <2>2, IdsAppend, NonDecreasingAppend
       DEF PageInv, InStream
  <2>4. RowsPast' /\ RowsBelow'
    BY <1>1, <2>3 DEF PageInv, RowsPast, RowsBelow
  <2>5. GaplessWhileLive'
    <3>1. ticks \o pipe = SubSeq(published, since + 1, Len(published))
      BY <1>6 DEF PageInv, GaplessWhileLive
    <3>2. ticks \o pipe' = Append(ticks \o pipe, publishing)
      BY <1>5, <2>1
    <3>3. SubSeq(published', since + 1, Len(published) + 1)
             = Append(SubSeq(published, since + 1, Len(published)), publishing)
      BY <1>1, <1>2, SuffixAppend
    <3> QED
      BY <1>1, <1>4, <3>1, <3>2, <3>3 DEF GaplessWhileLive
  <2>6. Wired'
    BY <1>1, <1>2, <1>4, <1>6, <2>1 DEF PageInv, Wired
  <2> QED
    BY <2>3, <2>4, <2>5, <2>6 DEF PageInv
<1>7. CASE page # "live"
  <2>1. UNCHANGED <<pipe, Stream>>
    BY <1>1, <1>7 DEF Stream
  <2>2. InStream' /\ RowsPast' /\ RowsBelow' /\ GaplessWhileLive'
    BY <1>1, <1>4, <1>7, <2>1
       DEF PageInv, InStream, RowsPast, RowsBelow, GaplessWhileLive
  <2>3. Wired'
    BY <1>1, <1>2, <1>4, <1>7, <2>1 DEF PageInv, Wired
  <2> QED
    BY <2>2, <2>3 DEF PageInv
<1> QED
  BY <1>6, <1>7

(* Trades that arrive are newer than the loaded history, and what is taken *)
(* from the queue is published after it.                                   *)
LEMMA IngestKeeps ==
    ASSUME Beneath, PageInv, TradesArrive \/ Ingests \/ IngestionRestarts
    PROVE  PageInv'
<1>1. UNCHANGED <<page, rows, pipe, since, ticks, feed, published>>
  BY DEF TradesArrive, Ingests, IngestionRestarts, pageVars, Core!Put, Core!Take,
         Core!PublishEnds, Core!Flush, Core!Commit, Core!WriteReturns,
         Core!WriteFails, Core!Restart, Core!consumerVars, Core!writerVars
<1>2. Wired' /\ GaplessWhileLive' /\ InStream' /\ RowsBelow'
  BY <1>1 DEF PageInv, Wired, GaplessWhileLive, InStream, RowsBelow, Stream
<1>3. RowsPast'
  <2> USE DEF RowsPast
  <2>1. ASSUME NEW s \in Core!Bursts, Core!Put(s) PROVE RowsPast'
    <3>1. s \in Seq(Nat)
      <4>1. PICK k \in 1..MaxBurst : s \in [1..k -> 1..MaxTrade]
        BY DEF Core!Bursts, Core!Trade
      <4> QED
        BY <4>1, SeqDef
    <3>2. /\ Before(accepted, Ids(s)) /\ accepted' = accepted \cup Ids(s)
          /\ queue' = queue \o s /\ publishing' = publishing
      BY <2>1 DEF Core!Put, Core!Before, Core!Ids, Before, Ids
    <3>3. Ids(queue') = Ids(queue) \cup Ids(s)
      BY <3>1, <3>2, IdsConcat DEF Beneath
    <3> QED
      BY <1>1, <3>2, <3>3 DEF PageInv, Before
  <2>2. CASE Core!Take
    <3>1. /\ queue # <<>> /\ queue' = Tail(queue) /\ publishing' = Head(queue)
          /\ accepted' = accepted
      BY <2>2 DEF Core!Take
    <3>2. Head(queue) \in Ids(queue) /\ Ids(queue') \subseteq Ids(queue)
      BY <3>1, HeadAndTail DEF Beneath
    <3>3. \A m \in Ids(rows) : m < Head(queue) /\ m \in Nat /\ Head(queue) \in Nat
      BY <3>1, <3>2, HeadTailProperties DEF PageInv, Before, Beneath
    <3> QED
      BY <1>1, <3>1, <3>2, <3>3 DEF PageInv, Before
  <2>3. CASE \/ Core!PublishEnds \/ Core!Flush \/ Core!Commit
             \/ Core!WriteReturns \/ Core!WriteFails
    <3>1. publishing' \in {publishing, None} /\ UNCHANGED <<queue, accepted>>
      BY <2>3 DEF Core!PublishEnds, Core!Flush, Core!Commit, Core!WriteReturns,
                  Core!WriteFails, Core!consumerVars
    <3> QED
      BY <1>1, <3>1 DEF PageInv
  <2>4. CASE Core!Restart
    <3>1. queue' = <<>> /\ publishing' = None /\ accepted' = accepted
      BY <2>4 DEF Core!Restart
    <3> QED
      BY <1>1, <3>1, EmptyFacts DEF PageInv, Before
  <2> QED
    BY <2>1, <2>2, <2>3, <2>4 DEF TradesArrive, Ingests, IngestionRestarts
<1> QED
  BY <1>2, <1>3 DEF PageInv

(* An answer to the history request holds trades of the table.             *)
LEMMA RowsAreStored ==
    ASSUME NEW s \in RecentTrades(MaxPoints)
    PROVE  Ids(s) \subseteq Ids(stored)
BY DEF RecentTrades, Arrangements, Newest

(* The page's own steps: nothing is shown that did not come through the    *)
(* subscription, and a new subscription starts where the channel is.       *)
LEMMA PageKeeps ==
    ASSUME Beneath, PageInv, UNCHANGED coreVars,
           \/ HistoryLoaded \/ HistoryUnreachable \/ Opens \/ Subscribes
           \/ Tick \/ Closes \/ SubscriptionLost \/ Retry
    PROVE  PageInv'
<1>1. UNCHANGED <<accepted, queue, publishing, published, stored>>
  BY DEF coreVars
<1>2. /\ feed \in Seq(Trade) /\ pipe \in Seq(Trade) /\ ticks \in Seq(Trade)
      /\ published \in Seq(Trade) /\ Len(published) \in Nat
  BY LenProperties DEF PageInv, Wired, Beneath
<1>3. feed \in Seq(Nat) /\ pipe \in Seq(Nat)
  BY <1>2, SeqMonotonic, Trade \subseteq Nat DEF Trade
<1>4. CASE HistoryLoaded
  <2>1. /\ page = "loading" /\ page' = "connecting"
        /\ Ids(rows') \subseteq Ids(stored)
        /\ UNCHANGED <<pipe, since, ticks, feed>>
    BY <1>4, RowsAreStored DEF HistoryLoaded
  <2>2. feed = <<>> /\ pipe = <<>> /\ Stream = <<>> /\ Stream' = <<>>
    BY <2>1 DEF PageInv, Wired, Stream
  <2>3. Wired' /\ GaplessWhileLive' /\ InStream'
    BY <1>1, <2>1, <2>2 DEF PageInv, Wired, GaplessWhileLive, InStream
  <2>4. RowsPast' /\ RowsBelow'
    BY <1>1, <2>1, <2>2, EmptyFacts DEF Beneath, RowsPast, RowsBelow, Before
  <2> QED
    BY <2>3, <2>4 DEF PageInv
<1>5. CASE HistoryUnreachable \/ Opens \/ Retry
  <2>1. /\ page # "live" /\ page' # "live" /\ page' # "loading"
        /\ UNCHANGED <<rows, pipe, since, ticks, feed>>
    BY <1>5 DEF HistoryUnreachable, Opens, Retry
  <2>2. UNCHANGED Stream
    BY <2>1 DEF Stream
  <2> QED
    BY <1>1, <2>1, <2>2 DEF PageInv, Wired, GaplessWhileLive, InStream,
                            RowsPast, RowsBelow
<1>6. CASE Subscribes
  <2>1. /\ page = "open" /\ page' = "live" /\ since' = Len(published)
        /\ ticks' = <<>> /\ UNCHANGED <<rows, pipe, feed>>
    BY <1>6 DEF Subscribes
  <2>2. pipe = <<>> /\ UNCHANGED Stream
    BY <2>1 DEF PageInv, Wired, Stream
  <2>3. GaplessWhileLive'
    <3>1. ticks' \o pipe' = <<>>
      BY <2>1, <2>2
    <3>2. SubSeq(published, Len(published) + 1, Len(published)) = <<>>
      BY <1>2, SubSeqEmpty
    <3> QED
      BY <1>1, <2>1, <3>1, <3>2 DEF GaplessWhileLive
  <2>4. Wired'
    BY <1>1, <1>2, <2>1, <2>2 DEF PageInv, Wired
  <2> QED
    BY <1>1, <2>1, <2>2, <2>3, <2>4 DEF PageInv, InStream, RowsPast, RowsBelow
<1>7. CASE Tick
  <2>1. /\ page = "live" /\ pipe # <<>> /\ pipe' = Tail(pipe)
        /\ ticks' = Append(ticks, Head(pipe))
        /\ feed' = Append(feed, Head(pipe))
        /\ UNCHANGED <<page, rows, since>>
    BY <1>7 DEF Tick
  <2>2. /\ ticks' \in Seq(Trade) /\ feed' \in Seq(Trade) /\ pipe' \in Seq(Trade)
        /\ ticks' \o pipe' = ticks \o pipe
        /\ Stream' = Stream
    BY <1>2, <2>1, HeadMoves DEF Stream
  <2> QED
    BY <1>1, <2>1, <2>2 DEF PageInv, Wired, GaplessWhileLive, InStream,
                            RowsPast, RowsBelow
<1>8. CASE Closes \/ SubscriptionLost
  <2>1. /\ page' # "live" /\ page' # "loading" /\ pipe' = <<>>
        /\ ticks' \in {ticks, <<>>} /\ UNCHANGED <<rows, since, feed>>
    BY <1>8 DEF Closes, SubscriptionLost
  <2>2. Stream' = feed
    BY <1>2, <2>1, ConcatEmptySeq DEF Stream
  <2>3. Ids(Stream) = Ids(feed) \cup Ids(pipe)
    BY <1>3, IdsConcat DEF Stream
  <2>4. InStream' /\ RowsBelow'
    BY <1>1, <1>3, <2>1, <2>2, <2>3, PrefixOfConcat
       DEF PageInv, InStream, RowsBelow, Stream
  <2>5. ticks' \in Seq(Trade) /\ pipe' \in Seq(Trade)
    BY <1>2, <2>1, EmptySeq
  <2>6. Wired'
    BY <1>1, <1>2, <2>1, <2>5 DEF PageInv, Wired
  <2>7. GaplessWhileLive' /\ RowsPast'
    BY <1>1, <2>1 DEF PageInv, GaplessWhileLive, RowsPast
  <2> QED
    BY <2>4, <2>6, <2>7 DEF PageInv
<1> QED
  BY <1>4, <1>5, <1>6, <1>7, <1>8

(* The invariant, in every reachable state.                                *)
LEMMA PageInvHolds == Spec => []PageInv
<1>1. Init => PageInv
  <2> SUFFICES ASSUME Init PROVE PageInv
    OBVIOUS
  <2>1. /\ page = "loading" /\ rows = <<>> /\ pipe = <<>> /\ ticks = <<>>
        /\ feed = <<>> /\ since = 0 /\ published = <<>> /\ publishing = None
        /\ Stream = <<>>
    BY DEF Init, Core!Init, Stream
  <2> QED
    BY <2>1, EmptyFacts DEF PageInv, Wired, GaplessWhileLive, InStream,
                            RowsPast, RowsBelow, Before
<1>2. PageInv /\ Beneath /\ Beneath' /\ [Next]_vars => PageInv'
  <2> SUFFICES ASSUME PageInv, Beneath, Beneath', [Next]_vars PROVE PageInv'
    OBVIOUS
  <2>1. CASE Publishes
    BY <2>1, PublishKeeps
  <2>2. CASE TradesArrive \/ Ingests \/ IngestionRestarts
    BY <2>2, IngestKeeps
  <2>3. CASE \/ HistoryLoaded \/ HistoryUnreachable \/ Opens \/ Subscribes
             \/ Tick \/ Closes \/ SubscriptionLost \/ Retry
    <3>1. UNCHANGED coreVars
      BY <2>3 DEF HistoryLoaded, HistoryUnreachable, Opens, Subscribes, Tick,
                  Closes, SubscriptionLost, Retry
    <3> QED
      BY <2>3, <3>1, PageKeeps
  <2>4. CASE UNCHANGED vars
    BY <2>4 DEF vars, PageInv, Wired, GaplessWhileLive, InStream, RowsPast,
                RowsBelow, Stream
  <2> QED
    BY <2>1, <2>2, <2>3, <2>4 DEF Next
<1> QED
  BY <1>1, <1>2, BeneathHolds, PTL DEF Spec

-----------------------------------------------------------------------------
\* The lists of the page.
ListsTyped ==
    /\ page \in {"loading", "connecting", "open", "live", "waiting"}
    /\ rows \in Seq(Trade) /\ Len(rows) <= MaxPoints
    /\ shown \in Seq(Trade) /\ Len(shown) <= MaxShown

(* An answer to the history request has at most as many rows as asked for. *)
LEMMA RowsTyped ==
    ASSUME stored \in Seq(Trade), NEW s \in RecentTrades(MaxPoints)
    PROVE  s \in Seq(Trade) /\ Len(s) <= MaxPoints
<1>1. PICK S \in Newest(Ids(stored), MaxPoints) : s \in Arrangements(S)
  BY DEF RecentTrades
<1>2. Ids(stored) \subseteq Trade
  BY LenProperties, ElementOfSeq DEF Ids
<1>3. IsFiniteSet(Ids(stored))
  BY <1>2, FS_Interval, FS_Subset DEF Trade
<1>4. S \subseteq Trade /\ Cardinality(Ids(stored)) \in Nat
  BY <1>1, <1>2, <1>3, FS_CardinalityType DEF Newest
<1>5. Cardinality(S) \in Nat /\ Cardinality(S) <= MaxPoints
  BY <1>1, <1>4 DEF Newest
<1>6. s \in [1..Cardinality(S) -> Trade]
  BY <1>1, <1>4 DEF Arrangements
<1> QED
  BY <1>5, <1>6, SeqDef

(* The list keeps its last entries.                                        *)
LEMMA ListKept ==
    ASSUME NEW s \in Seq(Trade), shown \in Seq(Trade), Show(s)
    PROVE  shown' \in Seq(Trade) /\ Len(shown') <= MaxShown
<1> DEFINE all == shown \o s
<1>1. all \in Seq(Trade) /\ Len(all) \in Nat /\ \A i \in 1..Len(all) : all[i] \in Trade
  BY ConcatProperties, LenProperties, ElementOfSeq
<1>2. shown' = IF Len(all) <= MaxShown THEN all
               ELSE SubSeq(all, Len(all) - MaxShown + 1, Len(all))
  BY DEF Show
<1> HIDE DEF all
<1>3. CASE Len(all) <= MaxShown
  BY <1>1, <1>2, <1>3
<1>4. CASE Len(all) > MaxShown
  <2>1. \A i \in Len(all) - MaxShown + 1..Len(all) : all[i] \in Trade
    BY <1>1, <1>4
  <2> QED
    BY <1>1, <1>2, <1>4, <2>1, SubSeqProperties
<1> QED
  BY <1>1, <1>3, <1>4

(* The page's state keeps its types, and its lists their limits            *)
(* (timescale.py:26-39, index.html:764-806).                               *)
THEOREM TypeCorrect == Spec => []TypeOK
<1>1. Init => ListsTyped
  BY EmptySeq DEF Init, ListsTyped
<1>2. ListsTyped /\ PageInv /\ Beneath /\ [Next]_vars => ListsTyped'
  <2> SUFFICES ASSUME ListsTyped, PageInv, Beneath, [Next]_vars PROVE ListsTyped'
    OBVIOUS
  <2>1. CASE HistoryLoaded
    <3>1. PICK s \in RecentTrades(MaxPoints) : rows' = s /\ Show(s)
      BY <2>1 DEF HistoryLoaded
    <3>2. s \in Seq(Trade) /\ Len(s) <= MaxPoints
      BY RowsTyped DEF Beneath
    <3>3. shown' \in Seq(Trade) /\ Len(shown') <= MaxShown
      BY <3>1, <3>2, ListKept DEF ListsTyped
    <3> QED
      BY <2>1, <3>1, <3>2, <3>3 DEF HistoryLoaded, ListsTyped
  <2>2. CASE Tick
    <3>1. <<Head(pipe)>> \in Seq(Trade)
      BY <2>2, HeadTailProperties DEF Tick, PageInv, Wired
    <3>2. shown' \in Seq(Trade) /\ Len(shown') <= MaxShown
      BY <2>2, <3>1, ListKept DEF Tick, ListsTyped
    <3> QED
      BY <2>2, <3>2 DEF Tick, ListsTyped
  <2>3. CASE \/ Publishes \/ TradesArrive \/ Ingests \/ IngestionRestarts
             \/ UNCHANGED vars
    BY <2>3 DEF Publishes, TradesArrive, Ingests, IngestionRestarts, pageVars,
                vars, ListsTyped
  <2>4. CASE \/ HistoryUnreachable \/ Opens \/ Subscribes \/ Closes
             \/ SubscriptionLost \/ Retry
    BY <2>4 DEF HistoryUnreachable, Opens, Subscribes, Closes,
                SubscriptionLost, Retry, ListsTyped
  <2> QED
    BY <2>1, <2>2, <2>3, <2>4 DEF Next
<1>3. ListsTyped /\ PageInv => TypeOK
  BY DEF ListsTyped, PageInv, Wired, Trade, TypeOK
<1> QED
  BY <1>1, <1>2, <1>3, PageInvHolds, BeneathHolds, PTL DEF Spec

(* While a subscription lasts the page is shown the feed without a gap     *)
(* (api.py:36-41, redis_bus.py:26-33, index.html:780-799).                 *)
THEOREM SubscriptionIsGapless == Spec => []GaplessWhileLive
<1>1. PageInv => GaplessWhileLive
  BY DEF PageInv
<1> QED
  BY <1>1, PageInvHolds, PTL

(* The page never goes back in time: what it shows live is in exchange     *)
(* order over all its connections and not older than the history it loaded *)
(* (ingestion.py:50-68, index.html:801-806).                               *)
THEOREM PageNeverGoesBack == Spec => []NeverGoesBack
<1>1. PageInv => NeverGoesBack
  <2> SUFFICES ASSUME PageInv PROVE NeverGoesBack
    OBVIOUS
  <2>1. feed \in Seq(Nat) /\ pipe \in Seq(Nat)
    BY SeqMonotonic, Trade \subseteq Nat DEF PageInv, Wired, Trade
  <2>2. Ids(feed) \subseteq Ids(Stream)
    BY <2>1, IdsConcat DEF Stream
  <2>3. NonDecreasing(feed)
    BY <2>1, PrefixOfConcat DEF PageInv, InStream, Stream
  <2> QED
    BY <2>2, <2>3 DEF PageInv, RowsBelow, NeverGoesBack
<1> QED
  BY <1>1, PageInvHolds, PTL

-----------------------------------------------------------------------------
\* The list holds trades of the loaded history and of the feed, in order.
InTime ==
    /\ Sorted(shown)
    /\ Ids(shown) \subseteq Ids(rows) \cup Ids(feed)
    /\ page = "loading" => shown = <<>>

(* Cutting the front of the list off leaves it in order.                   *)
LEMMA CutKeepsOrder ==
    ASSUME NEW s \in Seq(Trade), shown \in Seq(Trade), Show(s), Sorted(shown \o s)
    PROVE  Sorted(shown') /\ Ids(shown') \subseteq Ids(shown) \cup Ids(s)
<1> DEFINE all == shown \o s
<1>1. all \in Seq(Trade) /\ Len(all) \in Nat /\ \A i \in 1..Len(all) : all[i] \in Trade
  BY ConcatProperties, LenProperties, ElementOfSeq
<1>2. shown' = IF Len(all) <= MaxShown THEN all
               ELSE SubSeq(all, Len(all) - MaxShown + 1, Len(all))
  BY DEF Show
<1>3. Ids(all) = Ids(shown) \cup Ids(s)
  BY IdsConcat, SeqMonotonic, Trade \subseteq Nat DEF Trade
<1>4. Sorted(all)
  OBVIOUS
<1> HIDE DEF all
<1>5. CASE Len(all) <= MaxShown
  BY <1>2, <1>3, <1>4, <1>5
<1>6. CASE Len(all) > MaxShown
  <2> DEFINE k == Len(all) - MaxShown
  <2>1. k \in Nat /\ k <= Len(all) /\ Len(all) - k = MaxShown
    BY <1>1, <1>6
  <2>2. \A i \in k + 1..Len(all) : all[i] \in Trade
    BY <1>1, <2>1
  <2>3. shown' = SubSeq(all, k + 1, Len(all))
    BY <1>1, <1>2, <1>6
  <2>7. /\ Len(SubSeq(all, k + 1, Len(all))) = Len(all) - k
        /\ \A i \in 1..Len(all) - k :
              SubSeq(all, k + 1, Len(all))[i] = all[k + i]
    <3> HIDE DEF k
    <3> QED
      BY <1>1, <2>1, <2>2, SubSeqProperties
  <2>8. Len(shown') = MaxShown /\ \A i \in 1..MaxShown : shown'[i] = all[k + i]
    BY <2>1, <2>3, <2>7
  <2>4. \A i \in 1..MaxShown : k + i \in 1..Len(all)
    BY <1>1, <2>1
  <2> HIDE DEF k
  <2>5. Sorted(shown')
    <3> SUFFICES ASSUME NEW i \in 1..MaxShown, NEW j \in 1..MaxShown, i < j
                 PROVE  Second[shown'[i]] <= Second[shown'[j]]
      BY <2>8 DEF Sorted
    <3>1. k + i \in 1..Len(all) /\ k + j \in 1..Len(all) /\ k + i < k + j
      BY <2>1, <2>4
    <3> QED
      BY <1>4, <2>8, <3>1 DEF Sorted
  <2>6. Ids(shown') \subseteq Ids(all)
    BY <2>8, <2>4 DEF Ids
  <2> QED
    BY <1>3, <2>5, <2>6
<1> QED
  BY <1>1, <1>5, <1>6

(* A trade not older than those of a list in order may follow it.          *)
LEMMA NewestLast ==
    ASSUME NEW s \in Seq(Trade), NEW x \in Trade, Sorted(s),
           \A m \in Ids(s) : m <= x
    PROVE  Sorted(s \o <<x>>)
<1>1. /\ Len(s) \in Nat /\ Len(s \o <<x>>) = Len(s) + 1
      /\ \A i \in 1..Len(s) : (s \o <<x>>)[i] = s[i] /\ s[i] \in Trade
      /\ (s \o <<x>>)[Len(s) + 1] = x
  BY LenProperties, ElementOfSeq, ConcatProperties
<1>2. \A m \in Trade : m <= x => Second[m] <= Second[x]
  BY DEF Trade, DashboardAssumption
<1>3. \A i \in 1..Len(s) : Second[s[i]] <= Second[x]
  BY <1>1, <1>2 DEF Ids
<1> SUFFICES ASSUME NEW i \in 1..Len(s) + 1, NEW j \in 1..Len(s) + 1, i < j
             PROVE  Second[(s \o <<x>>)[i]] <= Second[(s \o <<x>>)[j]]
  BY <1>1 DEF Sorted
<1>4. i \in 1..Len(s) /\ (j \in 1..Len(s) \/ j = Len(s) + 1)
  BY <1>1
<1> QED
  BY <1>1, <1>3, <1>4 DEF Sorted

(* What is appended to the feed is its newest trade.                       *)
LEMMA LastIsNewest ==
    ASSUME NEW s \in Seq(Trade), NEW x \in Trade, NonDecreasing(Append(s, x))
    PROVE  \A m \in Ids(s) : m <= x
<1>1. /\ Len(s) \in Nat /\ Len(Append(s, x)) = Len(s) + 1
      /\ \A i \in 1..Len(s) : Append(s, x)[i] = s[i]
      /\ Append(s, x)[Len(s) + 1] = x
  BY LenProperties, AppendProperties
<1> QED
  BY <1>1 DEF NonDecreasing, Ids

(* The history a page starts from is in order, the live feed goes on where *)
(* it ends, and reconnections do not go back behind what is shown: the     *)
(* list stays in order (timescale.py:26-39, index.html:736-757, 764-806).  *)
THEOREM ListStaysInOrder == Spec => []ListInOrder
<1>1. Init => InTime
  BY EmptyFacts DEF Init, InTime, Sorted
<1>2. /\ InTime /\ TypeOK /\ TypeOK' /\ PageInv /\ PageInv'
      /\ NeverGoesBack' /\ Beneath /\ [Next]_vars
      => InTime'
  <2> SUFFICES ASSUME InTime, TypeOK, TypeOK', PageInv, PageInv', NeverGoesBack',
                      Beneath, [Next]_vars
               PROVE  InTime'
    OBVIOUS
  <2>1. shown \in Seq(Trade) /\ feed \in Seq(Trade) /\ pipe \in Seq(Trade)
    BY DEF TypeOK, Trade
  <2>2. CASE HistoryLoaded
    <3>1. PICK s \in RecentTrades(MaxPoints) : rows' = s /\ Show(s)
      BY <2>2 DEF HistoryLoaded
    <3>2. s \in Seq(Trade) /\ Sorted(s)
      BY RowsTyped DEF Beneath, RecentTrades, Arrangements
    <3>3. shown = <<>> /\ shown \o s = s
      BY <2>2, <3>2, ConcatEmptySeq DEF HistoryLoaded, InTime
    <3>4. Sorted(shown') /\ Ids(shown') \subseteq Ids(shown) \cup Ids(s)
      BY <2>1, <3>1, <3>2, <3>3, CutKeepsOrder
    <3> QED
      BY <2>2, <3>1, <3>3, <3>4, EmptyFacts DEF HistoryLoaded, InTime
  <2>3. CASE Tick
    <3>1. /\ page = "live" /\ page' = page /\ pipe # <<>>
          /\ feed' = Append(feed, Head(pipe)) /\ rows' = rows
          /\ Show(<<Head(pipe)>>)
      BY <2>3 DEF Tick
    <3>2. Head(pipe) \in Trade /\ <<Head(pipe)>> \in Seq(Trade)
      BY <2>1, <3>1, HeadTailProperties
    <3>3. feed' = feed \o <<Head(pipe)>>
      BY <2>1, <3>1, <3>2, AppendIsConcat
    <3>4. Ids(<<Head(pipe)>>) = {Head(pipe)}
      BY DEF Ids
    <3>5. Ids(feed') = Ids(feed) \cup {Head(pipe)}
      <4>1. feed \in Seq(Nat) /\ <<Head(pipe)>> \in Seq(Nat)
        BY <2>1, <3>2, SeqMonotonic, Trade \subseteq Nat DEF Trade
      <4> QED
        BY <3>3, <3>4, <4>1, IdsConcat
    <3>6. \A m \in Ids(shown) : m <= Head(pipe)
      <4>1. \A m \in Ids(feed) : m <= Head(pipe)
        BY <2>1, <3>1, <3>2, LastIsNewest DEF NeverGoesBack
      <4>2. \A m \in Ids(rows) : m <= Head(pipe)
        BY <3>1, <3>5 DEF NeverGoesBack
      <4> QED
        BY <4>1, <4>2 DEF InTime
    <3>7. Sorted(shown \o <<Head(pipe)>>)
      BY <2>1, <3>2, <3>6, NewestLast DEF InTime
    <3>8. Sorted(shown') /\ Ids(shown') \subseteq Ids(shown) \cup {Head(pipe)}
      BY <2>1, <3>1, <3>2, <3>4, <3>7, CutKeepsOrder
    <3> QED
      BY <3>1, <3>5, <3>8 DEF InTime
  <2>4. CASE \/ Publishes \/ TradesArrive \/ Ingests \/ IngestionRestarts
             \/ UNCHANGED vars
    BY <2>4 DEF Publishes, TradesArrive, Ingests, IngestionRestarts, pageVars,
                vars, InTime, Sorted
  <2>5. CASE \/ HistoryUnreachable \/ Opens \/ Subscribes \/ Closes
             \/ SubscriptionLost \/ Retry
    BY <2>5 DEF HistoryUnreachable, Opens, Subscribes, Closes,
                SubscriptionLost, Retry, InTime, Sorted
  <2> QED
    BY <2>2, <2>3, <2>4, <2>5 DEF Next
<1>3. InTime => ListInOrder
  BY DEF InTime, ListInOrder
<1> QED
  BY <1>1, <1>2, <1>3, TypeCorrect, PageInvHolds, PageNeverGoesBack,
     BeneathHolds, PTL DEF Spec
=============================================================================

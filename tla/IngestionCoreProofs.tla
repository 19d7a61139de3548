------------------------- MODULE IngestionCoreProofs -------------------------
(***************************************************************************)
(* Proofs about IngestionCore, for any number of trades, any bursts, any   *)
(* number of publish attempts, with or without restarts.                   *)
(***************************************************************************)
EXTENDS IngestionCore, TradeSeqProofs

USE CoreAssumption

(* A sequence of trades is a sequence of numbers and holds trades.         *)
LEMMA TradeSequence ==
    ASSUME NEW s \in Seq(Trade)
    PROVE  s \in Seq(Nat) /\ Ids(s) \subseteq Trade
<1>1. Trade \subseteq Nat
  BY DEF Trade
<1>2. Len(s) \in Nat /\ \A i \in 1..Len(s) : s[i] \in Trade
  BY LenProperties, ElementOfSeq
<1>3. s \in Seq(Nat)
  <2>1. s \in [1..Len(s) -> Nat]
    BY <1>1, <1>2, LenProperties
  <2> QED
    BY <1>2, <2>1, SeqDef
<1> QED
  BY <1>2, <1>3 DEF Ids

(* What arrives in one message is an increasing sequence of trades.        *)
LEMMA BurstFacts ==
    ASSUME NEW s \in Bursts
    PROVE  s \in Seq(Trade) /\ Increasing(s)
<1>1. PICK k \in 1..MaxBurst : s \in [1..k -> Trade]
  BY DEF Bursts
<1> QED
  BY <1>1, SeqDef DEF Bursts

(* What the current write has not committed is a sequence of trades.       *)
LEMMA UncommittedType ==
    ASSUME TypeOK
    PROVE  Uncommitted \in Seq(Trade)
  BY DEF TypeOK, Uncommitted

-----------------------------------------------------------------------------
(* Types (ingestion.py:34-68).                                             *)
THEOREM TypeCorrect == Spec => []TypeOK
<1>1. Init => TypeOK
  BY DEF Init, TypeOK
<1>2. TypeOK /\ [Next]_vars => TypeOK'
  <2> SUFFICES ASSUME TypeOK, [Next]_vars PROVE TypeOK'
    OBVIOUS
  <2>1. ASSUME NEW s \in Bursts, Put(s) PROVE TypeOK'
    <3>1. s \in Seq(Trade) /\ Ids(s) \subseteq Trade
      BY BurstFacts, TradeSequence
    <3>2. queue' \in Seq(Trade)
      BY <2>1, <3>1, ConcatProperties DEF Put, TypeOK
    <3> QED
      BY <2>1, <3>1, <3>2 DEF Put, TypeOK
  <2>2. CASE Take
    <3>1. Head(queue) \in Trade /\ Tail(queue) \in Seq(Trade)
      BY <2>2, HeadTailProperties DEF Take, TypeOK
    <3>2. buffer' \in Seq(Trade)
      BY <2>2, <3>1, AppendProperties DEF Take, TypeOK
    <3> QED
      BY <2>2, <3>1, <3>2 DEF Take, TypeOK
  <2>3. CASE PublishDelivered
    <3>1. publishing \in Trade
      BY <2>3 DEF PublishDelivered, TypeOK
    <3>2. published' \in Seq(Trade)
      BY <2>3, <3>1, AppendProperties DEF PublishDelivered, TypeOK
    <3> QED
      BY <2>3, <3>2 DEF PublishDelivered, TypeOK, writerVars
  <2>4. CASE PublishEnds
    BY <2>4 DEF PublishEnds, TypeOK, writerVars
  <2>5. CASE Flush
    BY <2>5 DEF Flush, TypeOK, consumerVars
  <2>6. CASE Commit
    <3>1. stored' \in Seq(Trade)
      BY <2>6, ConcatProperties DEF Commit, TypeOK
    <3> QED
      BY <2>6, <3>1 DEF Commit, TypeOK, consumerVars
  <2>7. CASE WriteReturns
    BY <2>7 DEF WriteReturns, TypeOK, consumerVars
  <2>8. CASE WriteFails
    <3>1. Ids(batch) \subseteq Trade
      BY TradeSequence DEF TypeOK
    <3> QED
      BY <2>8, <3>1 DEF WriteFails, TypeOK, consumerVars
  <2>9. CASE Restart
    <3>1. InMemory \subseteq Trade
      BY UncommittedType, TradeSequence DEF InMemory, TypeOK
    <3> QED
      BY <2>9, <3>1 DEF Restart, TypeOK
  <2>10. CASE UNCHANGED vars
    BY <2>10 DEF vars, TypeOK
  <2> QED
    BY <2>1, <2>2, <2>3, <2>4, <2>5, <2>6, <2>7, <2>8, <2>9, <2>10
       DEF Next, CoreStep
<1> QED
  BY <1>1, <1>2, PTL DEF Spec

-----------------------------------------------------------------------------
(* The four stages of the pipeline, as sequences of numbers.               *)
LEMMA Stages ==
    ASSUME TypeOK
    PROVE  /\ queue \in Seq(Nat) /\ buffer \in Seq(Nat) /\ batch \in Seq(Nat)
           /\ Uncommitted \in Seq(Nat) /\ stored \in Seq(Nat)
           /\ published \in Seq(Nat)
           /\ accepted \subseteq Nat
           /\ Ids(Uncommitted) \subseteq Ids(batch)
           /\ publishing # None => publishing \in Nat
<1>1. Ids(Uncommitted) \subseteq Ids(batch)
  BY EmptyFacts DEF Uncommitted
<1> QED
  BY <1>1, UncommittedType, TradeSequence DEF TypeOK, Trade

(* What one step does to the four stages of the pipeline, in terms of the  *)
(* trades they hold.                                                       *)
LEMMA TakeMoves ==
    ASSUME TypeOK, Take
    PROVE  /\ Ids(queue) = {Head(queue)} \cup Ids(queue')
           /\ Ids(buffer') = Ids(buffer) \cup {Head(queue)}
           /\ Head(queue) \in Nat /\ Head(queue) \in Ids(queue)
           /\ Uncommitted' = Uncommitted
           /\ Increasing(queue) => /\ Increasing(queue')
                                   /\ Before({Head(queue)}, Ids(queue'))
<1>1. queue \in Seq(Nat) /\ buffer \in Seq(Nat) /\ queue # <<>>
  BY Stages DEF Take
<1>2. Head(queue) \in Nat
  BY <1>1, HeadTailProperties
<1> QED
  BY <1>1, <1>2, HeadAndTail, IdsAppend DEF Take, Uncommitted

(* The order of the pipeline is inductive: every step moves whole stages   *)
(* or single trades to the end of the next stage, or drops a stage         *)
(* (ingestion.py:50-68).                                                   *)
LEMMA PipelineStep ==
    ASSUME TypeOK, PipelineOrder, [Next]_vars
    PROVE  PipelineOrder'
<1> USE Stages DEF PipelineOrder, InMemory, Before
<1>1. ASSUME NEW s \in Bursts, Put(s) PROVE PipelineOrder'
  <2>1. s \in Seq(Nat) /\ Increasing(s)
    BY BurstFacts, TradeSequence
  <2>2. Ids(queue') = Ids(queue) \cup Ids(s) /\ accepted' = accepted \cup Ids(s)
    BY <1>1, <2>1, IdsConcat DEF Put
  <2>3. Before(accepted, Ids(s))
    BY <1>1 DEF Put
  <2>4. Increasing(queue')
    BY <1>1, <2>1, <2>3, IncreasingConcat DEF Put
  <2>5. UNCHANGED <<stored, Uncommitted, buffer>>
    BY <1>1 DEF Put, Uncommitted
  <2> QED
    BY <2>2, <2>3, <2>4, <2>5
<1>2. CASE Take
  <2>1. Increasing(buffer')
    BY <1>2, TakeMoves, IncreasingAppend DEF Take
  <2>2. UNCHANGED <<stored, accepted>>
    BY <1>2 DEF Take
  <2> QED
    BY <1>2, <2>1, <2>2, TakeMoves
<1>3. CASE PublishDelivered \/ PublishEnds
  BY <1>3 DEF PublishDelivered, PublishEnds, writerVars, Uncommitted
<1>4. CASE Flush
  <2>1. /\ Uncommitted' = buffer /\ buffer' = <<>>
        /\ UNCHANGED <<stored, queue, accepted>>
    BY <1>4 DEF Flush, Uncommitted
  <2> QED
    BY <2>1, EmptyFacts
<1>5. CASE Commit
  <2>1. /\ Uncommitted = batch /\ Uncommitted' = <<>>
        /\ stored' = stored \o batch
        /\ UNCHANGED <<buffer, queue, accepted>>
    BY <1>5 DEF Commit, Uncommitted
  <2>2. Increasing(stored') /\ Ids(stored') = Ids(stored) \cup Ids(batch)
    BY <2>1, IdsConcat, IncreasingConcat
  <2> QED
    BY <2>1, <2>2, EmptyFacts
<1>6. CASE WriteReturns \/ WriteFails
  <2>1. Uncommitted' = <<>> /\ UNCHANGED <<stored, buffer, queue, accepted>>
    BY <1>6 DEF WriteReturns, WriteFails, Uncommitted
  <2> QED
    BY <2>1, EmptyFacts
<1>7. CASE Restart
  <2>1. /\ Uncommitted' = <<>> /\ buffer' = <<>> /\ queue' = <<>>
        /\ UNCHANGED <<stored, accepted>>
    BY <1>7 DEF Restart, Uncommitted
  <2> QED
    BY <2>1, EmptyFacts
<1>8. CASE UNCHANGED vars
  BY <1>8 DEF vars, Uncommitted
<1> QED
  BY <1>1, <1>2, <1>3, <1>4, <1>5, <1>6, <1>7, <1>8 DEF Next, CoreStep

(* In every reachable state each stage of the pipeline is in exchange      *)
(* order and newer than the stages and the table after it                  *)
(* (ingestion.py:50-68).                                                   *)
THEOREM PipelineOrdered == Spec => []PipelineOrder
<1>1. Init => PipelineOrder
  BY EmptyFacts DEF Init, PipelineOrder, InMemory, Uncommitted, Before
<1> QED
  BY <1>1, PipelineStep, TypeCorrect, PTL DEF Spec

(* IngestionCore implements TradeLog: whatever the database, Redis and the *)
(* process do, the table only grows at its end, in exchange order and      *)
(* without a repeated trade (ingestion.py:50-68, timescale.py:15-24).      *)
THEOREM HistoryRefinesTradeLog == Spec => HistoryIsALog
<1>1. Init => History!Init
  BY DEF Init, History!Init
<1>2. TypeOK /\ PipelineOrder /\ [Next]_vars => [History!Grow]_stored
  <2> SUFFICES ASSUME TypeOK, PipelineOrder, [Next]_vars
               PROVE  [History!Grow]_stored
    OBVIOUS
  <2>1. CASE Commit
    <3>1. Uncommitted = batch /\ stored' = stored \o batch
      BY <2>1 DEF Commit, Uncommitted
    <3>2. Before(Ids(stored), Ids(batch)) /\ Increasing(stored) /\ Increasing(batch)
      BY <3>1 DEF PipelineOrder, InMemory, Before
    <3>3. Increasing(stored') /\ Extends(stored', stored)
      BY <3>1, <3>2, Stages, IncreasingConcat
    <3>4. History!Increasing(stored') /\ History!Extends(stored', stored)
      BY <3>3 DEF Increasing, Extends, History!Increasing, History!Extends
    <3> QED
      BY <3>4 DEF History!Grow
  <2>2. CASE ~Commit
    <3>1. UNCHANGED stored
      BY <2>2 DEF Next, CoreStep, vars, Put, Take, PublishDelivered,
                  PublishEnds, Flush, WriteReturns, WriteFails, Restart,
                  writerVars
    <3> QED
      BY <3>1
  <2> QED
    BY <2>1, <2>2
<1> QED
  BY <1>1, <1>2, TypeCorrect, PipelineOrdered, PTL
     DEF Spec, HistoryIsALog, History!Spec

-----------------------------------------------------------------------------
(* One step keeps the order of the feed: a trade is published before the   *)
(* next one is taken from the queue.                                       *)
LEMMA FeedStep ==
    ASSUME TypeOK, PipelineOrder, FeedOrder, [Next]_vars
    PROVE  FeedOrder'
<1> USE Stages DEF FeedOrder, FeedInOrder, Before
<1>1. ASSUME NEW s \in Bursts, Put(s) PROVE FeedOrder'
  <2>1. s \in Seq(Nat)
    BY BurstFacts, TradeSequence
  <2>2. /\ Ids(queue') = Ids(queue) \cup Ids(s)
        /\ accepted' = accepted \cup Ids(s)
        /\ UNCHANGED <<publishing, published>>
    BY <1>1, <2>1, IdsConcat DEF Put
  <2>3. Before(accepted, Ids(s))
    BY <1>1 DEF Put
  <2> QED
    BY <2>2, <2>3
<1>2. CASE Take
  <2>1. publishing' = Head(queue) /\ UNCHANGED <<published, accepted>>
    BY <1>2 DEF Take
  <2>2. Increasing(queue)
    BY DEF PipelineOrder
  <2>3. \A m \in Ids(published) : m \in Nat
    BY Stages
  <2> QED
    BY <1>2, <2>1, <2>2, <2>3, TakeMoves
<1>3. CASE PublishDelivered
  <2>1. publishing # None /\ published' = Append(published, publishing)
    BY <1>3 DEF PublishDelivered
  <2>2. /\ Ids(published') = Ids(published) \cup {publishing}
        /\ NonDecreasing(published')
    BY <2>1, IdsAppend, NonDecreasingAppend
  <2>3. UNCHANGED <<queue, publishing, accepted>>
    BY <1>3 DEF PublishDelivered
  <2> QED
    BY <2>1, <2>2, <2>3
<1>4. CASE PublishEnds
  BY <1>4 DEF PublishEnds
<1>5. CASE Flush \/ Commit \/ WriteReturns \/ WriteFails
  <2>1. UNCHANGED <<queue, publishing, published, accepted>>
    BY <1>5 DEF Flush, Commit, WriteReturns, WriteFails, consumerVars
  <2> QED
    BY <2>1
<1>6. CASE Restart
  <2>1. /\ queue' = <<>> /\ publishing' = None
        /\ UNCHANGED <<published, accepted>>
    BY <1>6 DEF Restart
  <2> QED
    BY <2>1, EmptyFacts
<1>7. CASE UNCHANGED vars
  BY <1>7 DEF vars
<1> QED
  BY <1>1, <1>2, <1>3, <1>4, <1>5, <1>6, <1>7 DEF Next, CoreStep

(* FeedOrder, which relates the feed to the trade being published and to   *)
(* the queue, holds in every reachable state.                              *)
LEMMA FeedOrderHolds == Spec => []FeedOrder
<1>1. Init => FeedOrder
  BY EmptyFacts DEF Init, FeedOrder, FeedInOrder, Before
<1> QED
  BY <1>1, FeedStep, TypeCorrect, PipelineOrdered, PTL DEF Spec

(* Subscribers of the channel see the trades in exchange order, each       *)
(* possibly repeated (ingestion.py:50-57, redis_bus.py:22-24).             *)
THEOREM FeedOrdered == Spec => []FeedInOrder
<1>1. FeedOrder => FeedInOrder
  BY DEF FeedOrder
<1> QED
  BY <1>1, FeedOrderHolds, PTL

-----------------------------------------------------------------------------
\* A trade may be in the table while its publish is still awaited, but never
\* a newer one.
TakenOrder ==
    publishing # None =>
        \A m \in Ids(stored) \cup Ids(Uncommitted) \cup Ids(buffer) : m <= publishing

(* What has been taken from the queue is not newer than the trade being    *)
(* published: the table does not overtake the feed (ingestion.py:50-68).   *)
LEMMA TakenOrderHolds == Spec => []TakenOrder
<1>1. Init => TakenOrder
  BY DEF Init, TakenOrder
<1>2. TypeOK /\ PipelineOrder /\ TakenOrder /\ [Next]_vars => TakenOrder'
  <2> SUFFICES ASSUME TypeOK, PipelineOrder, TakenOrder, [Next]_vars
               PROVE  TakenOrder'
    OBVIOUS
  <2> USE DEF TakenOrder
  <2>1. CASE Take
    <3>1. /\ publishing' = Head(queue) /\ Head(queue) \in Ids(queue)
          /\ Ids(buffer') = Ids(buffer) \cup {Head(queue)}
          /\ UNCHANGED <<stored, batch, writer>>
      BY <2>1, TakeMoves DEF Take
    <3>2. /\ Ids(stored) \cup Ids(Uncommitted) \cup Ids(buffer) \subseteq Nat
          /\ Ids(queue) \subseteq Nat
          /\ Before(Ids(stored), Ids(queue)) /\ Before(Ids(buffer), Ids(queue))
          /\ Before(Ids(Uncommitted), Ids(queue))
      BY Stages DEF PipelineOrder, InMemory, Before
    <3> QED
      BY <3>1, <3>2 DEF Uncommitted, Before
  <2>2. CASE Commit
    <3>1. /\ Ids(stored') = Ids(stored) \cup Ids(Uncommitted)
          /\ Uncommitted' = <<>> /\ UNCHANGED <<publishing, buffer>>
      BY <2>2, Stages, IdsConcat DEF Commit, Uncommitted, consumerVars
    <3> QED
      BY <3>1, EmptyFacts
  <2>3. CASE Flush
    <3>1. /\ Uncommitted' = buffer /\ buffer' = <<>>
          /\ UNCHANGED <<publishing, stored>>
      BY <2>3 DEF Flush, Uncommitted, consumerVars
    <3> QED
      BY <3>1, EmptyFacts
  <2>4. CASE WriteReturns \/ WriteFails
    <3>1. Uncommitted' = <<>> /\ UNCHANGED <<publishing, buffer, stored>>
      BY <2>4 DEF WriteReturns, WriteFails, Uncommitted, consumerVars
    <3> QED
      BY <3>1, EmptyFacts
  <2>5. CASE PublishEnds \/ Restart
    BY <2>5 DEF PublishEnds, Restart
  <2>6. CASE PublishDelivered \/ (\E s \in Bursts : Put(s)) \/ UNCHANGED vars
    BY <2>6 DEF PublishDelivered, Put, vars, Uncommitted, writerVars
  <2> QED
    BY <2>1, <2>2, <2>3, <2>4, <2>5, <2>6 DEF Next, CoreStep
<1> QED
  BY <1>1, <1>2, TypeCorrect, PipelineOrdered, PTL DEF Spec

-----------------------------------------------------------------------------
(* One step keeps the account of the trades: it moves a trade or a whole   *)
(* stage, and never to two places.                                         *)
LEMMA AccountStep ==
    ASSUME TypeOK, PipelineOrder, FeedOrder, Accounted, [Next]_vars
    PROVE  Accounted'
<1> USE Stages DEF Accounted, InMemory
<1>1. ASSUME NEW s \in Bursts, Put(s) PROVE Accounted'
  <2>1. s \in Seq(Nat) /\ Ids(s) \subseteq Nat
    BY BurstFacts, TradeSequence DEF Trade
  <2>2. /\ Ids(queue') = Ids(queue) \cup Ids(s)
        /\ accepted' = accepted \cup Ids(s)
    BY <1>1, <2>1, IdsConcat DEF Put
  <2>3. accepted \cap Ids(s) = {}
    BY <1>1, <2>1 DEF Put, Before
  <2>4. UNCHANGED <<buffer, batch, writer, Uncommitted, stored, published,
                    dropped, lost>>
    BY <1>1 DEF Put, Uncommitted
  <2> QED
    BY <2>2, <2>3, <2>4
<1>2. CASE Take
  <2>1. UNCHANGED <<batch, writer, Uncommitted, accepted, stored, published,
                    dropped, lost>>
    BY <1>2 DEF Take, Uncommitted
  <2>2. Head(queue) \notin Ids(queue')
    BY <1>2, TakeMoves DEF PipelineOrder, Before
  <2> QED
    BY <1>2, <2>1, <2>2, TakeMoves
<1>3. CASE PublishDelivered
  <2>1. publishing # None /\ publishing \in accepted
    BY <1>3 DEF PublishDelivered, FeedOrder
  <2>2. /\ Ids(published') = Ids(published) \cup {publishing}
        /\ UNCHANGED <<accepted, queue, buffer, batch, writer, Uncommitted,
                       stored, dropped, lost>>
    BY <1>3, <2>1, IdsAppend DEF PublishDelivered, writerVars, Uncommitted
  <2> QED
    BY <2>1, <2>2
<1>4. CASE PublishEnds
  BY <1>4 DEF PublishEnds, writerVars, Uncommitted
<1>5. CASE Flush
  <2>1. /\ Uncommitted = <<>> /\ Uncommitted' = buffer /\ buffer' = <<>>
        /\ writer' # "committed"
        /\ UNCHANGED <<accepted, queue, stored, published, dropped, lost>>
    BY <1>5 DEF Flush, Uncommitted, consumerVars, TypeOK
  <2> QED
    BY <2>1, EmptyFacts
<1>6. CASE Commit
  <2>1. /\ Uncommitted = batch /\ Uncommitted' = <<>>
        /\ stored' = stored \o batch
        /\ UNCHANGED <<accepted, queue, buffer, batch, published, dropped, lost>>
    BY <1>6 DEF Commit, Uncommitted, consumerVars
  <2>2. Ids(stored') = Ids(stored) \cup Ids(batch)
    BY <2>1, IdsConcat
  <2> QED
    BY <2>1, <2>2, EmptyFacts
<1>7. CASE WriteReturns
  <2>1. /\ Uncommitted = <<>> /\ Uncommitted' = <<>> /\ batch' = <<>>
        /\ UNCHANGED <<accepted, queue, buffer, stored, published, dropped, lost>>
    BY <1>7 DEF WriteReturns, Uncommitted, consumerVars
  <2> QED
    BY <2>1, EmptyFacts
<1>8. CASE WriteFails
  <2>1. /\ Uncommitted' = <<>> /\ batch' = <<>> /\ writer' # "committed"
        /\ dropped' = dropped \cup Ids(batch)
        /\ UNCHANGED <<accepted, queue, buffer, stored, published, lost>>
    BY <1>8 DEF WriteFails, Uncommitted, consumerVars
  <2>2. CASE writer = "committed"
    <3>1. Uncommitted = <<>> /\ Ids(batch) \subseteq Ids(stored)
      BY <2>2 DEF Uncommitted
    <3> QED
      BY <2>1, <3>1, EmptyFacts
  <2>3. CASE writer = "writing"
    <3>1. Uncommitted = batch
      BY <2>3 DEF Uncommitted
    <3> QED
      BY <2>1, <3>1, EmptyFacts
  <2> QED
    BY <1>8, <2>2, <2>3 DEF WriteFails
<1>9. CASE Restart
  <2>1. /\ Uncommitted' = <<>> /\ buffer' = <<>> /\ queue' = <<>>
        /\ writer' # "committed"
        /\ lost' = lost \cup InMemory
        /\ UNCHANGED <<accepted, stored, published, dropped>>
    BY <1>9 DEF Restart, Uncommitted
  <2> QED
    BY <2>1, EmptyFacts
<1>10. CASE UNCHANGED vars
  BY <1>10 DEF vars, Uncommitted
<1> QED
  BY <1>1, <1>2, <1>3, <1>4, <1>5, <1>6, <1>7, <1>8, <1>9, <1>10
     DEF Next, CoreStep

(* Every trade handed to the core is at every moment on exactly one stage  *)
(* of the pipeline, in the table, or known to be dropped or lost, and only *)
(* accepted trades are published (ingestion.py:50-68).                     *)
THEOREM TradesAccounted == Spec => []Accounted
<1>1. Init => Accounted
  BY EmptyFacts DEF Init, Accounted, InMemory, Uncommitted
<1>2. Init => FeedOrder
  BY EmptyFacts DEF Init, FeedOrder, FeedInOrder, Before
<1> QED
  BY <1>1, <1>2, FeedStep, AccountStep, TypeCorrect, PipelineOrdered, PTL
     DEF Spec
=============================================================================

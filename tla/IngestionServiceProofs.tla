----------------------- MODULE IngestionServiceProofs -----------------------
(***************************************************************************)
(* Proofs about the connector in the service, for any number of trades,    *)
(* any messages and drops, with or without restarts: what it hands over is *)
(* a log without silent gaps, so that the service implements the core, and *)
(* its waits follow the schedule.                                          *)
(***************************************************************************)
EXTENDS IngestionService, TradeSeqProofs

USE ConnectorAssumption, ServiceAssumption

\* What is known of the connector's side in every state.
FeedTyped ==
    /\ market \in 0..MaxTrade
    /\ seen \in 0..market /\ since \in 0..seen
    /\ malformed \subseteq 1..seen /\ spilled \subseteq 1..seen
    /\ handed \in Seq(Nat) /\ Ids(handed) \subseteq 1..seen

FeedInvariant == FeedTyped /\ Increasing(handed) /\ NoGapInSubscription

(* The entries that parse are trades in order, all of the message.         *)
LEMMA ParsedFacts ==
    ASSUME NEW hi \in Nat, seen \in Nat, NEW s \in Parsed(hi)
    PROVE  /\ s \in Seq(Nat)
           /\ Ids(s) \subseteq seen + 1..hi
           /\ Increasing(s)
<1>1. PICK k \in 0..hi - seen : s \in [1..k -> seen + 1..hi]
  BY DEF Parsed
<1>2. s \in Seq(Nat) /\ Len(s) = k
  BY <1>1, SeqDef
<1> QED
  BY <1>1, <1>2 DEF Parsed, Ids

(* A message adds its well-formed trades at the end of what was handed     *)
(* over, all newer than what was there.                                    *)
LEMMA ReceiveAppends ==
    ASSUME FeedInvariant, NEW hi \in Messages, NEW s \in Parsed(hi), Receive(hi, s)
    PROVE  /\ FeedInvariant'
           /\ Extends(handed', handed)
           /\ Before(Ids(handed), Ids(s))
           /\ Ids(handed') = Ids(handed) \cup Ids(s)
<1>1. /\ hi \in Nat /\ seen \in Nat /\ since \in Nat /\ market \in Nat
      /\ seen < hi /\ hi <= market /\ market <= MaxTrade /\ since <= seen
  BY DEF FeedInvariant, FeedTyped, Receive
<1>2. s \in Seq(Nat) /\ Ids(s) \subseteq seen + 1..hi /\ Increasing(s)
  BY <1>1, ParsedFacts
<1>3. /\ handed \in Seq(Nat) /\ Ids(handed) \subseteq 1..seen
      /\ Increasing(handed) /\ malformed \subseteq 1..seen
      /\ spilled \subseteq 1..seen
  BY DEF FeedInvariant, FeedTyped
<1>4. /\ handed' = handed \o s /\ seen' = hi
      /\ malformed' = malformed \cup ((seen + 1..hi) \ Ids(s))
      /\ since' = since /\ market' = market /\ spilled' = spilled
      /\ link = "subscribed" /\ link' = link
  BY DEF Receive, exchangeVars
<1>5. Before(Ids(handed), Ids(s))
  BY <1>1, <1>2, <1>3 DEF Before
<1>6. Ids(handed') = Ids(handed) \cup Ids(s)
  BY <1>2, <1>3, <1>4, IdsConcat
<1>7. Increasing(handed') /\ Extends(handed', handed)
  BY <1>2, <1>3, <1>4, <1>5, IncreasingConcat
<1>8. FeedTyped'
  <2>1. handed' \in Seq(Nat)
    BY <1>2, <1>3, <1>4, ConcatProperties
  <2>2. 1..seen \subseteq 1..hi /\ seen + 1..hi \subseteq 1..hi
    BY <1>1
  <2>3. /\ malformed' \subseteq 1..seen' /\ Ids(handed') \subseteq 1..seen'
        /\ spilled' \subseteq 1..seen'
    BY <1>2, <1>3, <1>4, <1>6, <2>2
  <2>4. market' \in 0..MaxTrade /\ seen' \in 0..market' /\ since' \in 0..seen'
    BY <1>1, <1>4 DEF FeedInvariant, FeedTyped
  <2> QED
    BY <2>1, <2>3, <2>4 DEF FeedTyped
<1>9. NoGapInSubscription'
  <2> SUFFICES ASSUME NEW n \in since + 1..hi
               PROVE  /\ n \in Ids(handed') <=> n \notin malformed' \cup spilled'
                      /\ n \notin spilled'
    BY <1>4 DEF NoGapInSubscription
  <2>1. CASE n <= seen
    <3>1. (n \in Ids(handed) <=> n \notin malformed \cup spilled) /\ n \notin spilled
      BY <1>1, <1>4, <2>1 DEF FeedInvariant, NoGapInSubscription
    <3>2. n \notin seen + 1..hi
      BY <1>1, <2>1
    <3> QED
      BY <1>2, <1>4, <1>6, <3>1, <3>2
  <2>2. CASE n > seen
    <3>1. n \in seen + 1..hi /\ n \notin 1..seen
      BY <1>1, <2>2
    <3> QED
      BY <1>3, <1>4, <1>6, <3>1
  <2> QED
    BY <1>1, <2>1, <2>2
<1> QED
  BY <1>5, <1>6, <1>7, <1>8, <1>9 DEF FeedInvariant

(* Everything but a message leaves what was handed over as it is.  A new   *)
(* subscription starts after all trades executed so far; a message that    *)
(* raises ends it.                                                         *)
LEMMA OthersKeep ==
    ASSUME FeedInvariant, [ServiceNext]_serviceVars, ~MessageArrives
    PROVE  FeedInvariant' /\ handed' = handed
<1> USE DEF FeedInvariant, FeedTyped
<1>1. CASE Execute
  BY <1>1 DEF Execute, feedVars, NoGapInSubscription
<1>2. CASE Subscribed
  <2>1. /\ market' = market /\ seen' = market /\ since' = market
        /\ malformed' = malformed /\ spilled' = spilled /\ handed' = handed
    BY <1>2 DEF Subscribed, exchangeVars
  <2>2. market \in Nat /\ market + 1..market = {} /\ 1..seen \subseteq 1..market
    OBVIOUS
  <2> QED
    BY <2>1, <2>2 DEF NoGapInSubscription
<1>3. CASE /\ UNCHANGED <<market, seen, since, malformed, spilled, handed>>
           /\ link' = "subscribed" => link = "subscribed"
  BY <1>3 DEF NoGapInSubscription
<1>4. CASE \/ Connected \/ SubscriptionRefused \/ Dropped \/ ClosedNormally
           \/ SleepDone
  BY <1>3, <1>4 DEF Connected, SubscriptionRefused, Dropped, ClosedNormally,
                    SleepDone, exchangeVars, feedVars
<1>5. ASSUME NEW hi \in seen..seen + MaxMessage, ReceiveRaises(hi)
      PROVE  FeedInvariant' /\ handed' = handed
  <2>1. /\ market' = market /\ seen' = hi /\ since' = since
        /\ malformed' = malformed /\ handed' = handed
        /\ spilled' = spilled \cup (seen + 1..hi)
        /\ link' = "crashed" /\ hi \in seen..market
    BY <1>5 DEF ReceiveRaises, exchangeVars
  <2>2. 1..seen \subseteq 1..hi /\ seen + 1..hi \subseteq 1..hi
    BY <2>1
  <2>3. FeedTyped'
    BY <2>1, <2>2
  <2>4. ASSUME NEW n \in since + 1..hi
        PROVE  n \in Ids(handed) <=> n \notin malformed \cup spilled'
    <3>1. CASE n <= seen
      BY <2>1, <3>1 DEF NoGapInSubscription
    <3>2. CASE n > seen
      BY <2>1, <3>2
    <3> QED
      BY <2>1, <3>1, <3>2
  <2>5. NoGapInSubscription'
    BY <2>1, <2>4 DEF NoGapInSubscription
  <2> QED
    BY <2>1, <2>3, <2>5
<1>6. CASE CoreMoves \/ ProcessRestarts
  BY <1>3, <1>6 DEF CoreMoves, ProcessRestarts, feedVars, vars
<1>7. CASE UNCHANGED serviceVars
  BY <1>3, <1>7 DEF serviceVars
<1> QED
  BY <1>1, <1>2, <1>4, <1>5, <1>6, <1>7
     DEF ServiceNext, LinkMoves, LinkStep, ConnectorRaises

(* The feed of the service keeps its types, its order and its completeness *)
(* within a subscription in every reachable state.                         *)
LEMMA FeedInvariantHolds == ServiceSpec => []FeedInvariant
<1>1. ServiceInit => FeedInvariant
  BY EmptyFacts DEF ServiceInit, Init, FeedInvariant, FeedTyped, NoGapInSubscription
<1>2. FeedInvariant /\ [ServiceNext]_serviceVars => FeedInvariant'
  BY ReceiveAppends, OthersKeep DEF MessageArrives
<1> QED
  BY <1>1, <1>2, PTL DEF ServiceSpec

-----------------------------------------------------------------------------
(* The connector's variables keep their types; the wait stays between 1 s  *)
(* and its cap, the count of drops within its bound (kraken.py:62-77).     *)
THEOREM ConnectorTypes == ServiceSpec => []TypeOK
<1> DEFINE Waits == /\ link \in {"connecting", "open", "subscribed", "refused",
                               "backingOff", "crashed"}
                    /\ backoff \in 1..MaxBackoff
                    /\ drops \in 0..MaxDrops
<1>1. ServiceInit => Waits
  BY DEF ServiceInit, Init
<1>2. Waits /\ [ServiceNext]_serviceVars => Waits'
  <2> SUFFICES ASSUME Waits, [ServiceNext]_serviceVars PROVE Waits'
    OBVIOUS
  <2>1. CASE LinkStep
    BY <2>1 DEF LinkStep, Execute, Connected, Subscribed, SubscriptionRefused,
                Dropped, ClosedNormally, SleepDone, Smaller
  <2>2. CASE MessageArrives \/ ConnectorRaises \/ CoreMoves \/ ProcessRestarts
    BY <2>2 DEF MessageArrives, Receive, ConnectorRaises, ReceiveRaises, CoreMoves,
                ProcessRestarts, vars
  <2> QED
    BY <2>1, <2>2 DEF ServiceNext, LinkMoves, serviceVars
<1>3. FeedInvariant /\ Waits => TypeOK
  <2> SUFFICES ASSUME FeedTyped, Waits PROVE TypeOK
    BY DEF FeedInvariant
  <2>1. handed \in Seq(1..seen)
    <3> DEFINE S == 1..seen
    <3>1. Len(handed) \in Nat /\ \A k \in 1..Len(handed) : handed[k] \in S
      BY DEF FeedTyped, Ids
    <3> HIDE DEF S
    <3>2. handed \in [1..Len(handed) -> S]
      BY <3>1, LenProperties DEF FeedTyped
    <3>3. handed \in Seq(S)
      BY <3>1, <3>2, SeqDef
    <3> QED
      BY <3>3 DEF S
  <2> QED
    BY <2>1 DEF FeedTyped, TypeOK
<1> QED
  BY <1>1, <1>2, <1>3, FeedInvariantHolds, PTL DEF ServiceSpec

-----------------------------------------------------------------------------
\* f doubles from 1 up to its k-th value.
Doubles(f, k) == f \in [0..k -> Nat] /\ f[0] = 1 /\ \A n \in 1..k : f[n] = 2 * f[n - 1]

(* Such functions exist, for any k.                                        *)
LEMMA DoublesExist ==
    ASSUME NEW k \in Nat
    PROVE  \E f : Doubles(f, k)
<1> DEFINE S == {i \in Nat : \E f : Doubles(f, i)}
<1>1. 0 \in S
  <2>1. Doubles([n \in 0..0 |-> 1], 0)
    BY DEF Doubles
  <2> QED
    BY <2>1
<1>2. ASSUME NEW i \in Nat, i \in S PROVE i + 1 \in S
  <2>1. PICK f : Doubles(f, i)
    BY <1>2
  <2> DEFINE g == [n \in 0..i + 1 |-> IF n = i + 1 THEN 2 * f[i] ELSE f[n]]
  <2>2. g \in [0..i + 1 -> Nat]
    BY <2>1 DEF Doubles
  <2>3. g[0] = 1 /\ \A n \in 1..i + 1 : g[n] = 2 * g[n - 1]
    BY <2>1 DEF Doubles
  <2> HIDE DEF g
  <2>4. Doubles(g, i + 1)
    BY <2>2, <2>3 DEF Doubles
  <2> QED
    BY <2>4
<1> HIDE DEF S
<1>3. k \in S
  BY <1>1, <1>2, NatSetInduction
<1> QED
  BY <1>3 DEF S

(* They agree wherever they are both defined.                              *)
LEMMA DoublesAgree ==
    ASSUME NEW k \in Nat, NEW j \in 0..k, NEW f, NEW g, Doubles(f, j), Doubles(g, k)
    PROVE  f[j] = g[j]
<1> DEFINE S == {i \in Nat : i <= j => f[i] = g[i]}
<1>1. 0 \in S
  BY DEF Doubles
<1>2. ASSUME NEW i \in Nat, i \in S PROVE i + 1 \in S
  BY <1>2 DEF Doubles
<1> HIDE DEF S
<1>3. j \in S
  BY <1>1, <1>2, NatSetInduction
<1> QED
  BY <1>3 DEF S

(* So the recursive definition defines a function: its values are numbers, *)
(* the first is 1 and each is twice the one before.                        *)
LEMMA DoubledDef ==
    /\ Doubled \in [Nat -> Nat]
    /\ Doubled[0] = 1
    /\ \A n \in Nat : Doubled[n + 1] = 2 * Doubled[n]
<1> DEFINE upTo == [k \in Nat |-> CHOOSE f : Doubles(f, k)]
           F == [n \in Nat |-> upTo[n][n]]
<1>1. \A k \in Nat : Doubles(upTo[k], k)
  BY DoublesExist
<1> HIDE DEF upTo
<1>2. \A n \in Nat : F[n] \in Nat
  BY <1>1 DEF Doubles
<1>3. F[0] = 1
  BY <1>1 DEF Doubles
<1>4. ASSUME NEW n \in Nat PROVE F[n + 1] = 2 * F[n]
  <2>1. upTo[n + 1][n + 1] = 2 * upTo[n + 1][n]
    BY <1>1 DEF Doubles
  <2>2. upTo[n][n] = upTo[n + 1][n]
    BY <1>1, DoublesAgree
  <2> QED
    BY <2>1, <2>2
<1>5. F = [n \in Nat |-> IF n = 0 THEN 1 ELSE 2 * F[n - 1]]
  <2> SUFFICES ASSUME NEW n \in Nat PROVE F[n] = IF n = 0 THEN 1 ELSE 2 * F[n - 1]
    BY DEF F
  <2>1. CASE n = 0
    BY <1>3, <2>1
  <2>2. CASE n # 0
    <3>1. n - 1 \in Nat /\ n - 1 + 1 = n
      BY <2>2
    <3> HIDE DEF F
    <3> QED
      BY <1>4, <2>2, <3>1
  <2> QED
    BY <2>1, <2>2
<1> HIDE DEF F
<1>6. Doubled = [n \in Nat |-> IF n = 0 THEN 1 ELSE 2 * Doubled[n - 1]]
  BY <1>5 DEF Doubled
<1> HIDE DEF upTo
<1>7. Doubled[0] = 1
  BY <1>6
<1>8. \A n \in Nat : Doubled[n + 1] = 2 * Doubled[n]
  <2> SUFFICES ASSUME NEW n \in Nat PROVE Doubled[n + 1] = 2 * Doubled[n]
    OBVIOUS
  <2>1. n + 1 \in Nat /\ n + 1 # 0 /\ n + 1 - 1 = n
    OBVIOUS
  <2> QED
    BY <1>6, <2>1
<1>9. \A n \in Nat : Doubled[n] \in Nat
  <2> DEFINE S == {i \in Nat : Doubled[i] \in Nat}
  <2>1. 0 \in S
    BY <1>7
  <2>2. ASSUME NEW i \in Nat, i \in S PROVE i + 1 \in S
    BY <1>8, <2>2
  <2> HIDE DEF S
  <2>3. \A n \in Nat : n \in S
    BY <2>1, <2>2, NatSetInduction
  <2> QED
    BY <2>3 DEF S
<1> QED
  BY <1>6, <1>7, <1>8, <1>9

\* The wait to come, or that is under way, after so many drops in a row.
Waiting ==
    /\ backoff \in 1..MaxBackoff
    /\ drops \in 0..MaxDrops
    /\ link \in {"connecting", "open"} =>
          backoff = Smaller(Doubled[drops], MaxBackoff)
    /\ link \in {"subscribed", "refused"} => backoff = 1 /\ drops = 0
    /\ link = "backingOff" =>
          drops # 0 /\ backoff = Smaller(Doubled[drops - 1], MaxBackoff)

(* The cap is reached when the count of drops is, and holds from there on. *)
LEMMA CapHolds ==
    /\ Doubled[0] = 1
    /\ \A n \in Nat : Doubled[n] \in Nat /\ Doubled[n + 1] = 2 * Doubled[n]
    /\ Doubled[MaxDrops] >= MaxBackoff
    /\ Smaller(1, MaxBackoff) = 1
<1>1. MaxDrops - 1 \in Nat /\ MaxDrops - 1 + 1 = MaxDrops
  OBVIOUS
<1>2. Doubled[MaxDrops] = 2 * Doubled[MaxDrops - 1] /\ Doubled[MaxDrops - 1] \in Nat
  BY <1>1, DoubledDef
<1> QED
  BY <1>2, DoubledDef DEF Smaller

(* A drop, a sleep or a subscription leaves the wait as scheduled.         *)
LEMMA LinkKeepsSchedule ==
    ASSUME Waiting, LinkStep
    PROVE  Waiting'
<1>1. CASE Execute \/ Connected
  BY <1>1 DEF Execute, Connected, Waiting
<1>2. CASE Subscribed \/ SubscriptionRefused
  BY <1>2 DEF Subscribed, SubscriptionRefused, Waiting
<1>3. CASE Dropped
  <2>1. /\ link' = "backingOff" /\ backoff' = backoff
        /\ drops' = Smaller(drops + 1, MaxDrops)
        /\ backoff = Smaller(Doubled[drops], MaxBackoff)
    BY <1>3, CapHolds DEF Dropped, Waiting
  <2>2. CASE drops = MaxDrops
    <3>1. drops' = MaxDrops /\ backoff = MaxBackoff
      BY <2>1, <2>2, CapHolds DEF Smaller
    <3>2. Doubled[MaxDrops - 1] \in Nat
      BY CapHolds
    <3> QED
      BY <2>1, <3>1, <3>2 DEF Waiting, Smaller
  <2>3. CASE drops # MaxDrops
    <3>1. drops \in Nat /\ drops < MaxDrops
      BY <2>3 DEF Waiting
    <3>2. drops' = drops + 1 /\ drops' - 1 = drops
      BY <2>1, <3>1 DEF Smaller
    <3> QED
      BY <2>1, <3>1, <3>2 DEF Waiting
  <2> QED
    BY <2>2, <2>3
<1>4. CASE ClosedNormally
  BY <1>4, CapHolds DEF ClosedNormally, Waiting
<1>5. CASE SleepDone
  <2>1. /\ link' = "connecting" /\ drops' = drops
        /\ backoff' = Smaller(backoff * 2, MaxBackoff)
        /\ backoff = Smaller(Doubled[drops - 1], MaxBackoff)
        /\ drops - 1 \in Nat /\ drops - 1 + 1 = drops
    BY <1>5 DEF SleepDone, Waiting
  <2>2. Doubled[drops] = 2 * Doubled[drops - 1] /\ Doubled[drops - 1] \in Nat
    BY <2>1, CapHolds
  <2>3. backoff' = Smaller(Doubled[drops], MaxBackoff)
    BY <2>1, <2>2 DEF Smaller
  <2>4. backoff' \in 1..MaxBackoff
    BY <2>1 DEF Smaller, Waiting
  <2> QED
    BY <2>1, <2>3, <2>4 DEF Waiting
<1> QED
  BY <1>1, <1>2, <1>3, <1>4, <1>5 DEF LinkStep

(* The wait before the next attempt is 1 s after a lost subscription and   *)
(* doubles with each attempt that fails, up to the cap, over any number of *)
(* drops, clean closes and restarts ("backoff (1s, 2s, 4s... capped 60s)", *)
(* design document:66, kraken.py:63-77).                                   *)
THEOREM BackoffAsScheduled == ServiceSpec => []BackoffSchedule
<1>1. ServiceInit => Waiting
  BY CapHolds DEF ServiceInit, Init, Waiting
<1>2. Waiting /\ [ServiceNext]_serviceVars => Waiting'
  <2> SUFFICES ASSUME Waiting, [ServiceNext]_serviceVars PROVE Waiting'
    OBVIOUS
  <2>1. CASE LinkMoves
    BY <2>1, LinkKeepsSchedule DEF LinkMoves
  <2>2. CASE MessageArrives \/ ConnectorRaises \/ CoreMoves
    BY <2>2 DEF MessageArrives, Receive, ConnectorRaises, ReceiveRaises, CoreMoves,
                vars, Waiting
  <2>3. CASE ProcessRestarts
    BY <2>3, CapHolds DEF ProcessRestarts, Waiting
  <2>4. CASE UNCHANGED serviceVars
    BY <2>4 DEF serviceVars, Waiting
  <2> QED
    BY <2>1, <2>2, <2>3, <2>4 DEF ServiceNext
<1>3. Waiting => BackoffSchedule
  BY DEF Waiting, BackoffSchedule
<1> QED
  BY <1>1, <1>2, <1>3, PTL DEF ServiceSpec

-----------------------------------------------------------------------------
(* Within a subscription exactly the malformed trades are missing from     *)
(* what the connector handed over, and those of the message that ended it  *)
(* by an exception (kraken.py:32-48, 71-73).                               *)
THEOREM NoSilentGap == ServiceSpec => []NoGapInSubscription
<1>1. FeedInvariant => NoGapInSubscription
  BY DEF FeedInvariant
<1> QED
  BY <1>1, FeedInvariantHolds, PTL

(* The connector's side of the queue is a log, over drops, clean closes,   *)
(* resubscriptions, malformed entries and restarts (kraken.py:62-77).      *)
THEOREM ConnectorRefinesTradeLog == ServiceSpec => QueueIsALog
<1>1. ServiceInit => Handed!Init
  BY DEF ServiceInit, Init, Handed!Init
<1>2. FeedInvariant /\ [ServiceNext]_serviceVars => [Handed!Grow]_handed
  <2> SUFFICES ASSUME FeedInvariant, [ServiceNext]_serviceVars
               PROVE  [Handed!Grow]_handed
    OBVIOUS
  <2>1. CASE MessageArrives
    <3>1. Increasing(handed') /\ Extends(handed', handed)
      BY <2>1, ReceiveAppends DEF MessageArrives, FeedInvariant
    <3> QED
      BY <3>1 DEF Increasing, Extends, Handed!Grow, Handed!Increasing, Handed!Extends
  <2>2. CASE ~MessageArrives
    BY <2>2, OthersKeep
  <2> QED
    BY <2>1, <2>2
<1> QED
  BY <1>1, <1>2, FeedInvariantHolds, PTL DEF ServiceSpec, QueueIsALog, Handed!Spec

-----------------------------------------------------------------------------
(* The service implements the core: what the core assumes of its producer  *)
(* is what the connector delivers (main.py:13-21, kraken.py:62-77).        *)
THEOREM ServiceRefinesCore == ServiceSpec => ImplementsCore
<1>1. ServiceInit => Core!Init
  BY DEF ServiceInit
<1>2. FeedInvariant /\ [ServiceNext]_serviceVars => [Core!Next]_(Core!vars)
  <2> SUFFICES ASSUME FeedInvariant, [ServiceNext]_serviceVars
               PROVE  [Core!Next]_(Core!vars)
    OBVIOUS
  <2>1. CASE MessageArrives
    <3>0. PICK hi \in Messages : \E s \in Parsed(hi) :
              /\ Receive(hi, s)
              /\ queue' = queue \o s
              /\ UNCHANGED <<buffer, publishing, delivered, batch, writer,
                             stored, published, dropped, lost>>
      BY <2>1 DEF MessageArrives
    <3>1. PICK s \in Parsed(hi) :
              /\ Receive(hi, s)
              /\ queue' = queue \o s
              /\ UNCHANGED <<buffer, publishing, delivered, batch, writer,
                             stored, published, dropped, lost>>
      BY <3>0
    <3>2. /\ Before(Ids(handed), Ids(s))
          /\ Ids(handed)' = Ids(handed) \cup Ids(s)
      BY <3>1, ReceiveAppends
    <3>3. Core!Put(s)
      BY <3>1, <3>2 DEF Core!Put, Core!Before, Before, Core!Ids, Ids
    <3>4. CASE s = <<>>
      <4>1. Ids(s) = {}
        BY <3>4, EmptyFacts
      <4> QED
        BY <3>1, <3>2, <3>4, <4>1 DEF Core!vars
    <3>5. CASE s # <<>>
      <4>1. PICK k \in 0..hi - seen : s \in [1..k -> seen + 1..hi]
        BY DEF Parsed
      <4>2. /\ seen \in Nat /\ MaxMessage \in Nat /\ MaxTrade \in Nat
            /\ hi \in 1..MaxTrade /\ hi \in seen + 1..seen + MaxMessage
        BY DEF FeedInvariant, FeedTyped, Messages, Trade
      <4>3. k # 0
        <5>1. SUFFICES ASSUME k = 0 PROVE FALSE
          OBVIOUS
        <5>2. s \in [1..0 -> seen + 1..hi] /\ 1..0 = {}
          BY <4>1, <5>1
        <5> QED
          BY <3>5, <5>2
      <4>4. k \in 1..MaxMessage
        BY <4>1, <4>2, <4>3
      <4>5. s \in [1..k -> Core!Trade]
        <5>1. seen + 1..hi \subseteq 1..MaxTrade
          BY <4>2
        <5> QED
          BY <4>1, <5>1 DEF Core!Trade
      <4>6. Core!Increasing(s)
        BY DEF Parsed, Increasing, Core!Increasing
      <4>7. s \in Core!Bursts
        BY <4>4, <4>5, <4>6 DEF Core!Bursts
      <4> QED
        BY <3>3, <4>7 DEF Core!Next
    <3> QED
      BY <3>4, <3>5
  <2>2. CASE ~MessageArrives
    <3>1. handed' = handed
      BY <2>2, OthersKeep
    <3>2. CASE UNCHANGED coreOnly
      <4>1. Core!Ids(handed)' = Core!Ids(handed)
        BY <3>1 DEF Core!Ids
      <4> QED
        BY <3>1, <3>2 DEF coreOnly, Core!vars
    <3>3. CASE CoreMoves
      BY <3>3 DEF CoreMoves, Core!Next
    <3>4. CASE ProcessRestarts
      BY <3>4 DEF ProcessRestarts, Core!Next
    <3> QED
      BY <2>2, <3>2, <3>3, <3>4
         DEF ServiceNext, LinkMoves, ConnectorRaises, serviceVars, coreOnly
  <2> QED
    BY <2>1, <2>2
<1> QED
  BY <1>1, <1>2, FeedInvariantHolds, PTL DEF ServiceSpec, ImplementsCore, Core!Spec

-----------------------------------------------------------------------------
\* What is proved of the core, for the core of the service.
CoreFacts == INSTANCE IngestionCoreProofs WITH
    MaxBurst <- MaxMessage, accepted <- Ids(handed)

(* Both instances of the core are the same specification.                  *)
LEMMA SameCore == ImplementsCore => CoreFacts!Spec
<1>1. Core!Init => CoreFacts!Init
  BY DEF Core!Init, CoreFacts!Init
<1>2. [Core!Next]_(Core!vars) => [CoreFacts!Next]_(CoreFacts!vars)
  BY DEF Core!Next, Core!CoreStep, Core!vars, Core!consumerVars,
         Core!writerVars, Core!Trade, Core!Bursts, Core!Increasing,
         Core!Put, Core!Before, Core!Ids, Core!Take,
         Core!PublishDelivered, Core!PublishEnds, Core!Flush,
         Core!Commit, Core!WriteReturns, Core!WriteFails, Core!Restart,
         Core!InMemory, Core!Uncommitted,
         CoreFacts!Next, CoreFacts!CoreStep, CoreFacts!vars,
         CoreFacts!consumerVars, CoreFacts!writerVars, CoreFacts!Trade,
         CoreFacts!Bursts, CoreFacts!Increasing, CoreFacts!Put,
         CoreFacts!Before, CoreFacts!Ids, CoreFacts!Take,
         CoreFacts!PublishDelivered, CoreFacts!PublishEnds,
         CoreFacts!Flush, CoreFacts!Commit, CoreFacts!WriteReturns,
         CoreFacts!WriteFails, CoreFacts!Restart, CoreFacts!InMemory,
         CoreFacts!Uncommitted
<1> QED
  BY <1>1, <1>2, PTL DEF ImplementsCore, Core!Spec, CoreFacts!Spec

(* From the socket to the table no trade disappears silently: what was     *)
(* received in a subscription was malformed or in the message that ended   *)
(* the process, is in memory or in the table, or was given up by a failed  *)
(* write or a restart (kraken.py:71-73, ingestion.py:50-68).               *)
THEOREM ServiceAccounts == ServiceSpec => []ReceivedIsAccounted
<1>1. CoreFacts!CoreAssumption
  BY DEF Core!CoreAssumption, CoreFacts!CoreAssumption
<1>2. CoreFacts!Spec => []CoreFacts!Accounted
  BY <1>1, CoreFacts!TradesAccounted
<1>3. FeedInvariant /\ CoreFacts!Accounted => ReceivedIsAccounted
  <2> SUFFICES ASSUME FeedInvariant, CoreFacts!Accounted, NEW n \in since + 1..seen
               PROVE  n \in malformed \cup spilled \cup Core!InMemory
                            \cup Ids(stored) \cup dropped \cup lost
    BY DEF ReceivedIsAccounted
  <2>1. n \in Ids(handed) \/ n \in malformed \cup spilled
    BY DEF FeedInvariant, NoGapInSubscription
  <2>2. Ids(handed) = Core!InMemory \cup Ids(stored) \cup dropped \cup lost
    BY DEF CoreFacts!Accounted, CoreFacts!InMemory, CoreFacts!Uncommitted,
           CoreFacts!Ids, Core!InMemory, Core!Uncommitted, Core!Ids, Ids
  <2> QED
    BY <2>1, <2>2
<1> QED
  BY <1>2, <1>3, ServiceRefinesCore, SameCore, FeedInvariantHolds, PTL

(* The table of the service is a log: it only grows, in exchange order and *)
(* without a repeated trade, over drops of the connection, resubscriptions,*)
(* failed writes and restarts of the process (main.py:13-21).              *)
THEOREM ServiceHistoryIsALog == ServiceSpec => CoreFacts!HistoryIsALog
<1>1. CoreFacts!CoreAssumption
  BY DEF Core!CoreAssumption, CoreFacts!CoreAssumption
<1>2. CoreFacts!Spec => CoreFacts!HistoryIsALog
  BY <1>1, CoreFacts!HistoryRefinesTradeLog
<1> QED
  BY <1>2, ServiceRefinesCore, SameCore
=============================================================================

--------------------------- MODULE ReadersProofs ---------------------------
(***************************************************************************)
(* Proofs about the readers of the pin log, for any logs, and any number   *)
(* of crashes.                                                             *)
(***************************************************************************)
EXTENDS MCReaders, SetLemmas

(***************************************************************************)
(* The tweets.                                                             *)
(***************************************************************************)

(* What is confirmed is stored in the order of the _ids, when no insert overtakes. *)
LogInOrder ==
  /\ stored \subseteq Ids
  /\ \A i \in gone : Pending(i)
  /\ chain.late = 0 =>
       \A i, j \in Ids : ~Pending(i) /\ ~Pending(j) /\ i <= j /\ j \in stored => i \in stored

(* The markers of a chain whose tweets have been read from the start. *)
Fixed == "fixstatistics" \in marks \/ fixing = "mark"

(* Every buzz up to m is a tweet, or one of the batch s. *)
CopiedUpTo(m, s) ==
  \A i \in stored : Metaso!IsBuzz(i) /\ i <= m => i \in s \/ Pin(i) \in tweets

TweetBatch ==
  /\ sync.batch # {} /\ sync.batch \subseteq stored
  /\ \A i \in sync.batch : Metaso!IsBuzz(i)

TweetsInv ==
  /\ cursor["tweet"] # 0 => cursor["tweet"] \in stored /\ ~Pending(cursor["tweet"])
  /\ fixing \in {"cursor", "mark"} => "fixstatistics" \notin marks
  /\ (sync.at = "tweet" /\ sync.pc # "read") => sync.pc \in {"insert", "save"} /\ TweetBatch
  /\ (chain.late = 0 /\ ~raced /\ Fixed) =>
       /\ CopiedUpTo(cursor["tweet"], {})
       /\ Metaso!At("tweet", "insert") => CopiedUpTo(Max(sync.batch), sync.batch)
       /\ Metaso!At("tweet", "save") => CopiedUpTo(Max(sync.batch), {})

(* sync is a record. *)
SyncForm == sync = [at |-> sync.at, pc |-> sync.pc, batch |-> sync.batch]

SkipInv ==
  /\ chain \in Chains
  /\ chain.module = "metaso" => SyncForm /\ DOMAIN cursor = Keys /\ LogInOrder /\ TweetsInv

LEMMA IndexKeeps == LogNext => chain' = chain /\ crashes' = crashes /\ cursor' = cursor
BY DEF LogNext, StoreBlock, Announce, Discard, MovePin, RecordMove

(* Every step of a module leaves the log itself alone. *)
LEMMA MetasoKeeps == Metaso!MetasoNext => UNCHANGED <<chain, stored, gone, hop, history>>
BY DEF Metaso!MetasoNext, Metaso!Synchronization, Metaso!FixStatistics, Metaso!FixHost,
  Metaso!ReadTweets, Metaso!InsertTweets, Metaso!SaveTweetCursor,
  Metaso!SynchTweetLike, Metaso!SynchMeatsoDonate, Metaso!SynchTweetComment, Metaso!React,
  Metaso!Read, Metaso!SaveFirst, Metaso!Look, Metaso!Insert, Metaso!Count,
  Metaso!SyncHostData, Metaso!SyncMrc20TickData, Metaso!SynchMempoolData,
  Metaso!InsertMempoolData, Metaso!FixTweets, Metaso!FixCursor, Metaso!FixMark,
  Metaso!DeleteMetaSoMempool, Metaso!MetasoCrash, Metaso!LogCrash,
  Metaso!logvars, Metaso!pinvars

LEMMA NameKeeps == Name!NameNext => UNCHANGED <<chain, stored, gone, hop, history>>
BY DEF Name!NameNext, Name!NameSync, Name!ReadNames, Name!SaveNames, Name!InsertNames,
  Name!UpdateNames, Name!InsertHistory, Name!MoveNames, Name!SaveTransfers,
  Name!NameCrash, Name!LogCrash, Name!logvars, Name!pinvars

LEMMA NftKeeps == Nft!NftNext => UNCHANGED <<chain, stored, gone, hop, history>>
BY DEF Nft!NftNext, Nft!NftSync, Nft!ReadView, Nft!SaveCollections, Nft!AcceptItems,
  Nft!SaveItems, Nft!DescribeItems, Nft!CountItems, Nft!SaveCursor721, Nft!MoveItems,
  Nft!SaveMoves, Nft!SyncAddress, Nft!Sweep, Nft!JoinAddress, Nft!MergeAddress,
  Nft!NftCrash, Nft!LogCrash, Nft!logvars, Nft!pinvars

LEMMA ValueKeeps == Value!PevNext => UNCHANGED <<chain, stored, gone, hop, history>>
BY DEF Value!PevNext, Value!SyncPEV, Value!BeginPEV, Value!BeginPending, Value!CountBlocks,
  Value!SaveInfo, Value!UpdateBlockHosts, Value!UpdateBlockAddresses, Value!UpdateTotals,
  Value!SaveMetablock, Value!PevCrash, Value!LogCrash, Value!logvars, Value!pinvars

LEMMA AccessKeeps == Access!AccessNext => UNCHANGED <<chain, stored, gone, hop, history>>
BY DEF Access!AccessNext, Access!AccessTurn, Access!Turn, Access!StartTurn, Access!Check,
  Access!SaveControls, Access!SavePasses, Access!HearControl, Access!AccessCrash,
  Access!LogCrash, Access!logvars, Access!pinvars

LEMMA ChainKept == [Next]_vars => chain' = chain
BY IndexKeeps, MetasoKeeps, NameKeeps, NftKeeps, ValueKeeps, AccessKeeps
DEF Next, Index, SyncMetaso, SyncName, SyncNft, SyncValue, HandleAccess, vars, logvars, pinvars

LEMMA IdsTyped ==
  ASSUME chain \in Chains
  PROVE  /\ Ids = 1..Len(chain.log) /\ Len(chain.log) \in Nat
         /\ \A i \in Ids : i \in Nat \ {0} /\ chain.log[i].block \in Nat
         /\ \A S \in SUBSET Ids : IsFiniteSet(S) /\ (S # {} => Max(S) \in S /\ \A i \in S : i <= Max(S))
<1> DEFINE docs == {chain.log[i] : i \in DOMAIN chain.log}
<1>1. chain.log \in Seq(docs)
  BY LogAssumption
<1> HIDE DEF docs
<1>2. Ids = 1..Len(chain.log) /\ Len(chain.log) \in Nat
  BY <1>1 DEF Ids
<1>3. \A i \in Ids : i \in Nat \ {0} /\ chain.log[i].block \in Nat
  <2>1. \A i \in Ids : i \in Nat \ {0}
    BY <1>2
  <2>2. \A i \in Ids : chain.log[i].block \in Nat
    BY LogAssumption DEF Ids
  <2> QED  BY <2>1, <2>2
<1>4. \A S \in SUBSET Ids : IsFiniteSet(S)
  <2>1. IsFiniteSet(1..Len(chain.log))
    BY <1>2, FS_Interval
  <2> QED  BY <1>2, <2>1, FS_Subset
<1>5. ASSUME NEW S \in SUBSET Ids, S # {} PROVE Max(S) \in S /\ \A i \in S : i <= Max(S)
  BY <1>3, <1>4, <1>5, MaxOfFinite
<1> QED  BY <1>2, <1>3, <1>4, <1>5

LEMMA MetasoMax == \A S : Metaso!LastId(S) = Max(S)
BY DEF Metaso!LastId, Metaso!Max, Max

LEMMA BuzzConfirmed == \A i : Metaso!IsBuzz(i) => ~Pending(i)
BY DEF Metaso!IsBuzz, Metaso!Pending, Pending

LEMMA BuzzFixed ==
  ASSUME chain' = chain
  PROVE  \A i : /\ Metaso!IsBuzz(i)' = Metaso!IsBuzz(i)
                /\ Pending(i)' = Pending(i) /\ Pin(i)' = Pin(i)
BY DEF Metaso!IsBuzz, Metaso!Pending, Metaso!Kind, Pending, Pin

LEMMA LogOrder ==
  ASSUME chain \in Chains, LogInOrder, LogNext
  PROVE  LogInOrder' /\ stored \subseteq stored'
<1> USE DEF LogInOrder
<1>1. chain' = chain /\ Ids' = Ids /\ \A i : Pending(i)' = Pending(i)
  BY IndexKeeps DEF Ids, Pending
<1>2. ASSUME NEW b \in Blocks, StoreBlock(b) PROVE LogInOrder' /\ stored \subseteq stored'
  <2> DEFINE of(c) == {i \in Ids : chain.log[i].block = c}
  <2>1. stored' = stored \cup of(b) /\ gone' = gone
    BY <1>2 DEF StoreBlock
  <2>2. ASSUME chain.late = 0, NEW i \in Ids, NEW j \in Ids,
               ~Pending(i), ~Pending(j), i <= j, j \in stored'
        PROVE  i \in stored'
    <3>1. CASE j \in stored
      BY <2>1, <2>2, <3>1
    <3>2. CASE chain.log[j].block = b
      <4>1. /\ chain.log[i].block \in Nat \ {0} /\ b \in Nat \ {0}
            /\ ~(b < chain.log[i].block) /\ i \in Nat /\ j \in Nat
        <5>1. \A x, y \in Ids : 0 < chain.log[x].block /\ chain.log[x].block < chain.log[y].block => x < y
          BY LogAssumption DEF Ids
        <5>2. /\ chain.log[i].block \in Nat \ {0} /\ chain.log[j].block \in Nat \ {0}
              /\ i \in Nat /\ j \in Nat
          BY <2>2, IdsTyped DEF Pending
        <5> QED  BY <2>2, <3>2, <5>1, <5>2
      <4>2. CASE chain.log[i].block = b
        BY <2>1, <4>2
      <4>3. CASE chain.log[i].block < b
        <5>1. chain.log[i].block \in Blocks
          BY <4>1 DEF Blocks
        <5>2. of(chain.log[i].block) \subseteq stored
          BY <1>2, <2>2, <4>1, <4>3, <5>1 DEF StoreBlock
        <5> QED  BY <2>1, <5>2
      <4> QED  BY <4>1, <4>2, <4>3
    <3> QED  BY <2>1, <2>2, <3>1, <3>2
  <2>3. stored' \subseteq Ids'
    BY <1>1, <2>1
  <2> QED  BY <1>1, <2>1, <2>2, <2>3
<1>3. ASSUME NEW i \in Ids, Announce(i) PROVE LogInOrder' /\ stored \subseteq stored'
  BY <1>1, <1>3 DEF Announce
<1>4. ASSUME NEW i \in Ids, Discard(i) PROVE LogInOrder' /\ stored \subseteq stored'
  BY <1>1, <1>4 DEF Discard
<1>5. ASSUME NEW p \in Pins, MovePin(p) \/ RecordMove(p) PROVE LogInOrder' /\ stored \subseteq stored'
  BY <1>1, <1>5 DEF MovePin, RecordMove
<1> QED  BY <1>2, <1>3, <1>4, <1>5 DEF LogNext

LEMMA FormReading == \A at : LET r == Metaso!Reading(at)
                             IN  r = [at |-> at, pc |-> "read", batch |-> {}] /\ r.at = at /\ r.pc = "read"
BY DEF Metaso!Reading

(* A change of the step or of the batch. *)
LEMMA FormExcept ==
  ASSUME SyncForm
  PROVE  /\ \A pc : LET r == [sync EXCEPT !.pc = pc] IN
              r = [at |-> r.at, pc |-> r.pc, batch |-> r.batch]
              /\ r.at = sync.at /\ r.pc = pc /\ r.batch = sync.batch
         /\ \A pc, b : LET r == [sync EXCEPT !.pc = pc, !.batch = b] IN
              r = [at |-> r.at, pc |-> r.pc, batch |-> r.batch]
              /\ r.at = sync.at /\ r.pc = pc /\ r.batch = b
<1>1. ASSUME NEW pc, NEW b
      PROVE  /\ [sync EXCEPT !.pc = pc] = [at |-> sync.at, pc |-> pc, batch |-> sync.batch]
             /\ [sync EXCEPT !.pc = pc, !.batch = b] = [at |-> sync.at, pc |-> pc, batch |-> b]
  <2> DEFINE at == sync.at
             p == sync.pc
             s == sync.batch
             r == [at |-> at, pc |-> p, batch |-> s]
  <2>1. sync = r
    BY DEF SyncForm
  <2> HIDE DEF at, p, s
  <2>2. [r EXCEPT !.pc = pc] = [at |-> at, pc |-> pc, batch |-> s]
    OBVIOUS
  <2> DEFINE t == [at |-> at, pc |-> pc, batch |-> s]
  <2>3. [t EXCEPT !.batch = b] = [at |-> at, pc |-> pc, batch |-> b]
    OBVIOUS
  <2>4. [r EXCEPT !.pc = pc, !.batch = b] = [[r EXCEPT !.pc = pc] EXCEPT !.batch = b]
    BY SMT
  <2> QED  BY <2>1, <2>2, <2>3, <2>4 DEF at, s
<1> QED  BY <1>1

(***************************************************************************)
(* Where a step of synchronization takes it: to the next reader, to        *)
(* another step of the same, or nowhere.                                   *)
(***************************************************************************)
Stays == SyncForm' /\ (sync' = sync \/ sync'.at = sync.at \/ sync'.pc = "read")

LEMMA ReturnStays == SyncForm /\ Metaso!Return => Stays
BY FormReading DEF Metaso!Return, Stays, SyncForm

LEMMA GotoStays == \A pc : SyncForm /\ Metaso!Goto(pc) => Stays
BY FormExcept DEF Metaso!Goto, Stays, SyncForm

LEMMA BatchStays == \A pc, b : SyncForm /\ sync' = [sync EXCEPT !.pc = pc, !.batch = b] => Stays
BY FormExcept DEF Stays, SyncForm

LEMMA InitSkip == Init => SkipInv
<1> SUFFICES ASSUME Init PROVE SkipInv
  OBVIOUS
<1>1. /\ chain \in Chains /\ stored = {} /\ gone = {}
      /\ cursor = [k \in Keys |-> 0]
  BY DEF Init, LogInit
<1>2. sync.at = "fixhost" /\ fixing = "start"
  BY DEF Init, Metaso!MetasoInit, Metaso!Reading
<1>3. DOMAIN cursor = Keys /\ cursor["tweet"] = 0
  BY <1>1, KeysAssumption
<1>4. LogInOrder
  BY <1>1 DEF LogInOrder
<1>5. TweetsInv
  BY <1>1, <1>2, <1>3 DEF TweetsInv, CopiedUpTo, Metaso!At
<1>6. SyncForm
  BY FormReading DEF Init, Metaso!MetasoInit, SyncForm
<1> QED  BY <1>1, <1>3, <1>4, <1>5, <1>6 DEF SkipInv

(* Pins that are stored later have higher _ids than the tweets read. *)
LEMMA IndexSkip ==
  ASSUME SkipInv, chain.module = "metaso", Index
  PROVE  SkipInv'
<1>1. /\ chain' = chain /\ cursor' = cursor /\ UNCHANGED <<tweets, sync, fixing, marks, raced>>
      /\ chain \in Chains
  BY IndexKeeps DEF Index, metasovars, SkipInv
<1>2. LogInOrder' /\ stored \subseteq stored'
  BY LogOrder DEF Index, SkipInv
<1>3. ASSUME chain.late = 0, NEW m \in stored, ~Pending(m), NEW s, CopiedUpTo(m, s)
      PROVE  \A i \in stored' : Metaso!IsBuzz(i)' /\ i <= m => i \in s \/ Pin(i)' \in tweets'
  <2>1. stored' \subseteq Ids /\ m \in Ids
    BY <1>1, <1>2 DEF LogInOrder, Ids, SkipInv
  <2>2. ASSUME NEW i \in stored', Metaso!IsBuzz(i)', i <= m
        PROVE  i \in s \/ Pin(i)' \in tweets'
    <3>1. Metaso!IsBuzz(i) /\ ~Pending(i) /\ Pin(i)' = Pin(i)
      BY <1>1, <2>2, BuzzConfirmed, BuzzFixed
    <3>2. i \in stored
      BY <1>3, <2>1, <2>2, <3>1 DEF LogInOrder, SkipInv
    <3> QED  BY <1>1, <1>3, <2>2, <3>1, <3>2 DEF CopiedUpTo
  <2> QED  BY <2>2
<1>4. TweetBatch => Max(sync.batch) \in stored /\ ~Pending(Max(sync.batch))
  <2> SUFFICES ASSUME TweetBatch PROVE Max(sync.batch) \in stored /\ ~Pending(Max(sync.batch))
    OBVIOUS
  <2>1. sync.batch \in SUBSET Ids /\ sync.batch # {}
    BY DEF TweetBatch, LogInOrder, SkipInv
  <2>2. Max(sync.batch) \in sync.batch
    BY <1>1, <2>1, IdsTyped
  <2> QED  BY <2>2, BuzzConfirmed DEF TweetBatch
<1>5. TweetsInv'
  <2>1. /\ cursor["tweet"] # 0 => cursor["tweet"] \in stored' /\ ~Pending(cursor["tweet"])'
        /\ (sync.at = "tweet" /\ sync.pc # "read") =>
             sync.pc \in {"insert", "save"} /\ TweetBatch'
    BY <1>1, <1>2, BuzzFixed DEF TweetsInv, SkipInv, TweetBatch
  <2>2. ASSUME chain.late = 0, ~raced, Fixed
        PROVE  /\ CopiedUpTo(cursor["tweet"], {})'
               /\ Metaso!At("tweet", "insert") => CopiedUpTo(Max(sync.batch), sync.batch)'
               /\ Metaso!At("tweet", "save") => CopiedUpTo(Max(sync.batch), {})'
    <3>1. CopiedUpTo(cursor["tweet"], {})'
      <4>1. CASE cursor["tweet"] = 0
        <5>1. \A i \in stored' : ~(i <= 0)
          BY <1>1, <1>2, IdsTyped DEF LogInOrder, Ids
        <5> QED  BY <1>1, <4>1, <5>1 DEF CopiedUpTo
      <4>2. CASE cursor["tweet"] # 0
        <5>1. /\ cursor["tweet"] \in stored /\ ~Pending(cursor["tweet"])
              /\ CopiedUpTo(cursor["tweet"], {})
          BY <2>2, <4>2 DEF TweetsInv, SkipInv
        <5>2. \A i \in stored' : Metaso!IsBuzz(i)' /\ i <= cursor["tweet"] =>
                i \in {} \/ Pin(i)' \in tweets'
          BY <1>3, <2>2, <5>1
        <5> QED  BY <1>1, <5>2 DEF CopiedUpTo
      <4> QED  BY <4>1, <4>2
    <3>2. ASSUME Metaso!At("tweet", "insert") PROVE CopiedUpTo(Max(sync.batch), sync.batch)'
      BY <1>1, <1>3, <1>4, <2>2, <3>2 DEF TweetsInv, SkipInv, CopiedUpTo, Metaso!At
    <3>3. ASSUME Metaso!At("tweet", "save") PROVE CopiedUpTo(Max(sync.batch), {})'
      <4> DEFINE m == Max(sync.batch)
      <4>1. TweetBatch /\ CopiedUpTo(m, {})
        BY <2>2, <3>3 DEF TweetsInv, SkipInv, Metaso!At
      <4>2. m \in stored /\ ~Pending(m)
        BY <1>4, <4>1
      <4>3. \A i \in stored' : Metaso!IsBuzz(i)' /\ i <= m => i \in {} \/ Pin(i)' \in tweets'
        BY <1>3, <2>2, <4>1, <4>2
      <4> QED  BY <1>1, <4>3 DEF CopiedUpTo
    <3> QED  BY <3>1, <3>2, <3>3
  <2>3. fixing' \in {"cursor", "mark"} => "fixstatistics" \notin marks'
    BY <1>1 DEF TweetsInv, SkipInv
  <2> QED  BY <1>1, <2>1, <2>2, <2>3 DEF TweetsInv, Fixed, Metaso!At
<1> QED  BY <1>1, <1>2, <1>5 DEF SkipInv, SyncForm

(* A step that leaves the tweets, their cursor and synchTweet's batch alone. *)
LEMMA QuietSkip ==
  ASSUME SkipInv, chain.module = "metaso",
         UNCHANGED <<chain, stored, gone, tweets, raced, marks>>,
         DOMAIN cursor' = Keys, cursor'["tweet"] = cursor["tweet"],
         fixing' = fixing \/ fixing' \in {"start", "done"}, SyncForm',
         sync' = sync \/ sync'.at # "tweet" \/ sync'.pc = "read"
  PROVE  SkipInv'
<1>1. /\ chain \in Chains /\ LogInOrder /\ TweetsInv
      /\ \A i : /\ Metaso!IsBuzz(i)' = Metaso!IsBuzz(i)
                /\ Pending(i)' = Pending(i) /\ Pin(i)' = Pin(i)
  BY BuzzFixed DEF SkipInv
<1>2. LogInOrder'
  BY <1>1 DEF LogInOrder, Ids
<1>3. /\ CopiedUpTo(cursor["tweet"], {}) => CopiedUpTo(cursor["tweet"], {})'
      /\ cursor["tweet"]' # 0 => cursor["tweet"]' \in stored' /\ ~Pending(cursor["tweet"])'
  BY <1>1 DEF CopiedUpTo, TweetsInv, Pending
<1>4. Fixed' => Fixed
  BY DEF Fixed
<1>5. ASSUME sync' = sync, NEW s, s = {} \/ s = sync.batch,
             CopiedUpTo(Max(sync.batch), s)
      PROVE  /\ s = {} => CopiedUpTo(Max(sync.batch), {})'
             /\ s = sync.batch => CopiedUpTo(Max(sync.batch), sync.batch)'
  BY <1>1, <1>5 DEF CopiedUpTo
<1>6. TweetsInv'
  <2>1. CASE sync' = sync
    <3>1. TweetBatch' <=> TweetBatch
      BY <1>1, <2>1 DEF TweetBatch
    <3>2. ASSUME chain.late = 0, ~raced, Fixed
          PROVE  /\ CopiedUpTo(cursor["tweet"], {})'
                 /\ Metaso!At("tweet", "insert")' => CopiedUpTo(Max(sync.batch), sync.batch)'
                 /\ Metaso!At("tweet", "save")' => CopiedUpTo(Max(sync.batch), {})'
      BY <1>1, <1>3, <1>5, <2>1, <3>2 DEF TweetsInv, Metaso!At
    <3> QED  BY <1>1, <1>3, <1>4, <2>1, <3>1, <3>2 DEF TweetsInv
  <2>2. CASE sync'.at # "tweet" \/ sync'.pc = "read"
    <3>1. ~Metaso!At("tweet", "insert")' /\ ~Metaso!At("tweet", "save")'
      BY <2>2 DEF Metaso!At
    <3> QED  BY <1>1, <1>3, <1>4, <2>2, <3>1 DEF TweetsInv
  <2> QED  BY <2>1, <2>2
<1> QED  BY <1>1, <1>2, <1>6 DEF SkipInv

ReactionKeys == {"tweetlike", "metasodonate", "tweetcomment", "mempool"}

(* A step of one of the other readers. *)
ReaderStep(key) ==
  Metaso!Read(key) \/ Metaso!SaveFirst(key) \/ Metaso!Look(key) \/ Metaso!Insert(key) \/ Metaso!Count(key)

LEMMA ReaderSteps ==
  Metaso!SynchTweetLike \/ Metaso!SynchMeatsoDonate \/ Metaso!SynchTweetComment
    \/ Metaso!SynchMempoolData
  => (\E key \in ReactionKeys : ReaderStep(key)) \/ Metaso!InsertMempoolData
BY DEF Metaso!SynchTweetLike, Metaso!SynchMeatsoDonate, Metaso!SynchTweetComment, Metaso!React,
   Metaso!SynchMempoolData, ReaderStep, ReactionKeys

LEMMA ReaderSkip ==
  ASSUME SkipInv, chain.module = "metaso", NEW key \in ReactionKeys, ReaderStep(key)
  PROVE  SkipInv'
<1>1. /\ UNCHANGED <<chain, stored, gone, tweets, raced, marks, fixing>>
      /\ cursor' = cursor \/ Metaso!SaveCursor(key, Metaso!LastId(sync.batch))
      /\ sync.at = key
  BY DEF ReaderStep, Metaso!Read, Metaso!SaveFirst, Metaso!Look, Metaso!Insert, Metaso!Count,
     Metaso!logvars, Metaso!pinvars, Metaso!stores, Metaso!fixvars, Metaso!At
<1>2. Stays
  <2>1. Metaso!Return \/ (\E pc : Metaso!Goto(pc))
          \/ \E pc, b : sync' = [sync EXCEPT !.pc = pc, !.batch = b]
    BY DEF ReaderStep, Metaso!Read, Metaso!SaveFirst, Metaso!Look, Metaso!Insert, Metaso!Count
  <2> QED  BY <2>1, ReturnStays, GotoStays, BatchStays DEF SkipInv
<1>3. DOMAIN cursor' = Keys /\ cursor'["tweet"] = cursor["tweet"]
  <2>1. DOMAIN cursor = Keys /\ key # "tweet" /\ "tweet" \in Keys
    BY KeysAssumption DEF SkipInv, ReactionKeys
  <2> QED  BY <1>1, <2>1 DEF Metaso!SaveCursor
<1> QED  BY <1>1, <1>2, <1>3, QuietSkip DEF Stays, ReactionKeys

(* Steps of the other goroutines, and of synchronization on its way past the tweets. *)
LEMMA PassingSkip ==
  ASSUME SkipInv, chain.module = "metaso",
         \/ Metaso!SyncHostData \/ Metaso!SyncMrc20TickData \/ Metaso!InsertMempoolData
         \/ Metaso!DeleteMetaSoMempool \/ Metaso!MetasoCrash
  PROVE  SkipInv'
<1>1. /\ UNCHANGED <<chain, stored, gone, tweets, raced, marks, cursor>>
      /\ fixing' = fixing \/ fixing' = "start"
  BY DEF Metaso!SyncHostData, Metaso!SyncMrc20TickData, Metaso!InsertMempoolData,
     Metaso!DeleteMetaSoMempool, Metaso!MetasoCrash, Metaso!LogCrash,
     Metaso!logvars, Metaso!pinvars, Metaso!stores, Metaso!fixvars
<1>2. SyncForm' /\ (sync' = sync \/ sync'.pc = "read")
  <2>1. Metaso!Return \/ sync' = sync \/ sync' = Metaso!Reading("fixhost")
    BY DEF Metaso!SyncHostData, Metaso!SyncMrc20TickData, Metaso!InsertMempoolData,
       Metaso!DeleteMetaSoMempool, Metaso!MetasoCrash
  <2> QED  BY <2>1, FormReading DEF Metaso!Return, SyncForm, SkipInv
<1> QED  BY <1>1, <1>2, QuietSkip DEF SkipInv

(* Nothing is at or below a cursor of 0. *)
LEMMA CopiedNone ==
  ASSUME chain \in Chains, LogInOrder
  PROVE  \A s : CopiedUpTo(0, s)
<1>1. \A i \in stored : ~(i <= 0)
  BY IdsTyped DEF LogInOrder
<1> QED  BY <1>1 DEF CopiedUpTo

LEMMA CursorReset ==
  ASSUME SkipInv, chain.module = "metaso"
  PROVE  /\ \A id : Metaso!SaveCursor("tweet", id) => DOMAIN cursor' = Keys /\ cursor'["tweet"] = id
         /\ \A id : id \in stored => id # 0
<1>1. DOMAIN cursor = Keys /\ "tweet" \in Keys
  BY KeysAssumption DEF SkipInv
<1>2. \A id : id \in stored => id # 0
  BY IdsTyped DEF LogInOrder, SkipInv
<1> QED  BY <1>1, <1>2 DEF Metaso!SaveCursor

LEMMA FixSkip ==
  ASSUME SkipInv, chain.module = "metaso", Metaso!FixHost \/ Metaso!FixStatistics
  PROVE  SkipInv'
<1>1. /\ UNCHANGED <<chain, stored, gone>> /\ chain \in Chains
      /\ SyncForm /\ DOMAIN cursor = Keys /\ LogInOrder /\ TweetsInv
  BY MetasoKeeps DEF Metaso!MetasoNext, Metaso!Synchronization, SkipInv
<1>2. LogInOrder' /\ \A i : /\ Metaso!IsBuzz(i)' = Metaso!IsBuzz(i)
                            /\ Pending(i)' = Pending(i) /\ Pin(i)' = Pin(i)
  BY <1>1, BuzzFixed DEF LogInOrder, Ids
<1>3. CASE Metaso!FixHost
  <2>1. /\ sync'.at = "tweet" /\ sync'.pc = "read" /\ SyncForm'
        /\ UNCHANGED <<fixing, raced>> /\ marks' = marks \cup {"fixhost"} /\ sync.at = "fixhost"
    BY <1>3, FormReading DEF Metaso!FixHost, SyncForm
  <2>2. Fixed' <=> Fixed
    BY <2>1 DEF Fixed
  <2>3. CASE UNCHANGED <<tweets, cursor>>
    <3>1. CopiedUpTo(cursor["tweet"], {}) => CopiedUpTo(cursor["tweet"], {})'
      BY <1>1, <1>2, <2>3 DEF CopiedUpTo
    <3>2. TweetsInv'
      BY <1>1, <1>2, <2>1, <2>2, <2>3, <3>1 DEF TweetsInv, Metaso!At
    <3> QED  BY <1>1, <1>2, <2>1, <2>3, <3>2 DEF SkipInv
  <2>4. CASE tweets' = {} /\ Metaso!SaveCursor("tweet", 0)
    <3>1. DOMAIN cursor' = Keys /\ cursor'["tweet"] = 0
      BY <2>4, CursorReset
    <3>2. CopiedUpTo(cursor["tweet"], {})'
      <4>1. \A i \in stored' : ~(i <= 0)
        BY <1>1, IdsTyped DEF LogInOrder
      <4> QED  BY <3>1, <4>1 DEF CopiedUpTo
    <3>3. TweetsInv'
      BY <1>1, <2>1, <3>1, <3>2 DEF TweetsInv, Metaso!At
    <3> QED  BY <1>1, <1>2, <2>1, <3>1, <3>3 DEF SkipInv
  <2> QED  BY <1>3, <2>3, <2>4 DEF Metaso!FixHost, Metaso!DeleteTweets
<1>4. CASE Metaso!FixTweets
  <2>1. /\ UNCHANGED <<cursor, sync, marks, raced>> /\ SyncForm'
    BY <1>1, <1>4 DEF Metaso!FixTweets, Metaso!logvars, SyncForm
  <2>2. CASE fixing' = "done" /\ tweets' = tweets
    BY <1>1, <2>1, <2>2, QuietSkip
  <2>3. CASE "fixstatistics" \notin marks /\ fixing' = "cursor"
    <3>1. ~Fixed'
      BY <2>1, <2>3 DEF Fixed
    <3>2. TweetsInv'
      BY <1>1, <1>2, <2>1, <2>3, <3>1 DEF TweetsInv, TweetBatch
    <3> QED  BY <1>1, <1>2, <2>1, <3>2 DEF SkipInv
  <2> QED  BY <1>4, <2>2, <2>3 DEF Metaso!FixTweets
<1>5. CASE Metaso!FixCursor
  <2>1. /\ UNCHANGED <<tweets, sync, marks>> /\ SyncForm' /\ fixing = "cursor"
        /\ DOMAIN cursor' = Keys /\ cursor'["tweet"] = 0
        /\ raced' = (raced \/ (sync.at = "tweet" /\ sync.pc # "read"))
    BY <1>1, <1>5, CursorReset DEF Metaso!FixCursor, Metaso!stores, SyncForm
  <2>2. CopiedUpTo(cursor["tweet"], {})'
    <3>1. \A i \in stored' : ~(i <= 0)
      BY <1>1, IdsTyped DEF LogInOrder
    <3> QED  BY <2>1, <3>1 DEF CopiedUpTo
  <2>3. TweetsInv'
    BY <1>1, <1>2, <2>1, <2>2 DEF TweetsInv, TweetBatch, Metaso!At
  <2> QED  BY <1>1, <1>2, <2>1, <2>3 DEF SkipInv
<1>6. CASE Metaso!FixMark
  <2>1. /\ UNCHANGED <<tweets, cursor, sync, raced>> /\ SyncForm'
        /\ fixing = "mark" /\ fixing' = "done"
    BY <1>1, <1>6 DEF Metaso!FixMark, Metaso!logvars, Metaso!stores, SyncForm
  <2>2. Fixed
    BY <2>1 DEF Fixed
  <2>3. \A m, s : CopiedUpTo(m, s) <=> \A i \in stored' : Metaso!IsBuzz(i)' /\ i <= m => i \in s \/ Pin(i)' \in tweets'
    BY <1>1, <1>2, <2>1 DEF CopiedUpTo
  <2>4. TweetsInv'
    BY <1>1, <1>2, <2>1, <2>2, <2>3 DEF TweetsInv, TweetBatch, Metaso!At, CopiedUpTo
  <2> QED  BY <1>1, <1>2, <2>1, <2>4 DEF SkipInv
<1> QED  BY <1>3, <1>4, <1>5, <1>6 DEF Metaso!FixStatistics

(* synchTweet's find: every buzz above the cursor. *)
LEMMA ReadSkip ==
  ASSUME SkipInv, chain.module = "metaso", Metaso!ReadTweets
  PROVE  SkipInv'
<1>1. /\ UNCHANGED <<chain, stored, gone, tweets, raced, marks, cursor, fixing>> /\ chain \in Chains
      /\ SyncForm /\ DOMAIN cursor = Keys /\ LogInOrder /\ TweetsInv
      /\ sync.at = "tweet" /\ sync.pc = "read"
  BY DEF Metaso!ReadTweets, Metaso!logvars, Metaso!pinvars, Metaso!stores, Metaso!fixvars,
     Metaso!At, SkipInv
<1> DEFINE docs == {i \in Metaso!Above("tweet") : Metaso!IsBuzz(i)}
<1>2. CASE docs = {}
  <2>1. Metaso!Return
    BY <1>2 DEF Metaso!ReadTweets
  <2>2. SyncForm' /\ sync'.pc = "read"
    BY <2>1, FormReading DEF Metaso!Return, SyncForm
  <2> QED  BY <1>1, <2>2, QuietSkip
<1>3. CASE docs # {}
  <2>1. /\ SyncForm' /\ sync'.at = "tweet" /\ sync'.pc = "insert" /\ sync'.batch = docs
    <3>1. sync' = [sync EXCEPT !.pc = "insert", !.batch = docs]
      BY <1>3 DEF Metaso!ReadTweets
    <3> HIDE DEF docs
    <3> QED  BY <1>1, <3>1, FormExcept DEF SyncForm
  <2>2. /\ \A i : Metaso!IsBuzz(i)' = Metaso!IsBuzz(i)
        /\ \A i : Pending(i)' = Pending(i) /\ Pin(i)' = Pin(i)
        /\ \A i : Metaso!IsBuzz(i) => ~Pending(i)
        /\ LogInOrder' /\ (Fixed' <=> Fixed)
    BY <1>1, BuzzFixed, BuzzConfirmed DEF LogInOrder, Ids, Fixed
  <2>3. docs \subseteq stored /\ \A i \in docs : Metaso!IsBuzz(i)
    BY DEF Metaso!Above
  <2>4. ASSUME CopiedUpTo(cursor["tweet"], {}) PROVE CopiedUpTo(Max(docs), docs)
    <3>1. cursor["tweet"] \in Nat /\ stored \subseteq Nat
      BY <1>1, IdsTyped DEF TweetsInv, LogInOrder
    <3>2. ASSUME NEW i \in stored, Metaso!IsBuzz(i) PROVE i \in docs \/ Pin(i) \in tweets
      <4>1. CASE i <= cursor["tweet"]
        BY <2>4, <3>2, <4>1 DEF CopiedUpTo
      <4>2. CASE i > cursor["tweet"]
        BY <1>1, <2>2, <3>2, <4>2 DEF Metaso!Above, LogInOrder
      <4> QED  BY <3>1, <4>1, <4>2
    <3> HIDE DEF docs
    <3> QED  BY <3>2 DEF CopiedUpTo
  <2> HIDE DEF docs
  <2>5. TweetBatch'
    BY <1>1, <1>3, <2>1, <2>2, <2>3 DEF TweetBatch
  <2>6. ASSUME NEW m, NEW s, CopiedUpTo(m, s)
        PROVE  \A i \in stored' : Metaso!IsBuzz(i)' /\ i <= m => i \in s \/ Pin(i)' \in tweets'
    BY <1>1, <2>2, <2>6 DEF CopiedUpTo
  <2>7. ASSUME chain.late = 0, ~raced, Fixed
        PROVE  CopiedUpTo(cursor["tweet"], {})' /\ CopiedUpTo(Max(sync.batch), sync.batch)'
    <3>1. CopiedUpTo(cursor["tweet"], {}) /\ CopiedUpTo(Max(docs), docs)
      BY <1>1, <2>4, <2>7 DEF TweetsInv
    <3>2. CopiedUpTo(cursor["tweet"], {})'
      <4>1. \A i \in stored' : Metaso!IsBuzz(i)' /\ i <= cursor["tweet"] =>
              i \in {} \/ Pin(i)' \in tweets'
        BY <2>6, <3>1
      <4> QED  BY <1>1, <4>1 DEF CopiedUpTo
    <3>3. CopiedUpTo(Max(sync.batch), sync.batch)'
      BY <1>1, <2>1, <2>6, <3>1 DEF CopiedUpTo
    <3> QED  BY <3>2, <3>3
  <2>8. TweetsInv'
    BY <1>1, <2>1, <2>2, <2>5, <2>7 DEF TweetsInv, Metaso!At
  <2> QED  BY <1>1, <2>1, <2>2, <2>8 DEF SkipInv
<1> QED  BY <1>2, <1>3

(* The insert leaves nothing of the batch out, whichever way it ends. *)
LEMMA InsertSkip ==
  ASSUME SkipInv, chain.module = "metaso", Metaso!InsertTweets
  PROVE  SkipInv'
<1>1. /\ UNCHANGED <<chain, stored, gone, raced, marks, cursor, fixing>> /\ chain \in Chains
      /\ SyncForm /\ DOMAIN cursor = Keys /\ LogInOrder /\ TweetsInv
      /\ sync.at = "tweet" /\ sync.pc = "insert" /\ Metaso!At("tweet", "insert")
      /\ tweets' = tweets \cup {Pin(i) : i \in sync.batch}
      /\ Metaso!Return \/ Metaso!Goto("save")
  BY DEF Metaso!InsertTweets, Metaso!logvars, Metaso!pinvars, Metaso!fixvars, Metaso!At, SkipInv,
     Metaso!Pin, Pin
<1>2. /\ \A i : Metaso!IsBuzz(i)' = Metaso!IsBuzz(i)
      /\ \A i : Pending(i)' = Pending(i) /\ Pin(i)' = Pin(i)
      /\ LogInOrder' /\ (Fixed' <=> Fixed)
  BY <1>1, BuzzFixed DEF LogInOrder, Ids, Fixed
<1>3. ASSUME NEW m, NEW s, CopiedUpTo(m, s), s \subseteq sync.batch
      PROVE  \A i \in stored' : Metaso!IsBuzz(i)' /\ i <= m => i \in {} \/ Pin(i)' \in tweets'
  BY <1>1, <1>2, <1>3 DEF CopiedUpTo
<1>4. (chain.late = 0 /\ ~raced /\ Fixed) => CopiedUpTo(cursor["tweet"], {})'
  BY <1>1, <1>3 DEF TweetsInv, CopiedUpTo
<1>5. CASE Metaso!Return
  <2>1. SyncForm' /\ sync'.pc = "read"
    BY <1>5, FormReading DEF Metaso!Return, SyncForm
  <2>2. TweetsInv'
    BY <1>1, <1>2, <1>4, <2>1 DEF TweetsInv, Metaso!At
  <2> QED  BY <1>1, <1>2, <2>1, <2>2 DEF SkipInv
<1>6. CASE Metaso!Goto("save")
  <2>1. SyncForm' /\ sync'.at = "tweet" /\ sync'.pc = "save" /\ sync'.batch = sync.batch
    BY <1>1, <1>6, FormExcept DEF Metaso!Goto, SyncForm
  <2>2. TweetBatch'
    BY <1>1, <1>2, <2>1 DEF TweetBatch, TweetsInv
  <2>3. (chain.late = 0 /\ ~raced /\ Fixed) => CopiedUpTo(Max(sync.batch), {})'
    BY <1>1, <1>3, <2>1 DEF TweetsInv, CopiedUpTo
  <2>4. TweetsInv'
    BY <1>1, <1>2, <1>4, <2>1, <2>2, <2>3 DEF TweetsInv, Metaso!At
  <2> QED  BY <1>1, <1>2, <2>1, <2>4 DEF SkipInv
<1> QED  BY <1>1, <1>5, <1>6

(* The cursor comes to the last of the batch. *)
LEMMA CursorSkip ==
  ASSUME SkipInv, chain.module = "metaso", Metaso!SaveTweetCursor
  PROVE  SkipInv'
<1>1. /\ UNCHANGED <<chain, stored, gone, tweets, raced, marks, fixing>> /\ chain \in Chains
      /\ LogInOrder /\ TweetsInv /\ Metaso!At("tweet", "save") /\ TweetBatch
      /\ Metaso!Return /\ Metaso!SaveCursor("tweet", Max(sync.batch))
  BY MetasoMax DEF Metaso!SaveTweetCursor, Metaso!logvars, Metaso!pinvars, Metaso!stores,
     Metaso!fixvars, Metaso!At, SkipInv, TweetsInv
<1>2. /\ \A i : Metaso!IsBuzz(i)' = Metaso!IsBuzz(i)
      /\ \A i : Pending(i)' = Pending(i) /\ Pin(i)' = Pin(i)
      /\ LogInOrder' /\ (Fixed' <=> Fixed)
  BY <1>1, BuzzFixed DEF LogInOrder, Ids, Fixed
<1>3. SyncForm' /\ sync'.pc = "read"
  BY <1>1, FormReading DEF Metaso!Return, SyncForm
<1>4. DOMAIN cursor' = Keys /\ cursor'["tweet"] = Max(sync.batch)
  BY <1>1, CursorReset
<1>5. Max(sync.batch) \in stored /\ ~Pending(Max(sync.batch))
  <2>1. sync.batch \in SUBSET Ids /\ sync.batch # {}
    BY <1>1 DEF TweetBatch, LogInOrder
  <2>2. Max(sync.batch) \in sync.batch
    BY <1>1, <2>1, IdsTyped
  <2> QED  BY <1>1, <2>2, BuzzConfirmed DEF TweetBatch
<1>6. (chain.late = 0 /\ ~raced /\ Fixed) => CopiedUpTo(cursor["tweet"], {})'
  <2>1. (chain.late = 0 /\ ~raced /\ Fixed) => CopiedUpTo(Max(sync.batch), {})
    BY <1>1 DEF TweetsInv
  <2> QED  BY <1>1, <1>2, <1>4, <2>1 DEF CopiedUpTo
<1>7. TweetsInv'
  BY <1>1, <1>2, <1>3, <1>4, <1>5, <1>6 DEF TweetsInv, Metaso!At
<1> QED  BY <1>1, <1>2, <1>3, <1>4, <1>7 DEF SkipInv

LEMMA NextSkip == SkipInv /\ [Next]_vars => SkipInv'
<1> SUFFICES ASSUME SkipInv, [Next]_vars PROVE SkipInv'
  OBVIOUS
<1>1. chain' = chain /\ chain \in Chains
  BY ChainKept DEF SkipInv
<1>2. CASE chain.module # "metaso"
  BY <1>1, <1>2 DEF SkipInv
<1>3. CASE UNCHANGED vars /\ chain.module = "metaso"
  <2>1. UNCHANGED <<chain, stored, gone, tweets, raced, marks, cursor, fixing, sync>>
    BY <1>3 DEF vars, logvars, pinvars, metasovars
  <2> QED  BY <1>3, <2>1, QuietSkip DEF SkipInv, SyncForm
<1>4. CASE Index /\ chain.module = "metaso"
  BY <1>4, IndexSkip
<1>5. CASE SyncMetaso
  <2>1. Metaso!MetasoNext /\ chain.module = "metaso"
    BY <1>5 DEF SyncMetaso
  <2>2. CASE Metaso!FixHost \/ Metaso!FixStatistics
    BY <2>1, <2>2, FixSkip
  <2>3. CASE Metaso!ReadTweets \/ Metaso!InsertTweets \/ Metaso!SaveTweetCursor
    BY <2>1, <2>3, ReadSkip, InsertSkip, CursorSkip
  <2>4. CASE Metaso!SynchTweetLike \/ Metaso!SynchMeatsoDonate \/ Metaso!SynchTweetComment
               \/ Metaso!SynchMempoolData
    BY <2>1, <2>4, ReaderSteps, ReaderSkip, PassingSkip
  <2>5. CASE \/ Metaso!SyncHostData \/ Metaso!SyncMrc20TickData
             \/ Metaso!DeleteMetaSoMempool \/ Metaso!MetasoCrash
    BY <2>1, <2>5, PassingSkip
  <2> QED  BY <2>1, <2>2, <2>3, <2>4, <2>5 DEF Metaso!MetasoNext, Metaso!Synchronization
<1> QED  BY <1>2, <1>3, <1>4, <1>5
         DEF Next, SyncName, SyncNft, SyncValue, HandleAccess

(***************************************************************************)
(* The cursor of the tweets never passes a buzz that is not a tweet, for   *)
(* any log and any number of crashes.                                      *)
(***************************************************************************)
THEOREM TweetsComplete == Spec => []NothingSkipped
<1>1. SkipInv => NothingSkipped
  BY DEF SkipInv, TweetsInv, NothingSkipped, Metaso!NothingSkipped, Fixed, CopiedUpTo,
     Metaso!Pin, Pin
<1> QED  BY <1>1, InitSkip, NextSkip, PTL DEF Spec
=============================================================================

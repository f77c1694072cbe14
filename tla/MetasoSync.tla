----------------------------- MODULE MetasoSync -----------------------------
(***************************************************************************)
(* The metaso module: one goroutine (Synchronization) copies buzzes,       *)
(* likes, donations, comments and mempool pins out of the pin collections, *)
(* over and over; another one (SyncPEV) begins by deleting tweets it wants *)
(* to have read again (basicprotocols/metaso).                             *)
(*                                                                         *)
(* A document of the log has a kind, the pin it is about (to), and whether *)
(* it is of the host the node is limited to (OnlyHost) and can be parsed.  *)
(***************************************************************************)
EXTENDS PinLog

CONSTANTS Limit   \* of a find, 500

VARIABLES
  tweets,       \* metaso_tweet, by pin
  reactions,    \* metaso_tweet_like, metaso_donate_data, metaso_sync_comment, by pin
  counted,      \* how often a reaction is part of the counts of its tweet, up to 2
  mempoolData,  \* metaso_mempool, by pin
  hosts,        \* host_data, by height
  copied,       \* metaso_tick: the mrc20 ticks copied
  sync,         \* Synchronization: the reader at work, its step, its batch
  fixing,       \* SyncPEV: where fixStatistics is
  marks,        \* the markers fixhost and fixstatistics
  raced         \* history: tweets were deleted while others were being written

metasovars == <<tweets, reactions, counted, mempoolData, hosts, copied, sync, fixing, marks, raced>>

stores == <<tweets, reactions, counted, mempoolData, hosts, copied>>
fixvars == <<fixing, marks, raced>>

Kind(i) == chain.log[i].kind

To(i) == chain.log[i].to

Reactions == {"tweetlike", "metasodonate", "tweetcomment"}

(* The paths each reader asks for: DataFilter, and the protocols. *)
KindsOf(key) ==
  CASE key = "tweet" -> {"buzz"}
    [] key = "tweetlike" -> {"like", "unlike"}
    [] key = "metasodonate" -> {"donate"}
    [] key = "tweetcomment" -> {"comment"}
    [] key = "mempool" -> {"like", "unlike", "donate", "comment", "follow"}

(* What synchTweet copies. *)
IsBuzz(i) == Kind(i) = "buzz" /\ chain.log[i].host /\ ~Pending(i)

(* The order of the calls in Synchronization. *)
Order == <<"tweet", "tweetlike", "metasodonate", "tweetcomment", "host", "tick", "mempool">>

After(at) ==
  LET i == CHOOSE i \in DOMAIN Order : Order[i] = at IN Order[(i % Len(Order)) + 1]

Reading(at) == [at |-> at, pc |-> "read", batch |-> {}]

At(key, pc) == sync.at = key /\ sync.pc = pc

Goto(pc) == sync' = [sync EXCEPT !.pc = pc]

Return == sync' = Reading(After(sync.at))

----------------------------------------------------------------------------
(* fixHost and fixStatistics: once each, after an upgrade. *)

DeleteTweets ==
  /\ tweets' = {}
  /\ counted' = [p \in DOMAIN counted |-> 0]

FixHost ==
  /\ sync.at = "fixhost"
  /\ IF "fixhost" \in marks
     THEN UNCHANGED <<tweets, counted, cursor>>
     ELSE DeleteTweets /\ SaveCursor("tweet", 0)
  /\ marks' = marks \cup {"fixhost"}
  /\ sync' = Reading("tweet")
  /\ UNCHANGED <<pinvars, crashes, reactions, mempoolData, hosts, copied, fixing, raced>>

(* DeleteMany of the tweets, DeleteOne of the cursor, and the marker. *)
FixTweets ==
  /\ fixing = "start"
  /\ IF "fixstatistics" \in marks
     THEN fixing' = "done" /\ UNCHANGED <<tweets, counted>>
     ELSE fixing' = "cursor" /\ DeleteTweets
  /\ UNCHANGED <<logvars, reactions, mempoolData, hosts, copied, sync, marks, raced>>

FixCursor ==
  /\ fixing = "cursor"
  /\ SaveCursor("tweet", 0)
  /\ fixing' = "mark"
  /\ raced' = (raced \/ (sync.at = "tweet" /\ sync.pc # "read"))
  /\ UNCHANGED <<pinvars, crashes, stores, sync, marks>>

FixMark ==
  /\ fixing = "mark"
  /\ marks' = marks \cup {"fixstatistics"}
  /\ fixing' = "done"
  /\ UNCHANGED <<logvars, stores, sync, raced>>

----------------------------------------------------------------------------
(* synchTweet: no limit; the cursor is saved last. *)

ReadTweets ==
  /\ At("tweet", "read")
  /\ LET docs == {i \in Above("tweet") : IsBuzz(i)} IN
     IF docs = {} THEN Return
     ELSE sync' = [sync EXCEPT !.pc = "insert", !.batch = docs]
  /\ UNCHANGED <<logvars, stores, fixvars>>

(* Mutation of InsertTweets: ordered, nothing after a duplicate. *)
InsertTweetsOrdered ==
  /\ At("tweet", "insert")
  /\ LET twice == {i \in sync.batch : Pin(i) \in tweets} IN
     /\ tweets' = tweets \cup {Pin(i) : i \in {i \in sync.batch : \A j \in twice : i < j}}
     /\ IF twice = {} THEN Goto("save") ELSE Return
  /\ UNCHANGED <<logvars, reactions, counted, mempoolData, hosts, copied, fixvars>>

(* Unordered: a duplicate is an error, but the other documents are there. *)
InsertTweets ==
  /\ At("tweet", "insert")
  /\ tweets' = tweets \cup {Pin(i) : i \in sync.batch}
  /\ IF \E i \in sync.batch : Pin(i) \in tweets THEN Return ELSE Goto("save")
  /\ UNCHANGED <<logvars, reactions, counted, mempoolData, hosts, copied, fixvars>>

(* Mutation of SaveTweetCursor: the newest buzz at this moment. *)
SaveNewestTweet ==
  /\ At("tweet", "save")
  /\ SaveCursor("tweet", LastId({i \in stored : IsBuzz(i)}))
  /\ Return
  /\ UNCHANGED <<pinvars, crashes, stores, fixvars>>

SaveTweetCursor ==
  /\ At("tweet", "save")
  /\ SaveCursor("tweet", LastId(sync.batch))
  /\ Return
  /\ UNCHANGED <<pinvars, crashes, stores, fixvars>>

----------------------------------------------------------------------------
(* Likes, donations and comments: the cursor is saved first. *)

(* getLastPayLike, getLastDonate, getLastPayComment, getLastMempoolData. *)
Batch(key) ==
  Lowest({i \in Above(key) : Kind(i) \in KindsOf(key) /\ (Pending(i) <=> key = "mempool")}, Limit)

Read(key) ==
  /\ At(key, "read")
  /\ IF Batch(key) = {} THEN Return
     ELSE sync' = [sync EXCEPT !.pc = "save", !.batch = Batch(key)]
  /\ UNCHANGED <<logvars, stores, fixvars>>

SaveFirst(key) ==
  /\ At(key, "save")
  /\ SaveCursor(key, LastId(sync.batch))
  /\ Goto("look")
  /\ UNCHANGED <<pinvars, crashes, stores, fixvars>>

(* getSynchTweetLike and the like: those that can be parsed and are about a tweet. *)
Look(key) ==
  /\ At(key, "look")
  /\ LET found == {i \in sync.batch : chain.log[i].ok /\ To(i) \in tweets} IN
     IF found = {} THEN Return
     ELSE sync' = [sync EXCEPT !.pc = "insert", !.batch = found]
  /\ UNCHANGED <<logvars, stores, fixvars>>

(* The deletion of the unlikes matches nothing; unlikes are not inserted. *)
Insert(key) ==
  /\ At(key, "insert")
  /\ LET new == {Pin(i) : i \in {i \in sync.batch : Kind(i) # "unlike"}} IN
     /\ reactions' = reactions \cup new
     /\ IF new \cap reactions = {} THEN Goto("count") ELSE Return
  /\ UNCHANGED <<logvars, tweets, counted, mempoolData, hosts, copied, fixvars>>

(* $inc of the tweets that are there. *)
Count(key) ==
  /\ At(key, "count")
  /\ counted' = [p \in DOMAIN counted |->
       IF \E i \in sync.batch : Pin(i) = p /\ To(i) \in tweets
       THEN IF counted[p] = 0 THEN 1 ELSE 2 ELSE counted[p]]
  /\ Return
  /\ UNCHANGED <<logvars, tweets, reactions, mempoolData, hosts, copied, fixvars>>

React(key) == Read(key) \/ SaveFirst(key) \/ Look(key) \/ Insert(key) \/ Count(key)

SynchTweetLike == React("tweetlike")

SynchMeatsoDonate == React("metasodonate")

SynchTweetComment == React("tweetcomment")

----------------------------------------------------------------------------
(* The other readers. *)

(* getPinMinHeight: the next height that has pins with a host. *)
PinMinHeight(h) ==
  LET above == {chain.log[i].block : i \in {i \in stored : chain.log[i].block > h}}
  IN  IF above = {} THEN 0 ELSE Min(above)

SyncHeight == LET h == Max({0} \cup hosts) IN <<PinMinHeight(h), h>>

(* The second of the two results is used, the height that is there already. *)
SyncHostData ==
  /\ sync.at = "host"
  /\ hosts' = IF SyncHeight[2] <= 0 THEN hosts ELSE hosts \cup {SyncHeight[2]}
  /\ Return
  /\ UNCHANGED <<logvars, tweets, reactions, counted, mempoolData, copied, fixvars>>

(* The _id of the last tick copied is no hexadecimal number: only one batch is copied. *)
SyncMrc20TickData ==
  /\ sync.at = "tick"
  /\ \E n \in 0..chain.ticks :
       copied' = IF copied # {} THEN copied ELSE Lowest(1..n, Limit)
  /\ Return
  /\ UNCHANGED <<logvars, tweets, reactions, counted, mempoolData, hosts, fixvars>>

InsertMempoolData ==
  /\ At("mempool", "look")
  /\ mempoolData' = mempoolData \cup {Pin(i) : i \in {i \in sync.batch : chain.log[i].ok}}
  /\ Return
  /\ UNCHANGED <<logvars, tweets, reactions, counted, hosts, copied, fixvars>>

SynchMempoolData == Read("mempool") \/ SaveFirst("mempool") \/ InsertMempoolData

(* deleteMetaSoMempool, a goroutine of its own beside the deletion of the pins. *)
DeleteMetaSoMempool ==
  /\ \E i \in stored :
       /\ ~Pending(i) /\ Pin(i) \in mempoolData
       /\ \E j \in stored \ gone : Pending(j) /\ Pin(j) = Pin(i)
       /\ mempoolData' = mempoolData \ {Pin(i)}
  /\ UNCHANGED <<logvars, tweets, reactions, counted, hosts, copied, sync, fixvars>>

----------------------------------------------------------------------------
MetasoInit ==
  /\ tweets = {} /\ reactions = {} /\ mempoolData = {}
  /\ counted = [p \in {Pin(i) : i \in Ids} |-> 0]
  /\ hosts = {} /\ copied = {}
  /\ sync = Reading("fixhost")
  /\ fixing = "start" /\ marks = chain.marks /\ raced = FALSE

MetasoCrash ==
  /\ LogCrash
  /\ sync' = Reading("fixhost")
  /\ fixing' = "start"
  /\ UNCHANGED <<stores, marks, raced>>

Synchronization ==
  \/ FixHost
  \/ ReadTweets \/ InsertTweets \/ SaveTweetCursor
  \/ SynchTweetLike \/ SynchMeatsoDonate \/ SynchTweetComment
  \/ SyncHostData \/ SyncMrc20TickData \/ SynchMempoolData

FixStatistics == FixTweets \/ FixCursor \/ FixMark

MetasoNext == Synchronization \/ FixStatistics \/ DeleteMetaSoMempool \/ MetasoCrash

MetasoTypeOK ==
  LET pins == {Pin(i) : i \in Ids} IN
  /\ tweets \subseteq pins /\ reactions \subseteq pins /\ mempoolData \subseteq pins
  /\ counted \in [pins -> 0..2]
  /\ hosts \subseteq Blocks /\ copied \subseteq 1..chain.ticks
  /\ sync.at \in {Order[i] : i \in DOMAIN Order} \cup {"fixhost"} /\ sync.batch \subseteq Ids
  /\ sync.pc \in {"read", "insert", "save", "look", "count"}
  /\ fixing \in {"start", "cursor", "mark", "done"}
  /\ marks \subseteq {"fixhost", "fixstatistics"} /\ raced \in BOOLEAN

(***************************************************************************)
(* Once the upgrade has run, the cursor of the tweets never passes a buzz  *)
(* that is not stored as a tweet, through crashes and duplicates; unless   *)
(* inserts overtook each other, or fixStatistics hit synchTweet between    *)
(* its find and its cursor (data.go:116-165, 56-90).                       *)
(***************************************************************************)
NothingSkipped ==
  chain.module = "metaso" /\ chain.late = 0 /\ ~raced /\ "fixstatistics" \in marks =>
    \A i \in stored : IsBuzz(i) /\ i <= cursor["tweet"] => Pin(i) \in tweets

(* What a reaction or mempool pin has come to, for LogReader. *)
Entries == UNION {DOMAIN c.log : c \in Chains}

IsEntry(i) ==
  /\ chain.module = "metaso" /\ i \in Ids
  /\ Kind(i) \in IF Pending(i) THEN KindsOf("mempool") ELSE UNION {KindsOf(key) : key \in Reactions}

KeyOf(i) == IF Pending(i) THEN "mempool" ELSE CHOOSE key \in Reactions : Kind(i) \in KindsOf(key)

Taken(i) == IF Pending(i) THEN IF Pin(i) \in mempoolData THEN 1 ELSE 0 ELSE counted[Pin(i)]

Claimed(i) == sync.at = KeyOf(i) /\ sync.pc \in {"look", "insert", "count"} /\ i \in sync.batch

FateOf(i) ==
  CASE ~IsEntry(i) -> "unread"
    [] IsEntry(i) /\ Taken(i) = 2 -> "twice"
    [] IsEntry(i) /\ Taken(i) = 1 -> "done"
    [] IsEntry(i) /\ Taken(i) = 0 ->
         IF Claimed(i) THEN "claimed" ELSE IF i <= cursor[KeyOf(i)] THEN "lost" ELSE "unread"

Reader == INSTANCE LogReader WITH fate <- [i \in Entries |-> FateOf(i)]

(***************************************************************************)
(* A reaction is added to the counts of its tweet at most once, and a      *)
(* mempool pin is listed at most once, whatever crashes lose: the readers  *)
(* implement LogReader (sync_like.go:79, sync_donate.go:93,                *)
(* sync_comment.go:75, sync_mempool.go:45).                                *)
(***************************************************************************)
AtMostOnce == Reader!Spec

(***************************************************************************)
(* Every buzz stored comes to be a tweet and stays one, even when a crash  *)
(* between the insert and the cursor makes every later round meet the same *)
(* duplicates and fail (data.go:157-163).                                  *)
(***************************************************************************)
TweetsArrive ==
  <>[](chain.module = "metaso" /\ chain.late = 0 /\ ~raced =>
         \A i \in stored : IsBuzz(i) => Pin(i) \in tweets)
=============================================================================

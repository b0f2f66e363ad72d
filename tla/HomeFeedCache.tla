---------------------------- MODULE HomeFeedCache ----------------------------
(***************************************************************************)
(* The home feed of one language and district, which two caches keep: L1,  *)
(* the map in the process (30 s), and L2, Redis (5 min).  Readers fill     *)
(* them, one of them generating the feed for all (singleflight); edits     *)
(* clear L1 at once and L2 from a goroutine.  The feeds of other languages *)
(* and districts share nothing with this one but those clears.             *)
(*                                                                         *)
(* Most edits clear the caches before their transaction commits            *)
(* (transaction.go commits after the handler), the homepage sections after *)
(* it, some not at all.                                                    *)
(***************************************************************************)
EXTENDS Naturals

CONSTANTS
  Reader,      \* requests for the feed under way at one time
  Editor,      \* requests under way that change what the feed is made of
  Nobody,      \* nobody generates the feed
  L1TTL,       \* ticks an L1 entry lives (30 s)
  L2TTL,       \* ticks an L2 entry lives (5 min)
  MaxVersion,  \* bound: commits that change what the feed is made of
  MaxPurges    \* bound: goroutines that clear L2 at one time

ASSUME CacheAssumption ==
  /\ Nobody \notin Reader
  /\ L1TTL \in Nat \ {0} /\ L2TTL \in Nat \ {0}
  /\ MaxVersion \in Nat /\ MaxPurges \in Nat

VARIABLES
  dbv,      \* how many commits have changed what the feed is made of
  l1, l2,   \* the caches
  rd,       \* rd[r]: the request of reader r
  flight,   \* the reader that generates the feed, or Nobody
  editor,   \* editor[e]: the request of editor e
  purges,   \* goroutines that have not yet cleared L2
  late,     \* the readers a tick has gone by for, with a feed in hand
  gens      \* history: unforced generations since L1 last lost its feed

vars == <<dbv, l1, l2, rd, flight, editor, purges, late, gens>>

(* from: the version the feed shows (the oldest, if edits committed between  *)
(* its queries); age: ticks since it was generated.                          *)
Feed    == [from : 0 .. MaxVersion, age : 0 .. L1TTL + L2TTL]
NoFeed  == [from |-> 0, age |-> 0]

(* left: ticks until it expires; an entry with none left is no entry.        *)
Entry(ttl)       == [feed : Feed, left : 0 .. ttl]
NoEntry          == [feed |-> NoFeed, left |-> 0]
Stored(feed, ttl) == [feed |-> feed, left |-> ttl]
Valid(c)         == c.left > 0

(* join: about to call singleflight; wait: for the leader's result; check:   *)
(* the leader before its second look at L1; gen, store: generating the feed, *)
(* and with it in L1 and not yet in L2.                                      *)
Phase == {"idle", "askL2", "backfill", "join", "wait", "check", "gen", "store", "served"}
Req   == [phase : Phase, force : {"yes", "no"}, feed : Feed]

(* Those about to store a feed: a Redis round trip takes less than a tick,   *)
(* so at most one goes by.                                                   *)
InHand == {r \in Reader : rd[r].phase \in {"backfill", "store"}}

TypeOK ==
  /\ dbv \in 0 .. MaxVersion
  /\ l1 \in Entry(L1TTL)
  /\ l2 \in Entry(L2TTL)
  /\ rd \in [Reader -> Req]
  /\ flight \in Reader \cup {Nobody}
  /\ editor \in [Editor -> {"idle", "uncommitted", "unpurged"}]
  /\ purges \in 0 .. MaxPurges
  /\ late \subseteq Reader
  /\ gens \in Nat

Init ==
  /\ dbv = 0
  /\ l1 = NoEntry /\ l2 = NoEntry
  /\ rd = [r \in Reader |-> [phase |-> "idle", force |-> "no", feed |-> NoFeed]]
  /\ flight = Nobody
  /\ editor = [e \in Editor |-> "idle"]
  /\ purges = 0
  /\ late = {}
  /\ gens = 0

-----------------------------------------------------------------------------
(* Readers: buildHomeFeed *)

Step(r, phase) == rd' = [rd EXCEPT ![r].phase = phase]
Serve(r, feed) == rd' = [rd EXCEPT ![r].phase = "served", ![r].feed = feed]

(* The first look, at L1; ?refresh=true skips both caches.                   *)
Ask(r, force) ==
  /\ rd[r].phase \in {"idle", "served"}
  /\ rd' = [rd EXCEPT ![r] =
       IF force = "yes"
       THEN [phase |-> "join", force |-> "yes", feed |-> NoFeed]
       ELSE [phase |-> IF Valid(l1) THEN "served" ELSE "askL2",
             force |-> "no", feed |-> IF Valid(l1) THEN l1.feed ELSE NoFeed]]
  /\ UNCHANGED <<dbv, l1, l2, flight, editor, purges, late, gens>>

(* A Redis that does not answer is a miss.                                   *)
AskL2(r) ==
  /\ rd[r].phase = "askL2"
  /\ \/ Valid(l2) /\ rd' = [rd EXCEPT ![r].phase = "backfill", ![r].feed = l2.feed]
     \/ Step(r, "join")
  /\ UNCHANGED <<dbv, l1, l2, flight, editor, purges, late, gens>>

(* Mutants: the copy in L1 lives as long as L2's; a hit prolongs L2's.       *)
BackfillForL2TTL(r) ==
  /\ rd[r].phase = "backfill"
  /\ l1' = Stored(rd[r].feed, L2TTL)
  /\ Step(r, "served")
  /\ late' = late \ {r}
  /\ UNCHANGED <<dbv, l2, flight, editor, purges, gens>>
BackfillProlongs(r) ==
  /\ rd[r].phase = "backfill"
  /\ l1' = Stored(rd[r].feed, L1TTL)
  /\ l2' = Stored([rd[r].feed EXCEPT !.age = 0], L2TTL)
  /\ Step(r, "served")
  /\ late' = late \ {r}
  /\ UNCHANGED <<dbv, flight, editor, purges, gens>>

(* The L2 feed is copied to L1, over whatever is there by now.               *)
Backfill(r) ==
  /\ rd[r].phase = "backfill"
  /\ l1' = Stored(rd[r].feed, L1TTL)
  /\ Step(r, "served")
  /\ late' = late \ {r}
  /\ UNCHANGED <<dbv, l2, flight, editor, purges, gens>>

Join(r) ==
  /\ rd[r].phase = "join"
  /\ IF flight = Nobody THEN flight' = r /\ Step(r, "check")
                        ELSE flight' = flight /\ Step(r, "wait")
  /\ UNCHANGED <<dbv, l1, l2, editor, purges, late, gens>>

(* Mutant: those who waited are not told.                                    *)
DeliverToLeader(feed) ==
  /\ flight' = Nobody
  /\ Serve(flight, feed)

(* The leader's result goes to everyone who called in the meantime.          *)
Deliver(feed) ==
  /\ flight' = Nobody
  /\ rd' = [r \in Reader |->
             IF r = flight \/ rd[r].phase = "wait"
             THEN [rd[r] EXCEPT !.phase = "served", !.feed = feed] ELSE rd[r]]

(* Mutant: no second look at L1.                                             *)
CheckNothing(r) ==
  /\ rd[r].phase = "check"
  /\ rd' = [rd EXCEPT ![r].phase = "gen", ![r].feed.from = dbv]
  /\ flight' = flight
  /\ gens' = IF rd[r].force = "yes" THEN gens ELSE gens + 1
  /\ UNCHANGED <<dbv, l1, l2, editor, purges, late>>

(* The second look at L1, and if there is nothing the generation begins.     *)
Check(r) ==
  /\ rd[r].phase = "check"
  /\ IF rd[r].force = "no" /\ Valid(l1)
     THEN Deliver(l1.feed) /\ gens' = gens
     ELSE /\ rd' = [rd EXCEPT ![r].phase = "gen", ![r].feed.from = dbv]
          /\ flight' = flight
          /\ gens' = IF rd[r].force = "yes" THEN gens ELSE gens + 1
  /\ UNCHANGED <<dbv, l1, l2, editor, purges, late>>

(* The generation is done: whatever query failed left its part empty.        *)
Generate(r) ==
  /\ rd[r].phase = "gen"
  /\ LET feed == [from |-> rd[r].feed.from, age |-> 0]
     IN  /\ rd' = [rd EXCEPT ![r].phase = "store", ![r].feed = feed]
         /\ l1' = Stored(feed, L1TTL)
  /\ UNCHANGED <<dbv, l2, flight, editor, purges, late, gens>>

(* An error of Redis is ignored.                                             *)
StoreL2(r) ==
  /\ rd[r].phase = "store"
  /\ l2' \in {l2, Stored(rd[r].feed, L2TTL)}
  /\ Deliver(rd[r].feed)
  /\ late' = late \ {r}
  /\ UNCHANGED <<dbv, l1, editor, purges, gens>>

-----------------------------------------------------------------------------
(* Edits and time *)

InvalidateHomeCache ==
  /\ purges < MaxPurges /\ purges' = purges + 1
  /\ l1' = NoEntry
  /\ gens' = 0

(* UpdateArticle and TransitionStatus, their transaction still open.         *)
WriteArticle(e) ==
  /\ editor[e] = "idle"
  /\ InvalidateHomeCache
  /\ editor' = [editor EXCEPT ![e] = "uncommitted"]
  /\ UNCHANGED <<dbv, l2, rd, flight, late>>

(* GetArticle clears the caches too, and changes nothing.                    *)
GetArticle ==
  /\ InvalidateHomeCache
  /\ UNCHANGED <<dbv, l2, rd, flight, editor, late>>

(* The transaction of WriteArticle ends; or one of those that clear nothing  *)
(* commits: schedule, delete, create, the publisher job; or the one          *)
(* statement of an edit of the homepage sections.                            *)
Committed == dbv < MaxVersion /\ dbv' = dbv + 1

EndTx(e) ==
  /\ editor[e] = "uncommitted"
  /\ Committed \/ dbv' = dbv
  /\ editor' = [editor EXCEPT ![e] = "idle"]
  /\ UNCHANGED <<l1, l2, rd, flight, purges, late, gens>>

QuietCommit ==
  /\ Committed
  /\ UNCHANGED <<l1, l2, rd, flight, editor, purges, late, gens>>

WriteSection(e) ==
  /\ editor[e] = "idle" /\ Committed
  /\ editor' = [editor EXCEPT ![e] = "unpurged"]
  /\ UNCHANGED <<l1, l2, rd, flight, purges, late, gens>>

InvalidateSection(e) ==
  /\ editor[e] = "unpurged"
  /\ InvalidateHomeCache
  /\ editor' = [editor EXCEPT ![e] = "idle"]
  /\ UNCHANGED <<dbv, l2, rd, flight, late>>

(* SCAN and DEL; or Redis fails, or the 3 s are over.                        *)
Purge ==
  /\ purges > 0 /\ purges' = purges - 1
  /\ l2' \in {l2, NoEntry}
  /\ UNCHANGED <<dbv, l1, rd, flight, editor, late, gens>>

(* A cached feed a tick later.                                               *)
Aged(feed) == [feed EXCEPT !.age = @ + 1]
Older(c)   == IF c.left > 1 THEN Stored(Aged(c.feed), c.left - 1) ELSE NoEntry

Tick ==
  /\ late = {} /\ (Valid(l1) \/ Valid(l2))
  /\ late' = InHand
  /\ rd' = [r \in Reader |-> IF r \in InHand
                           THEN [rd[r] EXCEPT !.feed = Aged(rd[r].feed)] ELSE rd[r]]
  /\ l1' = Older(l1) /\ l2' = Older(l2)
  /\ gens' = IF Valid(Older(l1)) THEN gens ELSE 0
  /\ UNCHANGED <<dbv, flight, editor, purges>>

Serving(r) ==
  \/ AskL2(r) \/ Backfill(r) \/ Join(r) \/ Check(r) \/ Generate(r) \/ StoreL2(r)

Next ==
  \/ \E r \in Reader : Serving(r) \/ \E force \in {"yes", "no"} : Ask(r, force)
  \/ \E e \in Editor : WriteArticle(e) \/ EndTx(e) \/ WriteSection(e) \/ InvalidateSection(e)
  \/ GetArticle \/ QuietCommit \/ Purge \/ Tick

Spec == Init /\ [][Next]_vars

(* Goroutines run and time passes.                                           *)
FairSpec ==
  /\ Spec
  /\ \A r \in Reader : WF_vars(Serving(r))
  /\ WF_vars(Purge) /\ SF_vars(Tick)

-----------------------------------------------------------------------------
(* Properties *)

(* No feed is served that was generated longer ago than both lifetimes       *)
(* together: L2 may hand it to L1 in its last moment, and then L1 keeps it   *)
(* for its own 30 s; on each way it may be a tick late.                      *)
FeedAgeBounded ==
  /\ \A r \in Reader : rd[r].feed.age <= L1TTL + L2TTL
  /\ Valid(l1) => l1.feed.age + l1.left <= L1TTL + L2TTL + 1
  /\ Valid(l2) => l2.feed.age + l2.left <= L2TTL + 1

(* "If hundreds of concurrent requests arrive simultaneously on cache miss,  *)
(* only ONE executes" (home_feed.go:199): until L1 loses its feed again, the *)
(* requests that missed it generate it once, also those that come to         *)
(* singleflight when the flight is over.                                     *)
HerdProtected == gens <= 1

(* What makes HerdProtected inductive, with the shape of the flight.         *)
FlightInv ==
  /\ \A r \in Reader : rd[r].phase \in {"check", "gen", "store"} <=> r = flight
  /\ \A r \in Reader : rd[r].phase = "wait" => flight # Nobody
  /\ gens = 0 \/ Valid(l1)
       \/ \E r \in Reader : rd[r].phase = "gen" /\ rd[r].force = "no"

(* Whoever asks for the feed gets one, also those that wait for another      *)
(* request's generation.                                                     *)
EveryReaderServed ==
  \A r \in Reader : (rd[r].phase # "idle") ~> (rd[r].phase = "served")

(* Once edits stop, no cache shows an older version for ever: not by a       *)
(* generation that began before the last commit, nor by handing an old feed  *)
(* from one cache to the other.                                              *)
FeedsCurrent   == \A c \in {l1, l2} : Valid(c) => c.feed.from = dbv
StaleFeedsDie  == (dbv = MaxVersion) ~> []FeedsCurrent

=============================================================================

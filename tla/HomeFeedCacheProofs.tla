------------------------- MODULE HomeFeedCacheProofs -------------------------
(***************************************************************************)
(* HomeFeedCache, proved for any number of readers and editors and any     *)
(* lifetimes: the types, the bound on the age of a feed, and that a herd   *)
(* of readers generates the feed once.                                     *)
(***************************************************************************)
EXTENDS HomeFeedCache, TLAPS

(* What makes FeedAgeBounded inductive: a feed about to be stored is at most *)
(* a tick older than when it was taken from L2, or generated.                *)
AgeInv ==
  /\ FeedAgeBounded
  /\ late \subseteq InHand
  /\ \A r \in Reader :
       /\ rd[r].phase = "backfill" => rd[r].feed.age <= L2TTL + 1
       /\ rd[r].phase = "backfill" /\ r \notin late => rd[r].feed.age <= L2TTL
       /\ rd[r].phase = "store" => rd[r].feed.age <= 1
       /\ rd[r].phase = "store" /\ r \notin late => rd[r].feed.age = 0

Inv == TypeOK /\ AgeInv

-----------------------------------------------------------------------------
(* Feeds, entries and requests *)

(* The empty entries are entries, and hold no valid feed.                    *)
LEMMA NoFeedType == NoFeed \in Feed /\ NoEntry \in Entry(L1TTL) /\ NoEntry \in Entry(L2TTL)
                    /\ ~Valid(NoEntry)
  BY CacheAssumption DEF NoFeed, Feed, NoEntry, Entry, Valid

(* A feed that is stored is an entry with its full lifetime.                 *)
LEMMA StoredType ==
  ASSUME NEW feed \in Feed, NEW ttl \in Nat
  PROVE  Stored(feed, ttl) \in Entry(ttl)
  BY DEF Stored, Entry

(* A tick makes an entry older and takes it nearer its end.                  *)
LEMMA OlderEntry ==
  ASSUME NEW ttl \in Nat, NEW c \in Entry(ttl),
         Valid(c) => c.feed.age + c.left <= L1TTL + L2TTL + 1
  PROVE  /\ Older(c) \in Entry(ttl)
         /\ Valid(Older(c)) =>
              /\ Valid(c)
              /\ Older(c).feed.age + Older(c).left = c.feed.age + c.left
<1> USE CacheAssumption
<1>1. c.feed \in Feed /\ c.left \in 0 .. ttl
  BY DEF Entry
<1>2. CASE c.left > 1
  <2>1. c.feed.age \in Nat /\ c.feed.age + 1 \in 0 .. L1TTL + L2TTL
    BY <1>1, <1>2 DEF Valid, Feed
  <2>2. Aged(c.feed) \in Feed /\ Aged(c.feed).age = c.feed.age + 1
    BY <1>1, <2>1 DEF Aged, Feed
  <2>3. Older(c) = Stored(Aged(c.feed), c.left - 1)
    BY <1>2 DEF Older
  <2> QED
    BY <1>1, <1>2, <2>1, <2>2, <2>3 DEF Stored, Entry, Valid
<1>3. CASE ~(c.left > 1)
  BY <1>3, NoFeedType DEF Older, NoEntry, Entry, Valid
<1> QED
  BY <1>2, <1>3

(* What the type invariant says of a reader's slot, field by field.          *)
LEMMA ReqFields ==
  ASSUME TypeOK, NEW r \in Reader
  PROVE  /\ rd[r] \in Req /\ rd[r].feed \in Feed /\ rd[r].feed.age \in 0 .. L1TTL + L2TTL
         /\ rd[r].phase \in Phase /\ rd[r].force \in {"yes", "no"}
  BY DEF TypeOK, Req, Feed

-----------------------------------------------------------------------------
(* Types and ages *)

(* The new request of a reader takes over the old one's place in both parts  *)
(* of Inv, if it fits there and nothing else about readers changes.          *)
LEMMA OneReader ==
  ASSUME Inv, NEW r \in Reader, NEW q \in Req, rd' = [rd EXCEPT ![r] = q],
         late' \in {late, late \ {r}}, r \in late' => q.phase \in {"backfill", "store"},
         q.phase = "backfill" => q.feed.age <= L2TTL /\ r \notin late',
         q.phase = "store" => q.feed.age = 0 /\ r \notin late',
         l1' \in Entry(L1TTL), l2' \in Entry(L2TTL),
         Valid(l1)' => l1'.feed.age + l1'.left <= L1TTL + L2TTL + 1,
         Valid(l2)' => l2'.feed.age + l2'.left <= L2TTL + 1,
         UNCHANGED dbv, flight' \in Reader \cup {Nobody}, UNCHANGED editor,
         UNCHANGED purges, gens' \in Nat
  PROVE  Inv'
<1>1. q.feed.age \in 0 .. L1TTL + L2TTL
  BY DEF Req, Feed
<1>2. /\ rd' \in [Reader -> Req] /\ rd'[r] = q
      /\ \A p \in Reader : p # r => rd'[p] = rd[p]
  BY DEF Inv, TypeOK
<1>3. TypeOK'
  BY <1>2 DEF Inv, TypeOK
<1>4. FeedAgeBounded'
  BY <1>1, <1>2 DEF Inv, AgeInv, FeedAgeBounded
<1>5. late' \subseteq InHand'
  BY <1>2 DEF Inv, AgeInv, InHand
<1>6. ASSUME NEW p \in Reader
      PROVE  /\ rd'[p].phase = "backfill" => rd'[p].feed.age <= L2TTL + 1
             /\ rd'[p].phase = "backfill" /\ p \notin late' => rd'[p].feed.age <= L2TTL
             /\ rd'[p].phase = "store" => rd'[p].feed.age <= 1
             /\ rd'[p].phase = "store" /\ p \notin late' => rd'[p].feed.age = 0
  <2>1. CASE p = r
    BY <1>1, <1>2, <2>1, CacheAssumption
  <2>2. CASE p # r
    BY <1>2, <2>2 DEF Inv, AgeInv
  <2> QED
    BY <2>1, <2>2
<1> QED
  BY <1>3, <1>4, <1>5, <1>6 DEF Inv, AgeInv

(* Deliver hands one feed to several readers, none of them about to store    *)
(* one but the leader.                                                       *)
LEMMA DeliverInv ==
  ASSUME Inv, NEW feed \in Feed, flight \in Reader, Deliver(feed),
         late' = late \ {flight},
         l1' \in Entry(L1TTL), l2' \in Entry(L2TTL),
         Valid(l1)' => l1'.feed.age + l1'.left <= L1TTL + L2TTL + 1,
         Valid(l2)' => l2'.feed.age + l2'.left <= L2TTL + 1,
         UNCHANGED dbv, UNCHANGED editor, UNCHANGED purges, gens' \in Nat
  PROVE  Inv'
<1> DEFINE told == {r \in Reader : r = flight \/ rd[r].phase = "wait"}
           q(r) == [rd[r] EXCEPT !.phase = "served", !.feed = feed]
<1>1. ASSUME NEW r \in Reader
      PROVE  q(r) \in Req /\ q(r).phase = "served" /\ q(r).feed = feed
  <2>1. rd[r] \in Req /\ "served" \in Phase
    BY <1>1, ReqFields DEF Inv, Phase
  <2> QED
    BY <2>1 DEF Req
<1>2. flight' = Nobody /\ rd' = [r \in Reader |-> IF r \in told THEN q(r) ELSE rd[r]]
  BY DEF Deliver
<1>3. /\ rd' \in [Reader -> Req]
      /\ \A r \in told : rd'[r] = q(r)
      /\ \A r \in Reader \ told : rd'[r] = rd[r]
  <2> HIDE DEF q, told
  <2>1. \A r \in Reader : rd[r] \in Req
    BY ReqFields DEF Inv
  <2>2. told \subseteq Reader
    BY DEF told
  <2> QED
    BY <1>1, <1>2, <2>1, <2>2
<1> HIDE DEF q
<1>4. TypeOK'
  <2> HIDE DEF told
  <2> QED
    BY <1>2, <1>3 DEF Inv, TypeOK
<1>5. FeedAgeBounded'
  <2>1. feed.age \in 0 .. L1TTL + L2TTL
    BY DEF Feed
  <2> HIDE DEF told
  <2> QED
    BY <1>1, <1>3, <2>1 DEF Inv, AgeInv, FeedAgeBounded
<1>6. late' \subseteq InHand'
  <2>1. \A p \in late' : p \in Reader /\ p \notin told
    BY DEF Inv, AgeInv, InHand
  <2> QED
    BY <1>3, <2>1 DEF Inv, AgeInv, InHand
<1>7. ASSUME NEW p \in Reader
      PROVE  /\ rd'[p].phase = "backfill" => rd'[p].feed.age <= L2TTL + 1
             /\ rd'[p].phase = "backfill" /\ p \notin late' => rd'[p].feed.age <= L2TTL
             /\ rd'[p].phase = "store" => rd'[p].feed.age <= 1
             /\ rd'[p].phase = "store" /\ p \notin late' => rd'[p].feed.age = 0
  <2>1. CASE p \in told
    BY <1>1, <1>3, <2>1
  <2>2. CASE p \notin told
    BY <1>3, <2>2 DEF Inv, AgeInv
  <2> QED
    BY <2>1, <2>2
<1> QED
  BY <1>4, <1>5, <1>6, <1>7 DEF Inv, AgeInv

(* The invariant holds of the empty caches.                                  *)
LEMMA InvInit == Init => Inv
<1> SUFFICES ASSUME Init PROVE Inv
  OBVIOUS
<1>1. [phase |-> "idle", force |-> "no", feed |-> NoFeed] \in Req
  BY NoFeedType DEF Req, Phase
<1>2. TypeOK
  BY <1>1, NoFeedType, CacheAssumption DEF Init, TypeOK
<1>3. \A r \in Reader : rd[r].phase = "idle" /\ rd[r].feed.age = 0
  BY DEF Init, NoFeed
<1>4. AgeInv
  BY <1>3, NoFeedType, CacheAssumption DEF Init, AgeInv, FeedAgeBounded
<1> QED
  BY <1>2, <1>4 DEF Inv

(* What an edit, a purge or the clock may do to Inv's other parts.           *)
LEMMA CachesOnly ==
  ASSUME Inv, UNCHANGED rd, UNCHANGED flight, UNCHANGED late,
         l1' \in {l1, NoEntry}, l2' \in {l2, NoEntry},
         dbv' \in 0 .. MaxVersion, purges' \in 0 .. MaxPurges, gens' \in Nat,
         editor' \in [Editor -> {"idle", "uncommitted", "unpurged"}]
  PROVE  Inv'
<1>1. TypeOK'
  BY NoFeedType DEF Inv, TypeOK
<1>2. InHand' = InHand
  BY DEF InHand
<1>3. FeedAgeBounded'
  BY NoFeedType DEF Inv, AgeInv, FeedAgeBounded
<1> QED
  BY <1>1, <1>2, <1>3 DEF Inv, AgeInv

(* The clock keeps the ages of the feeds within bounds.                      *)
LEMMA TickInv ==
  ASSUME Inv, Tick
  PROVE  Inv'
<1> USE CacheAssumption
<1>1. /\ \A r \in InHand : rd[r].feed.age <= L2TTL
      /\ \A r \in InHand : rd[r].phase = "store" => rd[r].feed.age = 0
  BY DEF Inv, AgeInv, InHand, Tick
<1>2. ASSUME NEW r \in InHand
      PROVE  /\ Aged(rd[r].feed) \in Feed /\ Aged(rd[r].feed).age = rd[r].feed.age + 1
             /\ [rd[r] EXCEPT !.feed = Aged(rd[r].feed)] \in Req
             /\ [rd[r] EXCEPT !.feed = Aged(rd[r].feed)].phase = rd[r].phase
             /\ [rd[r] EXCEPT !.feed = Aged(rd[r].feed)].feed = Aged(rd[r].feed)
  <2>1. /\ r \in Reader /\ rd[r] \in Req /\ rd[r].feed \in Feed /\ rd[r].feed.age \in Nat
        /\ rd[r].phase \in Phase
    BY <1>2, ReqFields DEF Inv, InHand
  <2>2. rd[r].feed.age + 1 \in 0 .. L1TTL + L2TTL
    BY <1>1, <2>1
  <2>3. Aged(rd[r].feed) \in Feed /\ Aged(rd[r].feed).age = rd[r].feed.age + 1
    BY <2>1, <2>2 DEF Aged, Feed
  <2> QED
    BY <2>1, <2>3 DEF Req
<1>3. rd' = [r \in Reader |-> IF r \in InHand
                           THEN [rd[r] EXCEPT !.feed = Aged(rd[r].feed)] ELSE rd[r]]
  BY DEF Tick
<1>4. InHand \subseteq Reader
  BY DEF InHand
<1>5. ASSUME NEW r \in Reader
      PROVE  /\ rd'[r] \in Req
             /\ rd'[r].phase = rd[r].phase
             /\ r \in InHand => rd'[r].feed.age = rd[r].feed.age + 1
             /\ r \notin InHand => rd'[r] = rd[r]
  BY <1>2, <1>3, ReqFields DEF Inv
<1>6. l1' = Older(l1) /\ l2' = Older(l2) /\ late' = InHand
  BY DEF Tick
<1>7. l1 \in Entry(L1TTL) /\ l2 \in Entry(L2TTL)
  BY DEF Inv, TypeOK
<1>8. /\ Valid(l1) => l1.feed.age + l1.left <= L1TTL + L2TTL + 1
      /\ Valid(l2) => l2.feed.age + l2.left <= L1TTL + L2TTL + 1
      /\ Valid(l2) => l2.feed.age + l2.left <= L2TTL + 1
  <2>1. l2.feed.age \in Nat /\ l2.left \in Nat
    BY <1>7 DEF Entry, Feed
  <2> QED
    BY <2>1 DEF Inv, AgeInv, FeedAgeBounded
<1>9. l1' \in Entry(L1TTL) /\ (Valid(l1'))
        => l1'.feed.age + l1'.left <= L1TTL + L2TTL + 1
  BY <1>6, <1>7, <1>8, OlderEntry
<1>10. l1' \in Entry(L1TTL) /\ l2' \in Entry(L2TTL)
  BY <1>6, <1>7, <1>8, OlderEntry
<1>11. Valid(l2') => l2'.feed.age + l2'.left <= L2TTL + 1
  BY <1>6, <1>7, <1>8, OlderEntry
<1>12. TypeOK'
  <2>1. rd' \in [Reader -> Req]
    BY <1>3, <1>5
  <2>2. gens' \in Nat /\ UNCHANGED <<dbv, flight, editor, purges>>
    BY DEF Tick, Inv, TypeOK
  <2> QED
    BY <1>4, <1>6, <1>10, <2>1, <2>2 DEF Inv, TypeOK
<1>13. InHand' = InHand
  BY <1>5 DEF InHand
<1>14. FeedAgeBounded'
  <2>1. ASSUME NEW r \in Reader PROVE rd'[r].feed.age <= L1TTL + L2TTL
    BY <1>1, <1>5, ReqFields DEF Inv
  <2> QED
    BY <1>9, <1>10, <1>11, <2>1 DEF FeedAgeBounded, Valid
<1>15. ASSUME NEW p \in Reader
       PROVE  /\ rd'[p].phase = "backfill" => p \in InHand /\ rd'[p].feed.age <= L2TTL + 1
              /\ rd'[p].phase = "store" => p \in InHand /\ rd'[p].feed.age <= 1
  BY <1>1, <1>5, ReqFields DEF Inv, InHand
<1> QED
  BY <1>6, <1>12, <1>13, <1>14, <1>15 DEF Inv, AgeInv

(* The steps of readers keep the invariant, given the shape of the flight.   *)
LEMMA ServingInv ==
  ASSUME Inv, FlightInv, NEW r \in Reader,
         Serving(r) \/ \E force \in {"yes", "no"} : Ask(r, force)
  PROVE  Inv'
<1> USE CacheAssumption, NoFeedType
<1>1. /\ rd[r] \in Req /\ rd[r].feed \in Feed /\ rd[r].feed.age \in Nat
      /\ rd[r].phase \in Phase /\ rd[r].force \in {"yes", "no"}
      /\ rd \in [Reader -> Req]
  BY ReqFields DEF Inv, TypeOK
<1>2. /\ l1 \in Entry(L1TTL) /\ l2 \in Entry(L2TTL)
      /\ Valid(l1) => l1.feed.age + l1.left <= L1TTL + L2TTL + 1
      /\ Valid(l2) => l2.feed.age + l2.left <= L2TTL + 1
      /\ l1.feed \in Feed /\ l2.feed \in Feed
      /\ gens \in Nat /\ flight \in Reader \cup {Nobody} /\ dbv \in 0 .. MaxVersion
  BY DEF Inv, TypeOK, AgeInv, FeedAgeBounded, Entry
<1>3. r \in late => rd[r].phase \in {"backfill", "store"}
  BY DEF Inv, AgeInv, InHand
<1>4. ASSUME NEW force \in {"yes", "no"}, Ask(r, force) PROVE Inv'
  <2> DEFINE q == IF force = "yes"
                  THEN [phase |-> "join", force |-> "yes", feed |-> NoFeed]
                  ELSE [phase |-> IF Valid(l1) THEN "served" ELSE "askL2", force |-> "no",
                        feed |-> IF Valid(l1) THEN l1.feed ELSE NoFeed]
  <2>1. /\ rd' = [rd EXCEPT ![r] = q] /\ late' = late /\ r \notin late
        /\ UNCHANGED <<dbv, l1, l2, flight, editor, purges, gens>>
    BY <1>3, <1>4 DEF Ask
  <2>2. q \in Req /\ q.phase \in {"join", "served", "askL2"}
    BY <1>2 DEF Req, Phase
  <2> HIDE DEF q
  <2> QED
    BY <1>2, <2>1, <2>2, OneReader DEF Valid
<1>5. ASSUME AskL2(r) PROVE Inv'
  <2> DEFINE p == [rd[r] EXCEPT !.phase = "join"]
             q == [rd[r] EXCEPT !.phase = "backfill", !.feed = l2.feed]
  <2>1. /\ late' = late /\ r \notin late
        /\ UNCHANGED <<dbv, l1, l2, flight, editor, purges, gens>>
    BY <1>3, <1>5 DEF AskL2
  <2>2. rd' = [rd EXCEPT ![r] = p] \/ (Valid(l2) /\ rd' = [rd EXCEPT ![r] = q])
    BY <1>1, <1>5 DEF AskL2, Step
  <2>3. p \in Req /\ p.phase = "join"
    BY <1>1 DEF Req, Phase
  <2>4. q \in Req /\ q.phase = "backfill" /\ q.feed = l2.feed
    BY <1>1, <1>2 DEF Req, Phase
  <2>5. Valid(l2) => l2.feed.age <= L2TTL
    BY <1>2 DEF Valid, Entry, Feed
  <2> HIDE DEF p, q
  <2>6. CASE rd' = [rd EXCEPT ![r] = p]
    BY <1>2, <2>1, <2>3, <2>6, OneReader DEF Valid
  <2>7. CASE Valid(l2) /\ rd' = [rd EXCEPT ![r] = q]
    BY <1>2, <2>1, <2>4, <2>5, <2>7, OneReader DEF Valid
  <2> QED
    BY <2>2, <2>6, <2>7
<1>6. ASSUME Backfill(r) PROVE Inv'
  <2> DEFINE q == [rd[r] EXCEPT !.phase = "served"]
  <2>1. /\ rd' = [rd EXCEPT ![r] = q] /\ late' = late \ {r} /\ l1' = Stored(rd[r].feed, L1TTL)
        /\ UNCHANGED <<dbv, l2, flight, editor, purges, gens>>
    BY <1>1, <1>6 DEF Backfill, Step
  <2>2. q \in Req /\ q.phase = "served"
    BY <1>1 DEF Req, Phase
  <2>3. l1' \in Entry(L1TTL)
    BY <1>1, <2>1, StoredType
  <2>4. l1'.feed.age + l1'.left <= L1TTL + L2TTL + 1
    BY <1>1, <1>6, <2>1 DEF Inv, AgeInv, Backfill, Stored
  <2> HIDE DEF q
  <2> QED
    BY <1>2, <2>1, <2>2, <2>3, <2>4, OneReader DEF Valid
<1>7. ASSUME Join(r) PROVE Inv'
  <2> DEFINE q == [rd[r] EXCEPT !.phase = IF flight = Nobody THEN "check" ELSE "wait"]
  <2>1. /\ rd' = [rd EXCEPT ![r] = q] /\ late' = late /\ r \notin late
        /\ flight' \in {flight, r}
        /\ UNCHANGED <<dbv, l1, l2, editor, purges, gens>>
    BY <1>1, <1>3, <1>7 DEF Join, Step
  <2>2. q \in Req /\ q.phase \in {"check", "wait"}
    BY <1>1 DEF Req, Phase
  <2> HIDE DEF q
  <2> QED
    BY <1>2, <2>1, <2>2, OneReader DEF Valid
<1>8. ASSUME Check(r), flight = r PROVE Inv'
  <2> DEFINE q == [rd[r] EXCEPT !.phase = "gen", !.feed = [rd[r].feed EXCEPT !.from = dbv]]
  <2>1. /\ late' = late /\ r \notin late
        /\ gens' \in Nat
        /\ UNCHANGED <<dbv, l1, l2, editor, purges>>
    BY <1>2, <1>3, <1>8 DEF Check
  <2>2. CASE Valid(l1) /\ Deliver(l1.feed)
    <3>1. late' = late \ {flight}
      BY <1>8, <2>1
    <3> QED
      BY <1>2, <1>8, <2>1, <2>2, <3>1, DeliverInv DEF Valid
  <2>3. CASE rd' = [rd EXCEPT ![r].phase = "gen", ![r].feed.from = dbv] /\ flight' = flight
    <3>1. rd' = [rd EXCEPT ![r] = q]
      BY <1>1, <2>3
    <3>2. q \in Req /\ q.phase = "gen"
      BY <1>1, <1>2 DEF Req, Phase, Feed
    <3> HIDE DEF q
    <3> QED
      BY <1>2, <2>1, <2>3, <3>1, <3>2, OneReader DEF Valid
  <2> QED
    BY <1>8, <2>2, <2>3 DEF Check
<1>9. ASSUME Generate(r) PROVE Inv'
  <2> DEFINE feed == [from |-> rd[r].feed.from, age |-> 0]
             q == [rd[r] EXCEPT !.phase = "store", !.feed = feed]
  <2>1. /\ rd' = [rd EXCEPT ![r] = q] /\ late' = late /\ r \notin late
        /\ l1' = Stored(feed, L1TTL)
        /\ UNCHANGED <<dbv, l2, flight, editor, purges, gens>>
    BY <1>1, <1>3, <1>9 DEF Generate
  <2>2. feed \in Feed /\ feed.age = 0
    BY <1>1 DEF Feed
  <2> HIDE DEF feed
  <2>3. q \in Req /\ q.phase = "store" /\ q.feed = feed
    BY <1>1, <2>2 DEF Req, Phase
  <2>4. l1' \in Entry(L1TTL) /\ l1'.feed.age + l1'.left <= L1TTL + L2TTL + 1
    BY <2>1, <2>2, StoredType DEF Stored
  <2> HIDE DEF q
  <2> QED
    BY <1>2, <2>1, <2>2, <2>3, <2>4, OneReader DEF Valid
<1>10. ASSUME StoreL2(r), flight = r PROVE Inv'
  <2>1. l2' \in {l2, Stored(rd[r].feed, L2TTL)} /\ Stored(rd[r].feed, L2TTL) \in Entry(L2TTL)
    BY <1>1, <1>10, StoredType DEF StoreL2
  <2>2. rd[r].feed.age <= 1
    BY <1>10 DEF Inv, AgeInv, StoreL2
  <2>3. Valid(l2') => l2'.feed.age + l2'.left <= L2TTL + 1
    BY <1>1, <1>2, <2>1, <2>2 DEF Stored
  <2>4. /\ Deliver(rd[r].feed) /\ late' = late \ {flight}
        /\ UNCHANGED <<dbv, l1, editor, purges, gens>>
    BY <1>10 DEF StoreL2
  <2> QED
    BY <1>1, <1>2, <1>10, <2>1, <2>3, <2>4, DeliverInv DEF Valid
<1>11. rd[r].phase \in {"check", "store"} => flight = r
  BY DEF FlightInv
<1> QED
  BY <1>4, <1>5, <1>6, <1>7, <1>8, <1>9, <1>10, <1>11 DEF Serving, Check, StoreL2

(* Every step does.                                                          *)
LEMMA InvNext ==
  ASSUME Inv, FlightInv, [Next]_vars
  PROVE  Inv'
<1>1. CASE UNCHANGED vars
  BY <1>1, CachesOnly DEF vars, Inv, TypeOK
<1>2. ASSUME NEW r \in Reader, Serving(r) \/ \E force \in {"yes", "no"} : Ask(r, force)
      PROVE  Inv'
  BY <1>2, ServingInv
<1>3. ASSUME NEW e \in Editor,
             WriteArticle(e) \/ EndTx(e) \/ WriteSection(e) \/ InvalidateSection(e)
      PROVE  Inv'
  <2>1. /\ UNCHANGED <<rd, flight, late, l2>> /\ l1' \in {l1, NoEntry}
        /\ dbv' \in 0 .. MaxVersion /\ purges' \in 0 .. MaxPurges /\ gens' \in Nat
        /\ editor' \in [Editor -> {"idle", "uncommitted", "unpurged"}]
    BY <1>3, CacheAssumption DEF Inv, TypeOK, WriteArticle, EndTx, WriteSection,
       InvalidateSection, InvalidateHomeCache, Committed
  <2> QED
    BY <2>1, CachesOnly
<1>4. CASE GetArticle \/ QuietCommit \/ Purge
  <2>1. /\ UNCHANGED <<rd, flight, late, editor>> /\ l1' \in {l1, NoEntry} /\ l2' \in {l2, NoEntry}
        /\ dbv' \in 0 .. MaxVersion /\ purges' \in 0 .. MaxPurges /\ gens' \in Nat
        /\ editor' \in [Editor -> {"idle", "uncommitted", "unpurged"}]
    BY <1>4, CacheAssumption DEF Inv, TypeOK, GetArticle, QuietCommit, Purge,
       InvalidateHomeCache, Committed
  <2> QED
    BY <2>1, CachesOnly
<1>5. CASE Tick
  BY <1>5, TickInv
<1> QED
  BY <1>1, <1>2, <1>3, <1>4, <1>5 DEF Next

-----------------------------------------------------------------------------
(* The flight *)

(* The end of a flight leaves nobody waiting for it.                         *)
LEMMA DeliverFlight ==
  ASSUME TypeOK, FlightInv, NEW feed, flight \in Reader, Deliver(feed),
         rd[flight].phase \in {"check", "store"},
         gens' = gens, l1' = l1
  PROVE  FlightInv'
<1>1. \A r \in Reader :
        /\ r = flight \/ rd[r].phase = "wait" => rd'[r].phase = "served"
        /\ ~(r = flight \/ rd[r].phase = "wait") => rd'[r] = rd[r]
  BY ReqFields DEF Deliver, TypeOK, Req
<1>2. flight' = Nobody
  BY DEF Deliver
<1>3. \A r \in Reader : rd'[r].phase \notin {"check", "gen", "store", "wait"}
  BY <1>1 DEF FlightInv
<1>4. gens = 0 \/ Valid(l1)
  BY DEF FlightInv
<1> QED
  BY <1>2, <1>3, <1>4, CacheAssumption DEF FlightInv, Valid

(* Every step keeps the shape of the flight.                                 *)
LEMMA FlightNext ==
  ASSUME Inv, FlightInv, [Next]_vars
  PROVE  FlightInv'
<1> USE CacheAssumption
<1>0. TypeOK
  BY DEF Inv
<1>1. CASE UNCHANGED vars
  BY <1>1 DEF vars, FlightInv, Valid
<1>2. ASSUME NEW r \in Reader, NEW force \in {"yes", "no"}, Ask(r, force)
      PROVE  FlightInv'
  BY <1>0, <1>2 DEF TypeOK, Ask, FlightInv, Valid
<1>3. ASSUME NEW r \in Reader, AskL2(r)
      PROVE  FlightInv'
  BY <1>0, <1>3 DEF TypeOK, Req, AskL2, Step, FlightInv, Valid
<1>4. ASSUME NEW r \in Reader, Backfill(r)
      PROVE  FlightInv'
  BY <1>0, <1>4 DEF TypeOK, Req, Backfill, Step, Stored, FlightInv, Valid
<1>5. ASSUME NEW r \in Reader, Join(r)
      PROVE  FlightInv'
  BY <1>0, <1>5 DEF TypeOK, Req, Join, Step, FlightInv, Valid
<1>6. ASSUME NEW r \in Reader, Check(r)
      PROVE  FlightInv'
  <2>1. flight = r
    BY <1>6 DEF FlightInv, Check
  <2>2. CASE Deliver(l1.feed) /\ gens' = gens
    BY <1>0, <1>6, <2>1, <2>2, DeliverFlight DEF Check
  <2>3. CASE ~(rd[r].force = "no" /\ Valid(l1))
    BY <1>0, <1>6, <2>1, <2>3 DEF TypeOK, Req, Check, FlightInv, Valid
  <2> QED
    BY <1>6, <2>2, <2>3 DEF Check
<1>7. ASSUME NEW r \in Reader, Generate(r)
      PROVE  FlightInv'
  BY <1>0, <1>7 DEF TypeOK, Req, Generate, Stored, FlightInv, Valid
<1>8. ASSUME NEW r \in Reader, StoreL2(r)
      PROVE  FlightInv'
  <2>1. flight = r
    BY <1>8 DEF FlightInv, StoreL2
  <2> QED
    BY <1>0, <1>8, <2>1, DeliverFlight DEF StoreL2
<1>9. ASSUME NEW e \in Editor,
             WriteArticle(e) \/ EndTx(e) \/ WriteSection(e) \/ InvalidateSection(e)
      PROVE  FlightInv'
  BY <1>9 DEF WriteArticle, EndTx, WriteSection, InvalidateSection, InvalidateHomeCache,
     FlightInv, Valid
<1>10. CASE GetArticle \/ QuietCommit \/ Purge
  BY <1>10 DEF GetArticle, QuietCommit, Purge, InvalidateHomeCache, FlightInv, Valid
<1>11. CASE Tick
  <2>1. \A r \in Reader : rd'[r].phase = rd[r].phase /\ rd'[r].force = rd[r].force
    BY <1>0, <1>11 DEF TypeOK, Req, Tick
  <2>2. gens' = 0 \/ (gens' = gens /\ Valid(l1)')
    BY <1>11 DEF Tick, Valid
  <2> QED
    BY <1>11, <2>1, <2>2 DEF Tick, FlightInv
<1> QED
  BY <1>1, <1>2, <1>3, <1>4, <1>5, <1>6, <1>7, <1>8, <1>9, <1>10, <1>11 DEF Next, Serving

(* The inductive invariant: types, ages of feeds, and the flight.            *)
THEOREM FeedInvariant == Spec => [](Inv /\ FlightInv)
<1>1. Init => Inv /\ FlightInv
  <2>1. Init => FlightInv
    BY CacheAssumption DEF Init, FlightInv
  <2> QED
    BY <2>1, InvInit
<1>2. Inv /\ FlightInv /\ [Next]_vars => (Inv /\ FlightInv)'
  BY InvNext, FlightNext
<1> QED
  BY <1>1, <1>2, PTL DEF Spec

(* Every variable of the two caches and their readers keeps its type.        *)
THEOREM FeedTypes == Spec => []TypeOK
<1>1. Inv => TypeOK
  BY DEF Inv
<1> QED
  BY <1>1, FeedInvariant, PTL

(* buildHomeFeed never serves a feed older than the lifetimes of both caches *)
(* together, however edits, purges and readers interleave.                   *)
THEOREM FeedAgeIsBounded == Spec => [](TypeOK /\ FeedAgeBounded)
<1>1. Inv => TypeOK /\ FeedAgeBounded
  BY DEF Inv, AgeInv
<1> QED
  BY <1>1, FeedInvariant, PTL

(* The strengthened form of HerdProtected: a generation is only counted when *)
(* L1 has no feed and nobody else is generating one.                         *)
LEMMA GensNext ==
  ASSUME Inv, FlightInv, HerdProtected, [Next]_vars
  PROVE  HerdProtected'
<1>1. gens \in Nat
  BY DEF Inv, TypeOK
<1>2. ASSUME NEW r \in Reader, Check(r)
      PROVE  HerdProtected'
  <2>1. \A q \in Reader : rd[q].phase # "gen"
    BY <1>2 DEF FlightInv, Check
  <2>2. gens = 0 \/ Valid(l1)
    BY <2>1 DEF FlightInv
  <2>3. gens' = gens \/ (gens' = gens + 1 /\ (rd[r].force = "no" => ~Valid(l1)) /\ rd[r].force # "yes")
    BY <1>2 DEF Check
  <2>4. rd[r].force \in {"yes", "no"}
    BY ReqFields DEF Inv
  <2> QED
    BY <1>1, <2>2, <2>3, <2>4 DEF HerdProtected
<1>3. CASE gens' \in {gens, 0}
  BY <1>1, <1>3 DEF HerdProtected
<1>4. (\E r \in Reader : Check(r)) \/ gens' \in {gens, 0}
  BY DEF Next, Serving, vars, Ask, AskL2, Backfill, Join, Generate, StoreL2, WriteArticle,
     EndTx, WriteSection, InvalidateSection, InvalidateHomeCache, GetArticle, QuietCommit,
     Purge, Tick
<1> QED
  BY <1>2, <1>3, <1>4

(* Of all requests that miss the cache, one generates the feed, until L1     *)
(* loses it again: singleflight and the second look at L1 see to it.         *)
THEOREM HerdGeneratesOnce == Spec => []HerdProtected
<1>1. Init => HerdProtected
  BY DEF Init, HerdProtected
<1>2. Inv /\ FlightInv /\ HerdProtected /\ [Next]_vars => HerdProtected'
  BY GensNext
<1> QED
  BY <1>1, <1>2, FeedInvariant, PTL DEF Spec

=============================================================================

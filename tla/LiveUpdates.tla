---------------------------- MODULE LiveUpdates ----------------------------
(***************************************************************************)
(* The entries of one live blog (internal/content/service.go) and the      *)
(* streams that carry them (internal/stream/service.go), by way of Redis.  *)
(*                                                                         *)
(* Adding an entry and listing the entries both begin with ALTER TABLE,    *)
(* which locks the table to all others until the transaction ends.  An     *)
(* entry is published to the streams before its transaction commits, and   *)
(* also when that fails.  The list may be answered from a copy at the edge *)
(* (pkg/middleware/cache.go), whose age nobody can tell.                   *)
(***************************************************************************)
EXTENDS Naturals, Sequences

CONSTANTS Entry,      \* entries, each added by one request
          Client,     \* readers with the blog open
          Free,       \* nobody holds the table
          MaxStreams, \* bound: times that a reader opens a stream
          MaxBuffer   \* bound: messages waiting for a reader

ASSUME LiveAssumption == /\ Entry \cap Client = {} /\ Free \notin Entry \cup Client
                         /\ MaxStreams \in Nat /\ MaxBuffer \in Nat

VARIABLES entry,    \* entry[e]: how far its request has come
          breaking, \* entries that are breaking news
          pinned,   \* entries that are pinned
          table,    \* who has locked live_blog_entries
          channel,  \* channel[c]: what the reader's stream is subscribed to
          coming,   \* coming[c]: messages published and not yet flushed to it
          shown,    \* shown[c]: what the reader shows
          reply,    \* reply[c]: the list read for the reader, on its way
          listCopy, \* the list of which the edge holds a copy
          caught,   \* readers whose list was read since their stream began, who lost nothing
          streams   \* streams a reader has opened

liveVars == <<entry, breaking, pinned, table, channel, coming, shown, reply, listCopy, caught,
              streams>>
entryVars == <<entry, breaking, pinned, table>>
listVars == <<reply, listCopy>>
readerVars == <<channel, coming, shown, listVars, caught, streams>>

\* A list: its entries, and whose stream began before it was read and has lost
\* nothing.  No list, and one that tells nobody anything, are the same to readers.
NoList == [entries |-> {}, after |-> {}]

\* In the table: added by a request that has not ended, or committed.
InTable == {"inserted", "published", "told"}
Committed == {e \in Entry : entry[e] = "committed"}

LiveInit ==
    /\ entry = [e \in Entry |-> "none"]
    /\ breaking \in SUBSET Entry
    /\ pinned = {} /\ table = Free
    /\ channel = [c \in Client |-> "none"]
    /\ coming = [c \in Client |-> <<>>]
    /\ shown = [c \in Client |-> {}]
    /\ reply = [c \in Client |-> NoList]
    /\ listCopy = NoList
    /\ caught = {}
    /\ streams = [c \in Client |-> 0]

Reach(e, phase) == entry' = [entry EXCEPT ![e] = phase]

(***************************************************************************)
(* Adding an entry                                                         *)
(***************************************************************************)

\* The handler's ALTERs, for which it waits until nobody has the table.
LockForEntry(e) ==
    /\ entry[e] = "none" /\ table = Free
    /\ table' = e
    /\ Reach(e, "locked")
    /\ UNCHANGED <<breaking, pinned, readerVars>>

InsertEntry(e) ==
    /\ entry[e] = "locked"
    /\ Reach(e, "inserted")
    /\ UNCHANGED <<breaking, pinned, table, readerVars>>

Subscribed(ch) == {c \in Client : channel[c] = ch}
Overrun(ch) == {c \in Subscribed(ch) : Len(coming[c]) >= MaxBuffer}

\* Readers whose stream has lost something: no list read so far makes up for it.
LoseTrack(lost) ==
    /\ caught' = caught \ lost
    /\ listCopy' = [listCopy EXCEPT !.after = @ \ lost]
    /\ reply' = [c \in Client |-> [reply[c] EXCEPT !.after = @ \ lost]]

\* Redis hands the message to whoever is subscribed now; a reader whose buffer
\* is full loses it.  When Redis does not answer, everybody does.
PublishTo(ch, e) ==
    /\ \/ /\ coming' = [c \in Client |-> IF c \in Subscribed(ch) \ Overrun(ch)
                                         THEN Append(coming[c], e) ELSE coming[c]]
          /\ LoseTrack(Overrun(ch))
       \/ UNCHANGED coming /\ LoseTrack(Subscribed(ch))
    /\ UNCHANGED <<channel, shown, streams>>

PublishEntry(e) ==
    /\ entry[e] = "inserted"
    /\ Reach(e, "published")
    /\ PublishTo("live_blog", e)
    /\ UNCHANGED <<breaking, pinned, table>>

PublishBreaking(e) ==
    /\ entry[e] = "published"
    /\ Reach(e, "told")
    /\ IF e \in breaking THEN PublishTo("breaking_news", e) ELSE UNCHANGED readerVars
    /\ UNCHANGED <<breaking, pinned, table>>

CommitEntry(e) ==
    /\ entry[e] = "told"
    /\ Reach(e, "committed")
    /\ table' = Free
    /\ UNCHANGED <<breaking, pinned, readerVars>>

\* A statement or the commit fails: what was published stays published.
FailEntry(e) ==
    /\ entry[e] \in InTable \cup {"locked"}
    /\ Reach(e, "dropped")
    /\ table' = Free
    /\ UNCHANGED <<breaking, pinned, readerVars>>

\* Neither of the two is told to the streams.
DeleteLiveBlogEntry(e) ==
    /\ entry[e] = "committed" /\ table = Free
    /\ Reach(e, "deleted")
    /\ pinned' = pinned \ {e}
    /\ UNCHANGED <<breaking, table, readerVars>>
TogglePinLiveBlogEntry(e) ==
    /\ entry[e] = "committed" /\ table = Free
    /\ pinned' \in {pinned \cup {e}, pinned \ {e}}
    /\ UNCHANGED <<entry, breaking, table, readerVars>>

(***************************************************************************)
(* Readers                                                                 *)
(***************************************************************************)
OpenStream(c, ch) ==
    /\ channel[c] = "none" /\ streams[c] < MaxStreams
    /\ channel' = [channel EXCEPT ![c] = ch]
    /\ streams' = [streams EXCEPT ![c] = @ + 1]
    /\ UNCHANGED <<entryVars, coming, shown, listVars, caught>>
StreamLiveBlog(c) == OpenStream(c, "live_blog")
StreamBreakingNews(c) == OpenStream(c, "breaking_news")

\* One turn of the stream's loop; the pings tell the reader nothing.
Flush(c) ==
    /\ coming[c] # <<>>
    /\ shown' = [shown EXCEPT ![c] = @ \cup {Head(coming[c])}]
    /\ coming' = [coming EXCEPT ![c] = Tail(@)]
    /\ UNCHANGED <<entryVars, channel, listVars, caught, streams>>

\* The connection to Redis breaks and is made anew: what was sent is lost.
LoseMessages(c) ==
    /\ coming[c] # <<>>
    /\ coming' = [coming EXCEPT ![c] = <<>>]
    /\ LoseTrack({c})
    /\ UNCHANGED <<entryVars, channel, shown, streams>>

\* The reader's connection ends; it opens the page anew.
Disconnect(c) ==
    /\ channel[c] # "none"
    /\ channel' = [channel EXCEPT ![c] = "none"]
    /\ coming' = [coming EXCEPT ![c] = <<>>]
    /\ shown' = [shown EXCEPT ![c] = {}]
    /\ LoseTrack({c})
    /\ UNCHANGED <<entryVars, streams>>

\* What the database answers now.
Listing == [entries |-> Committed, after |-> Subscribed("live_blog")]
Reads(c) == reply' = [reply EXCEPT ![c] = Listing]

\* MUTANT of LockForList: the list is read without locking the table.
ListAnyTime(c) ==
    /\ reply[c] = NoList
    /\ Reads(c)
    /\ UNCHANGED <<entryVars, channel, coming, shown, listCopy, caught, streams>>

\* A list that no copy answers, or that refreshes one: its own ALTERs, its
\* transaction begins.
LockForList(c) ==
    /\ reply[c] = NoList /\ table = Free
    /\ table' = c
    /\ UNCHANGED <<entry, breaking, pinned, readerVars>>

\* A statement of it may fail.
ListLiveBlogEntries(c) ==
    /\ table = c
    /\ table' = Free
    /\ Reads(c) \/ UNCHANGED reply
    /\ UNCHANGED <<entry, breaking, pinned, channel, coming, shown, listCopy, caught, streams>>

\* One whose list was read after it subscribed is caught up from here on.
ShowList(c, list) ==
    /\ shown' = [shown EXCEPT ![c] = @ \cup list.entries]
    /\ caught' = IF c \in list.after THEN caught \cup {c} ELSE caught

\* The answer comes to the reader, unless the edge asked to refresh a copy that
\* it had already served, and the edge may keep it.
DeliverList(c) ==
    /\ reply[c] # NoList
    /\ reply' = [reply EXCEPT ![c] = NoList]
    /\ ShowList(c, reply[c]) \/ UNCHANGED <<shown, caught>>
    /\ listCopy' \in {listCopy, reply[c]}
    /\ UNCHANGED <<entryVars, channel, coming, streams>>

\* EdgeCache(60, 300): the copy answers, fresh or stale, and nobody is asked.
ListFromEdge(c) ==
    /\ ShowList(c, listCopy)
    /\ UNCHANGED <<entryVars, channel, coming, listVars, streams>>

\* The copy is too old, or purged.
EdgeForgets ==
    /\ listCopy # NoList
    /\ listCopy' = NoList
    /\ UNCHANGED <<entryVars, channel, coming, shown, reply, caught, streams>>

EntryStep(e) ==
    \/ LockForEntry(e) \/ InsertEntry(e) \/ PublishEntry(e) \/ PublishBreaking(e)
    \/ CommitEntry(e) \/ FailEntry(e) \/ DeleteLiveBlogEntry(e) \/ TogglePinLiveBlogEntry(e)
ClientStep(c) ==
    \/ StreamLiveBlog(c) \/ StreamBreakingNews(c) \/ Flush(c) \/ LoseMessages(c)
    \/ Disconnect(c) \/ LockForList(c) \/ ListLiveBlogEntries(c)
    \/ DeliverList(c) \/ ListFromEdge(c)

LiveNext == (\E e \in Entry : EntryStep(e)) \/ (\E c \in Client : ClientStep(c)) \/ EdgeForgets
LiveSpec == LiveInit /\ [][LiveNext]_liveVars

(***************************************************************************)
(* Properties                                                              *)
(***************************************************************************)
StatusOf(phase) ==
    IF phase \in {"none", "locked"} THEN "none"
    ELSE IF phase \in InTable THEN "pending"
    ELSE IF phase = "committed" THEN "kept"
    ELSE IF phase = "deleted" THEN "gone"
    ELSE "dropped"

Sent(c) == shown[c] \cup {coming[c][i] : i \in DOMAIN coming[c]}

EntryStatus == [e \in Entry |-> StatusOf(entry[e])]
Known == [c \in Client |-> Sent(c)]

Promise == INSTANCE LiveFeed WITH status <- EntryStatus, known <- Known, live <- caught

\* A reader who is shown a list that was read after it subscribed has, or is being
\* sent, every entry that commits, until its stream or Redis fails: although entries
\* are published before they commit, and the list spends time on its way and at the
\* edge, none falls between the list and the stream.  To a reader whose list is an
\* older copy from the edge nothing is promised.
NothingMissed == Promise!FeedSpec
=============================================================================

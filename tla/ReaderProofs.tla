---------------------------- MODULE ReaderProofs -----------------------------
(* Theorems about what readers are shown, for any values of the constants: live  *)
(* blogs as they are streamed, the sections of the home page, and its feed as it *)
(* is generated.                                                              *)
EXTENDS LiveUpdates, HomepageLayout, HomeFeedSections, FiniteSetTheorems, FunctionTheorems,
        SequenceTheorems, WellFoundedInduction, TLAPS

-----------------------------------------------------------------------------
(* LiveUpdates *)

EntryPhase == {"none", "locked", "committed", "deleted", "dropped"} \cup InTable
Unwritten == {"none", "locked"}

List == [entries : SUBSET Entry, after : SUBSET Client]
LiveTypes ==
  /\ entry \in [Entry -> EntryPhase]
  /\ channel \in [Client -> {"none", "live_blog", "breaking_news"}]
  /\ coming \in [Client -> Seq(Entry)]
  /\ shown \in [Client -> SUBSET Entry]
  /\ reply \in [Client -> List] /\ listCopy \in List
  /\ caught \subseteq Client

(* An entry under way has the table.                                         *)
OneAtATime == \A e \in Entry : entry[e] \in {"locked"} \cup InTable => table = e

(* Who is caught up, or will be by a list read before, has its stream.        *)
Tracked ==
  {c \in Client : c \in caught \/ c \in listCopy.after \/ \E r \in Client : c \in reply[r].after}
TrackedOnChannel == \A c \in Tracked : channel[c] = "live_blog"

(* Nobody is sent or told what was never written.                             *)
WrittenEntries == {e \in Entry : entry[e] \notin Unwritten}
SentIsWritten ==
  /\ \A c \in Client : Sent(c) \subseteq WrittenEntries
  /\ listCopy.entries \subseteq WrittenEntries
  /\ \A r \in Client : reply[r].entries \subseteq WrittenEntries

(* What has been published, and not taken back, has come to everyone who is   *)
(* caught up; to who has a list to come, it has come or is in that list.      *)
Spoken == {e \in Entry : entry[e] \in {"published", "told", "committed"}}
Behind(c) == Spoken \ Sent(c)
NothingBehind ==
  /\ \A c \in caught : Behind(c) = {}
  /\ \A c \in listCopy.after : Behind(c) \subseteq listCopy.entries
  /\ \A r \in Client : \A c \in reply[r].after : Behind(c) \subseteq reply[r].entries

LiveInv == LiveTypes /\ OneAtATime /\ TrackedOnChannel /\ SentIsWritten /\ NothingBehind

(* The messages of a buffer, and what appending or taking one makes of them.  *)
LEMMA Buffer ==
  ASSUME NEW s \in Seq(Entry), NEW e \in Entry
  PROVE  /\ Append(s, e) \in Seq(Entry)
         /\ {Append(s, e)[i] : i \in DOMAIN Append(s, e)} = {s[i] : i \in DOMAIN s} \cup {e}
         /\ s # <<>> =>
              /\ Head(s) \in Entry /\ Tail(s) \in Seq(Entry)
              /\ {s[i] : i \in DOMAIN s} = {Head(s)} \cup {Tail(s)[i] : i \in DOMAIN Tail(s)}
<1>1. DOMAIN Append(s, e) = 1 .. Len(s) + 1 /\ DOMAIN s = 1 .. Len(s) /\ Len(s) \in Nat
  OBVIOUS
<1>2. \A i \in 1 .. Len(s) + 1 : Append(s, e)[i] = IF i = Len(s) + 1 THEN e ELSE s[i]
  OBVIOUS
<1>3. {Append(s, e)[i] : i \in DOMAIN Append(s, e)} = {s[i] : i \in DOMAIN s} \cup {e}
  BY <1>1, <1>2
<1>4. ASSUME s # <<>>
      PROVE  /\ Head(s) \in Entry /\ Tail(s) \in Seq(Entry)
             /\ {s[i] : i \in DOMAIN s} = {Head(s)} \cup {Tail(s)[i] : i \in DOMAIN Tail(s)}
  <2>1. /\ Head(s) = s[1] /\ Len(s) \in Nat \ {0} /\ Tail(s) \in Seq(Entry)
        /\ DOMAIN Tail(s) = 1 .. Len(s) - 1 /\ \A i \in 1 .. Len(s) - 1 : Tail(s)[i] = s[i + 1]
    BY <1>4
  <2>2. \A i \in DOMAIN s : i = 1 \/ (i - 1 \in DOMAIN Tail(s) /\ s[i] = Tail(s)[i - 1])
    BY <1>1, <2>1
  <2>3. \A i \in DOMAIN Tail(s) : i + 1 \in DOMAIN s /\ Tail(s)[i] = s[i + 1]
    BY <1>1, <2>1
  <2>4. {s[i] : i \in DOMAIN s} \subseteq {Head(s)} \cup {Tail(s)[i] : i \in DOMAIN Tail(s)}
    <3> SUFFICES ASSUME NEW i \in DOMAIN s
                 PROVE  s[i] \in {Head(s)} \cup {Tail(s)[j] : j \in DOMAIN Tail(s)}
      OBVIOUS
    <3> QED
      BY <2>1, <2>2
  <2>5. {Tail(s)[i] : i \in DOMAIN Tail(s)} \subseteq {s[i] : i \in DOMAIN s}
    BY <2>3
  <2>6. Head(s) \in {s[i] : i \in DOMAIN s} /\ Head(s) \in Entry
    BY <1>1, <2>1
  <2> QED
    BY <2>1, <2>4, <2>5, <2>6
<1>5. Append(s, e) \in Seq(Entry)
  OBVIOUS
<1> QED
  BY <1>3, <1>4, <1>5

(* The invariant holds before the first entry.                               *)
LEMMA LiveStart == LiveInit => LiveInv
<1> SUFFICES ASSUME LiveInit PROVE LiveInv
  OBVIOUS
<1>1. NoList \in List /\ NoList.after = {} /\ NoList.entries = {}
  BY DEF NoList, List
<1>2. Spoken = {} /\ Tracked = {} /\ \A c \in Client : Sent(c) = {}
  BY <1>1 DEF LiveInit, Spoken, Tracked, Sent
<1> QED
  BY <1>1, <1>2 DEF LiveInit, LiveInv, LiveTypes, OneAtATime, TrackedOnChannel, SentIsWritten,
     NothingBehind, EntryPhase, InTable, Behind

(* Losing track of nobody leaves all as it was.                              *)
LEMMA NobodyLost ==
  ASSUME LiveTypes, UNCHANGED <<caught, listVars>>
  PROVE  LoseTrack({})
<1>1. /\ caught \ {} = caught /\ [listCopy EXCEPT !.after = @ \ {}] = listCopy
      /\ \A r \in Client : [reply[r] EXCEPT !.after = @ \ {}] = reply[r]
  BY DEF LiveTypes, List
<1>2. [r \in Client |-> [reply[r] EXCEPT !.after = @ \ {}]] = reply
  BY <1>1 DEF LiveTypes
<1> QED
  BY <1>1, <1>2 DEF LoseTrack, listVars

(* What losing track makes of the lists.                                     *)
LEMMA TrackLost ==
  ASSUME LiveTypes, NEW lost, LoseTrack(lost)
  PROVE  /\ caught' = caught \ lost
         /\ listCopy' \in List /\ reply' \in [Client -> List] /\ caught' \subseteq Client
         /\ listCopy'.entries = listCopy.entries /\ listCopy'.after = listCopy.after \ lost
         /\ \A r \in Client : /\ reply'[r].entries = reply[r].entries
                              /\ reply'[r].after = reply[r].after \ lost
BY DEF LiveTypes, LoseTrack, List

(* A step in which those of whom track is kept lose nothing.                 *)
LEMMA TrackKept ==
  ASSUME LiveInv, LiveTypes', OneAtATime', NEW lost, LoseTrack(lost),
         \A c \in Tracked \ lost : channel'[c] = channel[c] /\ Behind(c)' \subseteq Behind(c),
         \A c \in Client : Sent(c)' \subseteq Sent(c) \cup WrittenEntries',
         WrittenEntries \subseteq WrittenEntries'
  PROVE  LiveInv'
<1> USE DEF LiveInv
<1>1. /\ caught' = caught \ lost
      /\ listCopy'.entries = listCopy.entries /\ listCopy'.after = listCopy.after \ lost
      /\ \A r \in Client : /\ reply'[r].entries = reply[r].entries
                           /\ reply'[r].after = reply[r].after \ lost
  BY TrackLost
<1>2. Tracked' = Tracked \ lost
  BY <1>1 DEF Tracked
<1>3. TrackedOnChannel'
  BY <1>2 DEF TrackedOnChannel
<1>4. SentIsWritten'
  BY <1>1 DEF SentIsWritten
<1>5. /\ \A c \in caught' : c \in Tracked \ lost
      /\ \A c \in listCopy'.after : c \in Tracked \ lost
      /\ \A r \in Client : \A c \in reply'[r].after : c \in Tracked \ lost
  BY <1>1 DEF Tracked, LiveTypes, List
<1>6. NothingBehind'
  BY <1>1, <1>5 DEF NothingBehind
<1> QED
  BY <1>3, <1>4, <1>6

(* A step of an entry that tells the readers nothing.                        *)
LEMMA EntryMoves ==
  ASSUME LiveInv, NEW e \in Entry, NEW to \in EntryPhase, Reach(e, to),
         UNCHANGED <<channel, coming, shown, listVars, caught>>,
         entry[e] \notin Unwritten => to \notin Unwritten,
         to \in {"published", "told", "committed"} => e \in Spoken,
         to \in {"locked"} \cup InTable => table' = e,
         \A d \in Entry \ {e} : table = d => table' = d
  PROVE  LiveInv'
<1> USE DEF LiveInv
<1>1. /\ entry' \in [Entry -> EntryPhase] /\ entry'[e] = to
      /\ \A d \in Entry \ {e} : entry'[d] = entry[d]
  BY DEF LiveTypes, Reach
<1>2. \A c \in Client : Sent(c)' = Sent(c)
  BY DEF Sent
<1>3. LiveTypes'
  BY <1>1 DEF LiveTypes, listVars
<1>4. OneAtATime'
  BY <1>1 DEF OneAtATime
<1>5. Spoken' \subseteq Spoken /\ WrittenEntries \subseteq WrittenEntries'
  BY <1>1 DEF Spoken, WrittenEntries
<1>6. \A c \in Client : Behind(c)' \subseteq Behind(c)
  BY <1>2, <1>5 DEF Behind
<1>7. LoseTrack({})
  BY NobodyLost
<1>8. \A c \in Tracked \ {} : channel'[c] = channel[c] /\ Behind(c)' \subseteq Behind(c)
  BY <1>6 DEF Tracked
<1> QED
  BY <1>2, <1>3, <1>4, <1>5, <1>7, <1>8, TrackKept

(* A step of a reader that adds nothing to what anybody is sent.              *)
LEMMA ReaderMoves ==
  ASSUME LiveInv, LiveTypes', OneAtATime', UNCHANGED entry, NEW lost, LoseTrack(lost),
         \A c \in Client : Sent(c)' \subseteq Sent(c),
         \A c \in Tracked \ lost : Sent(c) \subseteq Sent(c)' /\ channel'[c] = channel[c]
  PROVE  LiveInv'
<1>1. UNCHANGED <<Spoken, WrittenEntries>>
  BY DEF Spoken, WrittenEntries
<1>2. \A c \in Tracked \ lost : channel'[c] = channel[c] /\ Behind(c)' \subseteq Behind(c)
  BY <1>1 DEF Behind
<1>3. \A c \in Client : Sent(c)' \subseteq Sent(c) \cup WrittenEntries'
  OBVIOUS
<1> QED
  BY <1>1, <1>2, <1>3, TrackKept

(* What becomes of what is sent when an entry is published.                  *)
LEMMA PublishSends ==
  ASSUME LiveTypes, NEW e \in Entry, NEW ch \in {"live_blog", "breaking_news"}, PublishTo(ch, e)
  PROVE  /\ UNCHANGED <<channel, shown, streams>>
         /\ coming' \in [Client -> Seq(Entry)]
         /\ \A c \in Client : Sent(c) \subseteq Sent(c)' /\ Sent(c)' \subseteq Sent(c) \cup {e}
         /\ \E lost \in SUBSET Subscribed(ch) :
              LoseTrack(lost) /\ \A c \in Subscribed(ch) \ lost : e \in Sent(c)'
<1> USE DEF LiveTypes
<1>0. UNCHANGED <<channel, shown, streams>>
  BY DEF PublishTo
<1>1. CASE /\ coming' = [c \in Client |-> IF c \in Subscribed(ch) \ Overrun(ch)
                                          THEN Append(coming[c], e) ELSE coming[c]]
           /\ LoseTrack(Overrun(ch))
  <2>1. \A c \in Client :
          /\ coming'[c] \in Seq(Entry)
          /\ Sent(c)' = IF c \in Subscribed(ch) \ Overrun(ch) THEN Sent(c) \cup {e} ELSE Sent(c)
    <3> TAKE c \in Client
    <3>1. coming[c] \in Seq(Entry)
      OBVIOUS
    <3>2. CASE c \in Subscribed(ch) \ Overrun(ch)
      <4>1. coming'[c] = Append(coming[c], e) /\ shown'[c] = shown[c]
        BY <1>0, <1>1, <3>2
      <4>2. Sent(c)' = shown[c] \cup
              {Append(coming[c], e)[i] : i \in DOMAIN Append(coming[c], e)}
        BY <4>1 DEF Sent
      <4>3. /\ Append(coming[c], e) \in Seq(Entry)
            /\ {Append(coming[c], e)[i] : i \in DOMAIN Append(coming[c], e)} =
                 {coming[c][i] : i \in DOMAIN coming[c]} \cup {e}
        BY <3>1, Buffer
      <4>4. Sent(c)' = Sent(c) \cup {e}
        BY <4>2, <4>3 DEF Sent
      <4> QED
        BY <3>2, <4>1, <4>3, <4>4
    <3>3. CASE c \notin Subscribed(ch) \ Overrun(ch)
      <4>1. coming'[c] = coming[c] /\ shown'[c] = shown[c]
        BY <1>0, <1>1, <3>3
      <4> QED
        BY <3>1, <3>3, <4>1 DEF Sent
    <3> QED
      BY <3>2, <3>3
  <2>2. coming' \in [Client -> Seq(Entry)]
    BY <1>1, <2>1
  <2>3. Overrun(ch) \in SUBSET Subscribed(ch) /\ Subscribed(ch) \subseteq Client
    BY DEF Overrun, Subscribed
  <2> QED
    BY <1>0, <1>1, <2>1, <2>2, <2>3
<1>2. CASE UNCHANGED coming /\ LoseTrack(Subscribed(ch))
  BY <1>0, <1>2 DEF Sent
<1> QED
  BY <1>1, <1>2 DEF PublishTo

(* An entry under way comes to its next phase and is published.              *)
LEMMA Publishes ==
  ASSUME LiveInv, NEW e \in Entry, PublishEntry(e) \/ PublishBreaking(e)
  PROVE  LiveInv'
<1> USE DEF LiveInv
<1>1. PICK to \in {"published", "told"} :
        /\ Reach(e, to) /\ UNCHANGED table /\ table = e /\ entry[e] \in InTable
        /\ to = "told" => entry[e] = "published"
        /\ to = "published" => PublishTo("live_blog", e)
  BY DEF PublishEntry, PublishBreaking, OneAtATime, InTable
<1>2. /\ entry' \in [Entry -> EntryPhase] /\ entry'[e] = to
      /\ \A d \in Entry \ {e} : entry'[d] = entry[d]
  BY <1>1 DEF LiveTypes, Reach, EntryPhase, InTable
<1>3. PICK lost \in SUBSET Client :
        /\ UNCHANGED <<channel, shown>> /\ coming' \in [Client -> Seq(Entry)]
        /\ LoseTrack(lost)
        /\ \A c \in Client : Sent(c) \subseteq Sent(c)' /\ Sent(c)' \subseteq Sent(c) \cup {e}
        /\ to = "published" => \A c \in Subscribed("live_blog") \ lost : e \in Sent(c)'
  <2>0. \A ch : Subscribed(ch) \subseteq Client
    BY DEF Subscribed
  <2>1. CASE to = "published"
    <3>1. PICK lost \in SUBSET Subscribed("live_blog") :
            LoseTrack(lost) /\ \A c \in Subscribed("live_blog") \ lost : e \in Sent(c)'
      BY <1>1, <2>1, PublishSends
    <3>2. /\ UNCHANGED <<channel, shown>> /\ coming' \in [Client -> Seq(Entry)]
          /\ \A c \in Client : Sent(c) \subseteq Sent(c)' /\ Sent(c)' \subseteq Sent(c) \cup {e}
      BY <1>1, <2>1, PublishSends
    <3> QED
      BY <2>0, <3>1, <3>2
  <2>2. CASE to = "told" /\ PublishTo("breaking_news", e)
    BY <2>0, <2>2, PublishSends
  <2>3. CASE to = "told" /\ UNCHANGED readerVars
    <3>1. LoseTrack({})
      BY <2>3, NobodyLost DEF readerVars
    <3>2. {} \in SUBSET Client
      OBVIOUS
    <3> QED
      BY <2>3, <3>1, <3>2 DEF readerVars, Sent, LiveTypes
  <2>4. to = "told" => PublishTo("breaking_news", e) \/ UNCHANGED readerVars
    <3>1. SUFFICES ASSUME to = "told" PROVE PublishTo("breaking_news", e) \/ UNCHANGED readerVars
      OBVIOUS
    <3>2. entry'[e] # "published"
      BY <1>2, <3>1
    <3>3. ~PublishEntry(e)
      BY <1>2, <3>2 DEF PublishEntry, Reach, LiveTypes
    <3> QED
      BY <3>3 DEF PublishBreaking
  <2> QED
    BY <2>1, <2>2, <2>3, <2>4
<1>4. LiveTypes'
  BY <1>2, <1>3, TrackLost DEF LiveTypes
<1>5. OneAtATime'
  BY <1>1, <1>2 DEF OneAtATime
<1>6. /\ Spoken' = Spoken \cup {e} /\ WrittenEntries \subseteq WrittenEntries'
      /\ e \in WrittenEntries'
      /\ to = "told" => e \in Spoken
  BY <1>1, <1>2 DEF Spoken, WrittenEntries, Unwritten
<1>7. \A c \in Tracked \ lost : channel'[c] = channel[c] /\ Behind(c)' \subseteq Behind(c)
  <2> SUFFICES ASSUME NEW c \in Tracked \ lost PROVE Behind(c)' \subseteq Behind(c)
    BY <1>3
  <2>1. c \in Subscribed("live_blog") /\ c \in Client
    BY DEF Tracked, TrackedOnChannel, Subscribed
  <2>2. to = "published" => e \in Sent(c)'
    BY <1>3, <2>1
  <2> QED
    BY <1>3, <1>6, <2>1, <2>2 DEF Behind
<1>8. \A c \in Client : Sent(c)' \subseteq Sent(c) \cup WrittenEntries'
  <2>1. {e} \subseteq WrittenEntries'
    BY <1>6
  <2>2. \A c \in Client : Sent(c)' \subseteq Sent(c) \cup {e}
    BY <1>3
  <2> QED
    BY <2>1, <2>2
<1>9. LoseTrack(lost) /\ WrittenEntries \subseteq WrittenEntries'
  BY <1>3, <1>6
<1> QED
  BY <1>4, <1>5, <1>7, <1>8, <1>9, TrackKept

(* A turn of a reader's stream: what it shows was on its way.                *)
LEMMA FlushKeeps ==
  ASSUME LiveTypes, NEW c \in Client, Flush(c)
  PROVE  LiveTypes' /\ \A d \in Client : Sent(d)' = Sent(d)
<1> USE DEF LiveTypes
<1>1. /\ coming[c] \in Seq(Entry) /\ coming[c] # <<>>
      /\ coming' = [coming EXCEPT ![c] = Tail(coming[c])]
      /\ shown' = [shown EXCEPT ![c] = shown[c] \cup {Head(coming[c])}]
      /\ UNCHANGED <<entry, channel, caught, listVars>>
  BY DEF Flush, entryVars
<1>2. Head(coming[c]) \in Entry /\ Tail(coming[c]) \in Seq(Entry)
  BY <1>1
<1>3. LiveTypes'
  BY <1>1, <1>2 DEF listVars
<1>4. Sent(c)' = shown[c] \cup {Head(coming[c])} \cup
                 {Tail(coming[c])[i] : i \in DOMAIN Tail(coming[c])}
  <2>1. coming'[c] = Tail(coming[c]) /\ shown'[c] = shown[c] \cup {Head(coming[c])}
    BY <1>1
  <2> QED
    BY <2>1 DEF Sent
<1>5. {coming[c][i] : i \in DOMAIN coming[c]} =
        {Head(coming[c])} \cup {Tail(coming[c])[i] : i \in DOMAIN Tail(coming[c])}
  BY <1>1, <1>2, Buffer
<1>6. Sent(c)' = Sent(c)
  BY <1>4, <1>5 DEF Sent
<1>7. \A d \in Client \ {c} : Sent(d)' = Sent(d)
  BY <1>1 DEF Sent
<1> QED
  BY <1>3, <1>6, <1>7

(* A stream or the connection to Redis breaks: the reader loses what it was  *)
(* being sent and is no longer caught up, nor will be by a list read before. *)
LEMMA LossEnds ==
  ASSUME LiveTypes, NEW c \in Client, LoseMessages(c) \/ Disconnect(c)
  PROVE  /\ LiveTypes' /\ LoseTrack({c}) /\ caught' = caught \ {c}
         /\ Sent(c)' \subseteq Sent(c)
         /\ \A d \in Client \ {c} : Sent(d)' = Sent(d) /\ channel'[d] = channel[d]
<1> USE DEF LiveTypes
<1>1. /\ coming' = [coming EXCEPT ![c] = <<>>] /\ LoseTrack({c})
      /\ shown' = shown \/ shown' = [shown EXCEPT ![c] = {}]
      /\ channel' = channel \/ channel' = [channel EXCEPT ![c] = "none"]
      /\ UNCHANGED entry
  BY DEF LoseMessages, Disconnect, entryVars
<1>2. LiveTypes'
  <2>1. <<>> \in Seq(Entry)
    OBVIOUS
  <2>2. coming' \in [Client -> Seq(Entry)] /\ shown' \in [Client -> SUBSET Entry]
    BY <1>1, <2>1
  <2>3. channel' \in [Client -> {"none", "live_blog", "breaking_news"}]
    BY <1>1
  <2> QED
    BY <1>1, <2>2, <2>3, TrackLost
<1>3. Sent(c)' \subseteq Sent(c)
  <2>1. coming'[c] = <<>> /\ shown'[c] \subseteq shown[c]
    BY <1>1
  <2> QED
    BY <2>1 DEF Sent
<1>4. \A d \in Client \ {c} : Sent(d)' = Sent(d) /\ channel'[d] = channel[d]
  BY <1>1 DEF Sent
<1>5. caught' = caught \ {c}
  BY <1>1, TrackLost
<1> QED
  BY <1>1, <1>2, <1>3, <1>4, <1>5

(* A list adds its entries to what the reader shows.                         *)
LEMMA ListAdds ==
  ASSUME LiveTypes, NEW c \in Client, NEW told \in SUBSET Entry,
         shown' = [shown EXCEPT ![c] = shown[c] \cup told], UNCHANGED coming
  PROVE  /\ shown' \in [Client -> SUBSET Entry]
         /\ Sent(c)' = Sent(c) \cup told
         /\ \A d \in Client \ {c} : Sent(d)' = Sent(d)
<1> USE DEF LiveTypes
<1>1. shown' \in [Client -> SUBSET Entry] /\ shown'[c] = shown[c] \cup told
  OBVIOUS
<1>2. Sent(c)' = Sent(c) \cup told
  BY <1>1 DEF Sent
<1>3. \A d \in Client \ {c} : Sent(d)' = Sent(d)
  BY DEF Sent
<1> QED
  BY <1>1, <1>2, <1>3

(* A list is read while nobody is adding an entry.                           *)
LEMMA ListRead ==
  ASSUME LiveInv, NEW c \in Client, ListLiveBlogEntries(c)
  PROVE  LiveInv'
<1> USE DEF LiveInv
<1>1. /\ table = c /\ UNCHANGED <<entry, channel, coming, shown, listCopy, caught>>
      /\ reply' = [reply EXCEPT ![c] = Listing] \/ reply' = reply
  BY DEF ListLiveBlogEntries, Reads
<1>2. \A e \in Entry : entry[e] \notin {"locked"} \cup InTable
  BY <1>1, LiveAssumption DEF OneAtATime
<1>3. /\ Listing \in List /\ Listing.entries = Committed
      /\ Listing.after = {d \in Client : channel[d] = "live_blog"}
  BY DEF Listing, List, Committed, Subscribed
<1>4. Spoken = Committed /\ Committed \subseteq WrittenEntries
  BY <1>2 DEF Spoken, Committed, InTable, WrittenEntries, Unwritten
<1>5. /\ UNCHANGED <<Spoken, WrittenEntries>>
      /\ \A d \in Client : Sent(d)' = Sent(d) /\ Behind(d)' = Behind(d) /\ Behind(d) \subseteq Committed
  BY <1>1, <1>4 DEF Spoken, WrittenEntries, Sent, Behind
<1>6. LiveTypes'
  BY <1>1, <1>3 DEF LiveTypes
<1>7. OneAtATime'
  BY <1>1, <1>2 DEF OneAtATime
<1>8. \A r \in Client : \/ reply'[r] = reply[r]
                        \/ /\ reply'[r].entries = Committed
                           /\ reply'[r].after = {d \in Client : channel[d] = "live_blog"}
  BY <1>1, <1>3 DEF LiveTypes
<1>9. TrackedOnChannel'
  BY <1>1, <1>8 DEF TrackedOnChannel, Tracked
<1>10. SentIsWritten'
  BY <1>1, <1>4, <1>5, <1>8 DEF SentIsWritten
<1>11. NothingBehind'
  <2>1. \A r \in Client : \A d \in reply'[r].after : Behind(d)' \subseteq reply'[r].entries
    <3> SUFFICES ASSUME NEW r \in Client, NEW d \in reply'[r].after
                 PROVE  Behind(d)' \subseteq reply'[r].entries
      OBVIOUS
    <3>1. d \in Client
      BY <1>6 DEF LiveTypes, List
    <3> QED
      BY <1>5, <1>8, <3>1 DEF NothingBehind
  <2>2. \A d \in caught \cup listCopy.after : d \in Client
    BY DEF LiveTypes, List
  <2> QED
    BY <1>1, <1>5, <2>1, <2>2 DEF NothingBehind
<1> QED
  BY <1>6, <1>7, <1>9, <1>10, <1>11

(* A list on its way, or the copy at the edge, is shown or is not, and the     *)
(* edge keeps one of them or none.                                            *)
LEMMA ListTold ==
  ASSUME LiveInv, NEW c \in Client, NEW list \in List, UNCHANGED <<entry, table, channel, coming>>,
         list = listCopy \/ list = reply[c],
         ShowList(c, list) \/ UNCHANGED <<shown, caught>>,
         reply' = reply \/ reply' = [reply EXCEPT ![c] = NoList],
         listCopy' \in {listCopy, list, NoList}
  PROVE  LiveInv'
<1> USE DEF LiveInv
<1>1. NoList \in List /\ NoList.after = {} /\ NoList.entries = {}
  BY DEF NoList, List
<1>2. /\ UNCHANGED <<Spoken, WrittenEntries>>
      /\ list.entries \subseteq WrittenEntries /\ list.after \subseteq Tracked
      /\ \A d \in list.after : Behind(d) \subseteq list.entries
  BY DEF Spoken, WrittenEntries, SentIsWritten, NothingBehind, Tracked, LiveTypes, List
<1>3. /\ shown' \in [Client -> SUBSET Entry]
      /\ \A d \in Client : Sent(d) \subseteq Sent(d)' /\ Sent(d)' \subseteq Sent(d) \cup list.entries
      /\ caught' = caught
           \/ (c \in list.after /\ caught' = caught \cup {c} /\ list.entries \subseteq Sent(c)')
  <2>1. CASE ShowList(c, list)
    <3>1. /\ shown' = [shown EXCEPT ![c] = shown[c] \cup list.entries]
          /\ list.entries \in SUBSET Entry
          /\ caught' = IF c \in list.after THEN caught \cup {c} ELSE caught
      BY <2>1 DEF ShowList, List
    <3>2. /\ shown' \in [Client -> SUBSET Entry] /\ Sent(c)' = Sent(c) \cup list.entries
          /\ \A d \in Client \ {c} : Sent(d)' = Sent(d)
      BY <3>1, ListAdds
    <3> QED
      BY <3>1, <3>2
  <2>2. CASE UNCHANGED <<shown, caught>>
    BY <2>2 DEF LiveTypes, Sent
  <2> QED
    BY <2>1, <2>2
<1>4. /\ \A r \in Client : reply'[r] = reply[r] \/ reply'[r] = NoList
      /\ reply' \in [Client -> List] /\ listCopy' \in List
  BY <1>1 DEF LiveTypes
<1>5. LiveTypes'
  BY <1>3, <1>4 DEF LiveTypes
<1>6. OneAtATime'
  BY DEF OneAtATime
<1>7. \A d \in Client : Behind(d)' \subseteq Behind(d)
  BY <1>2, <1>3 DEF Behind
<1>8. Tracked' \subseteq Tracked
  BY <1>1, <1>2, <1>3, <1>4 DEF Tracked
<1>9. TrackedOnChannel'
  BY <1>8 DEF TrackedOnChannel
<1>10. SentIsWritten'
  BY <1>1, <1>2, <1>3, <1>4 DEF SentIsWritten
<1>11. NothingBehind'
  <2>1. \A d \in caught' : Behind(d)' = {}
    <3> SUFFICES ASSUME NEW d \in caught' PROVE Behind(d)' = {}
      OBVIOUS
    <3>1. CASE d \in caught
      BY <1>7, <3>1 DEF NothingBehind, LiveTypes
    <3>2. CASE d = c /\ c \in list.after /\ list.entries \subseteq Sent(c)'
      BY <1>2, <1>3, <3>2 DEF Behind
    <3> QED
      BY <1>3, <3>1, <3>2
  <2>2. \A d \in listCopy'.after : Behind(d)' \subseteq listCopy'.entries
    <3> SUFFICES ASSUME NEW d \in listCopy'.after PROVE Behind(d)' \subseteq listCopy'.entries
      OBVIOUS
    <3>1. d \in Client
      BY <1>5 DEF LiveTypes, List
    <3> QED
      BY <1>1, <1>2, <1>7, <3>1 DEF NothingBehind
  <2>3. \A r \in Client : \A d \in reply'[r].after : Behind(d)' \subseteq reply'[r].entries
    <3> SUFFICES ASSUME NEW r \in Client, NEW d \in reply'[r].after
                 PROVE  Behind(d)' \subseteq reply'[r].entries
      OBVIOUS
    <3>1. d \in Client /\ reply'[r] = reply[r]
      BY <1>1, <1>4, <1>5 DEF LiveTypes, List
    <3> QED
      BY <1>7, <3>1 DEF NothingBehind
  <2> QED
    BY <2>1, <2>2, <2>3 DEF NothingBehind
<1> QED
  BY <1>5, <1>6, <1>9, <1>10, <1>11

(***************************************************************************)
(* Every step                                                              *)
(***************************************************************************)

(* A step that changes none of this.                                         *)
LEMMA LiveFrame ==
  ASSUME LiveInv, UNCHANGED <<entry, table, channel, coming, shown, listVars, caught>>
  PROVE  LiveInv'
<1>1. LiveTypes' /\ OneAtATime' /\ \A c \in Client : Sent(c)' = Sent(c)
  BY DEF LiveInv, LiveTypes, OneAtATime, Sent, listVars
<1>2. LoseTrack({}) /\ Tracked \subseteq Client
  BY NobodyLost DEF LiveInv, Tracked
<1> QED
  BY <1>1, <1>2, ReaderMoves

(* A step of an entry keeps the invariant.                                   *)
LEMMA EntryStepKeeps ==
  ASSUME LiveInv, NEW e \in Entry, EntryStep(e)
  PROVE  LiveInv'
<1> USE LiveAssumption
<1>1. CASE LockForEntry(e)
  BY <1>1, EntryMoves DEF LockForEntry, readerVars, EntryPhase, InTable, Unwritten
<1>2. CASE InsertEntry(e)
  <2>1. table = e
    BY <1>2 DEF InsertEntry, LiveInv, OneAtATime
  <2> QED
    BY <1>2, <2>1, EntryMoves DEF InsertEntry, readerVars, EntryPhase, InTable, Unwritten
<1>3. CASE PublishEntry(e) \/ PublishBreaking(e)
  BY <1>3, Publishes
<1>4. CASE CommitEntry(e) \/ FailEntry(e)
  <2>1. table = e /\ UNCHANGED <<channel, coming, shown, listVars, caught>>
        /\ (Reach(e, "dropped") \/ (Reach(e, "committed") /\ e \in Spoken))
    BY <1>4 DEF CommitEntry, FailEntry, LiveInv, OneAtATime, InTable, readerVars, Spoken
  <2> QED
    BY <2>1, EntryMoves DEF EntryPhase, InTable, Unwritten
<1>5. CASE DeleteLiveBlogEntry(e)
  BY <1>5, EntryMoves DEF DeleteLiveBlogEntry, readerVars, EntryPhase, InTable, Unwritten
<1>6. CASE TogglePinLiveBlogEntry(e)
  BY <1>6, LiveFrame DEF TogglePinLiveBlogEntry, readerVars
<1> QED
  BY <1>1, <1>2, <1>3, <1>4, <1>5, <1>6 DEF EntryStep

(* A step of a reader keeps the invariant.                                   *)
LEMMA ClientStepKeeps ==
  ASSUME LiveInv, NEW c \in Client, ClientStep(c)
  PROVE  LiveInv'
<1> USE DEF LiveInv
<1>0. Tracked \subseteq Client
  BY DEF Tracked
<1>1. CASE StreamLiveBlog(c) \/ StreamBreakingNews(c)
  <2>1. PICK ch \in {"live_blog", "breaking_news"} : OpenStream(c, ch)
    BY <1>1 DEF StreamLiveBlog, StreamBreakingNews
  <2>2. /\ channel[c] = "none" /\ channel' = [channel EXCEPT ![c] = ch]
        /\ UNCHANGED <<entry, table, coming, shown, listVars, caught>>
    BY <2>1 DEF OpenStream, entryVars
  <2>3. LiveTypes' /\ OneAtATime'
    BY <2>2 DEF LiveTypes, OneAtATime, listVars
  <2>4. \A d \in Client : Sent(d)' = Sent(d)
    BY <2>2 DEF Sent
  <2>5. \A d \in Tracked : channel'[d] = channel[d]
    BY <1>0, <2>2 DEF TrackedOnChannel, LiveTypes
  <2>6. LoseTrack({})
    BY <2>2, NobodyLost
  <2> QED
    BY <1>0, <2>2, <2>3, <2>4, <2>5, <2>6, ReaderMoves
<1>2. CASE Flush(c)
  <2>1. LiveTypes' /\ \A d \in Client : Sent(d)' = Sent(d)
    BY <1>2, FlushKeeps
  <2>2. UNCHANGED <<entry, table, channel, caught, listVars>>
    BY <1>2 DEF Flush, entryVars
  <2>3. OneAtATime' /\ LoseTrack({})
    BY <2>2, NobodyLost DEF OneAtATime
  <2> QED
    BY <1>0, <2>1, <2>2, <2>3, ReaderMoves
<1>3. CASE LoseMessages(c) \/ Disconnect(c)
  <2>1. /\ LiveTypes' /\ LoseTrack({c})
        /\ Sent(c)' \subseteq Sent(c)
        /\ \A d \in Client \ {c} : Sent(d)' = Sent(d) /\ channel'[d] = channel[d]
    BY <1>3, LossEnds
  <2>2. UNCHANGED <<entry, table>>
    BY <1>3 DEF LoseMessages, Disconnect, entryVars
  <2>3. OneAtATime'
    BY <2>2 DEF OneAtATime
  <2>4. \A d \in Client : Sent(d)' \subseteq Sent(d)
    BY <2>1
  <2>5. \A d \in Tracked \ {c} : Sent(d) \subseteq Sent(d)' /\ channel'[d] = channel[d]
    BY <1>0, <2>1
  <2> QED
    BY <2>1, <2>2, <2>3, <2>4, <2>5, ReaderMoves
<1>4. CASE LockForList(c)
  <2>1. table = Free /\ UNCHANGED <<entry, channel, coming, shown, listVars, caught>>
    BY <1>4 DEF LockForList, readerVars
  <2>2. LiveTypes' /\ OneAtATime' /\ LoseTrack({})
    BY <2>1, LiveAssumption, NobodyLost DEF LiveTypes, OneAtATime, listVars
  <2>3. \A d \in Client : Sent(d)' = Sent(d)
    BY <2>1 DEF Sent
  <2> QED
    BY <1>0, <2>1, <2>2, <2>3, ReaderMoves
<1>5. CASE ListLiveBlogEntries(c)
  BY <1>5, ListRead
<1>6. CASE DeliverList(c)
  <2>1. reply[c] \in List
    BY DEF LiveTypes
  <2>2. /\ UNCHANGED <<entry, table, channel, coming>>
        /\ ShowList(c, reply[c]) \/ UNCHANGED <<shown, caught>>
        /\ reply' = [reply EXCEPT ![c] = NoList] /\ listCopy' \in {listCopy, reply[c], NoList}
    BY <1>6 DEF DeliverList, entryVars
  <2> QED
    BY <2>1, <2>2, ListTold
<1>7. CASE ListFromEdge(c)
  <2>1. listCopy \in List
    BY DEF LiveTypes
  <2>2. /\ UNCHANGED <<entry, table, channel, coming>> /\ ShowList(c, listCopy)
        /\ reply' = reply /\ listCopy' \in {listCopy, NoList}
    BY <1>7 DEF ListFromEdge, entryVars, listVars
  <2> QED
    BY <2>1, <2>2, ListTold
<1> QED
  BY <1>1, <1>2, <1>3, <1>4, <1>5, <1>6, <1>7 DEF ClientStep

(* A copy that is no longer kept.                                            *)
LEMMA EdgeForgetsKeeps ==
  ASSUME LiveInv, EdgeForgets
  PROVE  LiveInv'
<1> USE DEF LiveInv
<1>1. /\ UNCHANGED <<entry, table, channel, coming, shown, reply, caught>> /\ listCopy' = NoList
      /\ NoList \in List /\ NoList.entries = {} /\ NoList.after = {}
  BY DEF EdgeForgets, entryVars, NoList, List
<1>2. LiveTypes' /\ OneAtATime'
  BY <1>1 DEF LiveTypes, OneAtATime
<1>3. /\ Tracked' \subseteq Tracked /\ UNCHANGED <<Spoken, WrittenEntries>>
      /\ \A c : Sent(c)' = Sent(c) /\ Behind(c)' = Behind(c)
  BY <1>1 DEF Tracked, Spoken, WrittenEntries, Sent, Behind
<1> QED
  BY <1>1, <1>2, <1>3 DEF TrackedOnChannel, SentIsWritten, NothingBehind

(* Every step keeps the invariant.                                           *)
LEMMA LiveStep == LiveInv /\ [LiveNext]_liveVars => LiveInv'
<1> SUFFICES ASSUME LiveInv, [LiveNext]_liveVars PROVE LiveInv'
  OBVIOUS
<1>1. CASE UNCHANGED liveVars
  BY <1>1, LiveFrame DEF liveVars, listVars
<1> QED
  BY <1>1, EntryStepKeeps, ClientStepKeeps, EdgeForgetsKeeps DEF LiveNext

(***************************************************************************)
(* The refinement                                                          *)
(***************************************************************************)

(* The abstract variables, now and after a step.                             *)
LEMMA Mapped ==
  /\ EntryStatus' = [e \in Entry |-> StatusOf(entry'[e])]
  /\ Known' = [c \in Client |-> Sent(c)']
  /\ \A e \in Entry : EntryStatus[e] = StatusOf(entry[e])
  /\ \A c \in Client : Known[c] = Sent(c)
BY DEF EntryStatus, Known, StatusOf, InTable

(* What an entry's phases are to the readers.                                *)
LEMMA EntryPhases ==
  /\ \A p \in Unwritten : StatusOf(p) = "none"
  /\ \A p \in InTable : StatusOf(p) = "pending"
  /\ StatusOf("committed") = "kept" /\ StatusOf("deleted") = "gone"
  /\ StatusOf("dropped") = "dropped"
BY DEF StatusOf, InTable, Unwritten

(* Nobody is sent what is not written.                                       *)
LEMMA KnownWritten ==
  ASSUME LiveInv, LiveInv', UNCHANGED entry \/ EntryStatus' = EntryStatus
  PROVE  Known' \in [Client -> SUBSET Promise!Written]
<1>1. \A c \in Client : \A e \in Sent(c)' : e \in Entry /\ entry'[e] \notin Unwritten
                                          /\ entry'[e] \in EntryPhase
  BY DEF LiveInv, LiveTypes, SentIsWritten, WrittenEntries
<1>2. \A p \in EntryPhase : p \notin Unwritten => StatusOf(p) # "none"
  BY EntryPhases DEF EntryPhase, Unwritten
<1>3. EntryStatus' = EntryStatus
  BY DEF EntryStatus
<1>4. \A c \in Client : Sent(c)' \subseteq Promise!Written
  <2> SUFFICES ASSUME NEW c \in Client, NEW e \in Sent(c)' PROVE e \in Promise!Written
    OBVIOUS
  <2>1. e \in Entry /\ EntryStatus'[e] = StatusOf(entry'[e]) /\ StatusOf(entry'[e]) # "none"
    BY <1>1, <1>2, Mapped
  <2> QED
    BY <1>3, <2>1 DEF Promise!Written
<1> QED
  BY <1>4, Mapped

(* A step of an entry writes one, keeps it once everyone caught up is sent   *)
(* it, drops or retracts it; publishing tells some readers of it.            *)
LEMMA EntryStepMaps ==
  ASSUME LiveInv, LiveInv', NEW e \in Entry, EntryStep(e)
  PROVE  Promise!FeedNext \/ UNCHANGED Promise!feedVars
<1>1. ASSUME NEW to \in EntryPhase, Reach(e, to)
      PROVE  EntryStatus' = [EntryStatus EXCEPT ![e] = StatusOf(to)]
  BY <1>1, Mapped DEF LiveInv, LiveTypes, Reach, EntryStatus
<1>2. ASSUME UNCHANGED <<coming, shown>> PROVE Known' = Known
  BY <1>2, Mapped DEF Known, Sent
<1>3. CASE LockForEntry(e)
  <2>1. EntryStatus' = [EntryStatus EXCEPT ![e] = "none"] /\ EntryStatus[e] = "none"
    BY <1>1, <1>3, Mapped, EntryPhases DEF LockForEntry, EntryPhase, Unwritten
  <2>2. EntryStatus' = EntryStatus
    BY <2>1 DEF EntryStatus
  <2>3. Known' = Known /\ caught' = caught
    BY <1>2, <1>3 DEF LockForEntry, readerVars
  <2> QED
    BY <2>2, <2>3 DEF Promise!feedVars
<1>4. CASE InsertEntry(e)
  <2>1. EntryStatus' = [EntryStatus EXCEPT ![e] = "pending"] /\ EntryStatus[e] = "none"
    BY <1>1, <1>4, Mapped, EntryPhases DEF InsertEntry, EntryPhase, Unwritten, InTable
  <2>2. Known' = Known /\ caught' = caught
    BY <1>2, <1>4 DEF InsertEntry, readerVars
  <2>3. Promise!WriteOne(e)
    BY <2>1, <2>2 DEF Promise!WriteOne
  <2> QED
    BY <2>3 DEF Promise!FeedNext
<1>5. CASE PublishEntry(e) \/ PublishBreaking(e)
  <2>0. PICK to \in {"published", "told"} : Reach(e, to) /\ entry[e] \in InTable
    BY <1>5 DEF PublishEntry, PublishBreaking, InTable
  <2>1. EntryStatus' = [EntryStatus EXCEPT ![e] = "pending"] /\ EntryStatus[e] = "pending"
    <3>1. to \in EntryPhase /\ StatusOf(to) = "pending" /\ StatusOf(entry[e]) = "pending"
      BY <2>0, EntryPhases DEF EntryPhase, InTable
    <3> QED
      BY <1>1, <2>0, <3>1, Mapped
  <2>2. EntryStatus' = EntryStatus
    BY <2>1 DEF EntryStatus
  <2>3. caught' \subseteq caught /\ \A c \in Client : Sent(c) \subseteq Sent(c)'
    <3>1. CASE PublishTo("live_blog", e) \/ PublishTo("breaking_news", e)
      <4>1. PICK lost : LoseTrack(lost)
        BY <3>1, PublishSends DEF LiveInv
      <4>2. caught' = caught \ lost
        BY <4>1, TrackLost DEF LiveInv
      <4> QED
        BY <3>1, <4>2, PublishSends DEF LiveInv
    <3>2. CASE UNCHANGED readerVars
      BY <3>2 DEF readerVars, Sent
    <3> QED
      BY <1>5, <3>1, <3>2 DEF PublishEntry, PublishBreaking
  <2>4. \A c \in caught' : Known[c] \subseteq Known'[c]
    BY <2>3, Mapped DEF LiveInv, LiveTypes
  <2>5. Promise!Learn
    BY <2>2, <2>3, <2>4, KnownWritten DEF Promise!Learn
  <2> QED
    BY <2>5 DEF Promise!FeedNext
<1>6. CASE CommitEntry(e)
  <2>1. EntryStatus' = [EntryStatus EXCEPT ![e] = "kept"] /\ EntryStatus[e] = "pending"
    BY <1>1, <1>6, Mapped, EntryPhases DEF CommitEntry, EntryPhase, InTable
  <2>2. Known' = Known /\ caught' = caught
    BY <1>2, <1>6 DEF CommitEntry, readerVars
  <2>3. \A c \in caught : e \in Known[c]
    BY <1>6, Mapped DEF CommitEntry, LiveInv, LiveTypes, NothingBehind, Behind, Spoken
  <2>4. Promise!Keep(e)
    BY <2>1, <2>2, <2>3 DEF Promise!Keep
  <2> QED
    BY <2>4 DEF Promise!FeedNext
<1>7. CASE FailEntry(e)
  <2>1. EntryStatus' = [EntryStatus EXCEPT ![e] = "dropped"]
    BY <1>1, <1>7, EntryPhases DEF FailEntry, EntryPhase
  <2>2. EntryStatus[e] \in {"none", "pending"}
    BY <1>7, Mapped, EntryPhases DEF FailEntry, Unwritten
  <2>3. Known' = Known /\ caught' = caught
    BY <1>2, <1>7 DEF FailEntry, readerVars
  <2>4. Promise!Drop(e)
    BY <2>1, <2>2, <2>3 DEF Promise!Drop
  <2> QED
    BY <2>4 DEF Promise!FeedNext
<1>8. CASE DeleteLiveBlogEntry(e)
  <2>1. EntryStatus' = [EntryStatus EXCEPT ![e] = "gone"] /\ EntryStatus[e] = "kept"
    BY <1>1, <1>8, Mapped, EntryPhases DEF DeleteLiveBlogEntry, EntryPhase
  <2>2. Known' = Known /\ caught' = caught
    BY <1>2, <1>8 DEF DeleteLiveBlogEntry, readerVars
  <2>3. Promise!Retract(e)
    BY <2>1, <2>2 DEF Promise!Retract
  <2> QED
    BY <2>3 DEF Promise!FeedNext
<1>9. CASE TogglePinLiveBlogEntry(e)
  <2>1. UNCHANGED <<entry, coming, shown, caught>>
    BY <1>9 DEF TogglePinLiveBlogEntry, readerVars
  <2>2. EntryStatus' = EntryStatus
    BY <2>1 DEF EntryStatus
  <2> QED
    BY <1>2, <2>1, <2>2 DEF Promise!feedVars
<1> QED
  BY <1>3, <1>4, <1>5, <1>6, <1>7, <1>8, <1>9 DEF EntryStep

(* What is kept, to the readers, are the entries committed.                  *)
LEMMA KeptCommitted ==
  ASSUME LiveTypes
  PROVE  Promise!Kept = Committed
<1>1. \A p \in EntryPhase : StatusOf(p) = "kept" <=> p = "committed"
  BY EntryPhases DEF EntryPhase, InTable, Unwritten
<1> QED
  BY <1>1, Mapped DEF Committed, Promise!Kept, LiveTypes

(* A list that is shown catches the reader up, or tells it something.         *)
LEMMA ListToldMaps ==
  ASSUME LiveInv, LiveInv', NEW c \in Client, NEW list \in List, UNCHANGED <<entry, coming>>,
         list = listCopy \/ list = reply[c], ShowList(c, list)
  PROVE  Promise!FeedNext
<1>1. /\ shown' = [shown EXCEPT ![c] = shown[c] \cup list.entries]
      /\ caught' = IF c \in list.after THEN caught \cup {c} ELSE caught
      /\ list.entries \in SUBSET Entry
  BY DEF ShowList, List
<1>2. Sent(c)' = Sent(c) \cup list.entries /\ \A d \in Client \ {c} : Sent(d)' = Sent(d)
  BY <1>1, ListAdds DEF LiveInv
<1>3. EntryStatus' = EntryStatus /\ Known' \in [Client -> SUBSET Promise!Written]
  BY KnownWritten DEF EntryStatus
<1>4. Known' = [Known EXCEPT ![c] = @ \cup list.entries]
  BY <1>2, Mapped DEF Known
<1>5. list.entries \in SUBSET Promise!Written
  <2>1. list.entries \subseteq Known'[c]
    BY <1>2, Mapped
  <2> QED
    BY <1>3, <2>1
<1>6. CASE c \in list.after
  <2>1. Behind(c) \subseteq list.entries
    BY <1>6 DEF LiveInv, NothingBehind
  <2>2. Promise!Kept \subseteq Known[c] \cup list.entries
    BY <2>1, KeptCommitted, Mapped DEF LiveInv, Behind, Spoken, Committed
  <2>3. Promise!CatchUp(c)
    BY <1>1, <1>3, <1>4, <1>5, <1>6, <2>2 DEF Promise!CatchUp
  <2> QED
    BY <2>3 DEF Promise!FeedNext
<1>7. CASE c \notin list.after
  <2>1. caught' = caught
    BY <1>1, <1>7
  <2>2. caught \subseteq Client
    BY DEF LiveInv, LiveTypes
  <2>3. \A d \in Client : Sent(d) \subseteq Sent(d)'
    BY <1>2
  <2>4. \A d \in caught' : Known[d] \subseteq Known'[d]
    BY <2>1, <2>2, <2>3, Mapped
  <2>5. Promise!Learn
    BY <1>3, <2>1, <2>4 DEF Promise!Learn
  <2> QED
    BY <2>5 DEF Promise!FeedNext
<1> QED
  BY <1>6, <1>7

(* A step of a reader: it catches up, learns of something or loses some.     *)
LEMMA ClientStepMaps ==
  ASSUME LiveInv, LiveInv', NEW c \in Client, ClientStep(c)
  PROVE  Promise!FeedNext \/ UNCHANGED Promise!feedVars
<1>1. UNCHANGED entry
  BY DEF ClientStep, StreamLiveBlog, StreamBreakingNews, OpenStream, Flush, LoseMessages,
     Disconnect, LockForList, ListLiveBlogEntries, DeliverList, ListFromEdge, entryVars
<1>2. EntryStatus' = EntryStatus
  BY <1>1 DEF EntryStatus
<1>3. Known' \in [Client -> SUBSET Promise!Written]
  BY <1>1, KnownWritten
<1>4. ASSUME caught' \subseteq caught, \A d \in caught' : Sent(d) \subseteq Sent(d)'
      PROVE  Promise!FeedNext
  <2>1. \A d \in caught' : Known[d] \subseteq Known'[d]
    BY <1>4, Mapped DEF LiveInv, LiveTypes
  <2>2. Promise!Learn
    BY <1>2, <1>3, <1>4, <2>1 DEF Promise!Learn
  <2> QED
    BY <2>2 DEF Promise!FeedNext
<1>5. CASE StreamLiveBlog(c) \/ StreamBreakingNews(c) \/ LockForList(c) \/ ListLiveBlogEntries(c)
           \/ (DeliverList(c) /\ UNCHANGED <<shown, caught>>)
  <2>1. UNCHANGED <<coming, shown, caught>>
    BY <1>5 DEF StreamLiveBlog, StreamBreakingNews, OpenStream, LockForList, ListLiveBlogEntries,
       DeliverList, readerVars
  <2>2. \A d : Sent(d)' = Sent(d)
    BY <2>1 DEF Sent
  <2> QED
    BY <1>4, <2>1, <2>2
<1>6. CASE Flush(c)
  <2>1. caught' = caught /\ \A d \in Client : Sent(d)' = Sent(d)
    BY <1>6, FlushKeeps DEF Flush, LiveInv
  <2> QED
    BY <1>4, <2>1 DEF LiveInv, LiveTypes
<1>7. CASE LoseMessages(c) \/ Disconnect(c)
  <2>1. caught' = caught \ {c} /\ \A d \in Client \ {c} : Sent(d)' = Sent(d)
    BY <1>7, LossEnds DEF LiveInv
  <2> QED
    BY <1>4, <2>1 DEF LiveInv, LiveTypes
<1>8. CASE DeliverList(c) /\ ShowList(c, reply[c])
  <2>1. reply[c] \in List
    BY DEF LiveInv, LiveTypes
  <2>2. UNCHANGED coming
    BY <1>8 DEF DeliverList
  <2> QED
    BY <1>1, <1>8, <2>1, <2>2, ListToldMaps
<1>9. CASE ListFromEdge(c)
  <2>1. listCopy \in List
    BY DEF LiveInv, LiveTypes
  <2>2. UNCHANGED coming /\ ShowList(c, listCopy)
    BY <1>9 DEF ListFromEdge
  <2> QED
    BY <1>1, <2>1, <2>2, ListToldMaps
<1>10. DeliverList(c) => ShowList(c, reply[c]) \/ UNCHANGED <<shown, caught>>
  BY DEF DeliverList
<1> QED
  BY <1>5, <1>6, <1>7, <1>8, <1>9, <1>10 DEF ClientStep

(* The live blog with its streams, its transactions, its table lock and the   *)
(* edge that answers for it implements the promise: who is caught up by a     *)
(* list read after it subscribed misses no entry that is kept.                *)
THEOREM NothingMissedHolds == LiveSpec => NothingMissed
<1>1. LiveInit => Promise!FeedInit
  <2> SUFFICES ASSUME LiveInit PROVE Promise!FeedInit
    OBVIOUS
  <2>1. EntryStatus = [e \in Entry |-> "none"]
    BY EntryPhases DEF LiveInit, EntryStatus, Unwritten
  <2>2. Known = [c \in Client |-> {}]
    BY DEF LiveInit, Known, Sent
  <2> QED
    BY <2>1, <2>2 DEF LiveInit, Promise!FeedInit
<1>2. LiveInv /\ LiveInv' /\ [LiveNext]_liveVars => [Promise!FeedNext]_(Promise!feedVars)
  <2> SUFFICES ASSUME LiveInv, LiveInv', [LiveNext]_liveVars
               PROVE  Promise!FeedNext \/ UNCHANGED Promise!feedVars
    OBVIOUS
  <2>1. CASE UNCHANGED liveVars
    BY <2>1 DEF liveVars, Promise!feedVars, EntryStatus, Known, Sent
  <2>2. CASE EdgeForgets
    <3>1. UNCHANGED <<entry, coming, shown, caught>>
      BY <2>2 DEF EdgeForgets, entryVars
    <3> QED
      BY <3>1 DEF Promise!feedVars, EntryStatus, Known, Sent
  <2> QED
    BY <2>1, <2>2, EntryStepMaps, ClientStepMaps DEF LiveNext
<1> QED
  BY <1>1, <1>2, LiveStart, LiveStep, PTL DEF LiveSpec, NothingMissed, Promise!FeedSpec

-----------------------------------------------------------------------------
(* Order among natural numbers *)

(* A non-empty set of naturals has a smallest element.                       *)
LEMMA SmallestExists ==
  ASSUME NEW S \in SUBSET Nat, S # {}
  PROVE  \E m \in S : \A n \in S : m <= n
<1> DEFINE Below(n) == 0 .. n
           T == {Below(n) : n \in S}
<1>1. T \subseteq FiniteSubsetsOf(Nat)
  <2> SUFFICES ASSUME NEW n \in S PROVE Below(n) \in FiniteSubsetsOf(Nat)
    OBVIOUS
  <2>1. IsFiniteSet(0 .. n)
    BY FS_Interval
  <2> QED
    BY <2>1 DEF FiniteSubsetsOf
<1>2. PICK U \in T : \A V \in T : <<V, U>> \notin StrictSubsetOrdering(Nat)
  <2>1. T # {}
    OBVIOUS
  <2>2. IsWellFoundedOn(StrictSubsetOrdering(Nat), FiniteSubsetsOf(Nat))
    BY FS_StrictSubsetOrderingWellFounded
  <2> QED
    BY <1>1, <2>1, <2>2, WFMin
<1>3. PICK m \in S : U = Below(m)
  BY <1>2
<1>4. ASSUME NEW n \in S, n < m PROVE FALSE
  <2>1. Below(n) \subseteq Below(m) /\ m \in Below(m) /\ m \notin Below(n)
    BY <1>4
  <2>2. <<Below(n), U>> \in StrictSubsetOrdering(Nat)
    BY <2>1, <1>3 DEF StrictSubsetOrdering
  <2> QED
    BY <1>2, <2>2
<1> QED
  BY <1>4

(* A finite non-empty set of naturals has a largest element.                 *)
LEMMA LargestExists ==
  ASSUME NEW S \in SUBSET Nat, IsFiniteSet(S), S # {}
  PROVE  \E m \in S : \A n \in S : n <= m
<1> DEFINE Above(n) == {x \in S : n <= x}
           T == {Above(n) : n \in S}
<1>1. T \subseteq FiniteSubsetsOf(S)
  BY FS_Subset DEF FiniteSubsetsOf
<1>2. PICK U \in T : \A V \in T : <<V, U>> \notin StrictSubsetOrdering(S)
  <2>1. T # {}
    OBVIOUS
  <2>2. IsWellFoundedOn(StrictSubsetOrdering(S), FiniteSubsetsOf(S))
    BY FS_StrictSubsetOrderingWellFounded
  <2> QED
    BY <1>1, <2>1, <2>2, WFMin
<1>3. PICK m \in S : U = Above(m)
  BY <1>2
<1>4. ASSUME NEW n \in S, m < n PROVE FALSE
  <2>3. m \in Nat /\ n \in Nat /\ \A x \in S : x \in Nat
    OBVIOUS
  <2>1. Above(n) \subseteq Above(m) /\ m \in Above(m) /\ m \notin Above(n)
    <3>1. ASSUME NEW x \in Above(n) PROVE x \in Above(m)
      BY <1>4, <2>3
    <3>2. m \in Above(m)
      BY <2>3
    <3>3. m \notin Above(n)
      BY <1>4, <2>3
    <3> QED
      BY <3>1, <3>2, <3>3
  <2>2. <<Above(n), U>> \in StrictSubsetOrdering(S)
    BY <2>1, <1>3 DEF StrictSubsetOrdering
  <2> QED
    BY <1>2, <2>2
<1> QED
  BY <1>4

(* The elements of a finite set of naturals can be put in descending order.    *)
LEMMA DescendingExists ==
  ASSUME NEW S \in SUBSET Nat, IsFiniteSet(S)
  PROVE  \E f \in [1 .. Cardinality(S) -> S] :
           /\ \A i, j \in 1 .. Cardinality(S) : i < j => f[i] > f[j]
           /\ \A s \in S : \E i \in 1 .. Cardinality(S) : f[i] = s
<1> DEFINE c == Cardinality(S)
           Above(n) == {x \in S : n <= x}
           rank == [s \in S |-> Cardinality(Above(s))]
<1>1. c \in Nat
  BY FS_CardinalityType
<1>2. ASSUME NEW s \in S PROVE IsFiniteSet(Above(s)) /\ rank[s] \in 1 .. c
  <2>1. IsFiniteSet(Above(s)) /\ Cardinality(Above(s)) <= c
    BY FS_Subset
  <2>2. Cardinality(Above(s)) \in Nat /\ (Cardinality(Above(s)) = 0 <=> Above(s) = {})
    BY <2>1, FS_CardinalityType, FS_EmptySet
  <2>3. s \in Above(s)
    OBVIOUS
  <2> QED
    BY <1>1, <2>1, <2>2, <2>3
<1>3. ASSUME NEW s \in S, NEW t \in S, s < t PROVE rank[t] < rank[s]
  <2>3. s \in Nat /\ t \in Nat /\ \A x \in S : x \in Nat
    OBVIOUS
  <2>1. Above(t) \subseteq Above(s) /\ s \in Above(s) /\ s \notin Above(t)
    <3>1. ASSUME NEW x \in Above(t) PROVE x \in Above(s)
      BY <1>3, <2>3
    <3>2. s \in Above(s)
      BY <2>3
    <3>3. s \notin Above(t)
      BY <1>3, <2>3
    <3> QED
      BY <3>1, <3>2, <3>3
  <2>2. Cardinality(Above(t)) <= Cardinality(Above(s))
        /\ (Cardinality(Above(s)) = Cardinality(Above(t)) => Above(s) = Above(t))
    BY <1>2, <2>1, FS_Subset
  <2> QED
    BY <1>2, <2>1, <2>2
<1>4. rank \in Injection(S, 1 .. c)
  <2>1. rank \in [S -> 1 .. c]
    BY <1>2
  <2>2. \A s, t \in S : rank[s] = rank[t] => s = t
    <3> SUFFICES ASSUME NEW s \in S, NEW t \in S, s # t PROVE rank[s] # rank[t]
      OBVIOUS
    <3>1. s < t \/ t < s
      OBVIOUS
    <3>2. rank[s] \in 1 .. c /\ rank[t] \in 1 .. c
      BY <1>2
    <3> HIDE DEF rank
    <3> QED
      BY <3>1, <3>2, <1>1, <1>3
  <2> HIDE DEF rank
  <2> QED
    BY <2>1, <2>2 DEF Injection, IsInjective
<1>5. rank \in Surjection(S, 1 .. c)
  <2>1. IsFiniteSet(1 .. c) /\ Cardinality(1 .. c) = c
    BY <1>1, FS_Interval
  <2> HIDE DEF rank
  <2> QED
    BY <1>4, <2>1, FS_Injection
<1> DEFINE f == [i \in 1 .. c |-> CHOOSE s \in S : rank[s] = i]
<1>6. ASSUME NEW i \in 1 .. c PROVE f[i] \in S /\ rank[f[i]] = i
  <2> HIDE DEF rank
  <2>1. \E s \in S : rank[s] = i
    BY <1>5 DEF Surjection
  <2> QED
    BY <2>1
<1>7. f \in [1 .. c -> S]
  <2> HIDE DEF rank
  <2> QED
    BY <1>6
<1>8. ASSUME NEW i \in 1 .. c, NEW j \in 1 .. c, i < j PROVE f[i] > f[j]
  <2> HIDE DEF rank, f
  <2>1. f[i] \in S /\ f[j] \in S /\ rank[f[i]] = i /\ rank[f[j]] = j
    BY <1>6
  <2>2. CASE f[i] = f[j]
    BY <2>1, <2>2, <1>8
  <2>3. CASE f[i] < f[j]
    <3>1. rank[f[j]] < rank[f[i]]
      BY <2>1, <2>3, <1>3
    <3> QED
      BY <3>1, <2>1, <1>8, <1>1
  <2>4. f[i] \in Nat /\ f[j] \in Nat
    BY <2>1
  <2> QED
    BY <2>2, <2>3, <2>4
<1>9. ASSUME NEW s \in S PROVE \E i \in 1 .. c : f[i] = s
  <2> HIDE DEF rank, f
  <2>1. rank[s] \in 1 .. c
    BY <1>4 DEF Injection
  <2>2. f[rank[s]] \in S /\ rank[f[rank[s]]] = rank[s]
    BY <2>1, <1>6
  <2>3. f[rank[s]] = s
    BY <2>2, <1>4 DEF Injection, IsInjective
  <2> QED
    BY <2>1, <2>3
<1> QED
  <2> HIDE DEF f
  <2> QED
    BY <1>7, <1>8, <1>9

-----------------------------------------------------------------------------
(* HomepageLayout *)

(* What the requests and the servers may be doing.                            *)
DeskPhase == {"idle", "creating", "settings", "moving"}
EditorRequest ==
  [phase : DeskPhase, order : Nat, keys : Seq(Keys \cup {NoKey}), next : Nat \ {0}]
LayoutTypes ==
  /\ layout \in [Keys -> Nat] /\ moving \in [Keys -> Editor \cup {NoEditor}]
  /\ editor \in [Editor -> EditorRequest]
  /\ starter \in [Server -> 0 .. Len(DefaultKeys) + 1]
  /\ lastAsked \in Seq(Keys \cup {NoKey}) /\ removed \subseteq Keys /\ blindStart \in BOOLEAN

(* A server writes the defaults only when it has counted no section.           *)
SeedsBlind == \A s \in Server : starter[s] \in DOMAIN DefaultKeys => blindStart

(* What a reordering names is there and named once, and the rows that it has   *)
(* come to are its own.                                                       *)
BatchSound ==
  \A e \in Editor : editor[e].phase = "moving" =>
    \A i \in DOMAIN editor[e].keys : editor[e].keys[i] # NoKey =>
      /\ editor[e].keys[i] \in Present
      /\ \A j \in DOMAIN editor[e].keys : editor[e].keys[j] = editor[e].keys[i] => j = i
      /\ i < editor[e].next => moving[editor[e].keys[i]] = e

(* A row that is held has been written by the reordering that holds it.        *)
HeldByBatch ==
  \A k \in Keys : moving[k] # NoEditor =>
    /\ editor[moving[k]].phase = "moving"
    /\ \E i \in DOMAIN editor[moving[k]].keys :
         i < editor[moving[k]].next /\ editor[moving[k]].keys[i] = k

(* The order asked for last speaks of sections that are there.                 *)
AskedPresent == \A i \in DOMAIN lastAsked : lastAsked[i] # NoKey => lastAsked[i] \in Present

LayoutInv ==
  LayoutTypes /\ SeedsBlind /\ BatchSound /\ HeldByBatch /\ AskedPresent /\ LayoutAsAsked

(* The table is new or filled, and nobody is at work.                         *)
LEMMA LayoutStart == LayoutInit => LayoutInv
<1> SUFFICES ASSUME LayoutInit PROVE LayoutInv
  OBVIOUS
<1> USE LayoutAssumption
<1> USE DEF EditorRequest
<1>1. layout \in [Keys -> Nat]
  <2>1. PICK there \in {{}, Keys \ OtherKeys} :
          layout = [k \in Keys |-> IF k \in there
                                   THEN CHOOSE i \in DOMAIN DefaultKeys : DefaultKeys[i] = k
                                   ELSE 0]
    BY DEF LayoutInit
  <2>2. ASSUME NEW k \in there
        PROVE  (CHOOSE i \in DOMAIN DefaultKeys : DefaultKeys[i] = k) \in Nat
    <3>1. \E i \in DOMAIN DefaultKeys : DefaultKeys[i] = k
      BY <2>2 DEF Keys
    <3>2. DOMAIN DefaultKeys \subseteq Nat
      OBVIOUS
    <3> QED
      BY <3>1, <3>2
  <2> QED
    BY <2>1, <2>2
<1>2. LayoutTypes
  <2>1. Len(DefaultKeys) \in Nat
    OBVIOUS
  <2>2. moving \in [Keys -> Editor \cup {NoEditor}]
    BY DEF LayoutInit
  <2>3. editor \in [Editor -> EditorRequest]
    BY DEF LayoutInit, AtDesk, DeskPhase
  <2>4. starter \in [Server -> 0 .. Len(DefaultKeys) + 1]
    BY <2>1 DEF LayoutInit
  <2>5. lastAsked = <<>> /\ removed = {} /\ blindStart = FALSE
    BY DEF LayoutInit
  <2>6. lastAsked \in Seq(Keys \cup {NoKey})
    BY <2>5
  <2> QED
    BY <1>1, <2>6, <2>2, <2>3, <2>4, <2>5 DEF LayoutTypes
<1> QED
  BY <1>2 DEF LayoutInit, LayoutInv, SeedsBlind, BatchSound, HeldByBatch, AskedPresent,
              LayoutAsAsked, AtDesk, Present

(* An order has the same places when a section is taken out of it.             *)
LEMMA TakenOut ==
  ASSUME NEW k \in Keys, NEW keys \in Seq(Keys \cup {NoKey})
  PROVE  /\ WithoutID(k, keys) \in Seq(Keys \cup {NoKey})
         /\ DOMAIN WithoutID(k, keys) = DOMAIN keys
         /\ \A i \in DOMAIN keys :
              /\ WithoutID(k, keys)[i] # NoKey => WithoutID(k, keys)[i] = keys[i]
              /\ WithoutID(k, keys)[i] # NoKey <=> keys[i] \notin {k, NoKey}
  BY LayoutAssumption DEF WithoutID

(* When orders change only where nothing is asked for, what was asked stands.   *)
LEMMA OthersPlaced ==
  ASSUME LayoutInv, layout' \in [Keys -> Nat], NEW k \in Keys,
         \A l \in Keys \ {k} : layout'[l] = layout[l],
         lastAsked' = WithoutID(k, lastAsked)
  PROVE  /\ AskedPresent' /\ lastAsked' \in Seq(Keys \cup {NoKey})
         /\ \A i, j \in DOMAIN lastAsked' :
              i < j /\ NoKey \notin {lastAsked'[i], lastAsked'[j]}
              => layout'[lastAsked'[i]] < layout'[lastAsked'[j]]
<1>1. lastAsked \in Seq(Keys \cup {NoKey})
  BY DEF LayoutInv, LayoutTypes
<1>2. /\ lastAsked' \in Seq(Keys \cup {NoKey}) /\ DOMAIN lastAsked' = DOMAIN lastAsked
      /\ \A i \in DOMAIN lastAsked :
           /\ lastAsked'[i] # NoKey => lastAsked'[i] = lastAsked[i]
           /\ lastAsked'[i] # NoKey <=> lastAsked[i] \notin {k, NoKey}
  BY <1>1, TakenOut
<1>3. \A i \in DOMAIN lastAsked' : lastAsked'[i] # NoKey =>
        /\ lastAsked'[i] = lastAsked[i] /\ lastAsked[i] # NoKey
        /\ lastAsked[i] \in Keys \ {k} /\ layout'[lastAsked[i]] = layout[lastAsked[i]]
  BY <1>1, <1>2
<1>4. AskedPresent'
  BY <1>2, <1>3 DEF LayoutInv, AskedPresent, Present
<1>5. ASSUME NEW i \in DOMAIN lastAsked', NEW j \in DOMAIN lastAsked', i < j,
             NoKey \notin {lastAsked'[i], lastAsked'[j]}
      PROVE  layout'[lastAsked'[i]] < layout'[lastAsked'[j]]
  BY <1>2, <1>3, <1>5 DEF LayoutInv, LayoutAsAsked, ListedBefore
<1> QED
  BY <1>2, <1>4, <1>5

(* A server that starts.                                                      *)
LEMMA ServerStarts ==
  ASSUME LayoutInv, NEW s \in Server, StarterStep(s)
  PROVE  LayoutInv'
<1> USE LayoutAssumption
<1> USE DEF EditorRequest
<1> USE DEF LayoutInv
<1>1. CASE EnsureHomepageSchema(s) \/ seedComprehensiveContent(s)
  <2>1. /\ UNCHANGED <<layout, moving, editor, lastAsked, removed>>
        /\ blindStart => blindStart'
        /\ \A x \in Server \ {s} : starter'[x] = starter[x]
    BY <1>1 DEF EnsureHomepageSchema, seedComprehensiveContent, LayoutTypes
  <2>2. /\ blindStart' \in BOOLEAN
        /\ starter' \in [Server -> 0 .. Len(DefaultKeys) + 1]
        /\ starter'[s] \in DOMAIN DefaultKeys => blindStart'
    <3>1. Len(DefaultKeys) \in Nat /\ DOMAIN DefaultKeys = 1 .. Len(DefaultKeys)
      OBVIOUS
    <3>2. \/ starter' = [starter EXCEPT ![s] = 1] /\ blindStart' = TRUE
          \/ starter' = [starter EXCEPT ![s] = Len(DefaultKeys) + 1] /\ UNCHANGED blindStart
          \/ starter' = [starter EXCEPT ![s] = 0] /\ UNCHANGED blindStart
      BY <1>1 DEF EnsureHomepageSchema, seedComprehensiveContent
    <3>3. blindStart' \in BOOLEAN
      BY <3>2 DEF LayoutTypes
    <3>4. starter' \in [Server -> 0 .. Len(DefaultKeys) + 1]
      <4>1. PICK n \in {0, 1, Len(DefaultKeys) + 1} : starter' = [starter EXCEPT ![s] = n]
        BY <3>2
      <4>2. n \in 0 .. Len(DefaultKeys) + 1
        BY <3>1
      <4> QED
        BY <4>1, <4>2 DEF LayoutTypes
    <3>5. starter'[s] \in {0, Len(DefaultKeys) + 1} \/ blindStart'
      BY <3>2 DEF LayoutTypes
    <3> QED
      BY <3>1, <3>3, <3>4, <3>5
  <2>3. LayoutTypes' /\ SeedsBlind'
    BY <2>1, <2>2 DEF LayoutTypes, SeedsBlind
  <2> QED
    BY <2>1, <2>3 DEF BatchSound, HeldByBatch, AskedPresent, LayoutAsAsked, Present, ListedBefore
<1>2. CASE seedDefaultHomepageSections(s)
  <2> DEFINE k == DefaultKeys[starter[s]]
  <2>1. /\ k \in Keys /\ starter[s] \in Nat \ {0} /\ blindStart
        /\ starter' = [starter EXCEPT ![s] = starter[s] + 1]
        /\ UNCHANGED <<moving, editor, removed, blindStart>>
    BY <1>2 DEF seedDefaultHomepageSections, SeedsBlind, LayoutTypes
  <2>2. starter' \in [Server -> 0 .. Len(DefaultKeys) + 1]
    BY <1>2, <2>1 DEF seedDefaultHomepageSections, LayoutTypes
  <2>3. CASE UNCHANGED <<layout, lastAsked>>
    BY <2>1, <2>2, <2>3 DEF LayoutTypes, SeedsBlind, BatchSound, HeldByBatch, AskedPresent,
                            LayoutAsAsked, Present, ListedBefore
  <2>4. CASE layout' = [layout EXCEPT ![k] = starter[s]] /\ lastAsked' = WithoutID(k, lastAsked)
    <3>1. layout' \in [Keys -> Nat] /\ \A l \in Keys \ {k} : layout'[l] = layout[l]
      BY <2>1, <2>4 DEF LayoutTypes
    <3>2. layout'[k] # 0
      BY <2>1, <2>4 DEF LayoutTypes
    <3> HIDE DEF k
    <3>3. Present \subseteq Present'
      BY <3>1, <3>2 DEF Present
    <3>4. /\ AskedPresent' /\ lastAsked' \in Seq(Keys \cup {NoKey})
          /\ \A i, j \in DOMAIN lastAsked' :
               i < j /\ NoKey \notin {lastAsked'[i], lastAsked'[j]}
               => layout'[lastAsked'[i]] < layout'[lastAsked'[j]]
      BY <2>1, <2>4, <3>1, OthersPlaced
    <3>5. LayoutTypes' /\ SeedsBlind'
      BY <2>1, <2>2, <3>1, <3>4 DEF LayoutTypes, SeedsBlind
    <3>6. BatchSound' /\ HeldByBatch'
      BY <2>1, <3>3 DEF BatchSound, HeldByBatch
    <3> QED
      BY <2>1, <3>4, <3>5, <3>6 DEF LayoutAsAsked, ListedBefore
  <2> QED
    BY <1>2, <2>3, <2>4 DEF seedDefaultHomepageSections
<1> QED
  BY <1>1, <1>2 DEF StarterStep

(* There is a highest order.                                                  *)
LEMMA HighestOrderIsNat == LayoutTypes => HighestOrder \in Nat
<1> SUFFICES ASSUME LayoutTypes PROVE HighestOrder \in Nat
  OBVIOUS
<1> DEFINE S == {layout[k] : k \in Keys}
<1>1. S \subseteq Nat /\ S # {}
  BY LayoutAssumption DEF LayoutTypes
<1>2. layout \in Surjection(Keys, S)
  BY DEF LayoutTypes, Surjection
<1>3. IsFiniteSet(S)
  BY <1>2, LayoutAssumption, FS_Surjection
<1>4. \E m \in S : \A n \in S : n <= m
  BY <1>1, <1>3, LargestExists
<1> QED
  BY <1>1, <1>4 DEF HighestOrder

(* Who is not reordering holds no row.                                        *)
LEMMA HoldsNothing ==
  ASSUME LayoutInv, NEW e \in Editor, editor[e].phase # "moving"
  PROVE  \A k \in Keys : moving[k] # e
<1> SUFFICES ASSUME NEW k \in Keys, moving[k] = e PROVE FALSE
  OBVIOUS
<1>1. moving[k] # NoEditor
  BY LayoutAssumption
<1> QED
  BY <1>1 DEF LayoutInv, HeldByBatch

(* A request that is no reordering under way moves on by itself.               *)
LEMMA RequestMoves ==
  ASSUME LayoutInv, NEW e \in Editor, editor[e].phase # "moving",
         NEW r \in EditorRequest,
         editor' = [editor EXCEPT ![e] = r],
         r.phase = "moving" =>
           /\ r.next = 1
           /\ \A i, j \in DOMAIN r.keys :
                r.keys[i] \in Present /\ (r.keys[j] = r.keys[i] => j = i),
         UNCHANGED <<layout, moving, starter, lastAsked, removed, blindStart>>
  PROVE  LayoutInv'
<1> USE LayoutAssumption
<1> USE DEF EditorRequest
<1> USE DEF LayoutInv
<1>1. LayoutTypes' /\ SeedsBlind'
  BY DEF LayoutTypes, SeedsBlind
<1>2. editor'[e] = r /\ \A x \in Editor \ {e} : editor'[x] = editor[x]
  BY DEF LayoutTypes
<1>3. BatchSound'
  <2> SUFFICES ASSUME NEW x \in Editor, editor'[x].phase = "moving",
                      NEW i \in DOMAIN editor'[x].keys, editor'[x].keys[i] # NoKey
               PROVE  /\ editor'[x].keys[i] \in Present'
                      /\ \A j \in DOMAIN editor'[x].keys :
                           editor'[x].keys[j] = editor'[x].keys[i] => j = i
                      /\ i < editor'[x].next => moving'[editor'[x].keys[i]] = x
    BY DEF BatchSound
  <2>1. Present' = Present
    BY DEF Present
  <2>2. CASE x # e
    BY <1>2, <2>1, <2>2 DEF BatchSound
  <2>3. CASE x = e
    <3>1. i \in Nat \ {0}
      BY <1>2, <2>3
    <3> QED
      BY <1>2, <2>1, <2>3, <3>1
  <2> QED
    BY <2>2, <2>3
<1>4. HeldByBatch'
  <2>1. \A k \in Keys : moving[k] # e
    BY HoldsNothing
  <2> QED
    BY <1>2, <2>1 DEF HeldByBatch, LayoutTypes
<1> QED
  BY <1>1, <1>3, <1>4 DEF AskedPresent, LayoutAsAsked, Present, ListedBefore

(* A new section takes a place that nothing asked for speaks of.               *)
LEMMA SectionCreated ==
  ASSUME LayoutInv, NEW e \in Editor, CreateHomepageSection(e)
  PROVE  LayoutInv'
<1> USE LayoutAssumption
<1> USE DEF EditorRequest
<1> USE DEF LayoutInv
<1>1. PICK k \in Keys :
        IF layout[k] # 0 THEN UNCHANGED <<layout, removed>>
        ELSE /\ layout' = [layout EXCEPT ![k] = editor[e].order]
             /\ removed' = removed \ {k}
  BY DEF CreateHomepageSection
<1>2. /\ editor[e].phase = "creating" /\ editor' = [editor EXCEPT ![e] = AtDesk]
      /\ UNCHANGED <<moving, starter, lastAsked, blindStart>>
  BY DEF CreateHomepageSection
<1>3. AtDesk \in EditorRequest
  BY DEF AtDesk, DeskPhase
<1>4. CASE UNCHANGED <<layout, removed>>
  BY <1>2, <1>3, <1>4, RequestMoves DEF AtDesk
<1>5. CASE /\ layout[k] = 0 /\ layout' = [layout EXCEPT ![k] = editor[e].order]
           /\ removed' = removed \ {k}
  <2>1. layout' \in [Keys -> Nat] /\ \A l \in Present : layout'[l] = layout[l]
    BY <1>5 DEF LayoutTypes, Present
  <2>2. Present \subseteq Present' /\ Present' \subseteq Present \cup {k}
    BY <1>5, <2>1 DEF Present, LayoutTypes
  <2>3. editor'[e] = AtDesk /\ \A x \in Editor \ {e} : editor'[x] = editor[x]
    BY <1>2 DEF LayoutTypes
  <2>4. LayoutTypes' /\ SeedsBlind'
    BY <1>2, <1>3, <1>5, <2>1 DEF LayoutTypes, SeedsBlind
  <2>5. BatchSound'
    BY <1>2, <2>2, <2>3 DEF BatchSound, AtDesk
  <2>6. HeldByBatch'
    <3>1. \A l \in Keys : moving[l] # e
      BY <1>2, HoldsNothing
    <3> QED
      BY <1>2, <2>3, <3>1 DEF HeldByBatch, LayoutTypes
  <2>7. AskedPresent'
    BY <1>2, <2>2 DEF AskedPresent
  <2>8. LayoutAsAsked'
    <3>1. \A i \in DOMAIN lastAsked : lastAsked[i] # NoKey =>
             layout'[lastAsked[i]] = layout[lastAsked[i]]
      BY <2>1 DEF AskedPresent
    <3>2. ~blindStart => removed' \cap Present' = {}
      BY <1>5, <2>2 DEF LayoutAsAsked
    <3> QED
      BY <1>2, <3>1, <3>2 DEF LayoutAsAsked, ListedBefore
  <2> QED
    BY <2>4, <2>5, <2>6, <2>7, <2>8
<1> QED
  BY <1>1, <1>4, <1>5

(* A section is given a place of its own, or changed otherwise.                *)
LEMMA SectionUpdated ==
  ASSUME LayoutInv, NEW e \in Editor, UpdateHomepageSection(e)
  PROVE  LayoutInv'
<1> USE LayoutAssumption
<1> USE DEF EditorRequest
<1> USE DEF LayoutInv
<1>1. PICK k \in Present :
        /\ moving[k] = NoEditor
        /\ \/ \E order \in 1 .. MaxOrder :
                /\ layout' = [layout EXCEPT ![k] = order]
                /\ lastAsked' = WithoutID(k, lastAsked)
           \/ UNCHANGED <<layout, lastAsked>>
        /\ editor' = [editor EXCEPT ![e] = [AtDesk EXCEPT !.phase = "settings", !.keys = <<k>>]]
  BY DEF UpdateHomepageSection
<1>2. editor[e].phase = "idle" /\ UNCHANGED <<moving, starter, removed, blindStart>>
  BY DEF UpdateHomepageSection
<1> DEFINE r == [AtDesk EXCEPT !.phase = "settings", !.keys = <<k>>]
<1>3. k \in Keys
  BY DEF Present
<1>4. /\ r.phase = "settings"
      /\ r \in EditorRequest
  <2>1. <<k>> \in Seq(Keys \cup {NoKey})
    BY <1>3
  <2>2. AtDesk \in EditorRequest
    BY DEF AtDesk, DeskPhase
  <2> QED
    BY <2>1, <2>2 DEF DeskPhase
<1>5. editor' = [editor EXCEPT ![e] = r]
  BY <1>1
<1> HIDE DEF r
<1>6. CASE UNCHANGED <<layout, lastAsked>>
  BY <1>2, <1>4, <1>5, <1>6, RequestMoves
<1>7. ASSUME NEW order \in 1 .. MaxOrder, layout' = [layout EXCEPT ![k] = order],
             lastAsked' = WithoutID(k, lastAsked)
      PROVE  LayoutInv'
  <2>1. layout' \in [Keys -> Nat] /\ \A l \in Keys \ {k} : layout'[l] = layout[l]
    BY <1>3, <1>7 DEF LayoutTypes
  <2>2. Present' = Present
    BY <1>3, <1>7, <2>1 DEF Present, LayoutTypes
  <2>3. editor'[e] = r /\ \A x \in Editor \ {e} : editor'[x] = editor[x]
    BY <1>5 DEF LayoutTypes
  <2>4. /\ AskedPresent' /\ lastAsked' \in Seq(Keys \cup {NoKey})
        /\ \A i, j \in DOMAIN lastAsked' :
             i < j /\ NoKey \notin {lastAsked'[i], lastAsked'[j]}
             => layout'[lastAsked'[i]] < layout'[lastAsked'[j]]
    BY <1>3, <1>7, <2>1, OthersPlaced
  <2>5. LayoutTypes' /\ SeedsBlind'
    BY <1>2, <1>4, <1>5, <2>1, <2>4 DEF LayoutTypes, SeedsBlind
  <2>6. BatchSound'
    BY <1>2, <1>4, <2>2, <2>3 DEF BatchSound
  <2>7. HeldByBatch'
    <3>1. \A l \in Keys : moving[l] # e
      BY <1>2, HoldsNothing
    <3> QED
      BY <1>2, <2>3, <3>1 DEF HeldByBatch, LayoutTypes
  <2> QED
    BY <1>2, <2>2, <2>4, <2>5, <2>6, <2>7 DEF LayoutAsAsked, ListedBefore
<1> QED
  BY <1>1, <1>6, <1>7

(* A section that goes is taken out of every order.                            *)
LEMMA SectionDeleted ==
  ASSUME LayoutInv, NEW e \in Editor, DeleteHomepageSection(e)
  PROVE  LayoutInv'
<1> USE LayoutAssumption
<1> USE DEF EditorRequest
<1> USE DEF LayoutInv
<1>1. PICK k \in Present :
        /\ moving[k] = NoEditor
        /\ layout' = [layout EXCEPT ![k] = 0]
        /\ lastAsked' = WithoutID(k, lastAsked)
        /\ removed' = removed \cup {k}
        /\ editor' = [x \in Editor |-> [editor[x] EXCEPT !.keys = WithoutID(k, @)]]
  BY DEF DeleteHomepageSection
<1>2. UNCHANGED <<moving, starter, blindStart>> /\ k \in Keys
  BY DEF DeleteHomepageSection, Present
<1>3. layout' \in [Keys -> Nat] /\ \A l \in Keys \ {k} : layout'[l] = layout[l]
  BY <1>1, <1>2 DEF LayoutTypes
<1>4. Present' = Present \ {k}
  BY <1>1, <1>2, <1>3 DEF Present, LayoutTypes
<1>5. /\ AskedPresent' /\ lastAsked' \in Seq(Keys \cup {NoKey})
      /\ \A i, j \in DOMAIN lastAsked' :
           i < j /\ NoKey \notin {lastAsked'[i], lastAsked'[j]}
           => layout'[lastAsked'[i]] < layout'[lastAsked'[j]]
  BY <1>1, <1>2, <1>3, OthersPlaced
<1>6. ASSUME NEW x \in Editor
      PROVE  /\ editor'[x] \in EditorRequest
             /\ editor'[x].phase = editor[x].phase /\ editor'[x].next = editor[x].next
             /\ DOMAIN editor'[x].keys = DOMAIN editor[x].keys
             /\ \A i \in DOMAIN editor[x].keys :
                  /\ editor'[x].keys[i] # NoKey => editor'[x].keys[i] = editor[x].keys[i]
                  /\ editor'[x].keys[i] # NoKey <=> editor[x].keys[i] \notin {k, NoKey}
  <2>1. /\ editor[x].keys \in Seq(Keys \cup {NoKey})
        /\ editor[x] \in EditorRequest
    BY DEF LayoutTypes
  <2>2. /\ editor'[x] = [editor[x] EXCEPT !.keys = WithoutID(k, editor[x].keys)]
        /\ editor'[x].keys = WithoutID(k, editor[x].keys)
    BY <1>1, <2>1
  <2>3. /\ WithoutID(k, editor[x].keys) \in Seq(Keys \cup {NoKey})
        /\ DOMAIN WithoutID(k, editor[x].keys) = DOMAIN editor[x].keys
        /\ \A i \in DOMAIN editor[x].keys :
             /\ WithoutID(k, editor[x].keys)[i] # NoKey
                => WithoutID(k, editor[x].keys)[i] = editor[x].keys[i]
             /\ WithoutID(k, editor[x].keys)[i] # NoKey <=> editor[x].keys[i] \notin {k, NoKey}
    BY <1>2, <2>1, TakenOut
  <2> QED
    BY <2>1, <2>2, <2>3
<1>7. LayoutTypes' /\ SeedsBlind'
  <2>1. editor' \in [Editor -> EditorRequest]
    BY <1>1, <1>6
  <2> QED
    BY <1>1, <1>2, <1>3, <1>5, <2>1 DEF LayoutTypes, SeedsBlind
<1>8. BatchSound'
  <2> SUFFICES ASSUME NEW x \in Editor, editor'[x].phase = "moving",
                      NEW i \in DOMAIN editor'[x].keys, editor'[x].keys[i] # NoKey
               PROVE  /\ editor'[x].keys[i] \in Present'
                      /\ \A j \in DOMAIN editor'[x].keys :
                           editor'[x].keys[j] = editor'[x].keys[i] => j = i
                      /\ i < editor'[x].next => moving'[editor'[x].keys[i]] = x
    BY DEF BatchSound
  <2>1. /\ i \in DOMAIN editor[x].keys /\ editor'[x].keys[i] = editor[x].keys[i]
        /\ editor[x].keys[i] \notin {k, NoKey}
    BY <1>6
  <2>2. /\ editor[x].keys[i] \in Present
        /\ \A j \in DOMAIN editor[x].keys : editor[x].keys[j] = editor[x].keys[i] => j = i
        /\ i < editor[x].next => moving[editor[x].keys[i]] = x
    BY <1>6, <2>1 DEF BatchSound
  <2> QED
    BY <1>2, <1>4, <1>6, <2>1, <2>2
<1>9. HeldByBatch'
  <2> SUFFICES ASSUME NEW l \in Keys, moving'[l] # NoEditor
               PROVE  /\ editor'[moving'[l]].phase = "moving"
                      /\ \E i \in DOMAIN editor'[moving'[l]].keys :
                           i < editor'[moving'[l]].next /\ editor'[moving'[l]].keys[i] = l
    BY DEF HeldByBatch
  <2>1. l # k /\ l # NoKey /\ moving'[l] = moving[l] /\ moving[l] \in Editor
    BY <1>1, <1>2 DEF LayoutTypes
  <2>2. PICK i \in DOMAIN editor[moving[l]].keys :
          i < editor[moving[l]].next /\ editor[moving[l]].keys[i] = l
    BY <2>1 DEF HeldByBatch
  <2>3. editor[moving[l]].phase = "moving"
    BY <2>1 DEF HeldByBatch
  <2> DEFINE x == moving[l]
  <2>4. x \in Editor
    BY <2>1
  <2>5. /\ editor'[x].phase = "moving" /\ editor'[x].next = editor[x].next
        /\ i \in DOMAIN editor'[x].keys
    BY <1>6, <2>2, <2>3, <2>4
  <2>6. editor'[x].keys[i] = l
    BY <1>6, <2>1, <2>2, <2>4
  <2> QED
    BY <2>1, <2>2, <2>5, <2>6
<1> QED
  BY <1>1, <1>2, <1>4, <1>5, <1>7, <1>8, <1>9 DEF LayoutAsAsked, ListedBefore

(* What begins, or goes on without touching a row.                             *)
LEMMA QuietRequest ==
  ASSUME LayoutInv, NEW e \in Editor, OrderForNew(e) \/ UpdateSettings(e) \/ AskReorder(e)
  PROVE  LayoutInv'
<1> USE LayoutAssumption
<1> USE DEF EditorRequest
<1>1. AtDesk \in EditorRequest
  BY DEF AtDesk, DeskPhase
<1>2. CASE OrderForNew(e)
  <2>1. PICK order \in {1, HighestOrder + 1} :
          editor' = [editor EXCEPT ![e] = [AtDesk EXCEPT !.phase = "creating", !.order = order]]
    BY <1>2 DEF OrderForNew
  <2>2. order \in Nat
    BY HighestOrderIsNat DEF LayoutInv
  <2> DEFINE r == [AtDesk EXCEPT !.phase = "creating", !.order = order]
  <2>3. r \in EditorRequest /\ r.phase = "creating"
    BY <1>1, <2>2 DEF DeskPhase
  <2>4. editor[e].phase = "idle"
        /\ UNCHANGED <<layout, moving, starter, lastAsked, removed, blindStart>>
    BY <1>2 DEF OrderForNew
  <2> HIDE DEF EditorRequest
  <2>5. editor' = [editor EXCEPT ![e] = r]
    BY <2>1
  <2> HIDE DEF r
  <2> QED
    BY <2>3, <2>4, <2>5, RequestMoves DEF EditorRequest
<1>3. CASE UpdateSettings(e)
  <2>1. editor[e].phase = "settings" /\ editor' = [editor EXCEPT ![e] = AtDesk]
        /\ UNCHANGED <<layout, moving, starter, lastAsked, removed, blindStart>>
    BY <1>3 DEF UpdateSettings
  <2>2. AtDesk.phase = "idle"
    BY DEF AtDesk
  <2> QED
    BY <1>1, <2>1, <2>2, RequestMoves
<1>4. CASE AskReorder(e)
  <2>1. PICK q \in Orderings :
          editor' = [editor EXCEPT ![e] = [AtDesk EXCEPT !.phase = "moving", !.keys = q]]
    BY <1>4 DEF AskReorder
  <2>2. PICK n \in 2 .. Cardinality(Present) : q \in [1 .. n -> Present]
    BY <2>1 DEF Orderings
  <2>3. Cardinality(Present) \in Nat /\ Present \subseteq Keys
    BY FS_Subset, FS_CardinalityType DEF Present
  <2>4. n \in Nat
    BY <2>2, <2>3
  <2>5. q \in Seq(Keys \cup {NoKey}) /\ DOMAIN q = 1 .. n
    BY <2>2, <2>3, <2>4
  <2>6. \A i, j \in DOMAIN q : q[i] \in Present /\ (q[j] = q[i] => j = i)
    <3>1. \A i, j \in DOMAIN q : q[i] = q[j] => i = j
      BY <2>1 DEF Orderings
    <3> QED
      BY <2>2, <2>5, <3>1
  <2> DEFINE r == [AtDesk EXCEPT !.phase = "moving", !.keys = q]
  <2>7. r \in EditorRequest /\ r.keys = q /\ r.next = 1
    BY <1>1, <2>5 DEF DeskPhase, AtDesk
  <2>8. editor[e].phase = "idle"
        /\ UNCHANGED <<layout, moving, starter, lastAsked, removed, blindStart>>
    BY <1>4 DEF AskReorder
  <2> HIDE DEF EditorRequest
  <2>9. editor' = [editor EXCEPT ![e] = r]
    BY <2>1
  <2> HIDE DEF r
  <2> QED
    BY <2>6, <2>7, <2>8, <2>9, RequestMoves DEF EditorRequest
<1> QED
  BY <1>2, <1>3, <1>4

(* A reordering takes the next row, which nobody holds.                        *)
LEMMA RowMoved ==
  ASSUME LayoutInv, NEW e \in Editor, MoveOne(e)
  PROVE  LayoutInv'
<1> USE LayoutAssumption
<1> USE DEF EditorRequest
<1> USE DEF LayoutInv
<1> DEFINE keys == editor[e].keys
           n == editor[e].next
<1>1. /\ editor[e].phase = "moving" /\ n \in DOMAIN keys
      /\ n \in Nat \ {0} /\ keys \in Seq(Keys \cup {NoKey}) /\ n <= Len(keys)
      /\ NextKey(e) = keys[n]
  BY DEF MoveOne, Moving, NextKey, LayoutTypes
<1>2. /\ keys[n] \in Keys => moving[keys[n]] = NoEditor
      /\ moving' = [k \in Keys |-> IF k = keys[n] THEN e ELSE moving[k]]
      /\ editor' = [editor EXCEPT ![e].next = n + 1]
      /\ UNCHANGED <<layout, starter, lastAsked, removed, blindStart>>
  BY <1>1 DEF MoveOne, Step
<1>3. /\ editor'[e].phase = "moving" /\ editor'[e].keys = keys /\ editor'[e].next = n + 1
      /\ \A x \in Editor \ {e} : editor'[x] = editor[x]
      /\ editor' \in [Editor -> EditorRequest]
  <2>1. editor \in [Editor -> EditorRequest] /\ editor[e] \in EditorRequest
    BY DEF LayoutTypes
  <2>2. editor' = [editor EXCEPT ![e] = [editor[e] EXCEPT !.next = n + 1]]
    BY <1>2, <2>1
  <2>3. [editor[e] EXCEPT !.next = n + 1] \in EditorRequest
    <3>1. ASSUME NEW m \in Nat \ {0} PROVE [editor[e] EXCEPT !.next = m] \in EditorRequest
      BY <2>1
    <3>2. n + 1 \in Nat \ {0}
      BY <1>1
    <3> HIDE DEF EditorRequest, n
    <3> QED
      BY <3>1, <3>2
  <2>4. editor' \in [Editor -> EditorRequest]
    <3> HIDE DEF EditorRequest
    <3> QED
      BY <2>1, <2>2, <2>3
  <2>5. editor'[e] = [editor[e] EXCEPT !.next = n + 1]
        /\ \A x \in Editor \ {e} : editor'[x] = editor[x]
    BY <2>1, <2>2
  <2> QED
    BY <1>1, <2>1, <2>4, <2>5
<1>4. Present' = Present /\ Present \subseteq Keys
  BY <1>2 DEF Present
<1>5. LayoutTypes' /\ SeedsBlind'
  BY <1>2, <1>3 DEF LayoutTypes, SeedsBlind
<1>6. BatchSound'
  <2> SUFFICES ASSUME NEW x \in Editor, editor'[x].phase = "moving",
                      NEW i \in DOMAIN editor'[x].keys, editor'[x].keys[i] # NoKey
               PROVE  /\ editor'[x].keys[i] \in Present'
                      /\ \A j \in DOMAIN editor'[x].keys :
                           editor'[x].keys[j] = editor'[x].keys[i] => j = i
                      /\ i < editor'[x].next => moving'[editor'[x].keys[i]] = x
    BY DEF BatchSound
  <2>1. editor'[x].keys = editor[x].keys /\ editor[x].phase = "moving"
    BY <1>1, <1>3
  <2>2. /\ editor[x].keys[i] \in Present /\ editor[x].keys[i] \in Keys
        /\ \A j \in DOMAIN editor[x].keys : editor[x].keys[j] = editor[x].keys[i] => j = i
        /\ i < editor[x].next => moving[editor[x].keys[i]] = x
    BY <1>4, <2>1 DEF BatchSound
  <2>3. CASE x # e
    <3>1. i < editor[x].next => keys[n] # editor[x].keys[i]
      BY <1>2, <2>2
    <3> QED
      BY <1>2, <1>3, <1>4, <2>1, <2>2, <2>3, <3>1
  <2>4. CASE x = e
    <3>1. i \in Nat /\ (i < n + 1 => i < n \/ i = n)
      BY <1>1, <2>1, <2>4
    <3> QED
      BY <1>2, <1>3, <1>4, <2>1, <2>2, <2>4, <3>1
  <2> QED
    BY <2>3, <2>4
<1>7. HeldByBatch'
  <2> SUFFICES ASSUME NEW k \in Keys, moving'[k] # NoEditor
               PROVE  /\ editor'[moving'[k]].phase = "moving"
                      /\ \E i \in DOMAIN editor'[moving'[k]].keys :
                           i < editor'[moving'[k]].next /\ editor'[moving'[k]].keys[i] = k
    BY DEF HeldByBatch
  <2>1. CASE k = keys[n]
    <3>1. moving'[k] = e /\ n < n + 1
      BY <1>1, <1>2, <2>1
    <3> QED
      BY <1>1, <1>3, <2>1, <3>1
  <2>2. CASE k # keys[n]
    <3>1. moving'[k] = moving[k] /\ moving[k] \in Editor
      BY <1>2, <2>2 DEF LayoutTypes
    <3>2. PICK i \in DOMAIN editor[moving[k]].keys :
            i < editor[moving[k]].next /\ editor[moving[k]].keys[i] = k
      BY <3>1 DEF HeldByBatch
    <3>3. editor[moving[k]].phase = "moving"
      BY <3>1 DEF HeldByBatch
    <3>4. i \in Nat /\ (i < n => i < n + 1)
      BY <1>1, <3>1 DEF LayoutTypes
    <3>5. CASE moving[k] = e
      <4>1. i \in DOMAIN editor'[e].keys /\ editor'[e].keys[i] = k
        BY <1>3, <3>2, <3>5
      <4>2. i < editor'[e].next
        BY <1>3, <3>2, <3>4, <3>5
      <4>3. editor'[e].phase = "moving"
        BY <1>1, <1>3
      <4> QED
        BY <3>1, <3>5, <4>1, <4>2, <4>3
    <3>6. CASE moving[k] # e
      <4>1. editor'[moving[k]] = editor[moving[k]]
        BY <1>3, <3>1, <3>6
      <4> QED
        BY <3>1, <3>2, <3>3, <4>1
    <3> QED
      BY <3>5, <3>6
  <2> QED
    BY <2>1, <2>2
<1> QED
  BY <1>2, <1>4, <1>5, <1>6, <1>7 DEF AskedPresent, LayoutAsAsked, ListedBefore

(* A reordering that ends lets go of its rows, and what holds for the others   *)
(* holds still.                                                              *)
LEMMA ReorderEnds ==
  ASSUME LayoutInv, NEW e \in Editor,
         moving' = LetGo(e), editor' = [editor EXCEPT ![e] = AtDesk], Present' = Present
  PROVE  /\ BatchSound' /\ HeldByBatch'
         /\ moving' \in [Keys -> Editor \cup {NoEditor}]
         /\ editor' \in [Editor -> EditorRequest]
<1> USE LayoutAssumption
<1> USE DEF EditorRequest
<1> USE DEF LayoutInv
<1>1. AtDesk \in EditorRequest
      /\ AtDesk.phase = "idle"
  BY DEF AtDesk, DeskPhase
<1>2. editor'[e].phase = "idle" /\ \A x \in Editor \ {e} : editor'[x] = editor[x]
  BY <1>1 DEF LayoutTypes
<1>3. \A k \in Keys : moving'[k] = IF moving[k] = e THEN NoEditor ELSE moving[k]
  BY DEF LetGo
<1>4. BatchSound'
  <2> SUFFICES ASSUME NEW x \in Editor, editor'[x].phase = "moving",
                      NEW i \in DOMAIN editor'[x].keys, editor'[x].keys[i] # NoKey
               PROVE  /\ editor'[x].keys[i] \in Present'
                      /\ \A j \in DOMAIN editor'[x].keys :
                           editor'[x].keys[j] = editor'[x].keys[i] => j = i
                      /\ i < editor'[x].next => moving'[editor'[x].keys[i]] = x
    BY DEF BatchSound
  <2>1. x # e /\ editor'[x] = editor[x]
    BY <1>2
  <2>2. /\ editor[x].keys[i] \in Present /\ editor[x].keys[i] \in Keys
        /\ \A j \in DOMAIN editor[x].keys : editor[x].keys[j] = editor[x].keys[i] => j = i
        /\ i < editor[x].next => moving[editor[x].keys[i]] = x
    BY <2>1 DEF BatchSound, Present
  <2> QED
    BY <1>3, <2>1, <2>2
<1>5. HeldByBatch'
  <2> SUFFICES ASSUME NEW k \in Keys, moving'[k] # NoEditor
               PROVE  /\ editor'[moving'[k]].phase = "moving"
                      /\ \E i \in DOMAIN editor'[moving'[k]].keys :
                           i < editor'[moving'[k]].next /\ editor'[moving'[k]].keys[i] = k
    BY DEF HeldByBatch
  <2>1. moving'[k] = moving[k] /\ moving[k] \in Editor \ {e}
    BY <1>3 DEF LayoutTypes
  <2> QED
    BY <1>2, <2>1 DEF HeldByBatch
<1>6. moving' \in [Keys -> Editor \cup {NoEditor}]
  BY DEF LetGo, LayoutTypes
<1> QED
  BY <1>1, <1>4, <1>5, <1>6 DEF LayoutTypes

(* A reordering that has come to all its rows commits them in its order.       *)
LEMMA ReorderCommitted ==
  ASSUME LayoutInv, NEW e \in Editor, ReorderHomepageSections(e)
  PROVE  LayoutInv'
<1> USE LayoutAssumption
<1> USE DEF EditorRequest
<1> USE DEF LayoutInv
<1> DEFINE keys == editor[e].keys
<1>1. /\ editor[e].phase = "moving" /\ keys \in Seq(Keys \cup {NoKey})
      /\ \A i \in DOMAIN keys : i \in Nat \ {0} /\ i < editor[e].next
  BY DEF ReorderHomepageSections, Moving, LayoutTypes
<1>2. /\ layout' = [k \in Keys |-> IF k \in Moved(e) THEN PlaceOf(e, k) ELSE layout[k]]
      /\ lastAsked' = keys /\ moving' = LetGo(e)
      /\ editor' = [editor EXCEPT ![e] = AtDesk]
      /\ UNCHANGED <<starter, removed, blindStart>>
  BY DEF ReorderHomepageSections
<1>3. ASSUME NEW k \in Moved(e)
      PROVE  k \in Present /\ PlaceOf(e, k) \in DOMAIN keys /\ keys[PlaceOf(e, k)] = k
  <2>1. k \in Keys /\ moving[k] = e /\ k # NoKey /\ e # NoEditor
    BY DEF Moved
  <2>2. PICK i \in DOMAIN keys : keys[i] = k
    BY <2>1 DEF HeldByBatch
  <2> QED
    BY <1>1, <2>1, <2>2 DEF PlaceOf, BatchSound
<1>4. ASSUME NEW i \in DOMAIN keys, keys[i] # NoKey
      PROVE  keys[i] \in Moved(e) /\ PlaceOf(e, keys[i]) = i
  <2>1. /\ keys[i] \in Present /\ keys[i] \in Keys /\ moving[keys[i]] = e
        /\ \A j \in DOMAIN keys : keys[j] = keys[i] => j = i
    BY <1>1, <1>4 DEF BatchSound, Present
  <2>2. keys[i] \in Moved(e)
    BY <2>1 DEF Moved
  <2> QED
    BY <1>3, <2>1, <2>2
<1>5. layout' \in [Keys -> Nat] /\ Present' = Present
  <2>1. \A k \in Keys : /\ layout'[k] \in Nat
                        /\ k \in Moved(e) => layout'[k] # 0 /\ layout[k] # 0
                        /\ k \notin Moved(e) => layout'[k] = layout[k]
    BY <1>1, <1>2, <1>3 DEF LayoutTypes, Present
  <2> QED
    BY <1>2, <2>1 DEF Present
<1>6. BatchSound' /\ HeldByBatch' /\ LayoutTypes' /\ SeedsBlind'
  <2>1. LayoutTypes /\ SeedsBlind
    OBVIOUS
  <2>2. /\ BatchSound' /\ HeldByBatch'
        /\ moving' \in [Keys -> Editor \cup {NoEditor}]
        /\ editor' \in [Editor -> EditorRequest]
    BY <1>2, <1>5, ReorderEnds
  <2> QED
    BY <1>1, <1>2, <1>5, <2>1, <2>2 DEF LayoutTypes, SeedsBlind
<1>7. AskedPresent'
  BY <1>2, <1>3, <1>4, <1>5 DEF AskedPresent
<1>8. LayoutAsAsked'
  <2>1. ASSUME NEW i \in DOMAIN keys, keys[i] # NoKey PROVE layout'[keys[i]] = i
    BY <1>2, <1>4, <2>1 DEF Moved
  <2>2. ~blindStart' => removed' \cap Present' = {}
    BY <1>2, <1>5 DEF LayoutAsAsked
  <2>3. ASSUME NEW i \in DOMAIN keys, NEW j \in DOMAIN keys, i < j,
               NoKey \notin {keys[i], keys[j]}
        PROVE  layout'[keys[i]] < layout'[keys[j]]
    <3>1. layout'[keys[i]] = i /\ layout'[keys[j]] = j
      BY <2>1, <2>3
    <3> QED
      BY <2>3, <3>1
  <2>4. \A i, j \in DOMAIN lastAsked' :
          i < j /\ NoKey \notin {lastAsked'[i], lastAsked'[j]} =>
            layout'[lastAsked'[i]] < layout'[lastAsked'[j]]
    <3> HIDE DEF keys, LayoutInv
    <3> QED
      BY <1>2, <2>3
  <2> QED
    BY <2>2, <2>4 DEF LayoutAsAsked, ListedBefore
<1> QED
  BY <1>6, <1>7, <1>8

(* In whatever order servers start and editors work: the sections stand as the *)
(* reordering that committed last has them, but for those placed anew since,   *)
(* and a removed section is not back unless someone put it there.              *)
THEOREM LayoutAsAskedHolds == LayoutSpec => []LayoutAsAsked
<1>1. LayoutInv /\ [LayoutNext]_layoutVars => LayoutInv'
  <2> SUFFICES ASSUME LayoutInv, [LayoutNext]_layoutVars PROVE LayoutInv'
    OBVIOUS
  <2>1. CASE UNCHANGED layoutVars
    BY <2>1 DEF layoutVars, LayoutInv, LayoutTypes, SeedsBlind, BatchSound, HeldByBatch,
                AskedPresent, LayoutAsAsked, Present, ListedBefore
  <2>2. ASSUME NEW s \in Server, StarterStep(s) PROVE LayoutInv'
    BY <2>2, ServerStarts
  <2>3. ASSUME NEW e \in Editor, EditorStep(e) PROVE LayoutInv'
    <3>1. CASE ReorderFails(e)
      <4>1. /\ moving' = LetGo(e) /\ editor' = [editor EXCEPT ![e] = AtDesk]
            /\ UNCHANGED <<layout, starter, lastAsked, removed, blindStart>>
        BY <3>1 DEF ReorderFails
      <4>2. Present' = Present
        BY <4>1 DEF Present
      <4>3. /\ BatchSound' /\ HeldByBatch'
            /\ moving' \in [Keys -> Editor \cup {NoEditor}]
            /\ editor' \in [Editor -> EditorRequest]
        BY <4>1, <4>2, ReorderEnds
      <4> QED
        BY <4>1, <4>2, <4>3 DEF LayoutInv, LayoutTypes, SeedsBlind, AskedPresent, LayoutAsAsked,
                                ListedBefore
    <3> QED
      BY <2>3, <3>1, QuietRequest, SectionCreated, SectionUpdated, SectionDeleted, RowMoved,
         ReorderCommitted DEF EditorStep
  <2> QED
    BY <2>1, <2>2, <2>3 DEF LayoutNext
<1>2. LayoutInv => LayoutAsAsked
  BY DEF LayoutInv
<1> QED
  BY <1>1, <1>2, LayoutStart, PTL DEF LayoutSpec

-----------------------------------------------------------------------------
(* HomeFeedSections *)

(* The lists, and the beats that are fetched: the provers do not see that a     *)
(* literal is a member of STRING.                                             *)
Desk == {"politics", "sports", "entertainment", "crime", "business", "technology",
         "jharkhand", "bihar"}
StoryList == Desk \cup {"breaking", "featured", "trending", "videos", "column", "auto", "lifestyle",
                     "health", "education", "recent", "recommended", "similar"}
Beat == STRING \cup StoryList \cup {"any", "video", "desks", "national", "international", "dharma",
                                 "environment"}

(* The pipeline's steps, those that fetch for certain, and what is fetched.     *)
StepRecord == [do : {"fetch", "fetchIfEmpty", "fetchAny", "take"}, list : StoryList \cup {"none"},
               beat : Beat, room : Nat]
Fetches == {"fetch", "fetchAny"}
Items == [id : Story, title : Title]
SectionTypes ==
  /\ story \in [Story -> StoryRow] /\ step \in Nat /\ taken \in Nat
  /\ generalPool \in Seq(Items)
  /\ \A l \in DOMAIN candidates : candidates[l] \in Seq(Items)

(* What the steps that are done have fetched is there.                         *)
FetchedSoFar ==
  \A j \in DOMAIN Pipeline : j < step /\ Pipeline[j].do \in Fetches
    => Pipeline[j].list \in DOMAIN candidates

(* The ids and the titles' lengths passed over are those of the feed, and       *)
(* nothing is short before the general pool is there.                          *)
SeenArePlaced == seenTitles = {TitleLength[p.title] : p \in placed}
ShortAfterPool == step = 0 => short = {}

SectionsInv ==
  SectionTypes /\ FetchedSoFar /\ SeenArePlaced /\ ShortAfterPool /\ FeedWhole

(* Steps that take only from lists in H or fetched before them, and that fetch  *)
(* the lists in G.                                                            *)
Served(s, H) ==
  \A i \in DOMAIN s : s[i].do = "take" =>
    \/ s[i].list \in H
    \/ \E j \in DOMAIN s : j < i /\ s[j].do \in Fetches /\ s[j].list = s[i].list
Gives(s, G) == \A l \in G : \E j \in DOMAIN s : s[j].do \in Fetches /\ s[j].list = l

(* One part of the pipeline after another.                                    *)
LEMMA PartAfterPart ==
  ASSUME NEW s \in Seq(StepRecord), NEW t \in Seq(StepRecord), NEW H, NEW G, NEW G2,
         Served(s, H), Gives(s, G), Served(t, H \cup G), Gives(t, G2)
  PROVE  s \o t \in Seq(StepRecord) /\ Served(s \o t, H) /\ Gives(s \o t, G \cup G2)
<1> DEFINE st == s \o t
<1>1. /\ st \in Seq(StepRecord) /\ Len(s) \in Nat /\ Len(t) \in Nat
      /\ DOMAIN s = 1 .. Len(s) /\ DOMAIN t = 1 .. Len(t)
      /\ DOMAIN st = 1 .. Len(s) + Len(t)
      /\ \A i \in 1 .. Len(s) + Len(t) : st[i] = IF i <= Len(s) THEN s[i] ELSE t[i - Len(s)]
  OBVIOUS
<1> HIDE DEF st
<1>2. ASSUME NEW j \in DOMAIN s PROVE j \in DOMAIN st /\ st[j] = s[j] /\ j \in Nat
  BY <1>1
<1>3. ASSUME NEW j \in DOMAIN t
      PROVE  Len(s) + j \in DOMAIN st /\ st[Len(s) + j] = t[j] /\ j \in Nat
  <2>1. j \in Nat /\ 1 <= j /\ Len(s) + j \in 1 .. Len(s) + Len(t) /\ ~(Len(s) + j <= Len(s))
    BY <1>1
  <2>2. (Len(s) + j) - Len(s) = j
    BY <1>1, <2>1
  <2> QED
    BY <1>1, <2>1, <2>2
<1>4. Gives(st, G \cup G2)
  <2> SUFFICES ASSUME NEW l \in G \cup G2
               PROVE  \E j \in DOMAIN st : st[j].do \in Fetches /\ st[j].list = l
    BY DEF Gives
  <2>1. CASE l \in G
    BY <2>1, <1>2 DEF Gives
  <2>2. CASE l \in G2
    BY <2>2, <1>3 DEF Gives
  <2> QED
    BY <2>1, <2>2
<1>5. Served(st, H)
  <2> SUFFICES ASSUME NEW i \in DOMAIN st, st[i].do = "take", st[i].list \notin H
               PROVE  \E j \in DOMAIN st : j < i /\ st[j].do \in Fetches /\ st[j].list = st[i].list
    BY DEF Served
  <2>1. CASE i <= Len(s)
    <3>1. i \in DOMAIN s /\ st[i] = s[i]
      BY <1>1, <2>1
    <3>2. PICK j \in DOMAIN s : j < i /\ s[j].do \in Fetches /\ s[j].list = s[i].list
      BY <3>1 DEF Served
    <3> QED
      BY <1>2, <3>1, <3>2
  <2>2. CASE ~(i <= Len(s))
    <3> DEFINE k == i - Len(s)
    <3>1. k \in DOMAIN t /\ st[i] = t[k] /\ i = Len(s) + k /\ i \in Nat
      BY <1>1, <2>2
    <3> HIDE DEF k
    <3>2. CASE t[k].list \in G
      <4>1. PICK j \in DOMAIN s : s[j].do \in Fetches /\ s[j].list = t[k].list
        BY <3>2 DEF Gives
      <4>2. j < i
        BY <1>1, <2>2, <3>1
      <4> QED
        BY <1>2, <3>1, <4>1, <4>2
    <3>3. CASE t[k].list \notin G
      <4>1. PICK j \in DOMAIN t : j < k /\ t[j].do \in Fetches /\ t[j].list = t[k].list
        BY <3>1, <3>3 DEF Served
      <4>2. Len(s) + j < i
        BY <1>1, <1>3, <3>1, <4>1
      <4> QED
        BY <1>3, <3>1, <4>1, <4>2
    <3> QED
      BY <3>2, <3>3
  <2> QED
    BY <2>1, <2>2
<1> QED
  BY <1>1, <1>4, <1>5 DEF st

(* The steps' records.                                                        *)
LEMMA StepsTyped ==
  /\ \A l \in StoryList, b \in Beat :
       /\ Fetch(l, b) \in StepRecord /\ Fetch(l, b).do = "fetch" /\ Fetch(l, b).list = l
       /\ FetchMore(l, b) \in StepRecord /\ FetchMore(l, b).do = "fetchIfEmpty"
  /\ \A l \in StoryList \cup {"none"}, n \in Nat :
       Take(l, n) \in StepRecord /\ Take(l, n).do = "take" /\ Take(l, n).list = l
<1>1. ASSUME NEW l \in StoryList, NEW b \in Beat
      PROVE  /\ Fetch(l, b) \in StepRecord /\ Fetch(l, b).do = "fetch" /\ Fetch(l, b).list = l
             /\ FetchMore(l, b) \in StepRecord /\ FetchMore(l, b).do = "fetchIfEmpty"
  BY DEF Fetch, FetchMore, StepRecord
<1>2. ASSUME NEW l \in StoryList \cup {"none"}, NEW n \in Nat
      PROVE  Take(l, n) \in StepRecord /\ Take(l, n).do = "take" /\ Take(l, n).list = l
  <2>1. "any" \in Beat /\ (IF n > SectionRoom THEN SectionRoom ELSE n) \in Nat
    BY SectionsAssumption DEF Beat
  <2> QED
    BY <2>1 DEF Take, StepRecord
<1> QED
  BY <1>1, <1>2

(* The parts of the pipeline, one by one.                                     *)
LEMMA DesksServed ==
  FetchDesks \in Seq(StepRecord) /\ Served(FetchDesks, {"none"}) /\ Gives(FetchDesks, Desk)
<1>1. DOMAIN Desks = 1 .. 8 /\ \A i \in 1 .. 8 : Desks[i] \in Desk
  <2>1. Desks \in Seq(Desk) /\ Len(Desks) = 8
    BY DEF Desks, Desk
  <2> QED
    BY <2>1
<1>2. \A l \in Desk : l \in StoryList /\ l \in Beat
  BY DEF StoryList, Beat
<1>3. ASSUME NEW i \in 1 .. 8
      PROVE  /\ FetchDesks[i] \in StepRecord
             /\ FetchDesks[i].do = "fetch" /\ FetchDesks[i].list = Desks[i]
  BY <1>1, <1>2, StepsTyped DEF FetchDesks
<1>4. FetchDesks \in [1 .. 8 -> StepRecord]
  BY <1>1, <1>3 DEF FetchDesks
<1>5. \A l \in Desk : \E i \in 1 .. 8 : Desks[i] = l
  BY DEF Desks, Desk
<1> QED
  <2>1. FetchDesks \in Seq(StepRecord) /\ DOMAIN FetchDesks = 1 .. 8
    <3>1. \A n \in Nat : [1 .. n -> StepRecord] \subseteq Seq(StepRecord)
      OBVIOUS
    <3>2. FetchDesks \in Seq(StepRecord)
      BY <1>4, <3>1
    <3> QED
      BY <1>4, <3>2
  <2>2. Served(FetchDesks, {"none"})
    BY <1>3, <2>1 DEF Served
  <2>3. Gives(FetchDesks, Desk)
    BY <1>3, <1>5, <2>1 DEF Gives, Fetches
  <2> QED
    BY <2>1, <2>2, <2>3

LEMMA CandidatesServed ==
  /\ CandidateSteps \in Seq(StepRecord) /\ Served(CandidateSteps, {"none"})
  /\ Gives(CandidateSteps, {"breaking", "featured", "trending", "videos"} \cup Desk)
<1> DEFINE a == <<Fetch("breaking", "breaking"), Fetch("featured", "featured"), Fetch("trending", "any")>>
           c == <<Fetch("videos", "videos"), FetchMore("videos", "video")>>
           first == {"breaking", "featured", "trending"}
<1>1. \A l \in first \cup {"videos"}, b \in first \cup {"any", "videos", "video"} :
        l \in StoryList /\ b \in Beat
  BY DEF StoryList, Beat
<1>2. a \in Seq(StepRecord) /\ Served(a, {"none"}) /\ Gives(a, first)
  BY <1>1, StepsTyped DEF Served, Gives, Fetches
<1>3. c \in Seq(StepRecord) /\ Served(c, {"none"} \cup (first \cup Desk)) /\ Gives(c, {"videos"})
  BY <1>1, StepsTyped DEF Served, Gives, Fetches
<1>4. Served(FetchDesks, {"none"} \cup first)
  BY DesksServed DEF Served
<1> HIDE DEF a, c, first
<1>5. a \o FetchDesks \in Seq(StepRecord) /\ Served(a \o FetchDesks, {"none"})
      /\ Gives(a \o FetchDesks, first \cup Desk)
  BY <1>2, <1>4, DesksServed, PartAfterPart
<1>6. (a \o FetchDesks) \o c \in Seq(StepRecord) /\ Served((a \o FetchDesks) \o c, {"none"})
      /\ Gives((a \o FetchDesks) \o c, (first \cup Desk) \cup {"videos"})
  BY <1>3, <1>5, PartAfterPart
<1>7. (first \cup Desk) \cup {"videos"} = {"breaking", "featured", "trending", "videos"} \cup Desk
  BY DEF first
<1>8. CandidateSteps = (a \o FetchDesks) \o c
  BY DEF CandidateSteps, a, c
<1> QED
  BY <1>6, <1>7, <1>8

Had == {"none", "breaking", "featured", "trending", "videos"} \cup Desk

LEMMA FeaturedServed ==
  FeaturedSteps \in Seq(StepRecord) /\ Served(FeaturedSteps, Had) /\ Gives(FeaturedSteps, {})
<1>1. \A l \in Had : l \in StoryList \cup {"none"}
  BY DEF Had, StoryList
<1>2. \A l \in {"breaking", "featured", "trending"} : l \in Had
  BY DEF Had
<1> QED
  BY <1>1, <1>2, StepsTyped DEF FeaturedSteps, Served, Gives

LEMMA StateDesksServed ==
  StateDeskSteps \in Seq(StepRecord) /\ Served(StateDeskSteps, Had) /\ Gives(StateDeskSteps, {})
<1>1. \A l \in {"jharkhand", "bihar", "none"} : l \in Had /\ l \in StoryList \cup {"none"}
  BY DEF Had, StoryList, Desk
<1> QED
  BY <1>1, StepsTyped DEF StateDeskSteps, Served, Gives

LEMMA VideosServed ==
  VideoSteps \in Seq(StepRecord) /\ Served(VideoSteps, Had) /\ Gives(VideoSteps, {})
<1>1. "videos" \in Had /\ "videos" \in StoryList \cup {"none"}
  BY DEF Had, StoryList
<1> QED
  BY <1>1, StepsTyped DEF VideoSteps, Served, Gives

LEMMA CategoriesServed ==
  CategorySteps \in Seq(StepRecord) /\ Served(CategorySteps, Had) /\ Gives(CategorySteps, {})
<1>1. \A l \in {"politics", "sports", "entertainment", "crime", "business", "trending", "none"} :
        l \in Had /\ l \in StoryList \cup {"none"}
  BY DEF Had, StoryList, Desk
<1> DEFINE take == {r \in StepRecord : r.do = "take" /\ r.list \in Had}
<1>2. \A l \in {"politics", "sports", "entertainment", "crime", "business", "trending", "none"},
         n \in {1, 2, 3, 4, 5} : Take(l, n) \in take
  BY <1>1, StepsTyped
<1> HIDE DEF take
<1>3. CategorySteps \in Seq(take)
  BY <1>2 DEF CategorySteps
<1>4. CategorySteps \in Seq(StepRecord) /\ \A i \in DOMAIN CategorySteps : CategorySteps[i] \in take
  <2>1. take \subseteq StepRecord
    BY DEF take
  <2> QED
    BY <1>3, <2>1, SeqMonotonic
<1> QED
  BY <1>4 DEF Served, Gives, take

LEMMA TechnologyServed ==
  TechnologySteps \in Seq(StepRecord) /\ Served(TechnologySteps, Had) /\ Gives(TechnologySteps, {})
<1>1. "technology" \in Had /\ "technology" \in StoryList \cup {"none"}
  BY DEF Had, StoryList, Desk
<1> QED
  BY <1>1, StepsTyped DEF TechnologySteps, Served, Gives

LEMMA MoreServed ==
  MoreSteps \in Seq(StepRecord) /\ Served(MoreSteps, Had) /\ Gives(MoreSteps, {})
<1>1. \A l \in {"auto", "lifestyle", "health", "education", "recent", "recommended", "similar"} :
        l \in StoryList /\ l \in StoryList \cup {"none"}
  BY DEF StoryList
<1>2. \A b \in {"auto", "lifestyle", "health", "education", "any", "desks"} : b \in Beat
  BY DEF Beat, StoryList
<1> DEFINE s == MoreSteps
<1>3. /\ s \in Seq(StepRecord) /\ Len(s) = 14
      /\ s[1] = Fetch("auto", "auto") /\ s[2] = Fetch("lifestyle", "lifestyle")
      /\ s[3] = Fetch("health", "health") /\ s[4] = Fetch("education", "education")
      /\ s[5] = Fetch("recent", "any") /\ s[6] = Take("recent", 12)
      /\ s[7] = Fetch("recommended", "any") /\ s[8] = Take("recommended", 8)
      /\ s[9] = Fetch("similar", "desks") /\ s[10] = Take("similar", 10)
      /\ s[11] = Take("auto", 6) /\ s[12] = Take("lifestyle", 6)
      /\ s[13] = Take("health", 6) /\ s[14] = Take("education", 6)
  BY <1>1, <1>2, StepsTyped DEF MoreSteps
<1> HIDE DEF s
<1>4. /\ s[1].do = "fetch" /\ s[1].list = "auto" /\ s[2].do = "fetch" /\ s[2].list = "lifestyle"
      /\ s[3].do = "fetch" /\ s[3].list = "health" /\ s[4].do = "fetch" /\ s[4].list = "education"
      /\ s[5].do = "fetch" /\ s[5].list = "recent" /\ s[7].do = "fetch" /\ s[7].list = "recommended"
      /\ s[9].do = "fetch" /\ s[9].list = "similar"
      /\ s[6].list = "recent" /\ s[8].list = "recommended" /\ s[10].list = "similar"
      /\ s[11].list = "auto" /\ s[12].list = "lifestyle" /\ s[13].list = "health"
      /\ s[14].list = "education"
  BY <1>1, <1>2, <1>3, StepsTyped
<1>5. DOMAIN s = 1 .. 14
  BY <1>3
<1>6. Served(s, Had)
  BY <1>4, <1>5 DEF Served, Fetches
<1> QED
  BY <1>3, <1>6 DEF s, Gives

LEMMA ColumnsServed ==
  ASSUME NEW slugs \in Seq(Beat)
  PROVE  /\ FourColumnSteps(slugs) \in Seq(StepRecord)
         /\ Served(FourColumnSteps(slugs), Had) /\ Gives(FourColumnSteps(slugs), {})
<1> DEFINE s == FourColumnSteps(slugs)
           n == 3 * Len(slugs)
<1>1. n \in Nat
  OBVIOUS
<1>2. DOMAIN s = 1 .. n
  BY DEF FourColumnSteps
<1>3. "column" \in StoryList /\ "column" \in StoryList \cup {"none"}
  BY DEF StoryList
<1>4. ASSUME NEW i \in 1 .. n
      PROVE  /\ s[i] \in StepRecord
             /\ i % 3 = 1 => s[i].do = "fetchAny" /\ s[i].list = "column"
             /\ s[i].do = "take" => s[i].list = "column" /\ i % 3 \in {0, 2}
  <2>1. i % 3 \in {0, 1, 2}
    OBVIOUS
  <2>2. CASE i % 3 = 1
    <3>1. (i + 2) \div 3 \in 1 .. Len(slugs)
      BY <2>2, <1>1
    <3>2. slugs[(i + 2) \div 3] \in Beat
      BY <3>1
    <3>3. s[i] = [Fetch("column", slugs[(i + 2) \div 3]) EXCEPT !.do = "fetchAny"]
      BY <2>2 DEF FourColumnSteps
    <3>4. \A b \in Beat : /\ [Fetch("column", b) EXCEPT !.do = "fetchAny"] \in StepRecord
                          /\ [Fetch("column", b) EXCEPT !.do = "fetchAny"].do = "fetchAny"
                          /\ [Fetch("column", b) EXCEPT !.do = "fetchAny"].list = "column"
      BY <1>3 DEF Fetch, StepRecord
    <3> HIDE DEF s
    <3> QED
      BY <2>2, <3>2, <3>3, <3>4
  <2>3. CASE i % 3 = 2
    <3>1. s[i] = Take("column", 1)
      BY <2>3 DEF FourColumnSteps
    <3> HIDE DEF s
    <3> QED
      BY <1>3, <2>3, <3>1, StepsTyped
  <2>4. CASE i % 3 = 0
    <3>1. s[i] = Take("column", 4)
      BY <2>4 DEF FourColumnSteps
    <3> HIDE DEF s
    <3> QED
      BY <1>3, <2>4, <3>1, StepsTyped
  <2> QED
    BY <2>1, <2>2, <2>3, <2>4
<1> HIDE DEF s
<1>5. s \in Seq(StepRecord)
  <2>1. s \in [1 .. n -> StepRecord]
    <3>1. s = [i \in 1 .. n |-> s[i]]
      BY DEF s, FourColumnSteps
    <3> QED
      BY <1>4, <3>1
  <2> QED
    BY <1>1, <2>1
<1>6. Served(s, Had)
  <2> SUFFICES ASSUME NEW i \in 1 .. n, s[i].do = "take"
               PROVE  \E j \in 1 .. n : j < i /\ s[j].do \in Fetches /\ s[j].list = s[i].list
    BY <1>2 DEF Served
  <2>1. i % 3 \in {0, 2} /\ s[i].list = "column"
    BY <1>4
  <2>2. \E j \in 1 .. n : j < i /\ j % 3 = 1
    <3>1. CASE i % 3 = 2
      <4>1. i - 1 \in 1 .. n /\ (i - 1) % 3 = 1 /\ i - 1 < i
        BY <1>1, <3>1
      <4> QED
        BY <4>1
    <3>2. CASE i % 3 = 0
      <4>1. i - 2 \in 1 .. n /\ (i - 2) % 3 = 1 /\ i - 2 < i
        BY <1>1, <3>2
      <4> QED
        BY <4>1
    <3> QED
      BY <2>1, <3>1, <3>2
  <2> QED
    BY <1>4, <2>1, <2>2 DEF Fetches
<1> QED
  BY <1>5, <1>6 DEF s, Gives

(* Every step of the pipeline takes from a list that was fetched before.       *)
LEMMA PipelineServed ==
  Pipeline \in Seq(StepRecord) /\ Served(Pipeline, {"none"})
<1> DEFINE H == {"none"}
           G == {"breaking", "featured", "trending", "videos"} \cup Desk
           F1 == FourColumnSteps(ColumnsOf(ColumnSettings[1], Columns1))
           F2 == FourColumnSteps(ColumnsOf(ColumnSettings[2], Columns2))
<1>1. H \cup G = Had /\ G \cup {} = G
  BY DEF Had
<1>2. ASSUME NEW s \in Seq(StepRecord), NEW t \in Seq(StepRecord), Served(s, H), Gives(s, G),
             Served(t, Had), Gives(t, {})
      PROVE  s \o t \in Seq(StepRecord) /\ Served(s \o t, H) /\ Gives(s \o t, G)
  <2> HIDE DEF H, G
  <2>1. Served(t, H \cup G)
    BY <1>1, <1>2
  <2>2. Gives(s \o t, G \cup {}) /\ s \o t \in Seq(StepRecord) /\ Served(s \o t, H)
    BY <1>2, <2>1, PartAfterPart
  <2> QED
    BY <1>1, <2>2
<1>3. /\ F1 \in Seq(StepRecord) /\ Served(F1, Had) /\ Gives(F1, {})
      /\ F2 \in Seq(StepRecord) /\ Served(F2, Had) /\ Gives(F2, {})
  <2>1. ColumnSettings[1] \in Seq(Beat) /\ ColumnSettings[2] \in Seq(Beat)
    <3>1. ColumnSettings[1] \in Seq(STRING) /\ ColumnSettings[2] \in Seq(STRING)
      BY SectionsAssumption
    <3>2. STRING \subseteq Beat
      BY DEF Beat
    <3> QED
      BY <3>1, <3>2, SeqMonotonic
  <2>2. Columns1 \in Seq(Beat) /\ Columns2 \in Seq(Beat)
    BY DEF Columns1, Columns2, Beat, StoryList, Desk
  <2> QED
    BY <2>1, <2>2, ColumnsServed DEF ColumnsOf
<1> DEFINE P1 == CandidateSteps \o FeaturedSteps
           P2 == P1 \o F1
           P3 == P2 \o StateDeskSteps
           P4 == P3 \o VideoSteps
           P5 == P4 \o CategorySteps
           P6 == P5 \o MoreSteps
           P7 == P6 \o F2
           P8 == P7 \o TechnologySteps
<1>4. Pipeline = P8
  BY DEF Pipeline
<1> HIDE DEF H, G, F1, F2
<1>5. P1 \in Seq(StepRecord) /\ Served(P1, H) /\ Gives(P1, G)
  BY <1>2, CandidatesServed, FeaturedServed DEF H, G
<1> HIDE DEF P1
<1>6. P2 \in Seq(StepRecord) /\ Served(P2, H) /\ Gives(P2, G)
  BY <1>2, <1>3, <1>5
<1> HIDE DEF P2
<1>7. P3 \in Seq(StepRecord) /\ Served(P3, H) /\ Gives(P3, G)
  BY <1>2, <1>6, StateDesksServed
<1> HIDE DEF P3
<1>8. P4 \in Seq(StepRecord) /\ Served(P4, H) /\ Gives(P4, G)
  BY <1>2, <1>7, VideosServed
<1> HIDE DEF P4
<1>9. P5 \in Seq(StepRecord) /\ Served(P5, H) /\ Gives(P5, G)
  BY <1>2, <1>8, CategoriesServed
<1> HIDE DEF P5
<1>10. P6 \in Seq(StepRecord) /\ Served(P6, H) /\ Gives(P6, G)
  BY <1>2, <1>9, MoreServed
<1> HIDE DEF P6
<1>11. P7 \in Seq(StepRecord) /\ Served(P7, H) /\ Gives(P7, G)
  BY <1>2, <1>3, <1>10
<1> HIDE DEF P7
<1>12. P8 \in Seq(StepRecord) /\ Served(P8, H) /\ Gives(P8, G)
  BY <1>2, <1>11, TechnologyServed
<1> QED
  BY <1>4, <1>12 DEF H

(* What a query returns.                                                      *)
LEMMA QueriesReturnItems ==
  ASSUME SectionTypes, NEW ss \in SUBSET Story
  PROVE  Orders(ss) \subseteq Seq(Items) /\ Latest(ss) \in Orders(ss)
<1> USE SectionsAssumption
<1> DEFINE c == Cardinality(ss)
<1>1. c \in Nat /\ IsFiniteSet(ss) /\ ss \in SUBSET Nat
  BY FS_Subset, FS_CardinalityType
<1>2. \A s \in ss : Item(s) \in Items /\ Item(s).id = s
  BY DEF Item, Items, SectionTypes
<1> HIDE DEF c
<1>3. [1 .. c -> {Item(s) : s \in ss}] \subseteq Seq(Items)
  <2> SUFFICES ASSUME NEW q \in [1 .. c -> {Item(s) : s \in ss}] PROVE q \in Seq(Items)
    OBVIOUS
  <2>1. q \in [1 .. c -> Items]
    BY <1>2
  <2> QED
    BY <1>1, <2>1
<1>4. Orders(ss) \subseteq Seq(Items)
  BY <1>3 DEF Orders, c
<1>5. PICK f \in [1 .. c -> ss] : \A i, j \in 1 .. c : i < j => f[i] > f[j]
  BY <1>1, DescendingExists DEF c
<1> DEFINE q == [i \in 1 .. c |-> Item(f[i])]
<1>6. q \in [1 .. c -> {Item(s) : s \in ss}] /\ \A i \in 1 .. c : q[i].id = f[i] /\ f[i] \in Nat
  BY <1>1, <1>2
<1>7. \A i, j \in 1 .. c : q[i].id = q[j].id => i = j
  <2> HIDE DEF q
  <2> SUFFICES ASSUME NEW i \in 1 .. c, NEW j \in 1 .. c, q[i].id = q[j].id, i # j PROVE FALSE
    OBVIOUS
  <2>1. i < j \/ j < i
    BY <1>1
  <2> QED
    BY <1>5, <1>6, <2>1
<1>8. DOMAIN q = 1 .. c
  OBVIOUS
<1> HIDE DEF q
<1>9. q \in Orders(ss) /\ \A i, j \in DOMAIN q : i < j => q[i].id > q[j].id
  BY <1>5, <1>6, <1>7, <1>8 DEF Orders, c
<1> QED
  BY <1>4, <1>9 DEF Latest

(* Nothing has been asked yet.                                                *)
LEMMA SectionsStart == SectionsInit => SectionsInv
  BY DEF SectionsInit, SectionsInv, SectionTypes, FetchedSoFar, SeenArePlaced, ShortAfterPool,
         FeedWhole

(* The general pool is fetched once, before anything is placed.                *)
LEMMA FeedStarted ==
  ASSUME SectionsInv, StartFeed
  PROVE  SectionsInv'
<1> USE DEF SectionsInv
<1>1. /\ step = 0 /\ step' = 1
      /\ UNCHANGED <<story, candidates, placed, seen, seenTitles, taken, short>>
  BY DEF StartFeed
<1>2. generalPool' \in Seq(Items)
  <2>1. Latest(Matching("any", TRUE)) \in Seq(Items)
    BY QueriesReturnItems DEF Matching
  <2>2. generalPool' = Latest(Matching("any", TRUE)) \/ generalPool' = <<>>
    BY DEF StartFeed
  <2>3. <<>> \in Seq(Items)
    BY EmptySeq
  <2> QED
    BY <2>1, <2>2, <2>3, Zenon
<1>3. SectionTypes'
  BY <1>1, <1>2 DEF SectionTypes
<1>4. FetchedSoFar'
  <2>1. \A j \in DOMAIN Pipeline : ~(j < 1)
    BY PipelineServed
  <2> QED
    BY <1>1, <2>1 DEF FetchedSoFar
<1> QED
  BY <1>1, <1>3, <1>4 DEF SeenArePlaced, ShortAfterPool, FeedWhole

(* What is done now, when there is something.                                 *)
LEMMA NowInPipeline ==
  ASSUME SectionTypes, Running
  PROVE  /\ step \in DOMAIN Pipeline /\ Now \in StepRecord /\ step \in Nat \ {0}
         /\ \A j \in DOMAIN Pipeline : j \in Nat /\ (j < step + 1 => j < step \/ j = step)
         /\ Now = Pipeline[step]
<1>1. Pipeline \in Seq(StepRecord) /\ Len(Pipeline) \in Nat /\ DOMAIN Pipeline = 1 .. Len(Pipeline)
  BY PipelineServed
<1>2. step \in DOMAIN Pipeline
  BY <1>1 DEF Running, SectionTypes
<1> QED
  BY <1>1, <1>2 DEF Now, SectionTypes

(* A fetch that is done or passed over leaves the feed as it is.               *)
LEMMA FetchGoesOn ==
  ASSUME SectionsInv, Running, FetchCandidates \/ SkipFetch \/ EditStory
  PROVE  SectionsInv'
<1> USE DEF SectionsInv
<1>1. UNCHANGED <<generalPool, placed, seen, seenTitles, taken, short>> /\ step' # 0
      /\ step' \in {step, step + 1} /\ story' \in [Story -> StoryRow]
  <2>1. step \in Nat \ {0}
    BY NowInPipeline
  <2> QED
    BY <2>1 DEF FetchCandidates, SkipFetch, EditStory, SectionTypes
<1>2. \/ UNCHANGED candidates
      \/ \E list \in Seq(Items) :
           candidates' = [l \in DOMAIN candidates \cup {Now.list} |->
                            IF l = Now.list THEN list ELSE candidates[l]]
  <2>1. CASE FetchCandidates
    <3> DEFINE any == anyLanguage \/ Now.do = "fetchAny"
    <3>1. Listings(Now.beat, any) \subseteq Seq(Items)
      <4>1. Matching(Now.beat, any) \in SUBSET Story
        BY DEF Matching
      <4> QED
        BY <4>1, QueriesReturnItems DEF Listings
    <3>2. \A list \in Listings(Now.beat, any) \cup {<<>>} : list \in Seq(Items)
      <4>1. <<>> \in Seq(Items)
        OBVIOUS
      <4> QED
        BY <3>1, <4>1
    <3> QED
      BY <2>1, <3>2 DEF FetchCandidates
  <2> QED
    BY <2>1 DEF SkipFetch, EditStory
<1>3. DOMAIN candidates \subseteq DOMAIN candidates'
      /\ \A l \in DOMAIN candidates' : candidates'[l] \in Seq(Items)
  BY <1>2 DEF SectionTypes
<1>4. SectionTypes'
  BY <1>1, <1>3 DEF SectionTypes
<1>5. FetchedSoFar'
  <2>1. CASE step' = step
    BY <1>3, <2>1 DEF FetchedSoFar
  <2>2. CASE step' = step + 1
    <3>1. Now.do \in Fetches => Now.list \in DOMAIN candidates'
      <4>1. CASE FetchCandidates
        <5>1. step' # step
          BY <2>2 DEF SectionTypes
        <5>2. \E list : candidates' = [l \in DOMAIN candidates \cup {Now.list} |->
                                         IF l = Now.list THEN list ELSE candidates[l]]
          BY <4>1, <5>1 DEF FetchCandidates
        <5> QED
          BY <5>2
      <4>2. CASE SkipFetch
        BY <4>2 DEF SkipFetch, Skipped, Fetches
      <4>3. CASE EditStory
        BY <2>2, <4>3 DEF EditStory, SectionTypes
      <4> QED
        BY <4>1, <4>2, <4>3
    <3> QED
      BY <1>3, <2>2, <3>1, NowInPipeline DEF FetchedSoFar
  <2> QED
    BY <1>1, <2>1, <2>2
<1> QED
  BY <1>1, <1>4, <1>5 DEF SeenArePlaced, ShortAfterPool, FeedWhole

(* What a section is offered: its own candidates, which have been fetched, and  *)
(* after them the general pool.                                               *)
LEMMA OfferedIsFetched ==
  ASSUME SectionsInv, Running, Now.do = "take"
  PROVE  /\ Offered \in Seq(Items)
         /\ \A i \in DOMAIN generalPool : \E j \in DOMAIN Offered : Offered[j] = generalPool[i]
<1> USE DEF SectionsInv
<1> DEFINE own == IF Now.list = "none" THEN <<>> ELSE candidates[Now.list]
<1>1. own \in Seq(Items)
  <2>1. CASE Now.list = "none"
    BY <2>1
  <2>2. CASE Now.list # "none"
    <3>1. PICK j \in DOMAIN Pipeline :
            j < step /\ Pipeline[j].do \in Fetches /\ Pipeline[j].list = Now.list
      BY <2>2, PipelineServed, NowInPipeline DEF Served
    <3> QED
      BY <2>2, <3>1 DEF FetchedSoFar, SectionTypes
  <2> QED
    BY <2>1, <2>2
<1>2. generalPool \in Seq(Items)
  BY DEF SectionTypes
<1>3. Offered = own \o generalPool
  BY DEF Offered
<1> HIDE DEF own
<1>4. ASSUME NEW i \in DOMAIN generalPool
      PROVE  Len(own) + i \in DOMAIN (own \o generalPool)
             /\ (own \o generalPool)[Len(own) + i] = generalPool[i]
  BY <1>1, <1>2
<1>5. own \o generalPool \in Seq(Items)
  BY <1>1, <1>2
<1>6. \A i \in DOMAIN generalPool : \E j \in DOMAIN (own \o generalPool) :
        (own \o generalPool)[j] = generalPool[i]
  BY <1>4
<1> QED
  BY <1>3, <1>5, <1>6

(* A section takes the first article that the feed does not have.              *)
LEMMA ArticleTaken ==
  ASSUME SectionsInv, TakeArticle
  PROVE  SectionsInv'
<1> USE DEF SectionsInv
<1>1. /\ Running /\ Now.do = "take" /\ FreshOnes # {}
      /\ taken' = taken + 1
      /\ UNCHANGED <<story, step, generalPool, candidates, short>>
  BY DEF TakeArticle
<1> DEFINE it == Offered[CHOOSE i \in FreshOnes : \A j \in FreshOnes : i <= j]
           new == [at |-> step, id |-> it.id, title |-> it.title]
<1>2. /\ placed' = placed \cup {new} /\ seen' = seen \cup {it.id}
      /\ seenTitles' = seenTitles \cup {TitleLength[it.title]}
  BY DEF TakeArticle
<1>3. Fresh(it)
  <2>1. FreshOnes \in SUBSET Nat
    BY <1>1, OfferedIsFetched DEF FreshOnes
  <2>2. \E i \in FreshOnes : \A j \in FreshOnes : i <= j
    BY <1>1, <2>1, SmallestExists
  <2> QED
    BY <2>2 DEF FreshOnes
<1>4. new.id = it.id /\ new.title = it.title
  OBVIOUS
<1> HIDE DEF it, new
<1>5. SectionTypes' /\ FetchedSoFar' /\ ShortAfterPool'
  BY <1>1 DEF SectionTypes, FetchedSoFar, ShortAfterPool
<1>6. SeenArePlaced'
  BY <1>2, <1>4 DEF SeenArePlaced
<1>7. FeedWhole'
  <2>1. ASSUME NEW p \in placed
        PROVE  p.id # new.id /\ p.title # new.title
    BY <1>3, <1>4 DEF Fresh, SeenArePlaced, FeedWhole
  <2>2. \A p, q \in placed' : p.id = q.id \/ p.title = q.title => p = q
    BY <1>2, <2>1 DEF FeedWhole
  <2>3. short' # {} => \A i \in DOMAIN generalPool' : \E p \in placed' :
          \/ p.id = generalPool'[i].id
          \/ TitleLength[p.title] = TitleLength[generalPool'[i].title]
    BY <1>1, <1>2 DEF FeedWhole
  <2>4. seen' = {p.id : p \in placed'}
    BY <1>2, <1>4 DEF FeedWhole
  <2> QED
    BY <2>2, <2>3, <2>4 DEF FeedWhole
<1> QED
  BY <1>5, <1>6, <1>7

(* A section ends full, or because nothing offered is new to the feed.         *)
LEMMA SectionEnds ==
  ASSUME SectionsInv, EndSection
  PROVE  SectionsInv'
<1> USE DEF SectionsInv
<1>1. /\ Running /\ Now.do = "take" /\ (taken = Now.room \/ FreshOnes = {})
      /\ short' = IF taken < Now.room THEN short \cup {step} ELSE short
      /\ taken' = 0 /\ step' = step + 1
      /\ UNCHANGED <<story, generalPool, candidates, placed, seen, seenTitles>>
  BY DEF EndSection
<1>2. /\ Now \in StepRecord /\ step \in Nat \ {0}
      /\ \A j \in DOMAIN Pipeline : j < step + 1 => j < step \/ j = step
      /\ Now = Pipeline[step]
  BY <1>1, NowInPipeline
<1>3. SectionTypes' /\ ShortAfterPool'
  BY <1>1, <1>2 DEF SectionTypes, ShortAfterPool
<1>4. FetchedSoFar'
  BY <1>1, <1>2 DEF FetchedSoFar, Fetches
<1>5. SeenArePlaced'
  BY <1>1 DEF SeenArePlaced
<1>6. ASSUME taken < Now.room, NEW i \in DOMAIN generalPool
      PROVE  \E p \in placed :
               \/ p.id = generalPool[i].id
               \/ TitleLength[p.title] = TitleLength[generalPool[i].title]
  <2>1. FreshOnes = {}
    BY <1>1, <1>2, <1>6 DEF StepRecord, SectionTypes
  <2>2. PICK j \in DOMAIN Offered : Offered[j] = generalPool[i]
    BY <1>1, OfferedIsFetched
  <2>3. ~Fresh(generalPool[i])
    BY <2>1, <2>2 DEF FreshOnes
  <2> QED
    BY <2>3 DEF Fresh, SeenArePlaced, FeedWhole
<1>7. FeedWhole'
  <2>1. CASE taken < Now.room
    BY <1>1, <1>6, <2>1 DEF FeedWhole
  <2>2. CASE ~(taken < Now.room)
    BY <1>1, <2>2 DEF FeedWhole
  <2> QED
    BY <2>1, <2>2
<1> QED
  BY <1>3, <1>4, <1>5, <1>7

(* Whatever commits while a feed is put together and whichever queries fail:   *)
(* no article and no title is in it twice, and a section is short only when     *)
(* the feed has all that the general pool has to give.                         *)
THEOREM FeedWholeHolds == SectionsSpec => []FeedWhole
<1>1. SectionsInv /\ [SectionsNext]_sectionVars => SectionsInv'
  <2> SUFFICES ASSUME SectionsInv, [SectionsNext]_sectionVars PROVE SectionsInv'
    OBVIOUS
  <2>1. CASE UNCHANGED sectionVars
    BY <2>1 DEF sectionVars, SectionsInv, SectionTypes, FetchedSoFar, SeenArePlaced,
                ShortAfterPool, FeedWhole
  <2>2. CASE FetchCandidates \/ SkipFetch \/ EditStory
    <3>1. Running
      BY <2>2 DEF FetchCandidates, SkipFetch, EditStory
    <3> QED
      BY <2>2, <3>1, FetchGoesOn
  <2> QED
    BY <2>1, <2>2, FeedStarted, ArticleTaken, SectionEnds DEF SectionsNext
<1>2. SectionsInv => FeedWhole
  BY DEF SectionsInv
<1> QED
  BY <1>1, <1>2, SectionsStart, PTL DEF SectionsSpec
=============================================================================

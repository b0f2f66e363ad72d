---------------------------- MODULE ReaderDesk ----------------------------
(***************************************************************************)
(* What readers send and the desk sends out: comments and feedback         *)
(* (internal/moderation), polls (internal/poll), the newsletter, push      *)
(* subscriptions and broadcasts (internal/notify).                         *)
(*                                                                         *)
(* A reader's or a moderator's request runs in its transaction; a          *)
(* broadcast is a row of Redis commands, each of which may fail unnoticed. *)
(* One newsletter address; a comment is named by its request.              *)
(***************************************************************************)
EXTENDS Naturals, Sequences, FiniteSets

CONSTANTS Asker,      \* requests under way at a time
          NoAsker,    \* no request
          Caster,     \* broadcasts
          HistoryMax, \* broadcasts the history keeps: 50
          Article,    \* articles
          NoArticle,  \* no article
          MaxAsks     \* bound: requests of each asker

ASSUME ReaderAssumption == /\ NoAsker \notin Asker /\ NoArticle \notin Article
                         /\ HistoryMax \in Nat \ {0} /\ MaxAsks \in Nat

VARIABLES articles,  \* the articles that have a row
          comments,  \* comment rows: their status and is_approved
          articleOf, \* their article_id
          parentOf,  \* their parent_id
          rests,     \* the articles they go with: theirs, and those their parent goes with
          posted,    \* history: comments whose request was answered "created"
          letter,    \* the newsletter row: "none", "on" or "off"
          feedback,  \* feedback rows: "none", "open" or "reviewed"
          ask,       \* the request of each asker: its transaction so far
          asks,      \* requests begun
          cast,      \* how far each broadcast is
          published, \* broadcasts that reached the stream
          broadcasts,\* the list naxatra:broadcast_history
          sentToday, \* the counter of the day
          pushed     \* history: broadcasts pushed to the list, newest first

commentVars == <<articles, comments, articleOf, parentOf, rests, posted>>
askVars == <<commentVars, letter, feedback, ask, asks>>
castVars == <<cast, published, broadcasts, sentToday, pushed>>
readerDeskVars == <<askVars, castVars>>

NoRow == [status |-> "none", is_approved |-> FALSE]
NoAsk == [op |-> "none", on |-> NoAsker, at |-> NoArticle]

\* What statements name and the schema does not have.
DeskLacks == {"comments.moderated_by", "comments.updated_at", "push_subscriptions.id uuid",
              "poll_votes.poll_id uuid"}
DeskRuns(names) == names \cap DeskLacks = {}

(***************************************************************************)
(* Requests in a transaction                                               *)
(***************************************************************************)

\* The transaction has done its statement on a row, and holds it.
WrittenAt(a, op, on, x) == ask' = [ask EXCEPT ![a] = [op |-> op, on |-> on, at |-> x]]
Written(a, op, on) == WrittenAt(a, op, on, NoArticle)
Holding(op, on) == \E b \in Asker : ask[b].op = op /\ ask[b].on = on
HoldingAny(op) == \E b \in Asker : ask[b].op = op
\* A request that is refused or whose statement fails is rolled back.
Refuse(a) == Written(a, "refused", NoAsker)

Asking(a) ==
    /\ ask[a] = NoAsk /\ asks[a] < MaxAsks
    /\ asks' = [asks EXCEPT ![a] = @ + 1]
    /\ UNCHANGED <<commentVars, letter, feedback, castVars>>

HasRow(b) == comments[b] # NoRow

\* MUTANT of RestsOn: parent_id refers to no row.
RestsOnArticle(x, parent) == {x}
\* A comment goes with its article, and by parent_id with whatever its parent goes
\* with: nothing asks the parent to be a comment on the same article.
RestsOn(x, parent) == {x} \cup (IF parent = NoAsker THEN {} ELSE rests[parent])

\* The article and the parent are referred to: the row waits for whoever deletes
\* one of them, and fails without it.  It is approved as it is inserted.
AddComment(a) ==
    /\ Asking(a)
    /\ ~HasRow(a) /\ a \notin posted
    /\ \E x \in Article, parent \in (Asker \ {a}) \cup {NoAsker} :
         /\ \A b \in Asker : ask[b].op = "delete article" => ask[b].at \notin RestsOn(x, parent)
         /\ IF x \in articles /\ (parent = NoAsker \/ HasRow(parent))
            THEN WrittenAt(a, "comment", parent, x) ELSE Refuse(a)

ModerateComment(a) ==
    /\ Asking(a)
    /\ \E b \in Asker :
         IF DeskRuns({"comments.moderated_by", "comments.updated_at"})
         THEN ~Holding("moderate", b) /\ Written(a, "moderate", b)
         ELSE Refuse(a)

\* Deleting an article deletes the comments that go with it: it waits for those
\* being added, which hold what they refer to, and for a delete of the same rows.
DeleteCommentedArticle(a) ==
    /\ Asking(a)
    /\ \E x \in articles :
         /\ \A b \in Asker :
              /\ ask[b].op = "comment" => x \notin RestsOn(ask[b].at, ask[b].on)
              /\ ask[b].op = "delete article" =>
                   /\ x # ask[b].at
                   /\ \A c \in Asker : HasRow(c) => ~({x, ask[b].at} \subseteq rests[c])
         /\ WrittenAt(a, "delete article", NoAsker, x)

\* Feedback of readers is kept when its article goes.
SubmitFeedback(a) ==
    /\ Asking(a)
    /\ feedback[a] = "none"
    /\ Written(a, "feedback", a)

\* No row with the id: nothing is updated, and the moderator is told it was.
UpdateFeedbackStatus(a) ==
    /\ Asking(a)
    /\ \E b \in Asker :
         IF feedback[b] = "none" THEN Written(a, "nothing", NoAsker)
         ELSE ~Holding("review", b) /\ Written(a, "review", b)

\* An upsert waits for another row of the address that is not committed yet;
\* an update does not see that row.
Subscribe(a) ==
    /\ Asking(a)
    /\ ~HoldingAny("subscribe") /\ ~HoldingAny("unsubscribe")
    /\ Written(a, "subscribe", NoAsker)

Unsubscribe(a) ==
    /\ Asking(a)
    /\ IF letter = "none" THEN Written(a, "nothing", NoAsker)
       ELSE /\ ~HoldingAny("subscribe") /\ ~HoldingAny("unsubscribe")
            /\ Written(a, "unsubscribe", NoAsker)

\* The integer id of the new row does not scan into a UUID.
SavePushSubscription(a) ==
    /\ Asking(a)
    /\ IF DeskRuns({"push_subscriptions.id uuid"}) THEN Written(a, "nothing", NoAsker) ELSE Refuse(a)

\* poll_votes.poll_id is an integer, the id asked for a UUID: the check for an
\* earlier vote fails, and with it the transaction.  Nothing writes polls.
Vote(a) ==
    /\ Asking(a)
    /\ IF DeskRuns({"poll_votes.poll_id uuid"}) THEN Written(a, "nothing", NoAsker) ELSE Refuse(a)

CommitDesk(a) ==
    LET op == ask[a].op
        on == ask[a].on
        x  == ask[a].at
    IN  /\ op \notin {"none", "refused"}
        /\ ask' = [ask EXCEPT ![a] = NoAsk]
        /\ articles' = IF op = "delete article" THEN articles \ {x} ELSE articles
        /\ IF op = "comment"
           THEN /\ posted' = posted \cup {a}
                /\ articleOf' = [articleOf EXCEPT ![a] = x]
                /\ parentOf' = [parentOf EXCEPT ![a] = on]
                /\ rests' = [rests EXCEPT ![a] = RestsOn(x, on)]
           ELSE UNCHANGED <<posted, articleOf, parentOf, rests>>
        /\ comments' =
             CASE op = "comment" ->
                    [comments EXCEPT ![a] = [status |-> "approved", is_approved |-> TRUE]]
               [] op = "delete article" ->
                    [b \in Asker |-> IF x \in rests[b] THEN NoRow ELSE comments[b]]
               [] op = "moderate" /\ HasRow(on) -> [comments EXCEPT ![on].status = "rejected"]
               [] OTHER -> comments
        /\ letter' = CASE op = "subscribe" -> "on" [] op = "unsubscribe" -> "off" [] OTHER -> letter
        /\ feedback' = CASE op = "feedback" -> [feedback EXCEPT ![a] = "open"]
                         [] op = "review"   -> [feedback EXCEPT ![on] = "reviewed"]
                         [] OTHER           -> feedback
        /\ UNCHANGED <<asks, castVars>>

RollbackDesk(a) ==
    /\ ask[a].op # "none"
    /\ ask' = [ask EXCEPT ![a] = NoAsk]
    /\ UNCHANGED <<commentVars, letter, feedback, asks, castVars>>

\* What the query answers for an article.
ListApprovedComments(x) ==
    {a \in Asker : /\ HasRow(a) /\ articleOf[a] = x
                   /\ comments[a].status = "approved" \/ comments[a].is_approved}

(***************************************************************************)
(* Broadcasts                                                              *)
(***************************************************************************)
CastAt(k, from, to) == cast[k] = from /\ cast' = [cast EXCEPT ![k] = to] /\ UNCHANGED askVars

\* The subscribers are counted, then the stream is told.
PublishBroadcast(k) ==
    /\ CastAt(k, "asked", "published")
    /\ published' \in {published, published \cup {k}}
    /\ UNCHANGED <<broadcasts, sentToday, pushed>>

PushBroadcast(k) ==
    /\ CastAt(k, "published", "pushed")
    /\ broadcasts' = <<k>> \o broadcasts
    /\ pushed' = <<k>> \o pushed
    /\ UNCHANGED <<published, sentToday>>

Trimmed(s) == SubSeq(s, 1, IF Len(s) < HistoryMax THEN Len(s) ELSE HistoryMax)

TrimBroadcasts(k) ==
    /\ CastAt(k, "pushed", "trimmed")
    /\ broadcasts' = Trimmed(broadcasts)
    /\ UNCHANGED <<published, sentToday, pushed>>

CountBroadcast(k) ==
    /\ CastAt(k, "trimmed", "answered")
    /\ sentToday' = sentToday + 1
    /\ UNCHANGED <<published, broadcasts, pushed>>

\* A command fails: the next one follows all the same.
BroadcastStepFails(k) ==
    /\ \/ CastAt(k, "published", "pushed")
       \/ CastAt(k, "pushed", "trimmed")
       \/ CastAt(k, "trimmed", "answered")
    /\ UNCHANGED <<published, broadcasts, sentToday, pushed>>

\* The history shown; without one, the breaking articles are shown instead.
GetBroadcastHistory == IF broadcasts = <<>> THEN "articles" ELSE "broadcasts"

ReaderInit ==
    /\ articles = Article /\ comments = [a \in Asker |-> NoRow] /\ posted = {}
    /\ articleOf = [a \in Asker |-> NoArticle] /\ parentOf = [a \in Asker |-> NoAsker]
    /\ rests = [a \in Asker |-> {}]
    /\ letter = "none" /\ feedback = [a \in Asker |-> "none"]
    /\ ask = [a \in Asker |-> NoAsk] /\ asks = [a \in Asker |-> 0]
    /\ cast = [k \in Caster |-> "asked"]
    /\ published = {} /\ broadcasts = <<>> /\ sentToday = 0 /\ pushed = <<>>

AskNext ==
    \E a \in Asker :
       \/ AddComment(a) \/ ModerateComment(a) \/ DeleteCommentedArticle(a)
       \/ SubmitFeedback(a) \/ UpdateFeedbackStatus(a)
       \/ Subscribe(a) \/ Unsubscribe(a) \/ SavePushSubscription(a) \/ Vote(a)
       \/ CommitDesk(a) \/ RollbackDesk(a)
CastNext ==
    \E k \in Caster : \/ PublishBroadcast(k) \/ PushBroadcast(k) \/ TrimBroadcasts(k)
                      \/ CountBroadcast(k) \/ BroadcastStepFails(k)
ReaderNext == AskNext \/ CastNext
ReaderSpec == ReaderInit /\ [][ReaderNext]_readerDeskVars

(***************************************************************************)
(* Properties                                                              *)
(***************************************************************************)

\* The comment that a reply refers to is listed, with its own article.
ParentListed(a) ==
    parentOf[a] = NoAsker \/ parentOf[a] \in ListApprovedComments(articleOf[parentOf[a]])

\* The list of an article is what was posted on it, whatever moderators ask for,
\* until the article is deleted; only a reply goes before, and goes at once, with
\* the comment it refers to, be that a comment on another article.
CommentsStay ==
    \A x \in Article, a \in Asker :
       a \in ListApprovedComments(x) <=>
         a \in posted /\ articleOf[a] = x /\ x \in articles /\ ParentListed(a)

\* However broadcasts overlap and whatever command fails, the history is made
\* of the broadcasts pushed last, in order, and keeps at least HistoryMax of them.
BroadcastsKept ==
    /\ Len(broadcasts) <= Len(pushed) /\ broadcasts = SubSeq(pushed, 1, Len(broadcasts))
    /\ Len(broadcasts) >= HistoryMax \/ broadcasts = pushed

\* What the desk was told is done stays done: comments and broadcasts.
DeskSound == CommentsStay /\ BroadcastsKept
=============================================================================

---------------------------- MODULE HomeFeedSections ----------------------------
(***************************************************************************)
(* One generation of the home feed (internal/content/home_feed.go): the    *)
(* candidates are queried section by section, straight from the pool and   *)
(* not in one transaction, while editors commit; then each section takes   *)
(* its articles, from its own candidates first and from the general pool   *)
(* after them, passing over what the feed already has.                     *)
(*                                                                         *)
(* A slug is given once, with a random suffix, and stands for the id.      *)
(* Pages hold more articles than there are.                                *)
(***************************************************************************)
EXTENDS Naturals, Sequences, FiniteSets

CONSTANTS
  Story,         \* articles: the higher the number, the later published
  Title,         \* titles
  TitleLength,   \* their lengths in bytes
  StoryRow,      \* rows that an article may have: hindi: in the feed's language
  ColumnSettings,\* the categories that the settings of the two four-column
                 \* sections list, <<>> when they list none
  SectionRoom,   \* bound: articles that a section takes at most
  MaxTroubles    \* bound: edits and failed queries

ASSUME SectionsAssumption ==
  /\ Story \subseteq Nat /\ IsFiniteSet(Story)
  /\ TitleLength \in [Title -> Nat]
  /\ StoryRow \subseteq [live : BOOLEAN, hindi : BOOLEAN, title : Title, beat : STRING]
  /\ ColumnSettings \in Seq(STRING) \X Seq(STRING)
  /\ SectionRoom \in Nat /\ MaxTroubles \in Nat

VARIABLES
  story,      \* the articles' rows
  step,       \* the step of the pipeline that is next
  anyLanguage,\* whether a fetch is at its fallback
  generalPool,
  candidates, \* candidates[list]: the candidates fetched under that name
  placed,     \* the feed: which step placed which article
  seen, seenTitles,
  taken,      \* articles the step under way has placed
  short,      \* steps that placed fewer than they may
  troubles

sectionVars == <<story, step, anyLanguage, generalPool, candidates, placed,
                 seen, seenTitles, taken, short, troubles>>

(***************************************************************************)
(* The pipeline                                                            *)
(***************************************************************************)
Fetch(list, beat) == [do |-> "fetch", list |-> list, beat |-> beat, room |-> 0]
FetchMore(list, beat) == [do |-> "fetchIfEmpty", list |-> list, beat |-> beat, room |-> 0]
Take(list, n) == [do |-> "take", list |-> list, beat |-> "any",
                  room |-> IF n > SectionRoom THEN SectionRoom ELSE n]

Desks == <<"politics", "sports", "entertainment", "crime", "business", "technology",
           "jharkhand", "bihar">>
FetchDesks == [i \in DOMAIN Desks |-> Fetch(Desks[i], Desks[i])]
CandidateSteps ==
  <<Fetch("breaking", "breaking"), Fetch("featured", "featured"), Fetch("trending", "any")>>
  \o FetchDesks \o <<Fetch("videos", "videos"), FetchMore("videos", "video")>>

FeaturedSteps ==
  <<Take("breaking", 5), Take("featured", 1), Take("featured", 3), Take("featured", 1),
    Take("trending", 4)>>

\* buildFourColumnItems: every column in any language, one article and four.
FourColumnSteps(slugs) ==
  [i \in 1 .. 3 * Len(slugs) |->
     CASE i % 3 = 1 -> [Fetch("column", slugs[(i + 2) \div 3]) EXCEPT !.do = "fetchAny"]
       [] i % 3 = 2 -> Take("column", 1)
       [] i % 3 = 0 -> Take("column", 4)]
Columns1 == <<"politics", "national", "international", "crime">>
Columns2 == <<"auto", "lifestyle", "dharma", "environment">>
ColumnsOf(setting, default) == IF setting = <<>> THEN default ELSE setting

\* The general pool fills each of them, so the video section's own top-up from
\* it finds nothing left.
StateDeskSteps ==
  <<Take("jharkhand", 1), Take("jharkhand", 4), Take("jharkhand", 2), Take("bihar", 5),
    Take("bihar", 4), Take("none", 1), Take("none", 2), Take("none", 3), Take("none", 3)>>
VideoSteps == <<Take("videos", 8)>>
CategorySteps ==
  <<Take("politics", 1), Take("politics", 4), Take("sports", 1), Take("sports", 4),
    Take("entertainment", 1), Take("entertainment", 2), Take("entertainment", 4),
    Take("crime", 1), Take("crime", 4), Take("business", 1), Take("business", 2),
    Take("business", 4), Take("trending", 5), Take("none", 3), Take("none", 4)>>
MoreSteps ==
  <<Fetch("auto", "auto"), Fetch("lifestyle", "lifestyle"), Fetch("health", "health"),
    Fetch("education", "education"), Fetch("recent", "any"), Take("recent", 12),
    Fetch("recommended", "any"), Take("recommended", 8), Fetch("similar", "desks"),
    Take("similar", 10), Take("auto", 6), Take("lifestyle", 6), Take("health", 6),
    Take("education", 6)>>
TechnologySteps == <<Take("technology", 1), Take("technology", 2), Take("technology", 3)>>

Pipeline ==
  CandidateSteps \o FeaturedSteps \o FourColumnSteps(ColumnsOf(ColumnSettings[1], Columns1))
  \o StateDeskSteps \o VideoSteps \o CategorySteps \o MoreSteps
  \o FourColumnSteps(ColumnsOf(ColumnSettings[2], Columns2)) \o TechnologySteps
Now == Pipeline[step]
Running == step >= 1 /\ step <= Len(Pipeline)

(***************************************************************************)
(* Queries                                                                 *)
(***************************************************************************)

\* ListArticles: what the conditions let through, the latest first.
OnBeat(s, beat) ==
  \/ beat = "any"
  \/ beat = "desks" /\ story[s].beat \in {"politics", "sports", "entertainment", "crime", "business"}
  \/ story[s].beat = beat
Matching(beat, any) ==
  {s \in Story : story[s].live /\ OnBeat(s, beat) /\ (any \/ story[s].hindi)}
Item(s) == [id |-> s, title |-> story[s].title]
Orders(ss) ==
  {q \in [1 .. Cardinality(ss) -> {Item(s) : s \in ss}] :
     \A i, j \in DOMAIN q : q[i].id = q[j].id => i = j}
Latest(ss) == CHOOSE q \in Orders(ss) : \A i, j \in DOMAIN q : i < j => q[i].id > q[j].id
\* By view_count, whose order is anybody's guess.
Listings(beat, any) ==
  IF Now.list \in {"trending", "recommended"} THEN Orders(Matching(beat, any))
  ELSE {Latest(Matching(beat, any))}

SectionsInit ==
  /\ story \in [Story -> StoryRow]
  /\ step = 0 /\ anyLanguage = FALSE
  /\ generalPool = <<>> /\ candidates = [l \in {} |-> <<>>]
  /\ placed = {} /\ seen = {} /\ seenTitles = {} /\ taken = 0 /\ short = {} /\ troubles = 0

\* The general pool; a query that fails is as one
\* that finds nothing.
StartFeed ==
  /\ step = 0 /\ step' = 1
  /\ \/ generalPool' = Latest(Matching("any", TRUE)) /\ UNCHANGED troubles
     \/ generalPool' = <<>> /\ troubles < MaxTroubles /\ troubles' = troubles + 1
  /\ UNCHANGED <<story, anyLanguage, candidates, placed, seen, seenTitles, taken, short>>

Skipped == Now.do = "fetchIfEmpty" /\ ~anyLanguage /\ candidates[Now.list] # <<>>
Fetching == Now.do \in {"fetch", "fetchIfEmpty", "fetchAny"}

\* fetchCandidates: the language first; when that gives nothing, any language.
FetchCandidates ==
  /\ Running /\ Fetching /\ ~Skipped
  /\ LET any == anyLanguage \/ Now.do = "fetchAny"
     IN \E list \in Listings(Now.beat, any) \cup {<<>>} :
          /\ IF list # <<>> \/ Matching(Now.beat, any) = {} THEN UNCHANGED troubles
             ELSE troubles < MaxTroubles /\ troubles' = troubles + 1
          /\ IF list = <<>> /\ ~any
             THEN anyLanguage' = TRUE /\ UNCHANGED <<step, candidates>>
             ELSE /\ candidates' = [l \in DOMAIN candidates \cup {Now.list} |->
                                     IF l = Now.list THEN list ELSE candidates[l]]
                  /\ anyLanguage' = FALSE /\ step' = step + 1
  /\ UNCHANGED <<story, generalPool, placed, seen, seenTitles, taken, short>>

SkipFetch ==
  /\ Running /\ Skipped
  /\ step' = step + 1
  /\ UNCHANGED <<story, anyLanguage, generalPool, candidates, placed, seen, seenTitles,
                 taken, short, troubles>>

(***************************************************************************)
(* Taking                                                                  *)
(***************************************************************************)
Offered == (IF Now.list = "none" THEN <<>> ELSE candidates[Now.list]) \o generalPool

\* MUTANT of Fresh: titles are not compared.
FreshByID(it) == it.id \notin seen

\* The title's hash is its length in hexadecimal.
Fresh(it) == it.id \notin seen /\ TitleLength[it.title] \notin seenTitles
FreshOnes == {i \in DOMAIN Offered : Fresh(Offered[i])}

\* takeSingle, takeMultiple: the next article in line.  What was passed over
\* stays seen, so looking from the start again finds the same one.
TakeArticle ==
  /\ Running /\ Now.do = "take" /\ taken < Now.room /\ FreshOnes # {}
  /\ LET it == Offered[CHOOSE i \in FreshOnes : \A j \in FreshOnes : i <= j]
     IN /\ placed' = placed \cup {[at |-> step, id |-> it.id, title |-> it.title]}
        /\ seen' = seen \cup {it.id}
        /\ seenTitles' = seenTitles \cup {TitleLength[it.title]}
  /\ taken' = taken + 1
  /\ UNCHANGED <<story, step, anyLanguage, generalPool, candidates, short, troubles>>

EndSection ==
  /\ Running /\ Now.do = "take" /\ (taken = Now.room \/ FreshOnes = {})
  /\ short' = IF taken < Now.room THEN short \cup {step} ELSE short
  /\ taken' = 0 /\ step' = step + 1
  /\ UNCHANGED <<story, anyLanguage, generalPool, candidates, placed, seen, seenTitles,
                 troubles>>

\* An edit commits: an article is published, withdrawn, retitled or filed anew.
\* Only what is fetched later can show it.
EditStory ==
  /\ Running /\ Fetching
  /\ troubles < MaxTroubles /\ troubles' = troubles + 1
  /\ \E s \in Story, row \in StoryRow :
       /\ row # story[s]
       /\ story' = [story EXCEPT ![s] = row]
  /\ UNCHANGED <<step, anyLanguage, generalPool, candidates, placed, seen, seenTitles,
                 taken, short>>

SectionsNext ==
  \/ StartFeed \/ FetchCandidates \/ SkipFetch \/ TakeArticle \/ EndSection \/ EditStory
SectionsSpec == SectionsInit /\ [][SectionsNext]_sectionVars

(***************************************************************************)
(* Properties                                                              *)
(***************************************************************************)

\* No article and no title is in the feed twice, whatever commits while it is
\* put together; a section that is short is so only because everything in the
\* general pool is in the feed or has a title as long as one that is, so that a
\* failed query of its own does not show; and the count given is of those placed.
FeedWhole ==
  /\ \A p, q \in placed : p.id = q.id \/ p.title = q.title => p = q
  /\ short # {} => \A i \in DOMAIN generalPool : \E p \in placed :
       \/ p.id = generalPool[i].id
       \/ TitleLength[p.title] = TitleLength[generalPool[i].title]
  /\ seen = {p.id : p \in placed}
=============================================================================

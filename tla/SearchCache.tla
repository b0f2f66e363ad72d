---------------------------- MODULE SearchCache ----------------------------
(***************************************************************************)
(* One search of the readers (a term, a language and a page of             *)
(* internal/content/service.go, SearchArticles), whose page is kept in     *)
(* Redis, and the answer again at the network's edge (pkg/middleware/      *)
(* cache.go).  Nothing takes an article out of either: each only expires.  *)
(***************************************************************************)
EXTENDS Naturals

CONSTANTS Piece,         \* articles that match the search
          Seeker,        \* requests at work on it
          SearchTTL,     \* how long Redis keeps a page
          EdgeAge,       \* how long the edge gives out an answer, stale or not
          MaxSearchTime, \* bound: how long a request takes
          MaxSearchClock \* bound: how long the site is watched

ASSUME SearchAssumption ==
    SearchTTL \in Nat /\ EdgeAge \in Nat /\ MaxSearchTime \in Nat /\ MaxSearchClock \in Nat

VARIABLES searchClock, \* the time
          public,      \* articles that are published
          withdrawn,   \* withdrawn[p]: when p was last withdrawn
          page,        \* what Redis keeps, and until when
          edge,        \* what the edge keeps, and until when
          seeker       \* seeker[s]: what the request does, since when, and what it has read

searchVars == <<searchClock, public, withdrawn, page, edge, seeker>>

Unexpired(kept) == searchClock < kept.until
Nothing == [pieces |-> {}, until |-> 0]
AtRest == [at |-> "idle", began |-> 0, pieces |-> {}]

SearchInit ==
    /\ searchClock = 0
    /\ public \in SUBSET Piece
    /\ withdrawn = [p \in Piece |-> 0]
    /\ page = Nothing /\ edge = Nothing
    /\ seeker = [s \in Seeker |-> AtRest]

Becomes(s, at, began, pieces) ==
    seeker' = [seeker EXCEPT ![s] = [at |-> at, began |-> began, pieces |-> pieces]]
Rests(s) == seeker' = [seeker EXCEPT ![s] = AtRest]

\* The server is asked when an edge has no answer, and also while it gives out a
\* stale one.
Search(s) ==
    /\ seeker[s].at = "idle"
    /\ Becomes(s, "asked", searchClock, {})
    /\ UNCHANGED <<searchClock, public, withdrawn, page, edge>>

\* MUTANT of AnswerFromRedis: a page that is asked for is kept longer.
RenewedByUse(s) ==
    /\ Unexpired(page) /\ seeker[s].at = "asked"
    /\ Becomes(s, "answering", seeker[s].began, page.pieces)
    /\ page' = [page EXCEPT !.until = searchClock + SearchTTL]
    /\ UNCHANGED <<searchClock, public, withdrawn, edge>>

AnswerFromRedis(s) ==
    /\ Unexpired(page) /\ seeker[s].at = "asked"
    /\ Becomes(s, "answering", seeker[s].began, page.pieces)
    /\ UNCHANGED <<searchClock, public, withdrawn, page, edge>>

\* Redis has no page, or does not answer.
ReadArticles(s) ==
    /\ seeker[s].at = "asked"
    /\ Becomes(s, "read", seeker[s].began, public)
    /\ UNCHANGED <<searchClock, public, withdrawn, page, edge>>
ReadFails(s) ==
    /\ seeker[s].at = "asked" /\ Rests(s)
    /\ UNCHANGED <<searchClock, public, withdrawn, page, edge>>

\* An empty page is not kept; that Redis fails to keep one is not noticed.
StorePage(s) ==
    /\ seeker[s].at = "read" /\ Becomes(s, "answering", seeker[s].began, seeker[s].pieces)
    /\ \/ /\ seeker[s].pieces # {}
          /\ page' = [pieces |-> seeker[s].pieces, until |-> searchClock + SearchTTL]
       \/ UNCHANGED page
    /\ UNCHANGED <<searchClock, public, withdrawn, edge>>
Answered(s) ==
    /\ seeker[s].at = "answering" /\ Rests(s)
    /\ edge' = [pieces |-> seeker[s].pieces, until |-> searchClock + EdgeAge]
    /\ UNCHANGED <<searchClock, public, withdrawn, page>>

Publish(p) ==
    /\ p \notin public
    /\ public' = public \cup {p}
    /\ UNCHANGED <<searchClock, withdrawn, page, edge, seeker>>
\* Archived, sent back to draft or deleted: the two caches are not told.
Withdraw(p) ==
    /\ p \in public
    /\ public' = public \ {p}
    /\ withdrawn' = [withdrawn EXCEPT ![p] = searchClock]
    /\ UNCHANGED <<searchClock, page, edge, seeker>>

TimePasses ==
    /\ searchClock < MaxSearchClock
    /\ \A s \in Seeker : seeker[s].at # "idle" => searchClock - seeker[s].began < MaxSearchTime
    /\ searchClock' = searchClock + 1
    /\ UNCHANGED <<public, withdrawn, page, edge, seeker>>

SearchNext ==
    \/ TimePasses
    \/ \E s \in Seeker : \/ Search(s) \/ AnswerFromRedis(s) \/ ReadArticles(s) \/ ReadFails(s)
                         \/ StorePage(s) \/ Answered(s)
    \/ \E p \in Piece : Publish(p) \/ Withdraw(p)
SearchSpec == SearchInit /\ [][SearchNext]_searchVars

(***************************************************************************)
(* Properties                                                              *)
(***************************************************************************)
KeepsUp(kept, age) ==
    \A p \in kept.pieces : Unexpired(kept) => p \in public \/ searchClock - withdrawn[p] < age

\* Although nothing takes a withdrawn article out of the caches, and a page read
\* before the article was withdrawn may be stored after, readers stop finding it
\* once both caches have expired: the page that a slow search stored is the last
\* that another slow search answers with.
SearchKeepsUp ==
    /\ KeepsUp(page, MaxSearchTime + SearchTTL)
    /\ KeepsUp(edge, 2 * MaxSearchTime + SearchTTL + EdgeAge)
=============================================================================

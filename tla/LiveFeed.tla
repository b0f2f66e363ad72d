---------------------------- MODULE LiveFeed ----------------------------
(***************************************************************************)
(* What a live blog promises its readers, whatever carries it: an entry is *)
(* written, and then kept or dropped; a reader who is live knows of every  *)
(* entry that is kept, in what it shows or in what is on its way to it.    *)
(***************************************************************************)
CONSTANTS Entry, Client

VARIABLES status, \* what has become of each entry
          known,  \* the entries each reader shows or is being sent
          live    \* the readers to whom the promise is made

feedVars == <<status, known, live>>

Written == {e \in Entry : status[e] # "none"}
Kept == {e \in Entry : status[e] = "kept"}

FeedInit ==
    /\ status = [e \in Entry |-> "none"]
    /\ known = [c \in Client |-> {}]
    /\ live = {}

WriteOne(e) ==
    /\ status[e] = "none"
    /\ status' = [status EXCEPT ![e] = "pending"]
    /\ UNCHANGED <<known, live>>

\* An entry is kept once everyone live knows of it.
Keep(e) ==
    /\ status[e] = "pending"
    /\ \A c \in live : e \in known[c]
    /\ status' = [status EXCEPT ![e] = "kept"]
    /\ UNCHANGED <<known, live>>

Drop(e) ==
    /\ status[e] \in {"none", "pending"}
    /\ status' = [status EXCEPT ![e] = "dropped"]
    /\ UNCHANGED <<known, live>>

\* A kept entry is taken back, and nobody told.
Retract(e) ==
    /\ status[e] = "kept"
    /\ status' = [status EXCEPT ![e] = "gone"]
    /\ UNCHANGED <<known, live>>

\* Readers learn of entries that were written; some give up or lose some, and
\* are no longer live.
Learn ==
    /\ known' \in [Client -> SUBSET Written]
    /\ live' \subseteq live
    /\ \A c \in live' : known[c] \subseteq known'[c]
    /\ UNCHANGED status

\* A reader is told of all that is kept, perhaps along with what no longer is.
CatchUp(c) ==
    /\ live' = live \cup {c}
    /\ \E told \in SUBSET Written : /\ Kept \subseteq known[c] \cup told
                                  /\ known' = [known EXCEPT ![c] = @ \cup told]
    /\ UNCHANGED status

FeedNext ==
    \/ \E e \in Entry : WriteOne(e) \/ Keep(e) \/ Drop(e) \/ Retract(e)
    \/ Learn
    \/ \E c \in Client : CatchUp(c)
FeedSpec == FeedInit /\ [][FeedNext]_feedVars
=============================================================================

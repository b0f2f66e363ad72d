-------------------------- MODULE ArticleLifecycle --------------------------
(***************************************************************************)
(* What the editorial workflow promises of the status of an article,       *)
(* whoever works at it and whatever fails: apart from the jobs and the     *)
(* sweep at a restart, its status only ever becomes what a request asked   *)
(* for, and the request asked while the table of transitions, or the       *)
(* refusals of the scheduling, allowed it.  By the time it is granted the  *)
(* status may be another one; that it is still stored is all that is sure. *)
(***************************************************************************)
CONSTANTS
  Article, Request,
  Table      \* Table[s]: the statuses a transition may take an article to from s

VARIABLES
  status,    \* status[a]: "absent", "deleted", or one the table knows
  wish       \* wish[r]: the article and the status that r has asked for

lifeVars == <<status, wish>>

NoWish == <<>>
\* A request may also have an article scheduled, unless it is archived.
Schedulable(a) == IF status[a] = "archived" THEN {} ELSE {"scheduled"}
Stands(a) == status[a] \in DOMAIN Table

LifeInit ==
  /\ status = [a \in Article |-> "absent"]
  /\ wish = [r \in Request |-> NoWish]

Born(a) ==
  /\ status[a] = "absent"
  /\ status' = [status EXCEPT ![a] = "draft"]
  /\ UNCHANGED wish

Remove(a) ==
  /\ Stands(a)
  /\ status' = [status EXCEPT ![a] = "deleted"]
  /\ UNCHANGED wish

Ask(r) ==
  /\ UNCHANGED status
  /\ wish[r] = NoWish
  /\ \E a \in Article :
       /\ Stands(a)
       /\ \E to \in Table[status[a]] \cup Schedulable(a) :
            wish' = [wish EXCEPT ![r] = <<a, to>>]

Grant(r) ==
  /\ wish[r] # NoWish
  /\ Stands(wish[r][1])
  /\ status' = [status EXCEPT ![wish[r][1]] = wish[r][2]]
  /\ wish' = [wish EXCEPT ![r] = NoWish]

GiveUp(r) ==
  /\ UNCHANGED status
  /\ wish' = [wish EXCEPT ![r] = NoWish]

\* A job's run puts out all it found due, or away all it found abandoned.
PutOut(some) ==
  /\ \A a \in some : status[a] \in {"draft", "approved", "scheduled"}
  /\ status' = [a \in Article |-> IF a \in some THEN "published" ELSE status[a]]
  /\ UNCHANGED wish

PutAway(some) ==
  /\ \A a \in some : status[a] = "draft"
  /\ status' = [a \in Article |-> IF a \in some THEN "archived" ELSE status[a]]
  /\ UNCHANGED wish

Restart ==
  /\ wish' = [r \in Request |-> NoWish]
  /\ \/ status' = [a \in Article |-> IF Stands(a) THEN "published" ELSE status[a]]
     \/ UNCHANGED status

LifeNext ==
  \/ \E r \in Request : GiveUp(r)
  \/ \E r \in Request : Ask(r) \/ Grant(r)
  \/ \E a \in Article : Born(a) \/ Remove(a)
  \/ \E some \in SUBSET Article : PutOut(some) \/ PutAway(some)
  \/ Restart

LifeSpec == LifeInit /\ [][LifeNext]_lifeVars
=============================================================================

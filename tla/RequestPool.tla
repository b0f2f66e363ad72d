------------------------------ MODULE RequestPool ------------------------------
(***************************************************************************)
(* How requests share the PostgreSQL connection pool.                      *)
(*                                                                         *)
(* pkg/middleware/transaction.go takes a connection when a request comes   *)
(* in and keeps it until the handler has returned.  A staff request takes  *)
(* two: Fiber mounts the middleware of the public routes' group, whose     *)
(* prefix is "", on all of /api/v1, so it goes through                     *)
(* PublicTransactionContext before its own TransactionContext.  Inside     *)
(* that window much of the code takes one more from the same pool:         *)
(* RequireAuth, StaffRBAC with its list of menus and its permission check, *)
(* and the home feed, which one request builds on behalf of all that came  *)
(* for it (singleflight).  A request that finds no free connection waits;  *)
(* nothing sets a deadline (transactions begin with context.Background(),  *)
(* the rest with fasthttp's request context, which only ends when the      *)
(* server does).                                                           *)
(***************************************************************************)
EXTENDS FiniteSets, Naturals

CONSTANTS
  Request,     \* requests (and background tasks) under way at one time
  Nobody,      \* no request: nobody leads a flight
  MaxConns,    \* connections in the pool (25 in pkg/database/postgres.go)
  MaxNested,   \* bound: pool uses of one request while its transaction is open
  MaxLeaked    \* bound: connections lost to handlers that panic

ASSUME PoolAssumption ==
  /\ IsFiniteSet(Request) /\ Nobody \notin Request
  /\ MaxConns \in Nat \ {0}
  /\ MaxNested \in Nat \ {0}
  /\ MaxLeaked \in Nat

VARIABLES
  phase,    \* phase[r]: where request r is
  kind,     \* kind[r]: what it is
  left,     \* left[r]: pool uses it still has to make inside its transaction
  flight,   \* the request that builds the home feed for all others, or Nobody
  staffTx,  \* the requests whose TransactionContext has begun
  leaked    \* connections whose transaction nobody will end

vars == <<phase, kind, left, flight, staffTx, leaked>>

(* task: the goroutine that counts a view, a background job, or a request    *)
(* under /auth: one connection at a time; home: the home feed when no cache  *)
(* has it; reader: any other public page.                                    *)
Kind == {"task", "reader", "home", "staff", "superadmin"}

(* one, oneQ: a task waits for a connection, and has it; begin: waits for    *)
(* the connection of its (public) transaction, which is open from then on;   *)
(* auth, authQ: RequireAuth waits for one to ask whether the account is      *)
(* active, and asks; begin2: waits for that of TransactionContext; open: in  *)
(* the handler; want, have: and waits for one more, and has it; joined: and  *)
(* waits for the leader of the flight.                                       *)
Phase == {"idle", "one", "oneQ", "begin", "auth", "authQ", "begin2",
          "open", "want", "have", "joined"}

InPhase(ps)  == {r \in Request : phase[r] \in ps}
InTx         == InPhase({"auth", "authQ", "begin2", "open", "want", "have", "joined"})
HoldsAnother == InPhase({"oneQ", "authQ", "have"})

Used      == Cardinality(InTx) + Cardinality(staffTx) + Cardinality(HoldsAnother) + leaked
FreeConns == IF Used >= MaxConns THEN 0 ELSE MaxConns - Used

TypeOK ==
  /\ phase \in [Request -> Phase]
  /\ kind \in [Request -> Kind]
  /\ left \in [Request -> 0 .. MaxNested]
  /\ flight \in Request \cup {Nobody}
  /\ staffTx \subseteq InTx
  /\ leaked \in 0 .. MaxLeaked

Init ==
  /\ phase = [r \in Request |-> "idle"]
  /\ kind = [r \in Request |-> "task"]
  /\ left = [r \in Request |-> 0]
  /\ flight = Nobody
  /\ staffTx = {}
  /\ leaked = 0

Goto(r, p) == phase' = [phase EXCEPT ![r] = p]

Arrive(r, k) ==
  /\ phase[r] = "idle"
  /\ Goto(r, IF k = "task" THEN "one" ELSE "begin")
  /\ kind' = [kind EXCEPT ![r] = k]
  /\ left' = [left EXCEPT ![r] = 0]
  /\ UNCHANGED <<flight, staffTx, leaked>>

AcquireOne(r) ==
  /\ phase[r] = "one" /\ FreeConns > 0
  /\ Goto(r, "oneQ")
  /\ UNCHANGED <<kind, left, flight, staffTx, leaked>>

OneDone(r) ==
  /\ phase[r] = "oneQ"
  /\ Goto(r, "idle")
  /\ UNCHANGED <<kind, left, flight, staffTx, leaked>>

(* How often the rest of the request uses the pool.                          *)
Uses(r, n) == left' = [left EXCEPT ![r] = n]

(* PublicTransactionContext begins.  The handlers of some public pages use   *)
(* the pool as well.                                                         *)
BeginPublic(r) ==
  /\ phase[r] = "begin" /\ FreeConns > 0
  /\ Goto(r, IF kind[r] \in {"staff", "superadmin"} THEN "auth" ELSE "open")
  /\ \E n \in 0 .. MaxNested : (n > 0 => kind[r] = "reader") /\ Uses(r, n)
  /\ UNCHANGED <<kind, flight, staffTx, leaked>>

AcquireAuth(r) ==
  /\ phase[r] = "auth" /\ FreeConns > 0
  /\ Goto(r, "authQ")
  /\ UNCHANGED <<kind, left, flight, staffTx, leaked>>

(* RequireAuth and RequireStaff let the request pass, or answer it.          *)
AuthDone(r) ==
  /\ phase[r] = "authQ"
  /\ Goto(r, "begin2") \/ Goto(r, "open")
  /\ UNCHANGED <<kind, left, flight, staffTx, leaked>>

(* TransactionContext begins.  StaffRBAC lists the menus, unless the 15 s    *)
(* cache has them, and checks the permission of all but superadmins; the     *)
(* handler may use the pool again.                                           *)
BeginStaff(r) ==
  /\ phase[r] = "begin2" /\ FreeConns > 0
  /\ Goto(r, "open")
  /\ staffTx' = staffTx \cup {r}
  /\ \E n \in 0 .. MaxNested : (kind[r] = "staff" => n > 0) /\ Uses(r, n)
  /\ UNCHANGED <<kind, flight, leaked>>

(* The home feed is in no cache: the first one to get here leads the flight  *)
(* and builds the feed, the others wait for it.                              *)
LeadFlight(r) ==
  /\ phase[r] = "open" /\ kind[r] = "home" /\ left[r] = 0 /\ flight = Nobody
  /\ flight' = r
  /\ left' = [left EXCEPT ![r] = MaxNested]
  /\ Goto(r, "want")
  /\ UNCHANGED <<kind, staffTx, leaked>>

JoinFlight(r) ==
  /\ phase[r] = "open" /\ kind[r] = "home" /\ left[r] = 0
  /\ flight \notin {Nobody, r}
  /\ Goto(r, "joined")
  /\ UNCHANGED <<kind, left, flight, staffTx, leaked>>

WantAnother(r) ==
  /\ phase[r] = "open" /\ left[r] > 0
  /\ Goto(r, "want")
  /\ UNCHANGED <<kind, left, flight, staffTx, leaked>>

AcquireAnother(r) ==
  /\ phase[r] = "want" /\ FreeConns > 0
  /\ Goto(r, "have")
  /\ UNCHANGED <<kind, left, flight, staffTx, leaked>>

(* The statement is done and its connection back in the pool.  A refusal or  *)
(* an error ends a staff request there; the home feed takes no notice of     *)
(* errors.                                                                   *)
ReleaseAnother(r) ==
  /\ phase[r] = "have" /\ flight # r
  /\ Goto(r, "open")
  /\ \E n \in {0, left[r] - 1} : left' = [left EXCEPT ![r] = n]
  /\ UNCHANGED <<kind, flight, staffTx, leaked>>

(* Mutant: the requests that joined the flight are not told.                 *)
FlightDoneForLeader(r) ==
  /\ phase[r] = "have" /\ flight = r
  /\ left' = [left EXCEPT ![r] = @ - 1]
  /\ IF left[r] > 1
     THEN Goto(r, "want") /\ UNCHANGED <<flight, kind>>
     ELSE /\ flight' = Nobody
          /\ kind' = [kind EXCEPT ![r] = "reader"]
          /\ Goto(r, "open")
  /\ UNCHANGED <<staffTx, leaked>>

(* The leader's queries, one after the other; after the last one the feed is *)
(* everybody's, and for the rest of the request they are plain readers.      *)
FlightQueryDone(r) ==
  /\ phase[r] = "have" /\ flight = r
  /\ left' = [left EXCEPT ![r] = @ - 1]
  /\ IF left[r] > 1
     THEN Goto(r, "want") /\ UNCHANGED <<flight, kind>>
     ELSE /\ flight' = Nobody
          /\ phase' = [q \in Request |->
                         IF q = r \/ phase[q] = "joined" THEN "open" ELSE phase[q]]
          /\ kind' = [q \in Request |->
                        IF q = r \/ phase[q] = "joined" THEN "reader" ELSE kind[q]]
  /\ UNCHANGED <<staffTx, leaked>>

(* The handler is done with the pool; a home feed only with its feed.        *)
Answered(r) == phase[r] = "open" /\ left[r] = 0 /\ kind[r] # "home"

(* Mutant: TransactionContext forgets to roll back.                          *)
EndWithoutRollback(r) ==
  /\ Answered(r)
  /\ Goto(r, "idle")
  /\ staffTx' = staffTx \ {r}
  /\ leaked' \in {leaked, IF r \in staffTx THEN leaked + 1 ELSE leaked}
  /\ UNCHANGED <<kind, left, flight>>

(* Its transactions commit or roll back.                                     *)
End(r) ==
  /\ Answered(r)
  /\ Goto(r, "idle")
  /\ staffTx' = staffTx \ {r}
  /\ UNCHANGED <<kind, left, flight, leaked>>

(* The handler panics: recover.New() answers 500, but the rollbacks are not  *)
(* deferred, so the connections never go back.                               *)
Panic(r) ==
  /\ Answered(r)
  /\ leaked' = leaked + (IF r \in staffTx THEN 2 ELSE 1)
  /\ leaked' <= MaxLeaked
  /\ staffTx' = staffTx \ {r}
  /\ Goto(r, "idle")
  /\ UNCHANGED <<kind, left, flight>>

Go(r) ==
  \/ OneDone(r) \/ AuthDone(r) \/ LeadFlight(r) \/ JoinFlight(r) \/ WantAnother(r)
  \/ ReleaseAnother(r) \/ FlightQueryDone(r) \/ End(r)

Acquire(r) ==
  \/ AcquireOne(r) \/ BeginPublic(r) \/ AcquireAuth(r)
  \/ BeginStaff(r) \/ AcquireAnother(r)

Next == \E r \in Request :
  \/ \E k \in Kind : Arrive(r, k)
  \/ Go(r) \/ Acquire(r) \/ Panic(r)

Spec == Init /\ [][Next]_vars

(* Goroutines run; pgxpool serves those who wait for a connection in order,  *)
(* so whoever finds one free again and again gets it.                        *)
FairSpec ==
  /\ Spec
  /\ \A r \in Request : WF_vars(Go(r)) /\ SF_vars(Acquire(r))

-----------------------------------------------------------------------------
(* Properties *)

(* Nobody is forgotten in a flight: whoever waits for the home feed waits    *)
(* for a request that is building it and has a query left to make; and only  *)
(* who has one left takes a second connection.                               *)
WaitersHaveLeader ==
  /\ flight # Nobody => phase[flight] \in {"want", "have"}
  /\ \A r \in Request :
       /\ phase[r] = "joined" => flight # Nobody
       /\ phase[r] \in {"want", "have"} => left[r] > 0

(* What keeps the pool alive while it has more connections than the          *)
(* transactions of all requests can take (lost ones counted): a connection   *)
(* is free, or a request holds one for a single statement and will give it   *)
(* back without waiting.                                                     *)
NeverStuck ==
  2 * Cardinality(Request) + MaxLeaked < MaxConns
    => FreeConns > 0 \/ HoldsAnother # {}

(* "automatically commits on 2xx/3xx or rolls back on errors"                *)
(* (transaction.go:13): every request that comes in, and with it its         *)
(* transaction, comes to an end.                                             *)
EveryRequestEnds ==
  \A r \in Request : (phase[r] # "idle") ~> (phase[r] = "idle")

=============================================================================

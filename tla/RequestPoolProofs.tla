--------------------------- MODULE RequestPoolProofs ---------------------------
(* Theorems about RequestPool, for every pool and every set of requests.    *)
EXTENDS RequestPool, FiniteSetTheorems, TLAPS

(* The invariant: the types, and that flights are led.  A request that has a *)
(* second connection has a use of it left to count down, so neither part     *)
(* holds without the other.                                                  *)
PoolInv == TypeOK /\ WaitersHaveLeader

(* The inductive invariant holds of the unused pool.                         *)
LEMMA PoolInit == Init => PoolInv
BY PoolAssumption DEF Init, PoolInv, TypeOK, WaitersHaveLeader, Phase, Kind, InTx, InPhase

(* A request comes in, waits for a connection, or gets one.                  *)
LEMMA ArriveOrAcquire ==
  ASSUME PoolInv, NEW r \in Request,
         (\E k \in Kind : Arrive(r, k)) \/ Acquire(r)
  PROVE  PoolInv'
<1> USE PoolAssumption DEF PoolInv, TypeOK, WaitersHaveLeader, InTx, InPhase, Goto, Phase, Uses
<1>1. ASSUME NEW k \in Kind, Arrive(r, k) PROVE PoolInv'
  BY <1>1 DEF Arrive
<1>2. CASE AcquireOne(r)
  BY <1>2 DEF AcquireOne
<1>3. CASE BeginPublic(r)
  BY <1>3 DEF BeginPublic
<1>4. CASE AcquireAuth(r)
  BY <1>4 DEF AcquireAuth
<1>5. CASE BeginStaff(r)
  BY <1>5 DEF BeginStaff
<1>6. CASE AcquireAnother(r)
  BY <1>6 DEF AcquireAnother
<1> QED
  BY <1>1, <1>2, <1>3, <1>4, <1>5, <1>6 DEF Acquire

(* A second connection goes back: the use is counted down, and the last one  *)
(* of a flight wakes everybody who joined it.                                *)
LEMMA Release ==
  ASSUME PoolInv, NEW r \in Request, ReleaseAnother(r) \/ FlightQueryDone(r)
  PROVE  PoolInv'
<1> USE PoolAssumption DEF PoolInv, TypeOK, WaitersHaveLeader, InTx, InPhase, Goto, Phase
<1>0. left[r] \in 1 .. MaxNested /\ left[r] - 1 \in 0 .. MaxNested
  BY DEF ReleaseAnother, FlightQueryDone
<1>1. CASE ReleaseAnother(r)
  BY <1>0, <1>1 DEF ReleaseAnother
<1>2. CASE FlightQueryDone(r) /\ left[r] > 1
  BY <1>0, <1>2 DEF FlightQueryDone
<1>3. CASE FlightQueryDone(r) /\ ~(left[r] > 1)
  <2>1. TypeOK'
    BY <1>0, <1>3 DEF FlightQueryDone, Kind
  <2>2. WaitersHaveLeader'
    BY <1>0, <1>3 DEF FlightQueryDone
  <2> QED
    BY <2>1, <2>2
<1> QED
  BY <1>1, <1>2, <1>3

(* The other steps of a request that waits for nothing.                      *)
LEMMA GoOn ==
  ASSUME PoolInv, NEW r \in Request, Go(r) \/ Panic(r)
  PROVE  PoolInv'
<1> USE PoolAssumption DEF PoolInv, TypeOK, WaitersHaveLeader, InTx, InPhase, Goto, Phase
<1>1. CASE OneDone(r)
  BY <1>1 DEF OneDone
<1>2. CASE LeadFlight(r)
  BY <1>2 DEF LeadFlight
<1>3. CASE JoinFlight(r)
  BY <1>3 DEF JoinFlight
<1>4. CASE WantAnother(r)
  BY <1>4 DEF WantAnother
<1>5. CASE End(r)
  BY <1>5 DEF End, Answered
<1>6. CASE Panic(r)
  BY <1>6 DEF Panic, Answered
<1>7. CASE AuthDone(r)
  BY <1>7 DEF AuthDone
<1> QED
  BY <1>1, <1>2, <1>3, <1>4, <1>5, <1>6, <1>7, Release DEF Go

(* Every step keeps it.                                                      *)
LEMMA PoolStep == PoolInv /\ [Next]_vars => PoolInv'
<1> SUFFICES ASSUME PoolInv, [Next]_vars PROVE PoolInv'
  OBVIOUS
<1>1. CASE UNCHANGED vars
  BY <1>1 DEF vars, PoolInv, TypeOK, WaitersHaveLeader, InTx, InPhase
<1> QED
  BY <1>1, ArriveOrAcquire, GoOn DEF Next

(* Every variable keeps its type: no more connections are used than exist,   *)
(* and no request counts down below no use.                                  *)
THEOREM PoolTypes == Spec => []TypeOK
<1>1. PoolInv => TypeOK
  BY DEF PoolInv
<1> QED
  BY <1>1, PoolInit, PoolStep, PTL DEF Spec

(* Types, and the flights of the home feed: whoever waits in one waits for a *)
(* request that is building the feed.                                        *)
THEOREM FlightsAreLed == Spec => [](TypeOK /\ WaitersHaveLeader)
<1>1. PoolInv => TypeOK /\ WaitersHaveLeader
  BY DEF PoolInv
<1> QED
  BY <1>1, PoolInit, PoolStep, PTL DEF Spec

(* With more connections than two for each request, lost ones counted, the   *)
(* pool never stands still: if nobody holds one for a single statement,      *)
(* every request holds those of its transactions, and one is left over.      *)
THEOREM PoolNeverStuck == Spec => []NeverStuck
<1>1. TypeOK => NeverStuck
  <2> SUFFICES ASSUME TypeOK, 2 * Cardinality(Request) + MaxLeaked < MaxConns,
                      HoldsAnother = {}
               PROVE  FreeConns > 0
    BY DEF NeverStuck
  <2>1. Cardinality(HoldsAnother) = 0
    BY FS_EmptySet
  <2>2. Cardinality(InTx) <= Cardinality(Request) /\ IsFiniteSet(InTx)
    BY PoolAssumption, FS_Subset DEF InTx, InPhase
  <2>3. Cardinality(staffTx) <= Cardinality(InTx) /\ IsFiniteSet(staffTx)
    BY <2>2, FS_Subset DEF TypeOK
  <2>4. /\ Cardinality(InTx) \in Nat /\ Cardinality(Request) \in Nat
        /\ Cardinality(staffTx) \in Nat
    BY <2>2, <2>3, PoolAssumption, FS_CardinalityType
  <2>5. Used < MaxConns /\ Used \in Nat
    BY <2>1, <2>2, <2>3, <2>4, PoolAssumption DEF Used, TypeOK
  <2> QED
    BY <2>5, PoolAssumption DEF FreeConns
<1> QED
  BY <1>1, FlightsAreLed, PTL

=============================================================================

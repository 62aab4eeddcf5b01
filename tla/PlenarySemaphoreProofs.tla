----------------------- MODULE PlenarySemaphoreProofs -----------------------
(***************************************************************************)
(* Safety of plenary's semaphore for every set of clients, every number of *)
(* permits and every bound on the rounds.  The inductive invariant is the  *)
(* conjunction of the four invariants: conservation needs to know that the *)
(* client taken from the stack holds no permit yet (WaitersDistinct), and  *)
(* that no wakeup is lost needs conservation's range of permits (TypeOK).  *)
(***************************************************************************)
EXTENDS PlenarySemaphore, FiniteSetTheorems, TLAPS

IInv == TypeOK /\ WaitersDistinct /\ PermitsConserved /\ NoIdlePermit

\* Semaphore.new establishes the inductive invariant.
LEMMA InitInv == Init => IInv
<1>1. Cardinality({}) = 0
  BY FS_EmptySet
<1>2. QED
  BY <1>1, PermitsAssumption, RoundsAssumption
  DEF Init, IInv, TypeOK, WaitersDistinct, Waiting, PermitsConserved,
      NoIdlePermit

\* The number of holders is a natural number, and bounds the permits left.
LEMMA HoldersFinite ==
  ASSUME TypeOK
  PROVE  IsFiniteSet(holders) /\ Cardinality(holders) \in Nat
BY ClientsAssumption, FS_Subset, FS_CardinalityType DEF TypeOK

\* acquire with a permit left preserves it.
LEMMA AcquireNowInv ==
  ASSUME IInv, NEW c \in Clients, AcquireNow(c)
  PROVE  IInv'
<1> USE DEF IInv
<1>1. IsFiniteSet(holders) /\ Cardinality(holders) \in Nat
  BY HoldersFinite
<1>2. /\ permits > 0 /\ permits' = permits - 1
      /\ holders' = holders \cup {c} /\ handles' = handles
      /\ c \notin holders /\ c \notin Waiting
      /\ rounds[c] < MaxRounds /\ rounds' = [rounds EXCEPT ![c] = @ + 1]
  BY DEF AcquireNow, MayAcquire
<1>3. TypeOK'
  BY <1>2, PermitsAssumption, RoundsAssumption DEF TypeOK
<1>4. WaitersDistinct'
  BY <1>2 DEF WaitersDistinct, Waiting
<1>5. PermitsConserved'
  <2>1. Cardinality(holders \cup {c}) = Cardinality(holders) + 1
    BY <1>1, <1>2, FS_AddElement
  <2>2. QED
    BY <2>1, <1>1, <1>2, PermitsAssumption DEF PermitsConserved, TypeOK
<1>6. NoIdlePermit'
  BY <1>2, PermitsAssumption DEF NoIdlePermit, TypeOK
<1>7. QED
  BY <1>3, <1>4, <1>5, <1>6

\* acquire with no permit left preserves it.
LEMMA AcquireLaterInv ==
  ASSUME IInv, NEW c \in Clients, AcquireLater(c)
  PROVE  IInv'
<1> USE DEF IInv
<1>1. /\ permits <= 0 /\ handles' = Append(handles, c)
      /\ permits' = permits /\ holders' = holders
      /\ c \notin holders /\ c \notin Waiting
      /\ rounds[c] < MaxRounds /\ rounds' = [rounds EXCEPT ![c] = @ + 1]
  BY DEF AcquireLater, MayAcquire
<1>2. TypeOK'
  BY <1>1, PermitsAssumption, RoundsAssumption DEF TypeOK
<1>3. WaitersDistinct'
  BY <1>1 DEF TypeOK, WaitersDistinct, Waiting
<1>4. PermitsConserved'
  BY <1>1 DEF PermitsConserved
<1>5. NoIdlePermit'
  BY <1>1, PermitsAssumption DEF NoIdlePermit, TypeOK
<1>6. QED
  BY <1>2, <1>3, <1>4, <1>5

\* forget preserves it, whether it hands the permit on or gives it back.
LEMMA ForgetInv ==
  ASSUME IInv, NEW c \in Clients, Forget(c)
  PROVE  IInv'
<1> USE DEF IInv
<1>1. IsFiniteSet(holders) /\ Cardinality(holders) \in Nat
  BY HoldersFinite
<1>2. /\ IsFiniteSet(holders \ {c})
      /\ Cardinality(holders \ {c}) = Cardinality(holders) - 1
      /\ Cardinality(holders \ {c}) \in Nat
  BY <1>1, FS_RemoveElement, FS_CardinalityType DEF Forget
<1>3. permits \in 0 .. InitialPermits /\ rounds' = rounds
  BY DEF Forget, TypeOK
<1>4. CASE handles # <<>>
  <2> DEFINE d == handles[Len(handles)]
             h == SubSeq(handles, 1, Len(handles) - 1)
  <2>1. Len(handles) \in DOMAIN handles /\ d \in Clients
    BY <1>4 DEF TypeOK
  <2>2. /\ h \in Seq(Clients) /\ DOMAIN h = 1 .. Len(handles) - 1
        /\ \A i \in DOMAIN h : /\ h[i] = handles[i] /\ i \in DOMAIN handles
                               /\ i # Len(handles)
    BY <1>4 DEF TypeOK
  <2>3. handles' = h /\ holders' = (holders \ {c}) \cup {d} /\ permits' = permits
    BY <1>3, <1>4, PermitsAssumption DEF Forget
  <2> HIDE DEF h
  <2>4. d \notin holders /\ \A i \in DOMAIN h : h[i] # d
    BY <2>1, <2>2 DEF WaitersDistinct, Waiting
  <2> HIDE DEF d
  <2>5. TypeOK'
    BY <2>1, <2>2, <2>3, <1>3 DEF TypeOK
  <2>6. WaitersDistinct'
    BY <2>2, <2>3, <2>4 DEF WaitersDistinct, Waiting
  <2>7. PermitsConserved'
    <3>1. Cardinality((holders \ {c}) \cup {d}) = Cardinality(holders \ {c}) + 1
      BY <2>4, <1>2, FS_AddElement
    <3>2. QED
      BY <3>1, <2>3, <1>1, <1>2, PermitsAssumption DEF PermitsConserved, TypeOK
  <2>8. NoIdlePermit'
    BY <1>4, <2>3 DEF NoIdlePermit
  <2>9. QED
    BY <2>5, <2>6, <2>7, <2>8
<1>5. CASE handles = <<>>
  <2>1. handles' = handles /\ holders' = holders \ {c} /\ permits' = permits + 1
    BY <1>5 DEF Forget
  <2>2. Cardinality(holders') + permits' = InitialPermits
    BY <2>1, <1>1, <1>2, <1>3, PermitsAssumption DEF PermitsConserved
  <2>3. TypeOK'
    BY <2>1, <2>2, <1>2, <1>3, PermitsAssumption DEF TypeOK
  <2>4. WaitersDistinct'
    BY <2>1 DEF WaitersDistinct, Waiting
  <2>5. NoIdlePermit'
    BY <1>5, <2>1 DEF NoIdlePermit
  <2>6. QED
    BY <2>2, <2>3, <2>4, <2>5 DEF PermitsConserved
<1>6. QED
  BY <1>4, <1>5

\* Whatever the clients do, permits are conserved, no permit lies idle while a
\* client waits, and no client is queued twice or queued with a permit.
THEOREM SemaphoreSafe ==
  Spec => [](TypeOK /\ WaitersDistinct /\ PermitsConserved /\ NoIdlePermit)
<1>1. IInv /\ [Next]_vars => IInv'
  <2> SUFFICES ASSUME IInv, [Next]_vars PROVE IInv'
    OBVIOUS
  <2>1. ASSUME NEW c \in Clients, AcquireNow(c) PROVE IInv'
    BY <2>1, AcquireNowInv
  <2>2. ASSUME NEW c \in Clients, AcquireLater(c) PROVE IInv'
    BY <2>2, AcquireLaterInv
  <2>3. ASSUME NEW c \in Clients, Forget(c) PROVE IInv'
    BY <2>3, ForgetInv
  <2>4. CASE UNCHANGED vars
    BY <2>4 DEF vars, IInv, TypeOK, WaitersDistinct, Waiting,
                PermitsConserved, NoIdlePermit
  <2>5. QED
    BY <2>1, <2>2, <2>3, <2>4 DEF Next
<1>2. QED
  BY InitInv, <1>1, PTL DEF Spec, IInv
=============================================================================

------------------------ MODULE AdmissionProofs ------------------------
(***************************************************************************)
(* First part: admission to the queue, for any number of producers and     *)
(* operators, any limit and any batch size.                                *)
(*                                                                         *)
(* Second part: verification of inbound requests, for any number of        *)
(* processes, handlers and requests, any creation times and clock offsets, *)
(* and any lifetimes that satisfy the assumption.                          *)
(***************************************************************************)
EXTENDS QueueAdmission, InboundVerification, FiniteSetTheorems, TLAPS

Batches == [Producer -> SUBSET Slot]

AdmissionInv ==
    /\ TypeOK
    /\ ReservationAccounted
    /\ ApiWithinLimit

-----------------------------------------------------------------------------
\* A batch is finite, and a full one of n tasks has n of them.
LEMMA SlotFinite ==
    /\ IsFiniteSet(Slot)
    /\ \A S \in SUBSET Slot : IsFiniteSet(S) /\ Cardinality(S) \in Nat
    /\ \A n \in Slot : 1 .. n \in SUBSET Slot /\ Cardinality(1 .. n) = n
<1>1. IsFiniteSet(Slot)
  BY FS_Interval, AdmissionAssumption DEF Slot
<1>2. \A S \in SUBSET Slot : IsFiniteSet(S) /\ Cardinality(S) \in Nat
  BY <1>1, FS_Subset, FS_CardinalityType, Zenon
<1>3. ASSUME NEW n \in Slot PROVE 1 .. n \in SUBSET Slot /\ Cardinality(1 .. n) = n
  BY FS_Interval, AdmissionAssumption DEF Slot
<1> QED
  BY <1>1, <1>2, <1>3, Zenon

\* The tasks of all batches are finitely many.
LEMMA CellsFinite ==
    ASSUME NEW f \in Batches
    PROVE  IsFiniteSet(Cells(f)) /\ Cardinality(Cells(f)) \in Nat
<1>1. IsFiniteSet(Producer \X Slot)
  BY FS_Product, SlotFinite, AdmissionAssumption, Zenon
<1>2. Cells(f) \in SUBSET (Producer \X Slot)
  BY Zenon DEF Cells
<1> QED
  BY <1>1, <1>2, FS_Subset, FS_CardinalityType, Zenon

\* The tasks of one producer are as many as its batch.
LEMMA ColumnCard ==
    ASSUME NEW p \in Producer, NEW S \in SUBSET Slot
    PROVE  IsFiniteSet({p} \X S) /\ Cardinality({p} \X S) = Cardinality(S)
<1>1. IsFiniteSet({p}) /\ Cardinality({p}) = 1
  BY FS_Singleton, Zenon
<1>2. IsFiniteSet(S) /\ Cardinality(S) \in Nat
  BY SlotFinite, Zenon
<1>3. IsFiniteSet({p} \X S) /\ Cardinality({p} \X S) = 1 * Cardinality(S)
  BY <1>1, <1>2, FS_Product, SMTT(30)
<1> QED
  BY <1>2, <1>3

\* Disjoint finite sets add up.
LEMMA DisjointUnion ==
    ASSUME NEW A, NEW B, IsFiniteSet(A), IsFiniteSet(B), A \cap B = {}
    PROVE  Cardinality(A \cup B) = Cardinality(A) + Cardinality(B)
<1>1. Cardinality(A \cup B) = Cardinality(A) + Cardinality(B) - Cardinality(A \cap B)
  BY FS_Union, Zenon
<1>2. Cardinality(A \cap B) = 0
  BY FS_EmptySet, Zenon
<1>3. Cardinality(A) \in Nat /\ Cardinality(B) \in Nat
  BY FS_CardinalityType, Zenon
<1> QED
  BY <1>1, <1>2, <1>3

\* Giving one producer another batch changes the number of tasks by the
\* difference of the two batches.
LEMMA CellsExcept ==
    ASSUME NEW f \in Batches, NEW p \in Producer, NEW S \in SUBSET Slot
    PROVE  Cardinality(Cells([f EXCEPT ![p] = S])) + Cardinality(f[p]) = Cardinality(Cells(f)) + Cardinality(S)
<1> DEFINE g == [f EXCEPT ![p] = S]
           Rest == {h \in Cells(f) : h[1] # p}
<1>1. g \in Batches
  BY Zenon DEF Batches
<1>2. IsFiniteSet(Rest) /\ Cardinality(Rest) \in Nat
  BY CellsFinite, FS_Subset, FS_CardinalityType, Zenon
<1>3. Cells(f) = Rest \cup ({p} \X f[p]) /\ Rest \cap ({p} \X f[p]) = {}
  BY Zenon DEF Cells, Batches
<1>4. Cells(g) = Rest \cup ({p} \X S) /\ Rest \cap ({p} \X S) = {}
  BY Zenon DEF Cells, Batches
<1>5. f[p] \in SUBSET Slot
  BY Zenon DEF Batches
<1>6. Cardinality(Cells(f)) = Cardinality(Rest) + Cardinality(f[p])
  <2>1. IsFiniteSet({p} \X f[p]) /\ Cardinality({p} \X f[p]) = Cardinality(f[p])
    BY <1>5, ColumnCard, Zenon
  <2> HIDE DEF Rest
  <2>2. Cardinality(Rest \cup ({p} \X f[p])) = Cardinality(Rest) + Cardinality({p} \X f[p])
    BY <1>2, <1>3, <2>1, DisjointUnion, Zenon
  <2> QED
    BY <1>3, <2>1, <2>2, Zenon
<1>7. Cardinality(Cells(g)) = Cardinality(Rest) + Cardinality(S)
  <2>1. IsFiniteSet({p} \X S) /\ Cardinality({p} \X S) = Cardinality(S)
    BY ColumnCard, Zenon
  <2> HIDE DEF Rest, g
  <2>2. Cardinality(Rest \cup ({p} \X S)) = Cardinality(Rest) + Cardinality({p} \X S)
    BY <1>2, <1>4, <2>1, DisjointUnion, Zenon
  <2> QED
    BY <1>4, <2>1, <2>2, Zenon
<1> QED
  BY <1>2, <1>5, <1>6, <1>7, SlotFinite

\* What is still to be published is part of what is held.
LEMMA UnsentHeld == TypeOK => Cardinality(Unsent) <= Cardinality(Held)
<1> SUFFICES ASSUME TypeOK PROVE Cardinality(Unsent) <= Cardinality(Held)
  OBVIOUS
<1>1. IsFiniteSet(Held)
  BY CellsFinite, Zenon DEF TypeOK, Held, Batches
<1>2. Unsent \in SUBSET Held
  BY Zenon DEF TypeOK, Unsent, Held, Cells
<1> QED
  BY <1>1, <1>2, FS_Subset, Zenon

-----------------------------------------------------------------------------
\* Types hold initially.
LEMMA AdmissionInitType == Init => TypeOK
<1> SUFFICES ASSUME Init PROVE TypeOK
  OBVIOUS
<1>1. /\ batch \in [Producer -> SUBSET Slot] /\ left \in [Producer -> SUBSET Slot]
      /\ \A p \in Producer : left[p] \subseteq batch[p]
  BY Zenon DEF Init
<1>2. /\ reserved \in Nat /\ apiReady \in Nat /\ cliReady \in Nat /\ requeued \in Nat
      /\ out \in 0 .. MaxOut /\ leaked \in Nat /\ leaks \in 0 .. MaxLeaks
  BY AdmissionAssumption DEF Init
<1>3. lapsed \in BOOLEAN /\ checked \subseteq Operator
  BY Zenon DEF Init
<1> QED
  BY <1>1, <1>2, <1>3, Zenon DEF TypeOK

\* Every step keeps the types.
LEMMA AdmissionType == TypeOK /\ [Next]_vars => TypeOK'
<1> SUFFICES ASSUME TypeOK, [Next]_vars PROVE TypeOK'
  OBVIOUS
<1> USE AdmissionAssumption DEF TypeOK, queue
<1>1. ASSUME NEW p \in Producer, NEW n \in Slot, ReserveQueueCapacity(p, n) PROVE TypeOK'
  <2>1. 1 .. n \in SUBSET Slot
    BY SlotFinite, Zenon
  <2>2. n \in Nat
    BY DEF Slot
  <2> QED
    BY <1>1, <2>1, <2>2 DEF ReserveQueueCapacity
<1>2. ASSUME NEW p \in Producer, Publish(p) PROVE TypeOK'
  BY <1>2 DEF Publish
<1>3. ASSUME NEW p \in Producer, ReleaseQueueCapacity(p) PROVE TypeOK'
  <2>1. Cardinality(batch[p]) \in Nat
    BY SlotFinite, Zenon
  <2> QED
    BY <1>3, <2>1 DEF ReleaseQueueCapacity, Done
<1>4. ASSUME NEW p \in Producer, LoseReservation(p) PROVE TypeOK'
  <2>1. Cardinality(batch[p]) \in Nat
    BY SlotFinite, Zenon
  <2> QED
    BY <1>4, <2>1 DEF LoseReservation, Done
<1>5. ASSUME NEW o \in Operator, CheckQueue(o) PROVE TypeOK'
  BY <1>5, Zenon DEF CheckQueue
<1>6. ASSUME NEW o \in Operator, SendChecked(o) PROVE TypeOK'
  BY <1>6 DEF SendChecked
<1>7. CASE ExpireCounter
  BY <1>7, Zenon DEF ExpireCounter
<1>8. CASE ClaimReady
  BY <1>8 DEF ClaimReady
<1>9. CASE SettleOut
  BY <1>9 DEF SettleOut
<1>10. CASE UNCHANGED vars
  BY <1>10, Zenon DEF vars
<1> QED
  BY <1>1, <1>2, <1>3, <1>4, <1>5, <1>6, <1>7, <1>8, <1>9, <1>10, Zenon DEF Next, Api

\* The counts of what is held and of what is unsent.
LEMMA Counts == TypeOK => /\ Cardinality(Held) \in Nat
                          /\ Cardinality(Unsent) \in Nat
                          /\ \A p \in Producer : /\ Cardinality(batch[p]) \in Nat
                                                 /\ Cardinality(left[p]) \in Nat
  BY CellsFinite, SlotFinite, Zenon DEF TypeOK, Held, Unsent, Batches

\* A producer that is done takes its batch out of what is held and what it
\* did not publish out of what is unsent.
LEMMA DoneCounts ==
    ASSUME TypeOK, NEW p \in Producer, Done(p)
    PROVE  /\ Cardinality(Held)' + Cardinality(batch[p]) = Cardinality(Held)
           /\ Cardinality(Unsent)' + Cardinality(left[p]) = Cardinality(Unsent)
<1>1. {} \in SUBSET Slot /\ Cardinality({}) = 0
  BY FS_EmptySet, Zenon
<1>2. batch \in Batches /\ left \in Batches
  BY Zenon DEF TypeOK, Batches
<1>3. Cardinality(Cells(batch')) + Cardinality(batch[p]) = Cardinality(Cells(batch)) + 0
  BY <1>1, <1>2, CellsExcept, Zenon DEF Done
<1>4. Cardinality(Cells(left')) + Cardinality(left[p]) = Cardinality(Cells(left)) + 0
  BY <1>1, <1>2, CellsExcept, Zenon DEF Done
<1>5. Held' = Cells(batch') /\ Unsent' = Cells(left')
  BY Zenon DEF Held, Unsent, Cells
<1> QED
  BY <1>3, <1>4, <1>5, Counts DEF Held, Unsent

\* Steps that leave the batches alone leave the counts alone.
LEMMA SameCounts ==
    ASSUME UNCHANGED <<batch, left>>
    PROVE  Held' = Held /\ Unsent' = Unsent
  BY Zenon DEF Held, Unsent, Cells

\* A reservation adds its tasks to both counts.
LEMMA ReserveCounts ==
    ASSUME TypeOK, NEW p \in Producer, NEW n \in Slot, ReserveQueueCapacity(p, n)
    PROVE  /\ Cardinality(Held)' = Cardinality(Held) + n
           /\ Cardinality(Unsent)' = Cardinality(Unsent) + n
<1>1. batch \in Batches /\ left \in Batches
  BY Zenon DEF TypeOK, Batches
<1>2. batch[p] = {} /\ left[p] = {}
  BY Zenon DEF TypeOK, ReserveQueueCapacity, Holds
<1>3. 1 .. n \in SUBSET Slot /\ Cardinality(1 .. n) = n /\ n \in Nat
  BY SlotFinite, Zenon DEF Slot
<1>4. Cardinality({}) = 0
  BY FS_EmptySet, Zenon
<1>10. batch' = [batch EXCEPT ![p] = 1 .. n] /\ left' = [left EXCEPT ![p] = 1 .. n]
  BY Zenon DEF ReserveQueueCapacity
<1>5. Cardinality(Cells(batch')) + Cardinality(batch[p])
         = Cardinality(Cells(batch)) + Cardinality(1 .. n)
  BY <1>1, <1>3, <1>10, CellsExcept, Zenon
<1>6. Cardinality(Cells(left')) + Cardinality(left[p])
         = Cardinality(Cells(left)) + Cardinality(1 .. n)
  BY <1>1, <1>3, <1>10, CellsExcept, Zenon
<1>7. Held' = Cells(batch') /\ Unsent' = Cells(left')
  BY Zenon DEF Held, Unsent, Cells
<1>8. batch' \in Batches /\ left' \in Batches
  BY <1>1, <1>3, Zenon DEF ReserveQueueCapacity, Batches
<1>9. Cardinality(Cells(batch')) \in Nat /\ Cardinality(Cells(left')) \in Nat
  BY <1>8, CellsFinite, Zenon
<1> QED
  BY <1>2, <1>3, <1>4, <1>5, <1>6, <1>7, <1>9 DEF Held, Unsent

\* A publication takes one task out of what is unsent.
LEMMA PublishCounts ==
    ASSUME TypeOK, NEW p \in Producer, Publish(p)
    PROVE  /\ Held' = Held
           /\ Cardinality(Unsent)' + 1 = Cardinality(Unsent)
<1>1. PICK s \in left[p] : left' = [left EXCEPT ![p] = left[p] \ {s}]
  BY Zenon DEF Publish
<1>2. left \in Batches /\ left[p] \in SUBSET Slot /\ left[p] \ {s} \in SUBSET Slot
  BY Zenon DEF TypeOK, Batches
<1>3. Cardinality(left[p] \ {s}) = Cardinality(left[p]) - 1
  BY <1>2, SlotFinite, FS_RemoveElement, Zenon
<1>4. Cardinality(Cells(left')) + Cardinality(left[p])
         = Cardinality(Cells(left)) + Cardinality(left[p] \ {s})
  BY <1>1, <1>2, CellsExcept, Zenon
<1>5. Held' = Held /\ Unsent' = Cells(left')
  BY Zenon DEF Publish, Held, Unsent, Cells
<1>6. left' \in Batches
  BY <1>1, <1>2, Zenon DEF Batches
<1>7. Cardinality(Cells(left')) \in Nat /\ Cardinality(Cells(left)) \in Nat
      /\ Cardinality(left[p]) \in Nat
  BY <1>2, <1>6, CellsFinite, SlotFinite, Zenon
<1> QED
  BY <1>3, <1>4, <1>5, <1>7 DEF Unsent

\* The room left under the limit, when tasks are dropped or published.
LEMMA Room ==
    ASSUME NEW a \in Nat, NEW b \in Nat, NEW u \in Nat, NEW v \in Nat, NEW m \in Nat,
           a + u <= m, (b <= a /\ v <= u) \/ (b = a + 1 /\ v + 1 = u)
    PROVE  b + v <= m
  OBVIOUS

\* A summand is at most its sum.
LEMMA Summand ==
    ASSUME NEW x \in Nat, NEW y \in Nat, NEW z \in Nat, x + y = z
    PROVE  x <= z
  OBVIOUS

\* Every step keeps the account of the counter and the limit of the API.
LEMMA AdmissionStep == AdmissionInv /\ [Next]_vars => AdmissionInv'
<1> SUFFICES ASSUME AdmissionInv, [Next]_vars PROVE AdmissionInv'
  OBVIOUS
<1>t. TypeOK /\ TypeOK'
  BY AdmissionType, Zenon DEF AdmissionInv
<1> DEFINE owed == Cardinality(Held)
           unsent == Cardinality(Unsent)
           Goal == /\ reserved' <= owed' + leaked'
                   /\ ~lapsed' => reserved' = owed' + leaked'
                   /\ ~lapsed' => apiReady' + unsent' <= MaxQueueJobs
<1>n. /\ owed \in Nat /\ unsent \in Nat /\ unsent <= owed
      /\ \A p \in Producer : Cardinality(batch[p]) \in Nat /\ Cardinality(left[p]) \in Nat
  BY <1>t, Counts, UnsentHeld, Zenon
<1>p. owed' \in Nat /\ unsent' \in Nat
  BY <1>t, CellsFinite, Zenon DEF TypeOK, Held, Unsent, Cells, Batches
<1>r. apiReady' \in Nat
  BY <1>t, Zenon DEF TypeOK
<1>a. /\ reserved <= owed + leaked
      /\ ~lapsed => reserved = owed + leaked
      /\ ~lapsed => apiReady + unsent <= MaxQueueJobs
  BY Zenon DEF AdmissionInv, ReservationAccounted, ApiWithinLimit
<1>v. /\ reserved \in Nat /\ leaked \in Nat /\ apiReady \in Nat /\ cliReady \in Nat
      /\ requeued \in Nat /\ MaxQueueJobs \in Nat /\ lapsed \in BOOLEAN
  BY <1>t, AdmissionAssumption, Zenon DEF TypeOK
<1>g. SUFFICES Goal
  BY <1>t, Zenon DEF AdmissionInv, ReservationAccounted, ApiWithinLimit
<1>1. ASSUME NEW p \in Producer, NEW n \in Slot, ReserveQueueCapacity(p, n) PROVE Goal
  <2>1. owed' = owed + n /\ unsent' = unsent + n /\ n \in Nat
    BY <1>1, <1>t, ReserveCounts DEF Slot
  <2>2. LLen + reserved + n <= MaxQueueJobs /\ reserved' = reserved + n
        /\ leaked' = leaked /\ (~lapsed' => ~lapsed) /\ apiReady' = apiReady
    BY <1>1, Zenon DEF ReserveQueueCapacity, queue
  <2> HIDE DEF owed, unsent
  <2> QED
    BY <1>n, <1>a, <1>v, <2>1, <2>2 DEF LLen
<1>2. ASSUME NEW p \in Producer, Publish(p) PROVE Goal
  <2>1. owed' = owed /\ unsent' + 1 = unsent
    BY <1>2, <1>t, PublishCounts, Zenon
  <2>2. /\ reserved' = reserved /\ leaked' = leaked /\ (~lapsed' => ~lapsed)
        /\ apiReady' = apiReady + 1
    BY <1>2, Zenon DEF Publish
  <2> HIDE DEF owed, unsent
  <2>3. reserved' <= owed' + leaked'
    BY <1>n, <1>p, <1>a, <1>v, <2>1, <2>2, Zenon
  <2>4. ASSUME ~lapsed' PROVE reserved' = owed' + leaked'
    BY <2>4, <1>n, <1>p, <1>a, <1>v, <2>1, <2>2, Zenon
  <2>5. (apiReady' <= apiReady /\ unsent' <= unsent)
           \/ (apiReady' = apiReady + 1 /\ unsent' + 1 = unsent)
    BY <1>n, <1>p, <1>v, <2>1, <2>2, Zenon
  <2>6. ~lapsed' => apiReady + unsent <= MaxQueueJobs
    BY <1>a, <2>2, Zenon
  <2>7. ~lapsed' => apiReady' + unsent' <= MaxQueueJobs
    BY <2>5, <2>6, <1>n, <1>p, <1>v, <1>r, Room, ZenonT(30)
  <2> QED
    BY <2>3, <2>4, <2>7, Zenon
<1>3. ASSUME NEW p \in Producer, ReleaseQueueCapacity(p) PROVE Goal
  <2>1. owed' + Cardinality(batch[p]) = owed /\ unsent' + Cardinality(left[p]) = unsent
    BY <1>3, <1>t, DoneCounts, Zenon DEF ReleaseQueueCapacity
  <2>2. /\ reserved' = IF reserved - Cardinality(batch[p]) <= 0
                       THEN 0 ELSE reserved - Cardinality(batch[p])
        /\ leaked' = leaked /\ (~lapsed' => ~lapsed) /\ apiReady' = apiReady
    BY <1>3, Zenon DEF ReleaseQueueCapacity, queue
  <2> HIDE DEF owed, unsent
  <2>3. reserved' <= owed' + leaked'
    BY <1>n, <1>p, <1>a, <1>v, <2>1, <2>2
  <2>4. ASSUME ~lapsed' PROVE reserved' = owed' + leaked'
    BY <2>4, <1>n, <1>p, <1>a, <1>v, <2>1, <2>2
  <2>5. unsent' <= unsent
    BY <1>n, <1>p, <2>1, Summand, Zenon
  <2>8. apiReady' <= apiReady
    BY <1>v, <2>2
  <2>6. ~lapsed' => apiReady + unsent <= MaxQueueJobs
    BY <1>a, <2>2, Zenon
  <2>7. ~lapsed' => apiReady' + unsent' <= MaxQueueJobs
    BY <2>5, <2>8, <2>6, <1>n, <1>p, <1>v, <1>r, Room, ZenonT(30)
  <2> QED
    BY <2>3, <2>4, <2>7, Zenon
<1>4. ASSUME NEW p \in Producer, LoseReservation(p) PROVE Goal
  <2>1. owed' + Cardinality(batch[p]) = owed /\ unsent' + Cardinality(left[p]) = unsent
    BY <1>4, <1>t, DoneCounts, Zenon DEF LoseReservation
  <2>2. /\ reserved' = reserved /\ leaked' = leaked + Cardinality(batch[p])
        /\ (~lapsed' => ~lapsed) /\ apiReady' = apiReady
    BY <1>4, Zenon DEF LoseReservation, queue
  <2> HIDE DEF owed, unsent
  <2>3. reserved' <= owed' + leaked'
    BY <1>n, <1>p, <1>a, <1>v, <2>1, <2>2
  <2>4. ASSUME ~lapsed' PROVE reserved' = owed' + leaked'
    BY <2>4, <1>n, <1>p, <1>a, <1>v, <2>1, <2>2
  <2>5. unsent' <= unsent
    BY <1>n, <1>p, <2>1, Summand, Zenon
  <2>8. apiReady' <= apiReady
    BY <1>v, <2>2
  <2>6. ~lapsed' => apiReady + unsent <= MaxQueueJobs
    BY <1>a, <2>2, Zenon
  <2>7. ~lapsed' => apiReady' + unsent' <= MaxQueueJobs
    BY <2>5, <2>8, <2>6, <1>n, <1>p, <1>v, <1>r, Room, Zenon
  <2> QED
    BY <2>3, <2>4, <2>7, Zenon
<1>5. ASSUME UNCHANGED <<batch, left, reserved, leaked>>, ~lapsed' => ~lapsed,
             apiReady' \in Nat, apiReady' <= apiReady
      PROVE  Goal
  <2>1. owed' = owed /\ unsent' = unsent
    BY <1>5, SameCounts, Zenon
  <2> HIDE DEF owed, unsent
  <2>2. unsent' <= unsent
    BY <1>n, <2>1
  <2>3. ~lapsed' => apiReady' + unsent' <= MaxQueueJobs
    BY <1>5, <1>a, <2>2, <1>n, <1>p, <1>v, Room, Zenon
  <2> QED
    BY <1>5, <1>n, <1>a, <1>v, <2>1, <2>3, Zenon
<1>6. CASE ExpireCounter
  <2>1. owed' = owed /\ unsent' = unsent
    BY <1>6, SameCounts, Zenon DEF ExpireCounter
  <2>2. ASSUME ~lapsed' PROVE owed = 0
    <3>1. \A p \in Producer : batch[p] = {}
      BY <1>6, <2>2, Zenon DEF ExpireCounter, Holds
    <3>2. Held = {}
      BY <3>1, Zenon DEF Held, Cells
    <3> QED
      BY <3>2, FS_EmptySet, Zenon
  <2>3. reserved' = 0 /\ leaked' = 0 /\ apiReady' = apiReady /\ (~lapsed' => ~lapsed)
    BY <1>6, Zenon DEF ExpireCounter, queue
  <2> HIDE DEF owed, unsent
  <2> QED
    BY <1>n, <1>a, <1>v, <2>1, <2>2, <2>3
<1>7. ASSUME NEW o \in Operator, CheckQueue(o) \/ SendChecked(o) PROVE Goal
  BY <1>7, <1>5, <1>v DEF CheckQueue, SendChecked, queue
<1>8. CASE ClaimReady
  BY <1>8, <1>5, <1>v DEF ClaimReady
<1>9. CASE SettleOut
  BY <1>9, <1>5, <1>v DEF SettleOut
<1>10. CASE UNCHANGED vars
  BY <1>10, <1>5, <1>v DEF vars, queue
<1> HIDE DEF Goal
<1> QED
  BY <1>1, <1>2, <1>3, <1>4, <1>6, <1>7, <1>8, <1>9, <1>10, Zenon DEF Next, Api

\* The account of the counter and the limit of the API are invariant.
LEMMA AdmissionInvariant == Spec => []AdmissionInv
<1>1. Init => AdmissionInv
  <2> SUFFICES ASSUME Init PROVE AdmissionInv
    OBVIOUS
  <2>1. TypeOK
    BY AdmissionInitType, Zenon
  <2>2. Held = {} /\ Unsent = {}
    BY Zenon DEF Init, Held, Unsent, Cells
  <2>3. Cardinality(Held) = 0 /\ Cardinality(Unsent) = 0
    BY <2>2, FS_EmptySet, Zenon
  <2> QED
    BY <2>1, <2>3, AdmissionAssumption
       DEF Init, AdmissionInv, ReservationAccounted, ApiWithinLimit
<1> QED
  BY <1>1, AdmissionStep, PTL DEF Spec

\* Whatever producers, operators and the broker do, and however many there
\* are, the reservation counter of the API holds exactly what is reserved and
\* leaked unless it expired under a holder, and never more.
THEOREM CounterExact == Spec => []ReservationAccounted
<1>1. AdmissionInv => ReservationAccounted
  BY Zenon DEF AdmissionInv
<1> QED
  BY <1>1, AdmissionInvariant, PTL

\* While no reservation expired under its holder, the work of the API that is
\* queued or still to be published never exceeds MAX_QUEUE_JOBS.
THEOREM ApiBounded == Spec => []ApiWithinLimit
<1>1. AdmissionInv => ApiWithinLimit
  BY Zenon DEF AdmissionInv
<1> QED
  BY <1>1, AdmissionInvariant, PTL

-----------------------------------------------------------------------------
\* Every step keeps the bound on the work of the command line tools.
LEMMA OperatorStep == TypeOK /\ OperatorsWithinLimit /\ [Next]_vars => OperatorsWithinLimit'
<1> SUFFICES ASSUME TypeOK, OperatorsWithinLimit, [Next]_vars, Operator # {}
             PROVE  cliReady' + Cardinality(checked') <= MaxQueueJobs + Cardinality(Operator) - 1
  BY Zenon DEF OperatorsWithinLimit
<1> DEFINE N == Cardinality(Operator)
           C == Cardinality(checked)
           Goal == cliReady' + C' <= MaxQueueJobs + N - 1
<1>0. cliReady + C <= MaxQueueJobs + N - 1
  BY Zenon DEF OperatorsWithinLimit
<1>1. /\ IsFiniteSet(Operator) /\ IsFiniteSet(checked) /\ N \in Nat /\ C \in Nat
      /\ MaxQueueJobs \in Nat /\ cliReady \in Nat /\ apiReady \in Nat /\ requeued \in Nat
  BY AdmissionAssumption, FS_Subset, FS_CardinalityType, Zenon DEF TypeOK
<1>2. TypeOK'
  BY AdmissionType, Zenon
<1>3. C' \in Nat /\ C' <= N /\ cliReady' \in Nat
  BY <1>1, <1>2, FS_Subset, FS_CardinalityType, SMTT(30) DEF TypeOK
<1>4. ASSUME cliReady' <= cliReady, checked' = checked PROVE Goal
  <2>1. \A a, b, c, m, n \in Nat : b <= a /\ a + c <= m + n - 1 => b + c <= m + n - 1
    OBVIOUS
  <2>2. C' = C
    BY <1>4, Zenon
  <2> HIDE DEF C, N
  <2> QED
    BY <1>0, <1>1, <1>3, <1>4, <2>1, <2>2, Zenon
<1>5. ASSUME NEW o \in Operator, CheckQueue(o) PROVE Goal
  <2>1. \A a, b, c, d, m, n \in Nat : a + b + c < m /\ d <= n => b + d <= m + n - 1
    OBVIOUS
  <2>2. apiReady + cliReady + requeued < MaxQueueJobs /\ cliReady' = cliReady
    BY <1>5, Zenon DEF CheckQueue, LLen, queue
  <2> HIDE DEF C, N
  <2>3. cliReady + C' <= MaxQueueJobs + N - 1
    BY <1>1, <1>3, <2>1, <2>2, Zenon
  <2> QED
    BY <2>2, <2>3, Zenon
<1>6. ASSUME NEW o \in Operator, SendChecked(o) PROVE Goal
  <2>2. C' = C - 1
    BY <1>1, <1>6, FS_RemoveElement, Zenon DEF SendChecked
  <2>3. cliReady' = cliReady \/ cliReady' = cliReady + 1
    BY <1>6, Zenon DEF SendChecked
  <2> HIDE DEF C, N
  <2>4. /\ cliReady + C' <= MaxQueueJobs + N - 1
        /\ (cliReady + 1) + C' <= MaxQueueJobs + N - 1
    BY <1>0, <1>1, <2>2
  <2> QED
    BY <2>3, <2>4, Zenon
<1>7. ASSUME NEW p \in Producer, Api(p) PROVE Goal
  BY <1>1, <1>4, <1>7
     DEF Api, ReserveQueueCapacity, Publish, ReleaseQueueCapacity, LoseReservation, queue
<1>8. CASE ExpireCounter \/ SettleOut \/ UNCHANGED vars
  BY <1>1, <1>4, <1>8 DEF ExpireCounter, SettleOut, vars, queue
<1>9. CASE ClaimReady
  <2>1. checked' = checked /\ (cliReady' = cliReady \/ cliReady' = cliReady - 1)
    BY <1>9, Zenon DEF ClaimReady
  <2>2. cliReady' <= cliReady
    BY <1>1, <2>1
  <2> QED
    BY <1>4, <2>1, <2>2, Zenon
<1> QED
  BY <1>5, <1>6, <1>7, <1>8, <1>9, Zenon DEF Next

\* However many command line tools run beside the API, the tasks they have
\* queued or are about to queue exceed MAX_QUEUE_JOBS by less than their
\* number.
THEOREM OperatorsBounded == Spec => []OperatorsWithinLimit
<1>1. Init => OperatorsWithinLimit
  <2> SUFFICES ASSUME Init, Operator # {}
               PROVE  cliReady + Cardinality(checked) <= MaxQueueJobs + Cardinality(Operator) - 1
    BY Zenon DEF OperatorsWithinLimit
  <2>1. cliReady = 0 /\ Cardinality(checked) = 0
    BY FS_EmptySet, Zenon DEF Init
  <2>2. Cardinality(Operator) \in Nat /\ Cardinality(Operator) # 0
    BY AdmissionAssumption, FS_EmptySet, FS_CardinalityType, Zenon
  <2> QED
    BY <2>1, <2>2, AdmissionAssumption
<1>2. AdmissionInv => TypeOK
  BY Zenon DEF AdmissionInv
<1> QED
  BY <1>1, <1>2, OperatorStep, AdmissionInvariant, PTL DEF Spec
-----------------------------------------------------------------------------
(* Second part: the verification of requests.  It shares no variable with  *)
(* the first part.                                                         *)

\* A handler that looks up a key has read its clock at most MaxResolve ago, and
\* the creation time was then in the window.
TimeOf(h) ==
    /\ pc[h] \in Resolving => readAt[h] <= clock /\ clock <= readAt[h] + MaxResolve
    /\ pc[h] \in Resolving \cup {"bind"} => msg[h] \in sent
    /\ (pc[h] \in Resolving /\ msg[h] \in modern) =>
          /\ created[msg[h]] >= readAt[h] + offset[Home[h]] - MaximumAge
          /\ created[msg[h]] <= readAt[h] + offset[Home[h]] + FutureSkew
TimeInv == \A h \in Handler : TimeOf(h)

\* A nonce outlives every handler that could still set it, so that it is set
\* once.
NonceOf(m) ==
    /\ m \notin sent => m \notin modern /\ nonce[m] = 0 /\ accepted[m] = 0
    /\ (m \in modern /\ nonce[m] > 0) => nonce[m] > created[m] + MaximumAge + MaxResolve
NonceInv == \A m \in Message : NonceOf(m)

\* Past that point a request is in the hands of one handler, or has been
\* accepted once.
BindOf(h) ==
    (pc[h] = "bind" /\ msg[h] \in modern) =>
        /\ nonce[msg[h]] > 0 /\ accepted[msg[h]] = 0
        /\ \A g \in Handler : (pc[g] = "bind" /\ msg[g] = msg[h]) => g = h
CountOf(m) == m \in modern => accepted[m] <= (IF nonce[m] = 0 THEN 0 ELSE 1)
BindInv == (\A h \in Handler : BindOf(h)) /\ (\A m \in Message : CountOf(m))

VerificationInv == VerificationTypeOK /\ TimeInv /\ NonceInv /\ BindInv

-----------------------------------------------------------------------------
\* The initial states satisfy the invariants.
LEMMA InitInv == VerificationInit => VerificationInv
<1> SUFFICES ASSUME VerificationInit PROVE VerificationInv
  OBVIOUS
<1>1. VerificationTypeOK
  BY VerificationAssumption DEF VerificationInit, VerificationTypeOK
<1>2. TimeInv /\ BindInv
  BY Zenon DEF VerificationInit, TimeInv, TimeOf, BindInv, BindOf, CountOf, Resolving
<1>3. NonceInv
  BY DEF VerificationInit, NonceInv, NonceOf
<1> QED
  BY <1>1, <1>2, <1>3, Zenon DEF VerificationInv

Places == {"idle", "resolve", "fetched", "verify", "bind"}

\* A handler that leaves keeps the types of its variables.
LEMMA LeaveType ==
    ASSUME VerificationTypeOK, NEW h \in Handler, NEW where \in Places, Leave(h, where)
    PROVE  /\ pc' \in [Handler -> Places] /\ genuine' \subseteq Handler
           /\ readAt' \in [Handler -> Nat] /\ got' \in [Handler -> 0 .. MaxKeys]
<1>1. pc \in [Handler -> Places] /\ genuine \subseteq Handler /\ readAt \in [Handler -> Nat]
      /\ got \in [Handler -> 0 .. MaxKeys]
  BY Zenon DEF VerificationTypeOK, Places
<1>2. pc' = [pc EXCEPT ![h] = where] /\ genuine' = genuine \ {h}
      /\ readAt' = [readAt EXCEPT ![h] = 0] /\ got' = [got EXCEPT ![h] = 0]
  BY Zenon DEF Leave
<1> QED
  BY VerificationAssumption, <1>1, <1>2

\* Every step keeps the types.
LEMMA TypeStep ==
    VerificationTypeOK /\ [VerificationNext]_verificationVars => VerificationTypeOK'
<1> USE VerificationAssumption
<1> SUFFICES ASSUME VerificationTypeOK, [VerificationNext]_verificationVars PROVE VerificationTypeOK'
  OBVIOUS
<1>1. CASE Tick
  <2>1. clock' \in Nat
    BY <1>1 DEF VerificationTypeOK, Tick
  <2>2. UNCHANGED <<offset, key, replaced, held, cached, expires, sent, modern, created, until,
                    signer, nonce, pc, msg, genuine, readAt, got, received, accepted,
                    intact>>
    BY <1>1, Zenon DEF Tick, cache, request, handler
  <2> QED
    BY <2>1, <2>2, Zenon DEF VerificationTypeOK
<1>2. CASE ReplaceKey
  <2>1. key' \in 0 .. MaxKeys /\ replaced' \in [0 .. MaxKeys -> Nat]
    BY <1>2 DEF VerificationTypeOK, ReplaceKey
  <2>2. UNCHANGED <<clock, offset, held, cached, expires, sent, modern, created, until, signer,
                    nonce, pc, msg, genuine, readAt, got, received, accepted, intact>>
    BY <1>2, Zenon DEF ReplaceKey, cache, request, handler
  <2> QED
    BY <2>1, <2>2, Zenon DEF VerificationTypeOK
<1>3. ASSUME NEW m \in Message, Send(m) PROVE VerificationTypeOK'
  <2>1. sent' \subseteq Message /\ modern' \subseteq Message
    BY <1>3, Zenon DEF VerificationTypeOK, Send
  <2>2. created' \in [Message -> Nat] /\ signer' \in [Message -> 0 .. MaxKeys]
    BY <1>3, Zenon DEF VerificationTypeOK, Send
  <2>4. until' \in [Message -> Nat]
    <3>1. {0} \cup Stamp \subseteq Nat
      OBVIOUS
    <3> QED
      BY <1>3, <3>1, Zenon DEF VerificationTypeOK, Send
  <2>3. UNCHANGED <<clock, offset, key, replaced, held, cached, expires, nonce, pc, msg,
                    genuine, readAt, got, received, accepted, intact>>
    BY <1>3, Zenon DEF Send, cache, request, handler
  <2> QED
    BY <2>1, <2>2, <2>3, <2>4, ZenonT(60) DEF VerificationTypeOK
<1>4. ASSUME NEW h \in Handler, NEW m \in Message, Receive(h, m) PROVE VerificationTypeOK'
  <2>1. pc' \in [Handler -> {"idle", "resolve", "fetched", "verify", "bind"}] /\ msg' \in [Handler -> Message]
    BY <1>4, Zenon DEF VerificationTypeOK, Receive
  <2>2. genuine' \subseteq Handler /\ readAt' \in [Handler -> Nat]
    BY <1>4, Zenon DEF VerificationTypeOK, Receive
  <2>3. received' \in 0 .. MaxReceived
    BY <1>4 DEF VerificationTypeOK, Receive
  <2>5. intact' \subseteq Message
    BY <1>4, Zenon DEF VerificationTypeOK, Receive
  <2>4. UNCHANGED <<clock, offset, key, replaced, held, cached, expires, sent, modern,
                    created, until, signer, nonce, got, accepted>>
    BY <1>4, Zenon DEF Receive, cache, request, handler
  <2> QED
    BY <2>1, <2>2, <2>3, <2>4, <2>5, Zenon DEF VerificationTypeOK, Places
<1>5. ASSUME NEW h \in Handler, CacheHit(h) PROVE VerificationTypeOK'
  <2>1. got' \in [Handler -> 0 .. MaxKeys] /\ pc' \in [Handler -> {"idle", "resolve", "fetched", "verify", "bind"}]
    BY <1>5, SMTT(30) DEF VerificationTypeOK, CacheHit
  <2>2. UNCHANGED <<clock, offset, key, replaced, held, cached, expires, sent, modern,
                    created, until, signer, nonce, msg, genuine, readAt, received, accepted,
                    intact>>
    BY <1>5, Zenon DEF CacheHit, cache, request, handler
  <2> QED
    BY <2>1, <2>2, Zenon DEF VerificationTypeOK
<1>6. ASSUME NEW h \in Handler, Fetch(h) PROVE VerificationTypeOK'
  <2>1. /\ pc' \in [Handler -> Places] /\ genuine' \subseteq Handler
        /\ readAt' \in [Handler -> Nat] /\ got' \in [Handler -> 0 .. MaxKeys]
    <3>1. CASE Leave(h, "idle")
      BY <3>1, LeaveType, Zenon DEF Places
    <3>2. CASE /\ got' = [got EXCEPT ![h] = key] /\ pc' = [pc EXCEPT ![h] = "fetched"]
               /\ UNCHANGED <<genuine, readAt>>
      BY <3>2, Zenon DEF VerificationTypeOK, Places
    <3> QED
      BY <1>6, <3>1, <3>2, Zenon DEF Fetch
  <2>2. UNCHANGED <<clock, offset, key, replaced, held, cached, expires, sent, modern,
                    created, until, signer, nonce, msg, received, accepted, intact>>
    BY <1>6, Zenon DEF Fetch, cache, request, handler
  <2> QED
    BY <2>1, <2>2, Zenon DEF VerificationTypeOK, Places
<1>7. ASSUME NEW h \in Handler, Store(h) PROVE VerificationTypeOK'
  <2>1. held' \subseteq Replica /\ cached' \in [Replica -> 0 .. MaxKeys]
    BY <1>7, SMTT(30) DEF VerificationTypeOK, Store
  <2>2. expires' \in [Replica -> Nat] /\ pc' \in [Handler -> {"idle", "resolve", "fetched", "verify", "bind"}]
    BY <1>7, SMTT(30) DEF VerificationTypeOK, Store
  <2>3. UNCHANGED <<clock, offset, key, replaced, sent, modern, created, until, signer, nonce,
                    msg, genuine, readAt, got, received, accepted, intact>>
    BY <1>7, Zenon DEF Store, cache, request, handler
  <2> QED
    BY <2>1, <2>2, <2>3, Zenon DEF VerificationTypeOK
<1>8. ASSUME NEW h \in Handler, Verify(h) PROVE VerificationTypeOK'
  <2>0. PICK where \in Places : Leave(h, where)
    BY <1>8, Zenon DEF Verify, Places
  <2>1. pc' \in [Handler -> Places] /\ genuine' \subseteq Handler
    BY <2>0, LeaveType, Zenon
  <2>2. readAt' \in [Handler -> Nat] /\ got' \in [Handler -> 0 .. MaxKeys]
    BY <2>0, LeaveType, Zenon
  <2>3. nonce' \in [Message -> Nat]
    <3>1. msg[h] \in Message /\ clock + ReplayTTL \in Nat /\ nonce \in [Message -> Nat]
      BY SMTT(30) DEF VerificationTypeOK
    <3>2. nonce' = nonce \/ nonce' = [nonce EXCEPT ![msg[h]] = clock + ReplayTTL]
      BY <1>8, Zenon DEF Verify, NonceExpiry
    <3> QED
      BY <3>1, <3>2, Zenon
  <2>4. UNCHANGED <<clock, offset, key, replaced, held, cached, expires, sent, modern,
                    created, until, signer, msg, received, accepted, intact>>
    BY <1>8, Zenon DEF Verify, cache, request, handler
  <2> QED
    BY <2>1, <2>2, <2>3, <2>4, Zenon DEF VerificationTypeOK, Places
<1>9. ASSUME NEW h \in Handler, Bind(h) PROVE VerificationTypeOK'
  <2>0. PICK where \in Places : Leave(h, where)
    BY <1>9, Zenon DEF Bind, Places
  <2>1. pc' \in [Handler -> Places] /\ genuine' \subseteq Handler
    BY <2>0, LeaveType, Zenon
  <2>2. readAt' \in [Handler -> Nat] /\ got' \in [Handler -> 0 .. MaxKeys]
    BY <2>0, LeaveType, Zenon
  <2>3. accepted' \in [Message -> Nat]
    <3>1. msg[h] \in Message /\ accepted \in [Message -> Nat]
      BY Zenon DEF VerificationTypeOK
    <3>2. accepted' = accepted \/ accepted' = [accepted EXCEPT ![msg[h]] = @ + 1]
      BY <1>9, Zenon DEF Bind
    <3> QED
      BY <3>1, <3>2
  <2>4. UNCHANGED <<clock, offset, key, replaced, held, cached, expires, sent, modern,
                    created, until, signer, nonce, msg, received, intact>>
    BY <1>9, Zenon DEF Bind, cache, request, handler
  <2> QED
    BY <2>1, <2>2, <2>3, <2>4, Zenon DEF VerificationTypeOK, Places
<1>10. CASE UNCHANGED verificationVars
  BY <1>10, Zenon DEF VerificationTypeOK, verificationVars, cache, request, handler
<1> QED
  BY <1>1, <1>2, <1>3, <1>4, <1>5, <1>6, <1>7, <1>8, <1>9, <1>10, Zenon DEF VerificationNext

-----------------------------------------------------------------------------
\* Every step keeps the times of handlers in bounds.
LEMMA TimeStep ==
    VerificationTypeOK /\ TimeInv /\ [VerificationNext]_verificationVars => TimeInv'
<1> USE VerificationAssumption
<1> SUFFICES ASSUME VerificationTypeOK, TimeInv, [VerificationNext]_verificationVars, NEW g \in Handler PROVE TimeOf(g)'
  BY Zenon DEF TimeInv
<1>0. TimeOf(g) /\ msg[g] \in Message /\ Home[g] \in Replica
  BY Zenon DEF VerificationTypeOK, TimeInv
<1>1. CASE Tick
  BY <1>0, <1>1, SMTT(30) DEF VerificationTypeOK, TimeOf, Tick, handler, request
<1>2. CASE ReplaceKey
  BY <1>0, <1>2, Zenon DEF TimeOf, ReplaceKey, handler, request
<1>3. ASSUME NEW m \in Message, Send(m) PROVE TimeOf(g)'
  <2>1. CASE msg[g] = m
    BY <1>0, <1>3, <2>1, Zenon DEF TimeOf, Send, handler, Resolving
  <2>2. CASE msg[g] # m
    BY <1>0, <1>3, <2>2, Zenon DEF VerificationTypeOK, TimeOf, Send, handler
  <2> QED
    BY <2>1, <2>2, Zenon
<1>4. ASSUME NEW h \in Handler, NEW m \in Message, Receive(h, m) PROVE TimeOf(g)'
  <2>1. CASE g = h
    <3>1. /\ pc'[g] = "resolve" /\ msg'[g] = m /\ readAt'[g] = clock /\ m \in sent
          /\ UNCHANGED <<clock, offset, sent, modern, created>>
          /\ m \in modern => InWindow(g, m)
      BY <1>4, <2>1, Zenon DEF VerificationTypeOK, Receive, request
    <3>2. clock \in Nat /\ offset[Home[g]] \in Nat /\ created[m] \in Nat
      BY <1>0 DEF VerificationTypeOK
    <3> QED
      BY <3>1, <3>2 DEF TimeOf, InWindow
  <2>2. CASE g # h
    BY <1>0, <1>4, <2>2, Zenon DEF VerificationTypeOK, TimeOf, Receive, request
  <2> QED
    BY <2>1, <2>2, Zenon
<1>5. ASSUME NEW h \in Handler, CacheHit(h) PROVE TimeOf(g)'
  BY <1>0, <1>5, Zenon DEF VerificationTypeOK, TimeOf, CacheHit, Resolving, request
<1>6. ASSUME NEW h \in Handler, Fetch(h) PROVE TimeOf(g)'
  <2>1. CASE g = h
    BY <1>0, <1>6, <2>1, Zenon DEF VerificationTypeOK, TimeOf, Fetch, Leave, Resolving, request
  <2>2. CASE g # h
    BY <1>0, <1>6, <2>2, Zenon DEF VerificationTypeOK, TimeOf, Fetch, Leave, request
  <2> QED
    BY <2>1, <2>2, Zenon
<1>7. ASSUME NEW h \in Handler, Store(h) PROVE TimeOf(g)'
  BY <1>0, <1>7, ZenonT(30) DEF VerificationTypeOK, TimeOf, Store, Resolving, request
<1>8. ASSUME NEW h \in Handler, Verify(h) PROVE TimeOf(g)'
  <2>1. pc[h] = "verify" /\ UNCHANGED <<clock, offset, msg, sent, modern, created>>
    BY <1>8, Zenon DEF Verify, request
  <2>2. PICK where \in {"idle", "bind"} : Leave(h, where)
    BY <1>8, Zenon DEF Verify
  <2>3. CASE g = h
    BY <1>0, <2>1, <2>2, <2>3, SMTT(30) DEF VerificationTypeOK, TimeOf, Leave, Resolving
  <2>4. CASE g # h
    BY <1>0, <2>1, <2>2, <2>4, Zenon DEF VerificationTypeOK, TimeOf, Leave
  <2> QED
    BY <2>3, <2>4, Zenon
<1>9. ASSUME NEW h \in Handler, Bind(h) PROVE TimeOf(g)'
  BY <1>0, <1>9, Zenon DEF VerificationTypeOK, TimeOf, Bind, Leave, Resolving, request
<1>10. CASE UNCHANGED verificationVars
  BY <1>0, <1>10, Zenon DEF TimeOf, verificationVars, handler, request
<1> QED
  BY <1>1, <1>2, <1>3, <1>4, <1>5, <1>6, <1>7, <1>8, <1>9, <1>10, Zenon DEF VerificationNext

\* Every step keeps what a nonce stands for.
LEMMA NonceStep ==
    VerificationTypeOK /\ TimeInv /\ NonceInv /\ BindInv /\ [VerificationNext]_verificationVars => NonceInv'
<1> USE VerificationAssumption
<1> SUFFICES ASSUME VerificationTypeOK, TimeInv, NonceInv, BindInv, [VerificationNext]_verificationVars, NEW n \in Message
             PROVE  NonceOf(n)'
  BY Zenon DEF NonceInv
<1>0. NonceOf(n)
  BY Zenon DEF NonceInv
<1>1. CASE Tick \/ ReplaceKey \/ UNCHANGED verificationVars
  BY <1>0, <1>1, Zenon DEF NonceOf, Tick, ReplaceKey, verificationVars, request
<1>2. ASSUME NEW m \in Message, Send(m) PROVE NonceOf(n)'
  <2>1. /\ m \notin sent /\ sent' = sent \cup {m} /\ modern' \subseteq modern \cup {m}
        /\ UNCHANGED <<nonce, accepted>>
        /\ n # m => created'[n] = created[n]
    BY <1>2, SMTT(30) DEF VerificationTypeOK, Send
  <2> QED
    BY <1>0, <2>1 DEF NonceOf
<1>3. ASSUME NEW h \in Handler, \/ \E m \in Message : Receive(h, m)
                                \/ CacheHit(h) \/ Fetch(h) \/ Store(h)
      PROVE  NonceOf(n)'
  <2>1. UNCHANGED <<sent, modern, created, nonce, accepted>>
    BY <1>3, ZenonT(60) DEF Receive, CacheHit, Fetch, Store, request
  <2> QED
    BY <1>0, <2>1, Zenon DEF NonceOf
<1>4. ASSUME NEW h \in Handler, Verify(h) PROVE NonceOf(n)'
  <2>1. UNCHANGED <<sent, modern, created, accepted>>
    BY <1>4, Zenon DEF Verify, request
  <2>2. CASE UNCHANGED nonce
    BY <1>0, <2>1, <2>2, Zenon DEF NonceOf
  <2>3. CASE msg[h] \in modern /\ nonce' = [nonce EXCEPT ![msg[h]] = clock + ReplayTTL]
    <3>1. CASE n # msg[h]
      BY <1>0, <2>1, <2>3, <3>1, ZenonT(60) DEF VerificationTypeOK, NonceOf
    <3>2. CASE n = msg[h]
      <4>1. TimeOf(h) /\ pc[h] \in Resolving
        BY <1>4, Zenon DEF TimeInv, Verify, Resolving
      <4>2. /\ clock \in Nat /\ offset[Home[h]] \in 0 .. MaxDrift /\ created[n] \in Nat
            /\ readAt[h] \in Nat
        BY ZenonT(60) DEF VerificationTypeOK
      <4>3. created[n] <= clock + MaxDrift + FutureSkew /\ n \in sent
        BY <2>3, <3>2, <4>1, <4>2 DEF TimeOf
      <4>4. nonce'[n] = clock + ReplayTTL
        BY <2>3, <3>2, Zenon DEF VerificationTypeOK
      <4> QED
        BY <2>1, <2>3, <3>2, <4>2, <4>3, <4>4 DEF NonceOf
    <3> QED
      BY <3>1, <3>2, Zenon
  <2>4. \/ UNCHANGED nonce
        \/ msg[h] \in modern /\ nonce' = [nonce EXCEPT ![msg[h]] = clock + ReplayTTL]
    BY <1>4, ZenonT(30) DEF Verify, NonceExpiry
  <2> QED
    BY <2>2, <2>3, <2>4, Zenon
<1>5. ASSUME NEW h \in Handler, Bind(h) PROVE NonceOf(n)'
  <2>1. UNCHANGED <<sent, modern, created, nonce>> /\ pc[h] = "bind"
    BY <1>5, Zenon DEF Bind, request
  <2>2. TimeOf(h)
    BY Zenon DEF TimeInv
  <2>3. n \notin sent => accepted'[n] = accepted[n]
    BY <1>5, <2>1, <2>2, ZenonT(60) DEF VerificationTypeOK, TimeOf, Bind
  <2> QED
    BY <1>0, <2>1, <2>3, Zenon DEF NonceOf
<1> QED
  BY <1>1, <1>2, <1>3, <1>4, <1>5, Zenon DEF VerificationNext

\* Whoever gets to set a nonce is the first.
LEMMA FirstReservation ==
    ASSUME VerificationTypeOK, TimeInv, NonceInv, NEW h \in Handler,
           pc[h] = "verify", msg[h] \in modern, ~NonceHeld(msg[h])
    PROVE  nonce[msg[h]] = 0
<1> USE VerificationAssumption
<1>1. TimeOf(h) /\ NonceOf(msg[h]) /\ pc[h] \in Resolving
  BY Zenon DEF VerificationTypeOK, TimeInv, NonceInv, Resolving
<1>2. /\ clock \in Nat /\ offset[Home[h]] \in Nat /\ created[msg[h]] \in Nat
      /\ readAt[h] \in Nat /\ nonce[msg[h]] \in Nat
  BY DEF VerificationTypeOK
<1>3. clock <= created[msg[h]] + MaximumAge + MaxResolve
  BY <1>1, <1>2 DEF TimeOf
<1>4. ~(nonce[msg[h]] > clock)
  BY Zenon DEF NonceHeld
<1>5. nonce[msg[h]] > 0 => nonce[msg[h]] > created[msg[h]] + MaximumAge + MaxResolve
  BY <1>1, Zenon DEF NonceOf
<1> QED
  BY <1>2, <1>3, <1>4, <1>5, SMTT(30)

\* Every step keeps a request in the hands of one handler.
LEMMA BindStep ==
    VerificationTypeOK /\ TimeInv /\ NonceInv /\ BindInv /\ [VerificationNext]_verificationVars => BindInv'
<1> USE VerificationAssumption
<1> SUFFICES ASSUME VerificationTypeOK, TimeInv, NonceInv, BindInv, [VerificationNext]_verificationVars,
                    NEW g, NEW n
             PROVE  (g \in Handler => BindOf(g)') /\ (n \in Message => CountOf(n)')
  BY Zenon DEF BindInv
<1>0. /\ g \in Handler => BindOf(g) /\ TimeOf(g)
      /\ n \in Message => CountOf(n) /\ NonceOf(n)
  BY Zenon DEF BindInv, TimeInv, NonceInv
<1>1. CASE Tick \/ ReplaceKey \/ UNCHANGED verificationVars
  <2>1. UNCHANGED <<pc, msg, modern, nonce, accepted>>
    BY <1>1, ZenonT(60) DEF Tick, ReplaceKey, verificationVars, request, handler
  <2> QED
    BY <1>0, <2>1, Zenon DEF BindOf, CountOf
<1>2. ASSUME NEW m \in Message, Send(m) PROVE (g \in Handler => BindOf(g)') /\ (n \in Message => CountOf(n)')
  <2>1. UNCHANGED <<pc, msg, nonce, accepted>> /\ modern' \subseteq modern \cup {m} /\ m \notin sent
    BY <1>2, ZenonT(60) DEF Send, handler
  <2>2. NonceOf(m)
    BY ZenonT(60) DEF NonceInv
  <2> QED
    BY <1>0, <2>1, <2>2 DEF BindOf, CountOf, TimeOf, NonceOf
<1>3. ASSUME NEW h \in Handler, \/ \E m \in Message : Receive(h, m)
                                \/ CacheHit(h) \/ Fetch(h) \/ Store(h)
      PROVE  (g \in Handler => BindOf(g)') /\ (n \in Message => CountOf(n)')
  <2>1. UNCHANGED <<modern, nonce, accepted>>
    BY <1>3, Zenon DEF Receive, CacheHit, Fetch, Store, request
  <2>2. pc'[h] # "bind" /\ \A f \in Handler : f # h => pc'[f] = pc[f] /\ msg'[f] = msg[f]
    BY <1>3, ZenonT(60) DEF VerificationTypeOK, Receive, CacheHit, Fetch, Store, Leave
  <2> QED
    BY <1>0, <2>1, <2>2, SMTT(30) DEF BindOf, CountOf
<1>4. ASSUME NEW h \in Handler, Verify(h) PROVE (g \in Handler => BindOf(g)') /\ (n \in Message => CountOf(n)')
  <2>1. UNCHANGED <<modern, msg, accepted>> /\ pc[h] = "verify"
    BY <1>4, Zenon DEF Verify, request
  <2>2. \A f \in Handler : f # h => pc'[f] = pc[f]
    BY <1>4, Zenon DEF VerificationTypeOK, Verify, Leave
  <2>3. CASE UNCHANGED nonce /\ (pc'[h] = "bind" => msg[h] \notin modern)
    BY <1>0, <2>1, <2>2, <2>3, Zenon DEF BindOf, CountOf
  <2>4. CASE /\ msg[h] \in modern /\ ~NonceHeld(msg[h])
             /\ nonce' = [nonce EXCEPT ![msg[h]] = clock + ReplayTTL]
    <3>1. nonce[msg[h]] = 0 /\ msg[h] \in Message
      BY <2>1, <2>4, FirstReservation, Zenon DEF VerificationTypeOK
    <3>2. accepted[msg[h]] = 0
      BY <3>1, <2>4 DEF BindInv, CountOf, VerificationTypeOK
    <3>3. \A f \in Handler : ~(pc[f] = "bind" /\ msg[f] = msg[h])
      BY <2>4, <3>1 DEF BindInv, BindOf
    <3>4. nonce'[msg[h]] > 0 /\ \A m \in Message : m # msg[h] => nonce'[m] = nonce[m]
      BY <2>4, <3>1 DEF VerificationTypeOK
    <3>5. g \in Handler => BindOf(g)'
      BY <1>0, <2>1, <2>2, <3>2, <3>3, <3>4, ZenonT(60) DEF VerificationTypeOK, BindOf
    <3>6. n \in Message => CountOf(n)'
      BY <1>0, <2>1, <3>2, <3>4 DEF CountOf
    <3> QED
      BY <3>5, <3>6, Zenon
  <2>5. \/ UNCHANGED nonce /\ (pc'[h] = "bind" => msg[h] \notin modern)
        \/ /\ msg[h] \in modern /\ ~NonceHeld(msg[h])
           /\ nonce' = [nonce EXCEPT ![msg[h]] = clock + ReplayTTL]
    BY <1>4, Zenon DEF VerificationTypeOK, Verify, NonceExpiry, Leave
  <2> QED
    BY <2>3, <2>4, <2>5, Zenon
<1>5. ASSUME NEW h \in Handler, Bind(h) PROVE (g \in Handler => BindOf(g)') /\ (n \in Message => CountOf(n)')
  <2>1. /\ UNCHANGED <<modern, msg, nonce>> /\ pc[h] = "bind" /\ pc'[h] = "idle"
        /\ \A f \in Handler : f # h => pc'[f] = pc[f]
    BY <1>5, Zenon DEF VerificationTypeOK, Bind, Leave, request
  <2>2. /\ accepted'[msg[h]] <= accepted[msg[h]] + 1 /\ accepted[msg[h]] \in Nat
        /\ \A m \in Message : m # msg[h] => accepted'[m] = accepted[m]
    <3>1. accepted' = accepted \/ accepted' = [accepted EXCEPT ![msg[h]] = @ + 1]
      BY <1>5, Zenon DEF Bind
    <3>2. msg[h] \in Message /\ accepted \in [Message -> Nat]
      BY Zenon DEF VerificationTypeOK
    <3> QED
      BY <3>1, <3>2
  <2>3. BindOf(h)
    BY Zenon DEF BindInv
  <2>4. nonce[msg[h]] \in Nat /\ (g \in Handler => msg[g] \in Message)
    BY SMTT(30) DEF VerificationTypeOK
  <2>5. g \in Handler => BindOf(g)'
    BY <1>0, <2>1, <2>2, <2>3, <2>4, SMTT(30) DEF BindOf
  <2>6. n \in Message => CountOf(n)'
    BY <1>0, <2>1, <2>2, <2>3, <2>4 DEF BindOf, CountOf
  <2> QED
    BY <2>5, <2>6, Zenon
<1> QED
  BY <1>1, <1>2, <1>3, <1>4, <1>5, Zenon DEF VerificationNext

-----------------------------------------------------------------------------
\* The invariant holds in every reachable state.
THEOREM InvariantHolds == VerificationSpec => []VerificationInv
<1>1. VerificationInv /\ [VerificationNext]_verificationVars => VerificationInv'
  BY TypeStep, TimeStep, NonceStep, BindStep, Zenon DEF VerificationInv
<1> QED
  BY InitInv, <1>1, PTL DEF VerificationSpec

\* No request with an RFC 9421 signature is accepted twice, for any number of
\* copies and processes: when a nonce expires, the creation time is too old
\* even for a handler that looked at it before a slow lookup of the key.
THEOREM NeverTwice == VerificationSpec => []AcceptedOnce
<1>1. VerificationInv => AcceptedOnce
  <2> SUFFICES ASSUME VerificationInv, NEW m \in Message, m \in modern
               PROVE  accepted[m] <= 1
    BY Zenon DEF AcceptedOnce
  <2>1. CountOf(m) /\ accepted[m] \in Nat
    BY Zenon DEF VerificationInv, BindInv, VerificationTypeOK
  <2> QED
    BY <2>1 DEF CountOf
<1> QED
  BY InvariantHolds, <1>1, PTL

-----------------------------------------------------------------------------
(* Damaged copies                                                          *)

\* A handler of an intact copy, and one past the check of the signature, has a
\* request that reached a process as it was signed.
IntactOf(h) ==
    /\ h \in genuine => pc[h] \in Resolving
    /\ h \in genuine \/ pc[h] = "bind" => msg[h] \in intact
IntactInv == VerificationTypeOK /\ IntactOnly /\ \A h \in Handler : IntactOf(h)

\* Every step keeps that.
LEMMA IntactStep == IntactInv /\ [VerificationNext]_verificationVars => IntactInv'
<1> SUFFICES ASSUME IntactInv, [VerificationNext]_verificationVars PROVE IntactInv'
  OBVIOUS
<1>0. VerificationTypeOK /\ VerificationTypeOK'
  BY TypeStep, Zenon DEF IntactInv
<1>1. CASE \/ Tick \/ ReplaceKey \/ (\E m \in Message : Send(m)) \/ UNCHANGED verificationVars
  <2>1. UNCHANGED <<pc, msg, genuine, intact, nonce, accepted>>
    BY <1>1, ZenonT(60) DEF Tick, ReplaceKey, Send, verificationVars, handler
  <2> QED
    BY <1>0, <2>1, Zenon DEF IntactInv, IntactOf, IntactOnly
<1>2. ASSUME NEW h \in Handler, NEW m \in Message, Receive(h, m) PROVE IntactInv'
  <2>1. /\ pc[h] = "idle" /\ UNCHANGED <<nonce, accepted>> /\ pc'[h] = "resolve" /\ msg'[h] = m
        /\ \A g \in Handler : g # h => pc'[g] = pc[g] /\ msg'[g] = msg[g]
    BY <1>0, <1>2, Zenon DEF VerificationTypeOK, Receive
  <2>2. \/ genuine' = genuine \cup {h} /\ intact' = intact \cup {m}
        \/ UNCHANGED <<genuine, intact>>
    BY <1>2, Zenon DEF Receive
  <2>3. h \notin genuine
    BY <2>1, Zenon DEF IntactInv, IntactOf, Resolving
  <2>4. \A g \in Handler : IntactOf(g)'
    BY <2>1, <2>2, <2>3, ZenonT(60) DEF IntactInv, IntactOf, Resolving
  <2> QED
    BY <1>0, <2>1, <2>2, <2>4, Zenon DEF IntactInv, IntactOnly
<1>3. ASSUME NEW h \in Handler, CacheHit(h) \/ Fetch(h) \/ Store(h) PROVE IntactInv'
  <2>1. /\ UNCHANGED <<nonce, accepted, msg, intact>>
        /\ \A g \in Handler : g # h => pc'[g] = pc[g] /\ (g \in genuine' => g \in genuine)
        /\ \/ pc'[h] \in {"verify", "fetched"} /\ pc[h] # "bind" /\ genuine' = genuine
           \/ pc'[h] = "idle" /\ h \notin genuine'
    <3>1. CASE CacheHit(h) \/ Store(h)
      BY <1>0, <3>1, ZenonT(60) DEF VerificationTypeOK, CacheHit, Store
    <3>2. CASE Fetch(h)
      BY <1>0, <3>2, ZenonT(60) DEF VerificationTypeOK, Fetch, Leave
    <3> QED
      BY <1>3, <3>1, <3>2, Zenon
  <2> QED
    BY <1>0, <2>1, ZenonT(60) DEF IntactInv, IntactOf, IntactOnly, Resolving
<1>4. ASSUME NEW h \in Handler, Verify(h) PROVE IntactInv'
  <2>1. /\ UNCHANGED <<accepted, msg, intact>> /\ genuine' = genuine \ {h}
        /\ \A g \in Handler : g # h => pc'[g] = pc[g]
    BY <1>0, <1>4, ZenonT(60) DEF VerificationTypeOK, Verify, Leave
  <2>2. h \in genuine \/ (UNCHANGED nonce /\ pc'[h] = "idle")
    BY <1>0, <1>4, ZenonT(60) DEF VerificationTypeOK, Verify, Leave, SignatureValid
  <2>3. UNCHANGED nonce \/ nonce' = [nonce EXCEPT ![msg[h]] = NonceExpiry(msg[h])]
    BY <1>4, Zenon DEF Verify
  <2>4. \A m \in Message : m # msg[h] => nonce'[m] = nonce[m]
    BY <1>0, <2>3, Zenon DEF VerificationTypeOK
  <2>5. h \in genuine => msg[h] \in intact
    BY Zenon DEF IntactInv, IntactOf
  <2>6. IntactOnly'
    BY <2>1, <2>2, <2>4, <2>5, ZenonT(60) DEF IntactInv, IntactOnly
  <2>7. \A g \in Handler : IntactOf(g)'
    BY <2>1, <2>2, <2>5, ZenonT(60) DEF IntactInv, IntactOf
  <2> QED
    BY <1>0, <2>6, <2>7, Zenon DEF IntactInv
<1>5. ASSUME NEW h \in Handler, Bind(h) PROVE IntactInv'
  <2>1. /\ UNCHANGED <<nonce, msg, intact>> /\ genuine' = genuine \ {h} /\ pc'[h] = "idle"
        /\ \A g \in Handler : g # h => pc'[g] = pc[g]
        /\ \A m \in Message : m # msg[h] => accepted'[m] = accepted[m]
    BY <1>0, <1>5, ZenonT(60) DEF VerificationTypeOK, Bind, Leave
  <2>2. msg[h] \in intact
    BY <1>5, Zenon DEF Bind, IntactInv, IntactOf
  <2> QED
    BY <1>0, <2>1, <2>2, ZenonT(60) DEF IntactInv, IntactOf, IntactOnly
<1> QED
  BY <1>1, <1>2, <1>3, <1>4, <1>5, Zenon DEF VerificationNext

\* Damaged copies alone neither get a request accepted nor use up its nonce:
\* VerifyPOST reserves the nonce only after the signature and the digest of the
\* body have both succeeded.
THEOREM NoncesEarned == VerificationSpec => []IntactOnly
<1>1. VerificationInit => IntactInv
  <2>1. VerificationInit => VerificationTypeOK
    BY InitInv, Zenon DEF VerificationInv
  <2>2. VerificationInit => IntactOnly /\ \A h \in Handler : IntactOf(h)
    BY DEF VerificationInit, IntactOnly, IntactOf
  <2> QED
    BY <2>1, <2>2, Zenon DEF IntactInv
<1>2. IntactInv => IntactOnly
  BY Zenon DEF IntactInv
<1> QED
  BY <1>1, <1>2, IntactStep, PTL DEF VerificationSpec

-----------------------------------------------------------------------------
(* Replaced keys                                                           *)

\* A key that was replaced was got before that, or from a document that expires
\* soon after.
CacheOf(r) ==
    r \in held =>
        /\ cached[r] <= key
        /\ expires[r] <= clock + CacheTTL
        /\ cached[r] # key => expires[r] <= replaced[cached[r]] + CacheTTL + MaxResolve
GotOf(h) ==
    /\ pc[h] \in {"fetched", "verify"} => got[h] <= key
    /\ (pc[h] = "fetched" /\ got[h] # key) => readAt[h] <= replaced[got[h]]
    /\ (pc[h] = "verify" /\ got[h] # key) =>
          readAt[h] <= replaced[got[h]] + CacheTTL + MaxResolve
KeyInv == (\A r \in Replica : CacheOf(r)) /\ (\A h \in Handler : GotOf(h))

KeysInv == VerificationTypeOK /\ TimeInv /\ KeyInv

-----------------------------------------------------------------------------
\* The ages that add up.
LEMMA KeyAges ==
    /\ \A x, k \in Nat : k <= x => k <= x + CacheTTL + MaxResolve
    /\ \A x, k, c \in Nat : k <= x /\ c <= k + MaxResolve => c + CacheTTL <= x + CacheTTL + MaxResolve
  BY VerificationAssumption

\* Every step keeps what is known of the age of keys.
LEMMA KeyStep ==
    VerificationTypeOK /\ TimeInv /\ KeyInv /\ [VerificationNext]_verificationVars => KeyInv'
<1> USE VerificationAssumption
<1> SUFFICES ASSUME VerificationTypeOK, TimeInv, KeyInv, [VerificationNext]_verificationVars,
                    NEW g, NEW r
             PROVE  (r \in Replica => CacheOf(r)') /\ (g \in Handler => GotOf(g)')
  BY Zenon DEF KeyInv
<1>0. (r \in Replica => CacheOf(r)) /\ (g \in Handler => GotOf(g) /\ TimeOf(g))
  BY Zenon DEF KeyInv, TimeInv
<1>00. /\ clock \in Nat /\ key \in 0 .. MaxKeys /\ replaced \in [0 .. MaxKeys -> Nat]
       /\ r \in Replica => cached[r] \in 0 .. MaxKeys /\ expires[r] \in Nat
       /\ g \in Handler => got[g] \in 0 .. MaxKeys /\ readAt[g] \in Nat
  BY Zenon DEF VerificationTypeOK
<1>n. /\ key \in Nat /\ \A c \in 0 .. MaxKeys : c \in Nat
      /\ \A c \in Nat : c <= key => c # key + 1 /\ c <= key + 1
  BY <1>00
<1>1. CASE Tick
  <2>1. /\ clock' = clock + 1
        /\ UNCHANGED <<key, replaced, held, cached, expires, pc, got, readAt>>
    BY <1>1, Zenon DEF Tick, cache, handler
  <2>2. \A e \in Nat : e <= clock + CacheTTL => e <= (clock + 1) + CacheTTL
    BY <1>00
  <2>3. QED
    BY <1>0, <1>00, <2>1, <2>2, Zenon DEF CacheOf, GotOf
<1>2. CASE ReplaceKey
  <2>1. /\ key' = key + 1 /\ replaced' = [replaced EXCEPT ![key] = clock]
        /\ UNCHANGED <<clock, held, cached, expires, pc, got, readAt>>
    BY <1>2, Zenon DEF ReplaceKey, cache, handler
  <2>2. r \in Replica => CacheOf(r)'
    <3> SUFFICES ASSUME r \in Replica, r \in held PROVE CacheOf(r)'
      BY <2>1, Zenon DEF CacheOf
    <3>1. /\ cached[r] \in 0 .. MaxKeys /\ expires[r] \in Nat /\ replaced[cached[r]] \in Nat
          /\ cached[r] <= key /\ expires[r] <= clock + CacheTTL
          /\ cached[r] # key => expires[r] <= replaced[cached[r]] + CacheTTL + MaxResolve
      BY <1>0, <1>00, Zenon DEF CacheOf
    <3>2. replaced'[cached[r]] = IF cached[r] = key THEN clock ELSE replaced[cached[r]]
      BY <1>00, <2>1, <3>1, Zenon
    <3>3. cached[r] # key + 1 /\ cached[r] <= key + 1
      BY <1>n, <3>1, Zenon
    <3>4. expires[r] <= replaced'[cached[r]] + CacheTTL + MaxResolve
      <4>1. \A e \in Nat : e <= clock + CacheTTL => e <= clock + CacheTTL + MaxResolve
        BY <1>00
      <4>2. QED
        BY <3>1, <3>2, <4>1, Zenon
    <3> QED
      BY <2>1, <3>1, <3>3, <3>4, Zenon DEF CacheOf
  <2>3. g \in Handler => GotOf(g)'
    <3> SUFFICES ASSUME g \in Handler, pc[g] \in {"fetched", "verify"} PROVE GotOf(g)'
      BY <2>1, Zenon DEF GotOf
    <3>1. /\ got[g] \in 0 .. MaxKeys /\ readAt[g] \in Nat /\ replaced[got[g]] \in Nat /\ got[g] <= key
          /\ GotOf(g) /\ TimeOf(g)
      BY <1>0, <1>00, Zenon DEF GotOf
    <3>2. replaced'[got[g]] = IF got[g] = key THEN clock ELSE replaced[got[g]]
      BY <1>00, <2>1, <3>1, Zenon
    <3>3. got[g] # key + 1 /\ got[g] <= key + 1
      BY <1>n, <3>1, Zenon
    <3>4. readAt[g] <= clock /\ readAt[g] <= clock + CacheTTL + MaxResolve
      BY <1>00, <3>1, SMTT(30) DEF TimeOf, Resolving
    <3>5. QED
      BY <2>1, <3>1, <3>2, <3>3, <3>4, Zenon DEF GotOf
  <2> QED
    BY <2>2, <2>3, Zenon
<1>3. CASE (\E m \in Message : Send(m)) \/ UNCHANGED verificationVars
  <2>1. UNCHANGED <<clock, key, replaced, held, cached, expires, pc, got, readAt>>
    BY <1>3, Zenon DEF Send, verificationVars, cache, handler
  <2> QED
    BY <1>0, <2>1, Zenon DEF CacheOf, GotOf
<1>4. ASSUME NEW h \in Handler, \/ \E m \in Message : Receive(h, m)
                                \/ Fetch(h) \/ Verify(h) \/ Bind(h)
      PROVE  (r \in Replica => CacheOf(r)') /\ (g \in Handler => GotOf(g)')
  <2>1. UNCHANGED <<clock, key, replaced, held, cached, expires>>
    BY <1>4, Zenon DEF Receive, Fetch, Verify, Bind, cache
  <2>2. (g \in Handler /\ g # h) => pc'[g] = pc[g] /\ got'[g] = got[g] /\ readAt'[g] = readAt[g]
    BY <1>4, Zenon DEF VerificationTypeOK, Receive, Fetch, Verify, Bind, Leave
  <2>3. g = h => pc'[g] \notin {"fetched", "verify"} \/ (pc'[g] = "fetched" /\ got'[g] = key)
    BY <1>4, ZenonT(60) DEF VerificationTypeOK, Receive, Fetch, Verify, Bind, Leave
  <2> QED
    <3>1. r \in Replica => CacheOf(r)'
      BY <1>0, <2>1, Zenon DEF CacheOf
    <3>2. (g \in Handler /\ g # h) => GotOf(g)'
      BY <1>0, <2>1, <2>2, Zenon DEF GotOf
    <3>4. key <= key
      BY <1>00
    <3>3. g = h => GotOf(g)'
      BY <2>1, <2>3, <3>4, Zenon DEF GotOf
    <3> QED
      BY <3>1, <3>2, <3>3, Zenon
<1>5. ASSUME NEW h \in Handler, CacheHit(h) PROVE (r \in Replica => CacheOf(r)') /\ (g \in Handler => GotOf(g)')
  <2>1. /\ UNCHANGED <<clock, key, replaced, held, cached, expires, readAt>>
        /\ pc[h] = "resolve" /\ Cached(Home[h]) /\ Home[h] \in Replica
        /\ pc' = [pc EXCEPT ![h] = "verify"] /\ got' = [got EXCEPT ![h] = cached[Home[h]]]
    BY <1>5, Zenon DEF CacheHit, cache
  <2>2. CacheOf(Home[h])
    BY <2>1, Zenon DEF KeyInv
  <2>3. CASE g = h
    <3>1. pc'[g] = "verify" /\ got'[g] = cached[Home[h]] /\ readAt[g] <= clock
      BY <1>0, <2>1, <2>3, Zenon DEF VerificationTypeOK, TimeOf, Resolving
    <3>2. cached[Home[h]] \in 0 .. MaxKeys /\ expires[Home[h]] \in Nat
      BY <2>1, Zenon DEF VerificationTypeOK
    <3>3. cached[Home[h]] # key => readAt[g] <= replaced[cached[Home[h]]] + CacheTTL + MaxResolve
      <4>1. cached[Home[h]] # key =>
                clock <= replaced[cached[Home[h]]] + CacheTTL + MaxResolve
        BY <1>00, <2>1, <2>2, <3>2, SMTT(30) DEF CacheOf, Cached
      <4>2. replaced[cached[Home[h]]] \in Nat /\ readAt[g] \in Nat
        BY <1>00, <2>3, <3>2, Zenon
      <4>3. \A x, c, k \in Nat : (k <= c /\ c <= x + CacheTTL + MaxResolve)
                => k <= x + CacheTTL + MaxResolve
        OBVIOUS
      <4> QED
        BY <1>00, <3>1, <4>1, <4>2, <4>3, ZenonT(60)
    <3>4. GotOf(g)'
      BY <2>1, <2>2, <3>1, <3>3, Zenon DEF CacheOf, GotOf, Cached
    <3> QED
      BY <1>0, <2>1, <3>4, Zenon DEF CacheOf
  <2>4. CASE g # h
    BY <1>0, <2>1, <2>4, Zenon DEF VerificationTypeOK, CacheOf, GotOf
  <2> QED
    BY <2>3, <2>4, Zenon
<1>6. ASSUME NEW h \in Handler, Store(h) PROVE (r \in Replica => CacheOf(r)') /\ (g \in Handler => GotOf(g)')
  <2>1. /\ UNCHANGED <<clock, key, replaced, got, readAt>> /\ pc[h] = "fetched"
        /\ pc' = [pc EXCEPT ![h] = "verify"] /\ held' = held \cup {Home[h]}
        /\ cached' = [cached EXCEPT ![Home[h]] = got[h]]
        /\ expires' = [expires EXCEPT ![Home[h]] = clock + CacheTTL]
    BY <1>6, Zenon DEF Store
  <2>2. GotOf(h) /\ TimeOf(h) /\ got[h] \in 0 .. MaxKeys /\ readAt[h] \in Nat
    BY Zenon DEF VerificationTypeOK, KeyInv, TimeInv
  <2>3. g \in Handler => GotOf(g)'
    <3> SUFFICES ASSUME g \in Handler PROVE GotOf(g)'
      OBVIOUS
    <3>1. CASE g = h
      <4>1. pc'[g] = "verify" /\ replaced[got[g]] \in Nat
        BY <1>00, <2>1, <3>1, Zenon DEF VerificationTypeOK
      <4> QED
        BY <1>0, <1>00, <2>1, <3>1, <4>1, KeyAges, Zenon DEF GotOf
    <3>2. CASE g # h
      BY <1>0, <2>1, <3>2, Zenon DEF VerificationTypeOK, GotOf
    <3> QED
      BY <3>1, <3>2, Zenon
  <2>4. CASE r = Home[h]
    <3>1. cached'[r] = got[h] /\ expires'[r] = clock + CacheTTL
      BY <2>1, <2>4, Zenon DEF VerificationTypeOK
    <3>2. r \in Replica => CacheOf(r)'
      <4>1. /\ got[h] <= key /\ clock <= readAt[h] + MaxResolve
            /\ got[h] # key => readAt[h] <= replaced[got[h]]
        BY <2>1, <2>2, Zenon DEF GotOf, TimeOf, Resolving
      <4>2. replaced[got[h]] \in Nat
        BY <1>00, <2>2, Zenon
      <4>3. got[h] # key => clock + CacheTTL <= replaced[got[h]] + CacheTTL + MaxResolve
        BY <1>00, <2>2, <4>1, <4>2, KeyAges, ZenonT(60)
      <4>4. clock + CacheTTL <= clock + CacheTTL
        BY <1>00
      <4> QED
        BY <2>1, <3>1, <4>1, <4>3, <4>4, Zenon DEF CacheOf
    <3> QED
      BY <2>3, <3>2, Zenon
  <2>5. CASE r # Home[h]
    BY <1>0, <2>1, <2>3, <2>5, Zenon DEF VerificationTypeOK, CacheOf
  <2> QED
    BY <2>4, <2>5, Zenon
<1> QED
  BY <1>1, <1>2, <1>3, <1>4, <1>5, <1>6, Zenon DEF VerificationNext

-----------------------------------------------------------------------------
\* The invariant holds in every reachable state.
THEOREM KeysInvariant == VerificationSpec => []KeysInv
<1>1. VerificationInit => KeysInv
  <2>1. VerificationInit => KeyInv
    BY Zenon DEF VerificationInit, KeyInv, CacheOf, GotOf
  <2> QED
    BY <2>1, InitInv, Zenon DEF VerificationInv, KeysInv
<1>2. KeysInv /\ [VerificationNext]_verificationVars => KeysInv'
  BY TypeStep, TimeStep, KeyStep, ZenonT(60) DEF KeysInv
<1> QED
  BY <1>1, <1>2, PTL DEF VerificationSpec

\* A replaced key is used no longer than a cached document lives and two lookups
\* take.
THEOREM KeysReplaced == VerificationSpec => []KeysCatchUp
<1>1. KeysInv => KeysCatchUp
  <2> SUFFICES ASSUME KeysInv, NEW h \in Handler, pc[h] = "verify", got[h] # key
               PROVE  clock <= replaced[got[h]] + CacheTTL + 2 * MaxResolve
    BY Zenon DEF KeysCatchUp
  <2>1. GotOf(h) /\ TimeOf(h)
    BY Zenon DEF KeysInv, KeyInv, TimeInv
  <2>2. clock \in Nat /\ replaced[got[h]] \in Nat /\ readAt[h] \in Nat
    BY Zenon DEF KeysInv, VerificationTypeOK
  <2> QED
    BY VerificationAssumption, <2>1, <2>2 DEF GotOf, TimeOf, Resolving
<1> QED
  BY KeysInvariant, <1>1, PTL


==============================================================================

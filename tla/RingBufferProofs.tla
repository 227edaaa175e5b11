--------------------------- MODULE RingBufferProofs ---------------------------
(***************************************************************************)
(* For every capacity, 0 included, and every set of events and layers: the *)
(* ring is well typed, is filled front to back, and implements the bounded *)
(* log.  TypeOK alone does not give the refinement: a ring that is not yet *)
(* full shows a new event in the right place only because write_ptr = size *)
(* there (FillsFrontToBack), so the two together are the invariant used.   *)
(***************************************************************************)
EXTENDS RingBuffer, SequenceTheorems, TLAPS

RingInv == TypeOK /\ FillsFrontToBack

\* The constructor's guard: there is always a slot to write to.
LEMMA CapacityPositive == capacity \in Nat \ {0}
  BY CapacityAssumption DEF capacity

\* What a slot index modulo the capacity is, for the sums that occur.
LEMMA Modulo ==
  ASSUME NEW b \in Nat \ {0}, NEW a \in 0 .. 2 * b - 1
  PROVE  /\ a % b \in 0 .. b - 1
         /\ a < b => a % b = a
         /\ a >= b => a % b = a - b
  OBVIOUS

\* The same for the sums reduced modulo the capacity.
LEMMA Wrap ==
  ASSUME NEW a \in 0 .. 2 * capacity - 1
  PROVE  a % capacity = IF a < capacity THEN a ELSE a - capacity
<1>1. PICK b \in Nat \ {0} : b = capacity
  BY CapacityPositive
<1>2. a \in 0 .. 2 * b - 1
  BY <1>1
<1>3. (a < b => a % b = a) /\ (a >= b => a % b = a - b)
  BY <1>2, Modulo
<1> QED  BY <1>1, <1>2, <1>3

\* Every member function keeps the ring well typed and filled front to back.
LEMMA RingInvInductive == RingInv /\ [Next]_vars => RingInv'
<1> USE CapacityPositive DEF RingInv, TypeOK, FillsFrontToBack, Slots
<1> SUFFICES ASSUME RingInv, [Next]_vars PROVE RingInv'
  OBVIOUS
<1>1. ASSUME NEW e \in Events, Push(e) PROVE RingInv'
  <2>1. /\ write_ptr' \in Slots
        /\ write_ptr + 1 < capacity => write_ptr' = write_ptr + 1
        /\ write_ptr + 1 = capacity => write_ptr' = 0
    <3>1. write_ptr + 1 \in 0 .. 2 * capacity - 1
      OBVIOUS
    <3> HIDE DEF RingInv, TypeOK, FillsFrontToBack
    <3> QED  BY <1>1, <3>1, Modulo DEF Push
  <2>2. size' \in 0 .. capacity /\ (size' < capacity => write_ptr' = size')
    BY <1>1, <2>1 DEF Push
  <2>3. buffer' \in [Slots -> Events \cup {Blank}]
    BY <1>1 DEF Push
  <2>4. latest_attn' = latest_attn
    BY <1>1 DEF Push
  <2> QED  BY <2>1, <2>2, <2>3, <2>4
<1>2. ASSUME NEW l \in Layers, NEW m \in Matrices, PushAttention(l, m)
      PROVE  RingInv'
  BY <1>2 DEF PushAttention
<1>3. CASE Clear
  BY <1>3 DEF Clear
<1>4. CASE UNCHANGED vars
  BY <1>4 DEF vars
<1> QED  BY <1>1, <1>2, <1>3, <1>4 DEF Next

\* The ring's invariant holds in every state.
LEMMA RingInvHolds == Spec => []RingInv
<1>1. Init => RingInv
  BY CapacityPositive
     DEF Init, RingInv, TypeOK, FillsFrontToBack, Slots
<1> QED  BY <1>1, RingInvInductive, PTL DEF Spec

\* Type correctness: write_ptr never leaves the vector and size never exceeds
\* its capacity.
THEOREM RingTypeCorrect == Spec => []TypeOK
  BY RingInvHolds, PTL DEF RingInv

\* The comment at ring_buffer.cpp:23 holds in every reachable state.
THEOREM RingFillsFrontToBack == Spec => []FillsFrontToBack
  BY RingInvHolds, PTL DEF RingInv

-----------------------------------------------------------------------------
(* The refinement. *)

\* get_all() returns a sequence of size events.
LEMMA GetAllIsSeq ==
  ASSUME RingInv
  PROVE  /\ GetAll \in Seq(Events \cup {Blank})
         /\ Len(GetAll) = size
<1> USE CapacityPositive DEF RingInv, TypeOK, Slots
<1>1. Start \in Slots
  BY DEF Start
<1>2. ASSUME NEW i \in 1 .. size
      PROVE  buffer[(Start + i - 1) % capacity] \in Events \cup {Blank}
  <2>1. Start + i - 1 \in 0 .. 2 * capacity - 1
    BY <1>1
  <2> QED  BY <2>1, Modulo
<1> QED  BY <1>2 DEF GetAll

\* One push shows in get_all() as one event recorded by the log.
LEMMA PushRecords ==
  ASSUME RingInv, NEW e \in Events, Push(e)
  PROVE  GetAll' = Log!LastN(Append(GetAll, e), capacity)
<1> USE CapacityPositive
<1> DEFINE old == GetAll
           more == Append(GetAll, e)
           n == IF size < capacity THEN size + 1 ELSE capacity
<1>1. /\ old \in Seq(Events \cup {Blank})
      /\ Len(old) = size
      /\ more \in Seq(Events \cup {Blank})
      /\ Len(more) = size + 1
      /\ \A i \in 1 .. size : more[i] = old[i]
      /\ more[size + 1] = e
  BY GetAllIsSeq
<1> HIDE DEF more
<1>2. /\ size \in 0 .. capacity
      /\ write_ptr \in 0 .. capacity - 1
      /\ buffer \in [0 .. capacity - 1 -> Events \cup {Blank}]
      /\ size < capacity => write_ptr = size
  BY DEF RingInv, TypeOK, FillsFrontToBack, Slots
<1>3. /\ size' = n
      /\ write_ptr' = IF write_ptr + 1 < capacity THEN write_ptr + 1 ELSE 0
      /\ buffer' = [buffer EXCEPT ![write_ptr] = e]
  <2>1. write_ptr + 1 \in 0 .. 2 * capacity - 1
    BY <1>2
  <2>2. (write_ptr + 1) % capacity
          = IF write_ptr + 1 < capacity THEN write_ptr + 1 ELSE 0
    <3>1. write_ptr + 1 >= capacity => (write_ptr + 1) - capacity = 0
      BY <1>2
    <3>2. PICK next \in 0 .. 2 * capacity - 1 : next = write_ptr + 1
      BY <2>1
    <3>3. next % capacity = IF next < capacity THEN next ELSE next - capacity
      BY Wrap
    <3> QED  BY <3>1, <3>2, <3>3
  <2>3. size' = n
    BY <1>2 DEF Push
  <2> QED  BY <2>2, <2>3 DEF Push
<1> HIDE DEF n
<1>4. GetAll' = [i \in 1 .. n |-> buffer'[(Start' + i - 1) % capacity]]
  BY <1>3 DEF GetAll
<1>5. CASE size < capacity
  <2>1. Start = 0 /\ Start' = 0
    BY <1>2, <1>3, <1>5 DEF Start, n
  <2>2. ASSUME NEW i \in 1 .. size + 1
        PROVE  buffer'[(Start' + i - 1) % capacity] = more[i]
    <3>1. i - 1 \in 0 .. capacity - 1 /\ (i - 1) % capacity = i - 1
      <4>1. i - 1 \in 0 .. capacity - 1 /\ i - 1 \in 0 .. 2 * capacity - 1
        BY <1>2, <1>5
      <4> QED  BY <4>1, Wrap
    <3>2. CASE i = size + 1
      BY <1>1, <1>2, <1>3, <1>5, <2>1, <3>1, <3>2
    <3>3. CASE i # size + 1
      <4>1. i \in 1 .. size
        BY <1>2, <3>3
      <4>2. more[i] = buffer[i - 1]
        <5>1. old[i] = buffer[(Start + i - 1) % capacity]
          BY <4>1 DEF GetAll
        <5>2. Start + i - 1 = i - 1
          BY <2>1, <4>1
        <5> QED  BY <1>1, <3>1, <4>1, <5>1, <5>2
      <4> QED  BY <1>2, <1>3, <1>5, <2>1, <3>1, <4>1, <4>2
    <3> QED  BY <3>2, <3>3
  <2>3. GetAll' = [i \in 1 .. Len(more) |-> more[i]]
    <3>1. n = Len(more) /\ Len(more) = size + 1
      BY <1>1, <1>5 DEF n
    <3> QED  BY <1>4, <2>2, <3>1
  <2>4. GetAll' = more
    <3>1. more = [i \in 1 .. Len(more) |-> more[i]]
      BY <1>1
    <3> QED  BY <2>3, <3>1
  <2> QED  BY <1>1, <1>2, <1>5, <2>4 DEF Log!LastN
<1>6. CASE size = capacity
  <2> DEFINE w == write_ptr
  <2>1. Start = w /\ Start' = write_ptr'
    BY <1>2, <1>3, <1>6 DEF Start, n
  <2>2. Log!LastN(more, capacity) = SubSeq(more, 2, capacity + 1)
    <3>1. /\ Len(more) = capacity + 1
          /\ ~(Len(more) <= capacity)
          /\ Len(more) - capacity + 1 = 2
      BY <1>1, <1>6
    <3> QED  BY <3>1 DEF Log!LastN
  <2>3. SubSeq(more, 2, capacity + 1) = [i \in 1 .. capacity |-> more[i + 1]]
    BY <1>1, <1>6
  <2>4. ASSUME NEW i \in 1 .. capacity
        PROVE  buffer'[(Start' + i - 1) % capacity] = more[i + 1]
    <3>1. /\ w + i \in 0 .. 2 * capacity - 1
          /\ Start' + i - 1 \in 0 .. 2 * capacity - 1
      BY <1>2, <1>3, <2>1
    <3>2. (Start' + i - 1) % capacity = (w + i) % capacity
      <4>1. CASE w + 1 < capacity
        BY <1>2, <1>3, <2>1, <4>1
      <4>2. CASE w + 1 = capacity
        <5>1. Start' + i - 1 = i - 1 /\ w + i = capacity + (i - 1)
          BY <1>2, <1>3, <2>1, <4>2
        <5> QED  BY <3>1, <5>1, Wrap
      <4> QED  BY <1>2, <4>1, <4>2
    <3>3. CASE i = capacity
      <4>1. (w + i) % capacity = w
        BY <1>2, <3>1, <3>3, Wrap
      <4> QED  BY <1>1, <1>2, <1>3, <1>6, <3>2, <3>3, <4>1
    <3>4. CASE i # capacity
      <4>1. (w + i) % capacity # w /\ (w + i) % capacity \in 0 .. capacity - 1
        <5>1. (w + i) % capacity
                = IF w + i < capacity THEN w + i ELSE (w + i) - capacity
          BY <3>1, Wrap
        <5> HIDE DEF w
        <5>2. w \in 0 .. capacity - 1
          BY <1>2 DEF w
        <5> QED  BY <3>1, <3>4, <5>1, <5>2
      <4>2. more[i + 1] = buffer[(w + i) % capacity]
        <5>1. i + 1 \in 1 .. size
          BY <1>6, <3>4
        <5>2. old[i + 1] = buffer[(Start + (i + 1) - 1) % capacity]
          BY <5>1 DEF GetAll
        <5>3. Start + (i + 1) - 1 = w + i
          BY <1>2, <2>1
        <5> QED  BY <1>1, <5>1, <5>2, <5>3
      <4> QED  BY <1>2, <1>3, <3>2, <4>1, <4>2
    <3> QED  BY <3>3, <3>4
  <2>5. GetAll' = [i \in 1 .. capacity |-> more[i + 1]]
    <3>1. n = capacity
      BY <1>6 DEF n
    <3> QED  BY <1>4, <2>4, <3>1
  <2>6. GetAll' = Log!LastN(more, capacity)
    BY <2>2, <2>3, <2>5
  <2> QED  BY <2>6 DEF more
<1>7. size < capacity \/ size = capacity
  BY <1>2
<1> QED  BY <1>5, <1>6, <1>7

\* What get_all() returns depends on the slots, write_ptr and size alone.
LEMMA OthersKeepGetAll ==
  ASSUME UNCHANGED <<buffer, write_ptr, size>>
  PROVE  GetAll' = GetAll
  BY DEF GetAll, Start

\* An empty ring shows nothing, whatever its slots still hold.
LEMMA EmptyShowsNothing ==
  /\ size = 0 => GetAll = <<>>
  /\ size' = 0 => GetAll' = <<>>
<1>1. ASSUME size = 0 PROVE GetAll = <<>>
  <2>1. GetAll = [i \in 1 .. 0 |-> buffer[(Start + i - 1) % capacity]]
    BY <1>1 DEF GetAll
  <2> QED  BY <2>1
<1>2. ASSUME size' = 0 PROVE GetAll' = <<>>
  <2>1. GetAll' = [i \in 1 .. 0 |-> buffer'[(Start' + i - 1) % capacity]]
    BY <1>2 DEF GetAll
  <2> QED  BY <2>1
<1> QED  BY <1>1, <1>2

\* Every step of the ring is a step of the bounded log.
LEMMA RingStepSimulation == RingInv /\ [Next]_vars => [Log!Next]_(Log!logVars)
<1> SUFFICES ASSUME RingInv, [Next]_vars PROVE [Log!Next]_(Log!logVars)
  OBVIOUS
<1>1. ASSUME NEW e \in Events, Push(e) PROVE Log!Next
  BY <1>1, PushRecords DEF Push, Log!Record, Log!Next
<1>2. ASSUME NEW l \in Layers, NEW m \in Matrices, PushAttention(l, m)
      PROVE  Log!Next
  BY <1>2, OthersKeepGetAll DEF PushAttention, Log!Replace, Log!Next
<1>3. CASE Clear
  BY <1>3, EmptyShowsNothing DEF Clear, Log!Forget, Log!Next
<1>4. CASE UNCHANGED vars
  BY <1>4, OthersKeepGetAll DEF vars, Log!logVars
<1> QED  BY <1>1, <1>2, <1>3, <1>4 DEF Next

\* The ring implements the bounded log: get_all() is at every moment the most
\* recent events pushed since the last clear(), oldest first, at most capacity
\* of them, and latest_attention() the last matrix of each layer.
THEOREM RingImplementsLog == Spec => ImplementsBoundedLog
<1>1. Init => Log!Init
  BY EmptyShowsNothing DEF Init, Log!Init
<1> QED
  BY <1>1, RingInvHolds, RingStepSimulation, PTL
     DEF Spec, ImplementsBoundedLog, Log!Spec
=============================================================================

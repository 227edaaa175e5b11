------------------------------ MODULE RingBuffer ------------------------------
(***************************************************************************)
(* RingBuffer of src/storage/ring_buffer.cpp: a vector of capacity_ slots  *)
(* written round-robin, and a map from layer name to the latest attention  *)
(* matrix.  Every member function holds mutex_ from its first line to its  *)
(* last, so each of them is one atomic action.                             *)
(***************************************************************************)
EXTENDS Integers, Sequences

CONSTANTS
  Capacity,     \* the constructor's argument, 0 included
  Events,       \* every event that is not an attention matrix
  Blank,        \* a default-constructed TelemetryEvent
  Layers,       \* names of the layers that send attention matrices
  Matrices,     \* the attention payloads
  NoAttention   \* std::nullopt: the layer is not in latest_attn_

ASSUME CapacityAssumption == Capacity \in Nat

VARIABLES
  buffer,       \* the slots, numbered from 0
  write_ptr,    \* the slot the next event goes to
  size,         \* how many slots hold an event
  latest_attn   \* the latest matrix of each layer

vars == <<buffer, write_ptr, size, latest_attn>>

\* The constructor turns a capacity of 0 into 1.
capacity == IF Capacity = 0 THEN 1 ELSE Capacity

Slots == 0 .. capacity - 1

TypeOK ==
  /\ buffer \in [Slots -> Events \cup {Blank}]
  /\ write_ptr \in Slots
  /\ size \in 0 .. capacity
  /\ latest_attn \in [Layers -> Matrices \cup {NoAttention}]

Init ==
  /\ buffer = [i \in Slots |-> Blank]
  /\ write_ptr = 0
  /\ size = 0
  /\ latest_attn = [l \in Layers |-> NoAttention]

-----------------------------------------------------------------------------
(* The member functions that change state.                                 *)

\* push() of an attention_weights event: the ring is not touched.
PushAttention(l, m) ==
  /\ latest_attn' = [latest_attn EXCEPT ![l] = m]
  /\ UNCHANGED <<buffer, write_ptr, size>>

\* push() that forgets to wrap at the last slot and stays there instead.
PushStuckAtEnd(e) ==
  /\ buffer' = [buffer EXCEPT ![write_ptr] = e]
  /\ write_ptr' = IF write_ptr + 1 < capacity THEN write_ptr + 1 ELSE write_ptr
  /\ size' = IF size < capacity THEN size + 1 ELSE size
  /\ UNCHANGED latest_attn

\* push() that counts an event even when it overwrote another one.
PushUncapped(e) ==
  /\ buffer' = [buffer EXCEPT ![write_ptr] = e]
  /\ write_ptr' = (write_ptr + 1) % capacity
  /\ size' = size + 1
  /\ UNCHANGED latest_attn

\* push() of any other event: overwrite the slot at write_ptr and advance.
Push(e) ==
  /\ buffer' = [buffer EXCEPT ![write_ptr] = e]
  /\ write_ptr' = (write_ptr + 1) % capacity
  /\ size' = IF size < capacity THEN size + 1 ELSE size
  /\ UNCHANGED latest_attn

\* clear() that forgets the write position.
ClearKeepPtr ==
  /\ size' = 0
  /\ latest_attn' = [l \in Layers |-> NoAttention]
  /\ UNCHANGED <<buffer, write_ptr>>

\* clear(): the slots keep their old contents, which must not resurface.
Clear ==
  /\ write_ptr' = 0
  /\ size' = 0
  /\ latest_attn' = [l \in Layers |-> NoAttention]
  /\ UNCHANGED buffer

Next ==
  \/ \E e \in Events : Push(e)
  \/ \E l \in Layers, m \in Matrices : PushAttention(l, m)
  \/ Clear

Spec == Init /\ [][Next]_vars

-----------------------------------------------------------------------------
(* The member functions that only read.                                    *)

\* Where get_all() starts: the oldest event is at write_ptr once the ring is
\* full, in slot 0 before that.
Start == IF size = capacity THEN write_ptr ELSE 0

\* The events get_all() returns, in the order it returns them.  The attention
\* events it appends after them are those of latest_attn, in no fixed order.
GetAll == [i \in 1 .. size |-> buffer[(Start + i - 1) % capacity]]

\* Until the ring is full it is filled front to back, [0, size) in order, and the
\* next free slot is slot size: what get_all() relies on when it reads a ring
\* that is not full from slot 0 (ring_buffer.cpp:23).
FillsFrontToBack == size < capacity => write_ptr = size

\* The ring shows exactly what the bounded log does: after any series of
\* pushes and clears, get_all() is the most recent capacity events, oldest
\* first (ring_buffer.hpp:25), stale slots never show, and latest_attention()
\* is the last matrix pushed for the layer.
Log == INSTANCE BoundedLog WITH
         Limit <- capacity, log <- GetAll, latest <- latest_attn

ImplementsBoundedLog == Log!Spec
=============================================================================

---------------------------- MODULE MCRingBuffer ----------------------------
(* Values for checking RingBuffer with TLC. *)
EXTENDS RingBuffer, TLC

CONSTANTS e1, e2, e3, m1, m2, l1, l2

MCEvents == {e1, e2, e3}
MCMatrices == {m1, m2}
MCLayers == {l1, l2}
=============================================================================

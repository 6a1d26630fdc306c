--------------------------- MODULE MCRingBuffer ---------------------------
(* A ring of three usable cells and two byte values.                       *)
EXTENDS RingBuffer

MCByte == {0, 1}
=============================================================================

--------------------------- MODULE MCBufferedSerial ---------------------------
(* Rings of two usable cells.                                              *)
EXTENDS BufferedSerial
=============================================================================

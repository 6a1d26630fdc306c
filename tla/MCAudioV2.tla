----------------------------- MODULE MCAudioV2 -----------------------------
(* A buffer with room for one chunk and one with room for two.           *)
EXTENDS AudioV2, TLC

CONSTANTS small, large

MCBuffer == {small, large}
MCRoom == small :> 1 @@ large :> 2
=============================================================================

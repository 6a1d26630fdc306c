------------------------ MODULE MCOTAFirmwareUpdate ------------------------
(* An image that fits, one that does not, and an empty one.              *)
EXTENDS OTAFirmwareUpdate, TLC

CONSTANTS none, fits, large

MCImage == {none, fits, large}
MCSize == none :> 0 @@ fits :> 2 @@ large :> 3
=============================================================================

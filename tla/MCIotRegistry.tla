--------------------------- MODULE MCIotRegistry ---------------------------
(* A device whose id fits the column and one whose id does not.            *)
EXTENDS IotRegistry

CONSTANTS d1, long
============================================================================

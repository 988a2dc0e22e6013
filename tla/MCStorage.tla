----------------------------- MODULE MCStorage -----------------------------
(* One row of an earlier run, so that a memory id can name a row that      *)
(* exists and is another alert's.                                          *)
EXTENDS Storage
=============================================================================

--------------------------- MODULE MCFastExtract ---------------------------
(***************************************************************************)
(* The fast extractor on the e-graphs of GraphFamily.                      *)
(***************************************************************************)
EXTENDS FastExtract, GraphFamily

=============================================================================

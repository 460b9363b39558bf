------------------------- MODULE MCGuruGeneration -------------------------
(***************************************************************************)
(* A small instance of GuruGeneration: request handlers and one scheduler  *)
(* job share a budget that one generation can exhaust.                     *)
(***************************************************************************)
EXTENDS GuruGeneration
=============================================================================

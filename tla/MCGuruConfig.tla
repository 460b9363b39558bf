---------------------------- MODULE MCGuruConfig ----------------------------
(***************************************************************************)
(* A small instance of GuruConfig: the first save and later ones, by two   *)
(* administrators, while two tasks ask for the service.                    *)
(***************************************************************************)
EXTENDS GuruConfig

CONSTANTS P, Q, M, N, K

EnvConfig == [provider |-> P, models |-> M, key |-> Blank]
=============================================================================

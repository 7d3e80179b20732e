--------------------------- MODULE MCModelTraining ---------------------------
(***************************************************************************)
(* Three runs of the seeding command (one plain, two with --reset, two     *)
(* seeds) and a place from which one training after the other runs, with   *)
(* --clean or without.                                                     *)
(***************************************************************************)
EXTENDS ModelTraining, TLC

CONSTANTS s1, s2, s3, A, B, t1

MCJob ==
  s1 :> [seed |-> A, reset |-> FALSE] @@
  s2 :> [seed |-> B, reset |-> TRUE] @@
  s3 :> [seed |-> A, reset |-> TRUE]

=============================================================================

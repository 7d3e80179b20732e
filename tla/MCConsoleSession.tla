-------------------------- MODULE MCConsoleSession --------------------------
(***************************************************************************)
(* Two requests on routes of every kind and one connection: each meets the *)
(* other waiting for it, holding it or giving it back.  One browser sends  *)
(* both: the second after the answer, a timeout or a click elsewhere.      *)
(***************************************************************************)
EXTENDS ConsoleSession

MCEndpoint ==
  {"health", "events", "incident", "metrics", "retrieval", "investigation"}

=============================================================================

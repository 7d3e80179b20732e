-------------------------- MODULE MCPolicyIngestion --------------------------
(***************************************************************************)
(* Two directories.  Of "acme" one file changes and cannot be read, and    *)
(* one comes and goes; "globex" has one file that never changes, for the   *)
(* pruning of one corpus to spare the other, and is ingested under two     *)
(* configurations.  Two processes run any of the jobs, as often as they    *)
(* like.                                                                   *)
(***************************************************************************)
EXTENDS PolicyIngestion, TLC

MCSymmetry == Permutations(Ingestor)

MCCorpusOf == [r \in Root |-> r]
MCKey == {"scope", "rules"}

\* The first version has two sections, the second one.
MCPieces == [v1 |-> <<"scope", "rules">>, v2 |-> <<"rules">>]

\* Two sections of the first version have the same title.
MCRepeatedPieces == [v1 |-> <<"rules", "rules">>, v2 |-> <<"rules">>]

MCContents ==
  [acme |-> <<{"v1", "v2", Unreadable}, {"v2", Absent}>>,
   globex |-> <<{"v2"}, {Absent}>>]

MCJob ==
  {[root |-> "acme", config |-> "650/80", prune |-> TRUE],
   [root |-> "globex", config |-> "650/80", prune |-> FALSE],
   [root |-> "globex", config |-> "300/40", prune |-> FALSE]}

MCTwoConfigurations == {j \in MCJob : j.root = "globex"}

MCOneJob == {[root |-> "acme", config |-> "650/80", prune |-> TRUE]}
=============================================================================

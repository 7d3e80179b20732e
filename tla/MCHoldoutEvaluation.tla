----------------------- MODULE MCHoldoutEvaluation -----------------------
(* A period of two days, the second held out; ticks of five minutes. *)
EXTENDS HoldoutEvaluation

CONSTANTS at, ch   \* countries

MCDay == 288
MCHour == 12
MCBurst == 3
MCStart == 288
MCCutoff == 576
MCEnd == 864

MCScores == {-1, 0, 1}
MCTop == {1, 2}
MCWindows == {<<288, 576>>, <<576, 864>>, <<570, 582>>, <<576, 576>>, <<570, 870>>}

Row(i, t, u, ip, l, c) ==
  [id |-> i, time |-> t, user |-> u, source |-> ip, login |-> l, country |-> c]

\* On both sides of the period's ends, of midnight and of fifteen minutes.
Rows ==
  {Row(1, 287, 1, 1, TRUE, at), Row(2, 288, 2, 1, TRUE, at),
   Row(3, 572, 1, 1, TRUE, at), Row(4, 575, 1, 2, TRUE, ch),
   Row(5, 576, 1, 1, TRUE, at), Row(6, 579, 1, 1, TRUE, ch),
   Row(7, 580, 1, 1, FALSE, NoLand), Row(8, 579, 2, 1, TRUE, at),
   Row(9, 580, NoUser, 1, FALSE, NoLand), Row(10, 581, NoUser, 2, FALSE, NoLand),
   Row(11, 863, 1, 1, TRUE, at), Row(12, 864, 1, 1, TRUE, at)}

MCDatasets == UNION {kSubset(n, Rows) : n \in 2..5}

MCLabellings == {{{5, 6}}, {{4, 9}, {6, 8}}, {{1, 2, 3}, {7, 10}}}

=============================================================================

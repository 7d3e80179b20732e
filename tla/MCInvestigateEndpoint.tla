------------------------ MODULE MCInvestigateEndpoint ------------------------
(***************************************************************************)
(* Requests with no source, one source, two sources in PostgreSQL, policy  *)
(* next to PostgreSQL, three sources, and the last day; one record a kind. *)
(***************************************************************************)
EXTENDS InvestigateEndpoint

Plain == [policy |-> FALSE, event_word |-> FALSE, activity |-> FALSE,
          ml |-> FALSE, ml_only |-> FALSE, users |-> {}, incidents |-> {},
          events |-> {}, times |-> <<>>, dates |-> <<>>]
Suspicious == [Plain EXCEPT !.ml = TRUE, !.users = {"U1"}]

MCRequests ==
  {Plain,
   [Plain EXCEPT !.policy = TRUE],
   [Plain EXCEPT !.policy = TRUE, !.event_word = TRUE, !.users = {"U1"}],
   [Plain EXCEPT !.policy = TRUE, !.incidents = {"INC1"}],
   [Suspicious EXCEPT !.times = <<0, 5>>],
   [Suspicious EXCEPT !.policy = TRUE],
   [Suspicious EXCEPT !.dates = <<6>>]}

MCPlans == {<<>>, <<"analyze_user_anomaly", "search_policy">>}

MCRecords ==
  {[kind |-> "event", source_id |-> "EV1", related_ids |-> {"U1", "INC1"}],
   [kind |-> "incident", source_id |-> "INC1", related_ids |-> {}],
   [kind |-> "policy", source_id |-> "P1", related_ids |-> {}]}

MCObservations == {[source_id |-> "ML1", entity_id |-> "U1", flagged |-> TRUE]}

MCSyntheses ==
  {[mentions |-> {}, summary |-> {}, interpretation |-> {}, write_step |-> FALSE]}
=============================================================================

------------------------ MODULE MCInvestigationGraph ------------------------
(***************************************************************************)
(* The instances of InvestigationGraph that TLC checks: requests that      *)
(* reach every verdict of the router and every set of sources it selects,  *)
(* two events of one user, one incident, one policy chunk, and the two     *)
(* flags of the anomaly model.                                             *)
(***************************************************************************)
EXTENDS InvestigationInvariant

Plain == [policy |-> FALSE, event_word |-> FALSE, activity |-> FALSE,
          ml |-> FALSE, ml_only |-> FALSE, users |-> {}, incidents |-> {},
          events |-> {}, times |-> <<>>, dates |-> <<>>]

Suspicious == [Plain EXCEPT !.ml = TRUE, !.activity = TRUE, !.users = {"U1"}]

MCRequests ==
  {Plain,
   [Plain EXCEPT !.policy = TRUE],
   [Plain EXCEPT !.policy = TRUE, !.incidents = {"INC1"}],
   [Plain EXCEPT !.events = {"EV1"}, !.event_word = TRUE],
   [Plain EXCEPT !.event_word = TRUE, !.users = {"U1"}, !.incidents = {"INC1"}],
   [Plain EXCEPT !.activity = TRUE, !.users = {"U1"}],
   [Plain EXCEPT !.ml = TRUE, !.ml_only = TRUE, !.users = {"U1"}],
   [Plain EXCEPT !.ml = TRUE, !.ml_only = TRUE, !.users = {"U1"}, !.dates = <<3>>],
   Suspicious,
   [Suspicious EXCEPT !.policy = TRUE],
   [Suspicious EXCEPT !.times = <<0, 5>>],
   [Suspicious EXCEPT !.policy = TRUE, !.incidents = {"INC1"}],
   [Suspicious EXCEPT !.users = {"U1", "U2"}],
   [Suspicious EXCEPT !.times = <<4, 4>>],
   [Suspicious EXCEPT !.dates = <<6>>],
   [Suspicious EXCEPT !.times = <<1>>]}

MCPlans ==
  {<<>>, <<"analyze_user_anomaly", "search_policy">>,
   <<"get_event", "search_security_events", "get_incident">>}

MCRecords ==
  {[kind |-> "event", source_id |-> "EV1", related_ids |-> {"U1", "INC1"}],
   [kind |-> "event", source_id |-> "EV2", related_ids |-> {"U1"}],
   [kind |-> "incident", source_id |-> "INC1", related_ids |-> {}],
   [kind |-> "policy", source_id |-> "P1", related_ids |-> {}]}

MCObservations ==
  {[source_id |-> "ML1", entity_id |-> "U1", flagged |-> f] : f \in BOOLEAN}

\* Each field of the prose varied on its own: no claim, one, the pairs two
\* guards of _finalize meet, and all.
Neutral == [mentions |-> {}, summary |-> {}, interpretation |-> {},
            write_step |-> FALSE]
MCSyntheses ==
  {[Neutral EXCEPT !.interpretation = c] :
     c \in {{}, Claims} \cup {{claim} : claim \in Claims}
             \cup {{"anomalous", "violation"}, {"anomalous", "overclaim"},
                   {"violation", "overclaim"}, {"flagged", "not_flagged"},
                   {"inexact_score", "overclaim"}}}
    \cup {[Neutral EXCEPT !.summary = c, !.interpretation = {"overclaim"}] :
            c \in SUBSET {"anomalous", "violation", "overclaim"}}
    \cup {[Neutral EXCEPT !.mentions = m, !.write_step = TRUE] :
            m \in {{"U1"}, {"EV2"}, {"INC1"}, {"U2"}}}
=============================================================================

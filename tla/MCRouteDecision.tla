--------------------------- MODULE MCRouteDecision ---------------------------
(***************************************************************************)
(* Every combination of cues with no, one and two identifiers, and times   *)
(* of every shape: none, one, two in and out of order and equal, three,    *)
(* dates, a date beside a time, an unparsable one, and both ends of the    *)
(* range datetime can represent.                                           *)
(***************************************************************************)
EXTENDS RouteDecision

MCTimes ==
  {<<<<>>, <<>>>>, <<<<3>>, <<>>>>, <<<<1>>, <<>>>>, <<<<NotADate>>, <<>>>>,
   <<<<2, 5>>, <<>>>>, <<<<2, 3>>, <<>>>>, <<<<4, 4>>, <<>>>>, <<<<5, 2>>, <<>>>>,
   <<<<1, 2, 3>>, <<>>>>, <<<<>>, <<3>>>>, <<<<>>, <<6>>>>, <<<<>>, <<2, 4>>>>,
   <<<<3>>, <<3>>>>}

MCRequests ==
  {[policy |-> cue[1], event_word |-> cue[2], activity |-> cue[3],
    ml |-> cue[4] # "no", ml_only |-> cue[4] = "only",
    users |-> u, incidents |-> i, events |-> e, times |-> t[1], dates |-> t[2]] :
     cue \in BOOLEAN \X BOOLEAN \X BOOLEAN \X {"no", "yes", "only"},
     u \in {{}, {"U1"}, {"U1", "U2"}}, i \in {{}, {"INC1"}}, e \in {{}, {"EV1"}},
     t \in MCTimes}

MCPlans ==
  {<<>>, <<"get_incident", "search_policy", "get_user_events">>}
=============================================================================

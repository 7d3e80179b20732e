--------------------------- MODULE ConsoleSession ---------------------------
(***************************************************************************)
(* Browser sessions of the console (frontend/app.py, frontend/client.py)   *)
(* in front of the API.  A session waits for one request at a time, up to  *)
(* a time limit the server knows nothing of; a click meanwhile stops the   *)
(* script that waits, and its result is lost (Streamlit).  Only what the    *)
(* page of the copilot gets from /investigate is kept; the page of the     *)
(* analyses asks the same route and shows its answer once.                 *)
(***************************************************************************)
EXTENDS ApiServer

CONSTANT Session  \* browser sessions

VARIABLES
  waiting,  \* the request a session waits for
  copilot,  \* it was sent by the page of the copilot
  shown,    \* the request whose investigation it displays
  learnt    \* history: the copilot's last request whose outcome its script has met

sessionVars == <<waiting, copilot, shown, learnt>>
allVars == <<vars, sessionVars>>

ConsoleInit ==
  /\ Init
  /\ waiting = [s \in Session |-> None]
  /\ copilot = [s \in Session |-> FALSE]
  /\ shown = [s \in Session |-> None]
  /\ learnt = [s \in Session |-> None]

-----------------------------------------------------------------------------
Wait(s, r, page) ==
  /\ waiting' = [waiting EXCEPT ![s] = r]
  /\ copilot' = [copilot EXCEPT ![s] = page]
Learn(s, r) == learnt' = [learnt EXCEPT ![s] = r]
Show(s, r) == shown' = [shown EXCEPT ![s] = r]

\* The page sends a request with the token of the session.
Ask(s, r, e, role, form) ==
  /\ waiting[s] = None
  /\ \E page \in IF e = "investigation" THEN BOOLEAN ELSE {FALSE} : Wait(s, r, page)
  /\ Arrive(r, e, role, form)
  /\ UNCHANGED <<shown, learnt>>

\* Without a token, or with nobody listening, no request arrives; the result is dropped.
Unsent(s) ==
  /\ waiting[s] = None
  /\ shown[s] # None \/ learnt[s] # None
  /\ Show(s, None) /\ Learn(s, None)
  /\ UNCHANGED <<vars, waiting, copilot>>

\* Mutant: an error of the API leaves the earlier result on the page.
Receive_KeepsResult(s) ==
  /\ waiting[s] # None /\ stage[waiting[s]] = "answered"
  /\ IF copilot[s]
     THEN /\ Learn(s, waiting[s])
          /\ Show(s, IF status[waiting[s]] = 200 THEN waiting[s] ELSE shown[s])
     ELSE UNCHANGED <<shown, learnt>>
  /\ Wait(s, None, FALSE)
  /\ UNCHANGED vars

\* _request returns or raises; investigation_copilot stores or drops the result.
Receive(s) ==
  /\ waiting[s] # None /\ stage[waiting[s]] = "answered"
  /\ IF copilot[s]
     THEN /\ Learn(s, waiting[s])
          /\ Show(s, IF status[waiting[s]] = 200 THEN waiting[s] ELSE None)
     ELSE UNCHANGED <<shown, learnt>>
  /\ Wait(s, None, FALSE)
  /\ UNCHANGED vars

\* The time limit of the client passes, or the connection breaks; the server works on.
GiveUp(s) ==
  /\ waiting[s] # None
  /\ IF copilot[s]
     THEN Learn(s, waiting[s]) /\ Show(s, None)
     ELSE UNCHANGED <<shown, learnt>>
  /\ Wait(s, None, FALSE)
  /\ UNCHANGED vars

\* The user clicks elsewhere: the waiting script never gets to its assignment.
Interrupt(s) ==
  /\ waiting[s] # None
  /\ Wait(s, None, FALSE)
  /\ UNCHANGED <<vars, shown, learnt>>

Serving ==
  /\ \E r \in Request : Handle(r)
  /\ UNCHANGED sessionVars

ConsoleNext ==
  \/ Serving
  \/ \E s \in Session :
       \/ \E r \in Request, e \in Endpoint, role \in Roles, form \in Forms :
            Ask(s, r, e, role, form)
       \/ Unsent(s) \/ Receive(s) \/ GiveUp(s) \/ Interrupt(s)

\* Threads of the server run; nobody has to click, and nothing has to be answered.
ConsoleFairness == \A r \in Request : WF_allVars(Serve(r) /\ UNCHANGED sessionVars)

ConsoleSpec == ConsoleInit /\ [][ConsoleNext]_allVars /\ ConsoleFairness

-----------------------------------------------------------------------------
ConsoleTypeOK ==
  /\ TypeOK
  /\ waiting \in [Session -> Request \cup {None}]
  /\ copilot \in [Session -> BOOLEAN]
  /\ shown \in [Session -> Request \cup {None}]
  /\ learnt \in [Session -> Request \cup {None}]

(* What the copilot displays is the answer to its last request it got an   *)
(* outcome of, successful and audited: never one older than an error or a  *)
(* timeout it has been told of, never an answer whose script was stopped,  *)
(* never one to a request of another page (app.py:199-207,                 *)
(* client.py:198-229).                                                     *)
ShownIsLastAnswer ==
  \A s \in Session :
    shown[s] # None =>
      /\ shown[s] = learnt[s]
      /\ endpoint[shown[s]] = "investigation"
      /\ status[shown[s]] = 200 /\ shown[s] \in audited

=============================================================================

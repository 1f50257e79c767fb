---------------------------- MODULE SerialServer ----------------------------
(***************************************************************************)
(* What the server promises its clients (spec section 5): each connection  *)
(* waits, is served, and is closed after its request is finished; requests *)
(* are served one at a time, and a request being served finishes and its   *)
(* connection is closed.  Server refines this specification.               *)
(***************************************************************************)
CONSTANTS Clients

VARIABLE state  \* state[c]: "idle", "queued", "serving" or "served"

Init == state = [c \in Clients |-> "idle"]

Connect(c) ==
  /\ state[c] = "idle"
  /\ state' = [state EXCEPT ![c] = "queued"]

GiveUp(c) ==
  /\ state[c] = "queued"
  /\ state' = [state EXCEPT ![c] = "idle"]

\* A queued request is taken only while no other request is being served.
Serve(c) ==
  /\ state[c] = "queued"
  /\ \A d \in Clients : state[d] # "serving"
  /\ state' = [state EXCEPT ![c] = "serving"]

Finish(c) ==
  /\ state[c] = "serving"
  /\ state' = [state EXCEPT ![c] = "served"]

Close(c) ==
  /\ state[c] = "served"
  /\ state' = [state EXCEPT ![c] = "idle"]

Next ==
  \E c \in Clients :
    Connect(c) \/ GiveUp(c) \/ Serve(c) \/ Finish(c) \/ Close(c)

\* A request being served finishes, and a finished connection is closed.
Spec ==
  /\ Init /\ [][Next]_state
  /\ \A c \in Clients : WF_state(Finish(c)) /\ WF_state(Close(c))
=============================================================================

---------------------------- MODULE AgentSystem ----------------------------
(***************************************************************************)
(* An agent on its endpoints: lib/agent.js over lib/listener.js and        *)
(* lib/receiver.js.  A request comes in by one socket, which is kept with  *)
(* it, and its response goes out by the same, whatever has become of that  *)
(* socket meanwhile.  dgram is external: send throws on a socket that is   *)
(* closed.                                                                 *)
(*                                                                         *)
(* Every step is one of the agent, one of its endpoints, or both, so that  *)
(* what holds of either alone holds here.                                  *)
(***************************************************************************)
EXTENDS Agent, Listener

ASSUME DatagramsAssumption == Datagrams = Reqs \cup Malformed /\ Reqs \cap Malformed = {}

VARIABLES
  via,    \* _conn_recv: the socket by which each request came, 0 before
  outbox  \* what became of its response: "none" yet, "sent", or "threw"

svars == <<vars, lvars, via, outbox>>

SystemInit ==
  /\ Init /\ ListenerInit
  /\ via = [r \in Reqs |-> 0]
  /\ outbox = [r \in Reqs |-> "none"]

SystemAlive == Alive /\ Running /\ \A r \in Reqs : outbox[r] # "threw"

----------------------------------------------------------------------------
(* What a socket's message event does: count what does not parse ...       *)
Reject(d, i) ==
  /\ SystemAlive /\ Idle
  /\ d \in Malformed /\ Recv(d, i)
  /\ UNCHANGED <<vars, via, outbox>>

(* ... note the socket of what does, and process it.                       *)
Accept(r, m, i) ==
  /\ SystemAlive /\ Idle
  /\ Recv(r, i) /\ Receive(r, m)
  /\ via' = [via EXCEPT ![r] = i]
  /\ UNCHANGED outbox

(* Mutant of Send: a response to a closed socket is dropped.               *)
SendDrops(r) == "sent"
Send(r) == IF connections[via[r]] = "closed" THEN "threw" ELSE "sent"

(* _transmit_response, by the socket the request came by.                  *)
Transmit == outbox' = [r \in Reqs |-> IF sent'[r] # sent[r] THEN Send(r) ELSE outbox[r]]

(* An iteration of a request's forEach, or a provider's done; what a       *)
(* second done does is left to the agent alone.                            *)
Dispatch(r) ==
  /\ SystemAlive
  /\ DispatchGetSet(r) \/ DispatchGetNext(r)
  /\ Transmit
  /\ UNCHANGED <<lvars, via>>

ProviderDone(r, i) ==
  /\ SystemAlive
  /\ Complete(r, i)
  /\ Transmit
  /\ UNCHANGED <<lvars, via>>

(* The application's calls: in a turn of their own, or made by a provider. *)
Callable == SystemAlive /\ (Idle \/ \E r \in Reqs, i \in Slots : Open(r, i))

Setup(batch) ==
  /\ SystemAlive
  /\ Register(batch)
  /\ UNCHANGED <<lvars, via, outbox>>

OpenEndpoint == Callable /\ Bind /\ UNCHANGED <<vars, via, outbox>>
CloseEndpoints == Callable /\ Close /\ UNCHANGED <<vars, via, outbox>>

(* How a bind ends.                                                        *)
BindEnds(i) ==
  /\ SystemAlive /\ Idle
  /\ Listening(i) \/ BindError(i)
  /\ UNCHANGED <<vars, via, outbox>>

SystemNext ==
  \/ \E batch \in Batches : Setup(batch)
  \/ OpenEndpoint
  \/ CloseEndpoints
  \/ \E i \in DOMAIN connections :
        \/ BindEnds(i)
        \/ \E d \in Malformed : Reject(d, i)
        \/ \E r \in Reqs, m \in Messages : Accept(r, m, i)
  \/ \E r \in Reqs : Dispatch(r)
  \/ \E r \in Reqs, i \in Slots : ProviderDone(r, i)

SystemSpec == SystemInit /\ [][SystemNext]_svars

(* As for the agent alone: turns end, and providers invoke each done.      *)
SystemFairness ==
  /\ \A r \in Reqs : WF_svars(Dispatch(r))
  /\ \A r \in Reqs, i \in Slots : WF_svars(ProviderDone(r, i))

----------------------------------------------------------------------------
(* A request that is to be answered and has not been.                      *)
Pending(r) ==
  Received(r) /\ msg[r].op \in Handled /\ Size(r) > 0 /\ outbox[r] = "none"

(***************************************************************************)
(* An agent whose close returned when nothing was pending is at rest: no   *)
(* provider is asked, nothing is transmitted and the process does not die, *)
(* until bind is called again.                                             *)
(***************************************************************************)
AtRestAfterClose ==
  [][closing = "returned" /\ ~ (\E r \in Reqs : Pending(r))
       => UNCHANGED <<avars, process, outbox>>]_svars

(***************************************************************************)
(* A request left pending at a close brings the process down: its provider *)
(* answers, and send throws in the provider's call of done.                *)
(***************************************************************************)
CloseStrandsRequests ==
  \A r \in Reqs : Pending(r) /\ connections[via[r]] = "closed" ~> ~ SystemAlive
=============================================================================

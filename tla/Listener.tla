------------------------------ MODULE Listener ------------------------------
(***************************************************************************)
(* The endpoints of an agent or a trap listener: lib/listener.js and the   *)
(* sockets lib/receiver.js creates for it.  bind only starts to bind a     *)
(* socket; how that ends is known in a later turn of the event loop.  A    *)
(* socket is never taken off the list of connections.  dgram is external:  *)
(* address() throws on a socket that is not bound, and a socket that       *)
(* cannot be bound emits 'error', which nobody listens for.                *)
(***************************************************************************)
EXTENDS Naturals, Sequences, FiniteSets

CONSTANTS Datagrams,  \* what is sent to the endpoints, by identity
          Malformed,  \* those that parseMessage rejects
          MaxBinds    \* bound on the calls of bind

ASSUME ListenerAssumption == Malformed \subseteq Datagrams /\ MaxBinds \in Nat

VARIABLES
  connections,  \* _connections: the state of the socket of each bind
  malformed,    \* _malformed_messages
  process,      \* "running", or "dead" of an unhandled 'error' event
  received,     \* the datagrams taken from a socket
  closing       \* history: how the latest close since the latest bind ended

lvars == <<connections, malformed, process, received, closing>>

ListenerInit ==
  /\ connections = << >>
  /\ malformed = 0
  /\ process = "running"
  /\ received = {}
  /\ closing = "none"

Running == process = "running"

----------------------------------------------------------------------------
(* Listener.bind, its arguments being valid.                               *)
Bind ==
  /\ Running
  /\ Len(connections) < MaxBinds
  /\ connections' = Append(connections, "binding")
  /\ closing' = "none"
  /\ UNCHANGED <<malformed, process, received>>

(* The socket has been bound.                                              *)
Listening(i) ==
  /\ Running
  /\ connections[i] = "binding"
  /\ connections' = [connections EXCEPT ![i] = "listening"]
  /\ UNCHANGED <<malformed, process, received, closing>>

(* It cannot be bound: the port is taken, or not the process's to take.    *)
BindError(i) ==
  /\ Running
  /\ connections[i] = "binding"
  /\ process' = "dead"
  /\ UNCHANGED <<connections, malformed, received, closing>>

(* Mutant of Counted: everything that arrives is counted.                  *)
CountedAll(d) == malformed + 1
Counted(d) == IF d \in Malformed THEN malformed + 1 ELSE malformed

(* Receiver._recv counts what does not parse and hands on the rest.        *)
Recv(d, i) ==
  /\ Running
  /\ connections[i] = "listening"
  /\ d \notin received
  /\ received' = received \cup {d}
  /\ malformed' = Counted(d)
  /\ UNCHANGED <<connections, process, closing>>

(* Mutant of Shutdown: sockets that are not bound are passed over.         *)
PassOver(cs) ==
  [after |-> [i \in DOMAIN cs |-> IF cs[i] = "listening" THEN "closed" ELSE cs[i]],
   end   |-> "returned"]

(* The forEach of close asks each socket for its address before it closes  *)
(* it, so it throws at the first that is still binding or already closed.  *)
Shutdown(cs) ==
  LET reached == { i \in DOMAIN cs : \A j \in 1..i : cs[j] = "listening" }
  IN [after |-> [i \in DOMAIN cs |-> IF i \in reached THEN "closed" ELSE cs[i]],
      end   |-> IF reached = DOMAIN cs THEN "returned" ELSE "threw"]

Close ==
  /\ Running
  /\ connections' = Shutdown(connections).after
  /\ closing' = Shutdown(connections).end
  /\ UNCHANGED <<malformed, process, received>>

ListenerNext ==
  \/ Bind
  \/ Close
  \/ \E i \in DOMAIN connections : \/ Listening(i)
                                   \/ BindError(i)
                                   \/ \E d \in Datagrams : Recv(d, i)

ListenerSpec == ListenerInit /\ [][ListenerNext]_lvars

----------------------------------------------------------------------------
(* Type invariant; what was counted malformed is what came in malformed.   *)
ListenerTypeOK ==
  /\ connections \in Seq({"binding", "listening", "closed"})
  /\ malformed = Cardinality(received \cap Malformed)
  /\ process \in {"running", "dead"}
  /\ received \subseteq Datagrams
  /\ closing \in {"none", "returned", "threw"}

(* Once Listener.close has returned, nothing is received until bind is     *)
(* called again: no socket was left to finish binding behind it.           *)
NothingAfterClose == [][closing = "returned" => UNCHANGED received]_lvars

(* docs/agent.restdown: close ceases the reception on all previously-bound *)
(* endpoints.  Called when every endpoint is bound, it leaves none open.   *)
CloseCeasesReceiving ==
  [][Close /\ (\A i \in DOMAIN connections : connections[i] # "binding")
       => \A i \in DOMAIN connections' : connections'[i] # "listening"]_lvars
=============================================================================

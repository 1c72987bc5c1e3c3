---------------------------- MODULE SystemProofs ----------------------------
(***************************************************************************)
(* Theorems about the endpoints (Listener), and about the agent on them    *)
(* (AgentSystem): what holds of the agent, and of the endpoints, holds of  *)
(* both together; and an agent that was closed with nothing pending is at  *)
(* rest.                                                                   *)
(***************************************************************************)
EXTENDS AgentSystem, AgentProofs

----------------------------------------------------------------------------
(* The endpoints by themselves.                                            *)
States == {"binding", "listening", "closed"}

(* After a close that returned, every socket is closed, until the next     *)
(* bind; the datagrams received are finitely many, so that they count.     *)
AllClosed == closing = "returned" => \A i \in DOMAIN connections : connections[i] = "closed"

LInv == /\ ListenerTypeOK
        /\ IsFiniteSet(received)
        /\ AllClosed

(* What close leaves of a list of sockets.                                 *)
LEMMA ShutdownProperties ==
  ASSUME NEW cs \in Seq(States)
  PROVE  /\ Shutdown(cs).after \in Seq(States)
         /\ Shutdown(cs).end \in {"returned", "threw"}
         /\ Shutdown(cs).end = "returned" =>
               \A i \in DOMAIN Shutdown(cs).after : Shutdown(cs).after[i] = "closed"
<1> DEFINE reached == { i \in DOMAIN cs : \A j \in 1..i : cs[j] = "listening" }
           after == [i \in DOMAIN cs |-> IF i \in reached THEN "closed" ELSE cs[i]]
<1>1. /\ Shutdown(cs).after = after
      /\ Shutdown(cs).end = IF reached = DOMAIN cs THEN "returned" ELSE "threw"
  BY DEF Shutdown
<1>2. /\ DOMAIN cs = 1..Len(cs) /\ Len(cs) \in Nat
      /\ \A i \in DOMAIN cs : cs[i] \in States
  OBVIOUS
<1>3. after \in [1..Len(cs) -> States]
  BY <1>2 DEF States
<1>4. after \in Seq(States)
  BY <1>2, <1>3
<1>5. ASSUME reached = DOMAIN cs
      PROVE  \A i \in DOMAIN after : after[i] = "closed"
  BY <1>5
<1>6. QED
  BY <1>1, <1>4, <1>5

LEMMA ListenerInvInit == ListenerInit => LInv
<1> SUFFICES ASSUME ListenerInit PROVE LInv
  OBVIOUS
<1>1. /\ connections = << >> /\ malformed = 0 /\ process = "running"
      /\ received = {} /\ closing = "none"
  BY DEF ListenerInit
<1>2. malformed = Cardinality(received \cap Malformed) /\ IsFiniteSet(received)
  BY <1>1, FS_EmptySet
<1>3. QED
  BY <1>1, <1>2 DEF LInv, ListenerTypeOK, AllClosed

(* A datagram that arrives is counted if and only if it is malformed.      *)
LEMMA RecvCounts ==
  ASSUME LInv, NEW d \in Datagrams, d \notin received, received' = received \cup {d},
         malformed' = Counted(d)
  PROVE  malformed' = Cardinality(received' \cap Malformed) /\ IsFiniteSet(received')
<1>1. IsFiniteSet(received) /\ malformed = Cardinality(received \cap Malformed)
  BY DEF LInv, ListenerTypeOK
<1>2. IsFiniteSet(received \cap Malformed) /\ IsFiniteSet(received')
  BY <1>1, FS_Intersection, FS_AddElement
<1>3. CASE d \in Malformed
  <2>1. received' \cap Malformed = (received \cap Malformed) \cup {d}
    BY <1>3
  <2>2. Cardinality(received' \cap Malformed) = Cardinality(received \cap Malformed) + 1
    BY <1>2, <2>1, FS_AddElement
  <2>3. QED
    BY <1>1, <1>2, <1>3, <2>2 DEF Counted
<1>4. CASE d \notin Malformed
  <2>1. received' \cap Malformed = received \cap Malformed
    BY <1>4
  <2>2. QED
    BY <1>1, <1>2, <1>4, <2>1 DEF Counted
<1>5. QED
  BY <1>3, <1>4

LEMMA ListenerInvStep == LInv /\ [ListenerNext]_lvars => LInv'
<1> SUFFICES ASSUME LInv, [ListenerNext]_lvars PROVE LInv'
  OBVIOUS
<1> USE DEF LInv, ListenerTypeOK, AllClosed
<1>1. /\ connections \in Seq(States) /\ Len(connections) \in Nat
      /\ DOMAIN connections = 1..Len(connections)
  BY DEF States
<1>2. CASE Bind
  <2>1. connections' \in Seq(States)
    BY <1>1, <1>2 DEF Bind, States
  <2>2. QED
    BY <1>2, <2>1 DEF Bind, States
<1>3. CASE Close
  BY <1>1, <1>3, ShutdownProperties DEF Close, States
<1>4. ASSUME NEW i \in DOMAIN connections, Listening(i) PROVE LInv'
  <2>1. connections' \in Seq(States)
    BY <1>1, <1>4 DEF Listening, States
  <2>2. closing' # "returned"
    BY <1>4 DEF Listening
  <2>3. QED
    BY <1>4, <2>1, <2>2 DEF Listening, States
<1>5. ASSUME NEW i \in DOMAIN connections, BindError(i) PROVE LInv'
  BY <1>5 DEF BindError
<1>6. ASSUME NEW i \in DOMAIN connections, NEW d \in Datagrams, Recv(d, i) PROVE LInv'
  <2>1. malformed' = Cardinality(received' \cap Malformed) /\ IsFiniteSet(received')
    BY <1>6, RecvCounts DEF Recv
  <2>2. QED
    BY <1>6, <2>1 DEF Recv
<1>7. CASE UNCHANGED lvars
  BY <1>7 DEF lvars
<1>8. QED
  BY <1>2, <1>3, <1>4, <1>5, <1>6, <1>7 DEF ListenerNext

LEMMA ListenerInv == ListenerSpec => []LInv
<1>1. QED
  BY ListenerInvInit, ListenerInvStep, PTL DEF ListenerSpec

(***************************************************************************)
(* For any number of endpoints and datagrams, the list of connections and  *)
(* the count of malformed messages are what they should be.                *)
(***************************************************************************)
THEOREM ListenerTypeCorrect == ListenerSpec => []ListenerTypeOK
<1>1. LInv => ListenerTypeOK
  BY DEF LInv
<1>2. QED
  BY <1>1, ListenerInv, PTL

(***************************************************************************)
(* Nothing is received after a Listener.close that returned, in whatever   *)
(* state the endpoints were and whatever completes after it.               *)
(***************************************************************************)
THEOREM QuietAfterClose == ListenerSpec => NothingAfterClose
<1>1. LInv /\ [ListenerNext]_lvars => (closing = "returned" => UNCHANGED received) \/ UNCHANGED lvars
  <2> SUFFICES ASSUME LInv, ListenerNext, closing = "returned" PROVE UNCHANGED received
    BY DEF lvars
  <2>1. ASSUME NEW i \in DOMAIN connections, NEW d \in Datagrams PROVE ~ Recv(d, i)
    BY DEF LInv, AllClosed, Recv
  <2>2. QED
    BY <2>1 DEF ListenerNext, Bind, Close, Listening, BindError
<1>2. QED
  BY <1>1, ListenerInv, PTL DEF ListenerSpec, NothingAfterClose

----------------------------------------------------------------------------
(* The agent on its endpoints.                                             *)

(* A step of the whole is a step, or nothing, of each.                     *)
LEMMA StepOfBoth == [SystemNext]_svars => [Next]_vars /\ [ListenerNext]_lvars
<1> SUFFICES ASSUME [SystemNext]_svars PROVE [Next]_vars /\ [ListenerNext]_lvars
  OBVIOUS
<1>1. ASSUME NEW batch \in Batches, Setup(batch) PROVE [Next]_vars /\ [ListenerNext]_lvars
  BY <1>1 DEF Setup, Next
<1>2. CASE OpenEndpoint \/ CloseEndpoints
  BY <1>2 DEF OpenEndpoint, CloseEndpoints, ListenerNext
<1>3. ASSUME NEW i \in DOMAIN connections, BindEnds(i)
      PROVE  [Next]_vars /\ [ListenerNext]_lvars
  BY <1>3 DEF BindEnds, ListenerNext
<1>4. ASSUME NEW i \in DOMAIN connections, NEW d \in Malformed, Reject(d, i)
      PROVE  [Next]_vars /\ [ListenerNext]_lvars
  BY <1>4, ListenerAssumption DEF Reject, ListenerNext
<1>5. ASSUME NEW i \in DOMAIN connections, NEW r \in Reqs, NEW m \in Messages, Accept(r, m, i)
      PROVE  [Next]_vars /\ [ListenerNext]_lvars
  BY <1>5, DatagramsAssumption DEF Accept, Next, ListenerNext
<1>6. ASSUME NEW r \in Reqs, Dispatch(r) PROVE [Next]_vars /\ [ListenerNext]_lvars
  BY <1>6 DEF Dispatch, Next
<1>7. ASSUME NEW r \in Reqs, NEW i \in Slots, ProviderDone(r, i)
      PROVE  [Next]_vars /\ [ListenerNext]_lvars
  BY <1>7 DEF ProviderDone, Next
<1>8. CASE UNCHANGED svars
  BY <1>8 DEF svars
<1>9. QED
  BY <1>1, <1>2, <1>3, <1>4, <1>5, <1>6, <1>7, <1>8 DEF SystemNext

(***************************************************************************)
(* The agent on its endpoints implements the agent, which knows nothing of *)
(* sockets, and the endpoints, which know nothing of requests.             *)
(***************************************************************************)
THEOREM SystemImplementsBoth == SystemSpec => Spec /\ ListenerSpec
<1>1. SystemInit => Init /\ ListenerInit
  BY DEF SystemInit
<1>2. QED
  BY <1>1, StepOfBoth, PTL DEF SystemSpec, Spec, ListenerSpec

(***************************************************************************)
(* So it makes at most one response to a datagram, and receives nothing    *)
(* after a close that returned.                                            *)
(***************************************************************************)
THEOREM SystemKeepsBoth == SystemSpec => []OneResponse /\ NothingAfterClose
BY SystemImplementsBoth, RespondsOnce, QuietAfterClose, PTL

----------------------------------------------------------------------------
(* What went out, or failed to, was a response that had been made.         *)
OutboxOfSent == /\ outbox \in [Reqs -> {"none", "sent", "threw"}]
                /\ \A r \in Reqs : outbox[r] # "none" => sent[r] # << >>

SInv == InvC /\ LInv /\ OutboxOfSent

(* Responses are only added.                                               *)
LEMMA SentGrows ==
  ASSUME InvC, [Next]_vars, NEW q \in Reqs, sent'[q] # sent[q]
  PROVE  sent'[q] # << >>
<1>1. InvA /\ TypeOK
  BY DEF InvC, InvB, InvA
<1>2. CASE StuffStep
  <2>1. PICK r \in Reqs, i \in Slots, res \in Results : Stuff(r, i, res)
    BY <1>2 DEF StuffStep
  <2>2. UNCHANGED sent \/ \E x : sent' = [sent EXCEPT ![r] = Append(@, x)]
    BY <2>1, Zenon DEF Stuff
  <2>3. sent \in [Reqs -> Seq(Replies)]
    BY <1>1 DEF TypeOK
  <2>4. PICK x : sent' = [sent EXCEPT ![r] = Append(@, x)]
    BY <2>2
  <2>5. q = r /\ sent'[q] = Append(sent[q], x)
    BY <2>3, <2>4
  <2>6. sent[q] \in Seq(Replies \cup {x}) /\ x \in Replies \cup {x}
    BY <2>3
  <2>7. Append(sent[q], x) # << >>
    BY <2>6
  <2>8. QED
    BY <2>5, <2>7
<1>3. CASE QuietStep
  BY <1>3 DEF QuietStep
<1>4. QED
  BY <1>1, <1>2, <1>3, StepShape

LEMMA TransmitOutbox ==
  ASSUME InvC, OutboxOfSent, [Next]_vars, Transmit
  PROVE  OutboxOfSent'
<1>1. \A r \in Reqs : outbox'[r] = IF sent'[r] # sent[r] THEN Send(r) ELSE outbox[r]
  BY DEF Transmit
<1>2. \A r \in Reqs : Send(r) \in {"sent", "threw"}
  BY DEF Send
<1>3. outbox' \in [Reqs -> {"none", "sent", "threw"}]
  BY <1>2 DEF Transmit, OutboxOfSent
<1>4. ASSUME NEW r \in Reqs, outbox'[r] # "none" PROVE sent'[r] # << >>
  BY <1>1, <1>4, SentGrows DEF OutboxOfSent
<1>5. QED
  BY <1>3, <1>4 DEF OutboxOfSent

LEMMA SInvInductive == (SystemInit => SInv) /\ (SInv /\ [SystemNext]_svars => SInv')
<1>1. ASSUME SystemInit PROVE SInv
  <2>1. InvC /\ LInv
    BY <1>1, InvCInductive, ListenerInvInit DEF SystemInit
  <2>2. OutboxOfSent
    BY <1>1 DEF SystemInit, OutboxOfSent
  <2>3. QED
    BY <2>1, <2>2 DEF SInv
<1>2. ASSUME SInv, [SystemNext]_svars PROVE SInv'
  <2>1. [Next]_vars /\ [ListenerNext]_lvars
    BY <1>2, StepOfBoth
  <2>2. InvC' /\ LInv'
    BY <1>2, <2>1, InvCInductive, ListenerInvStep DEF SInv
  <2>3. CASE Transmit
    BY <1>2, <2>1, <2>2, <2>3, TransmitOutbox DEF SInv
  <2>4. CASE UNCHANGED <<sent, outbox>>
    BY <1>2, <2>2, <2>4 DEF SInv, OutboxOfSent
  <2>5. Transmit \/ UNCHANGED <<sent, outbox>>
    BY <1>2 DEF SystemNext, svars, vars, avars, Setup, Register, OpenEndpoint, CloseEndpoints,
                BindEnds, Reject, Accept, Receive, Dispatch, ProviderDone
  <2>6. QED
    BY <2>2, <2>3, <2>4, <2>5 DEF SInv
<1>3. QED
  BY <1>1, <1>2

----------------------------------------------------------------------------
(* A binding that is not answered keeps its request pending.               *)
LEMMA UnansweredIsPending ==
  ASSUME SInv, Alive, repeats = 0, NEW r \in Reqs, Received(r), msg[r].op \in Handled,
         NEW i \in Slots, i <= Size(r), i \notin Assigned(r)
  PROVE  Pending(r)
<1>1. InvA /\ Accounted(r)
  BY DEF SInv, InvC, InvB, EveryBindingAccounted
<1>2. Size(r) \in Nat
  BY <1>1, ReceivedProperties DEF InvA
<1>3. Cardinality(Assigned(r)) < Size(r)
  BY <1>1, AssignedMissing
<1>4. Cardinality(Assigned(r)) \in Nat
  BY <1>1, AssignedFinite DEF InvA
<1>5. sent[r] = << >>
  BY <1>1, <1>2, <1>3, <1>4 DEF Accounted
<1>6. outbox[r] = "none"
  BY <1>5 DEF SInv, OutboxOfSent
<1>7. QED
  BY <1>2, <1>3, <1>4, <1>6 DEF Pending

LEMMA DispatchIsPending ==
  ASSUME SInv, Alive, repeats = 0, NEW r \in Reqs, Dispatch(r)
  PROVE  Pending(r)
<1> DEFINE i == cursor[r] + 1
<1>1. InvA /\ Accounted(r) /\ Dispatching(r)
  BY DEF SInv, InvC, InvB, EveryBindingAccounted, Dispatch, DispatchGetSet, DispatchGetNext
<1>2. /\ Received(r) /\ msg[r].op \in Handled
      /\ cursor[r] \in Nat /\ Size(r) \in Nat /\ cursor[r] < Size(r)
      /\ Size(r) <= MaxVarbinds /\ MaxVarbinds \in Nat
  BY <1>1, ReceivedProperties, MessagesAssumption DEF Dispatching, InvA, TypeOK
<1>3. i \in Slots /\ i <= Size(r) /\ ~ (i <= cursor[r])
  BY <1>2 DEF Slots
<1> HIDE DEF i
<1>4. i \notin Assigned(r)
  BY <1>1, <1>3 DEF Accounted
<1>5. QED
  BY <1>2, <1>3, <1>4, UnansweredIsPending

LEMMA OpenIsPending ==
  ASSUME SInv, Alive, repeats = 0, NEW r \in Reqs, NEW i \in Slots, ProviderDone(r, i)
  PROVE  Pending(r)
<1>1. InvA /\ Accounted(r) /\ Open(r, i)
  BY DEF SInv, InvC, InvB, EveryBindingAccounted, ProviderDone, Complete
<1>2. i <= cursor[r] /\ i \notin Assigned(r)
  BY <1>1 DEF Accounted, InvA, CallsInDispatch, Open
<1>3. cursor[r] \in Nat /\ i \in Nat /\ i > 0
  BY <1>1, MessagesAssumption DEF InvA, TypeOK, Slots
<1>4. /\ Received(r) /\ cursor[r] <= Size(r) /\ msg[r].op \in Handled
  BY <1>1, <1>2, <1>3 DEF InvA, CallsInDispatch
<1>5. Size(r) \in Nat
  BY <1>1, <1>4, ReceivedProperties DEF InvA
<1>6. i <= Size(r)
  BY <1>2, <1>3, <1>4, <1>5
<1>7. QED
  BY <1>2, <1>4, <1>6, UnansweredIsPending

(***************************************************************************)
(* For any endpoints, requests and providers, as long as no done is        *)
(* invoked twice, an agent whose close returned with nothing pending is    *)
(* at rest: nothing asked, nothing sent, and it does not die.              *)
(***************************************************************************)
THEOREM RestAfterClose ==
  ASSUME MaxRepeats = 0
  PROVE  SystemSpec => AtRestAfterClose
<1> DEFINE Rest == closing = "returned" /\ ~ (\E r \in Reqs : Pending(r))
                     => UNCHANGED <<avars, process, outbox>>
<1>1. SInv /\ [SystemNext]_svars => Rest \/ UNCHANGED svars
  <2> SUFFICES ASSUME SInv, SystemNext, closing = "returned", ~ (\E r \in Reqs : Pending(r))
               PROVE  UNCHANGED <<avars, process, outbox>>
    OBVIOUS
  <2>1. repeats = 0
    BY DEF SInv, InvC, InvB, InvA, TypeOK
  <2>2. \A i \in DOMAIN connections : connections[i] = "closed"
    BY DEF SInv, LInv, AllClosed
  <2>3. ASSUME NEW batch \in Batches, Setup(batch) PROVE UNCHANGED <<avars, process, outbox>>
    BY <2>3 DEF Setup, Register, lvars
  <2>4. CASE OpenEndpoint \/ CloseEndpoints
    BY <2>4 DEF OpenEndpoint, CloseEndpoints, Bind, Close, vars
  <2>5. ASSUME NEW i \in DOMAIN connections
        PROVE  /\ ~ BindEnds(i)
               /\ \A d \in Malformed : ~ Reject(d, i)
               /\ \A r \in Reqs, m \in Messages : ~ Accept(r, m, i)
    BY <2>2 DEF BindEnds, Listening, BindError, Reject, Accept, Recv
  <2>6. ASSUME NEW r \in Reqs PROVE ~ Dispatch(r)
    BY <2>1, DispatchIsPending DEF Dispatch, SystemAlive
  <2>7. ASSUME NEW r \in Reqs, NEW i \in Slots PROVE ~ ProviderDone(r, i)
    BY <2>1, OpenIsPending DEF ProviderDone, SystemAlive
  <2>8. QED
    BY <2>3, <2>4, <2>5, <2>6, <2>7 DEF SystemNext
<1>2. QED
  BY <1>1, SInvInductive, PTL DEF SystemSpec, AtRestAfterClose
=============================================================================

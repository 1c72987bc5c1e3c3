------------------------------ MODULE Manager ------------------------------
(***************************************************************************)
(* A managing process (lib/client.js) and those it talks to: an agent on   *)
(* port 161 and a trap listener (lib/trap_listener.js) on port 162, over a *)
(* network that reorders datagrams and may lose or duplicate a bounded     *)
(* number of them.  The clients of one process share one counter of        *)
(* request ids; each has a socket of its own and a table of callbacks.     *)
(* An exception in an API call is the caller's to catch; one in the        *)
(* delivery of a datagram is caught by nobody and ends the process.        *)
(*                                                                         *)
(* A callback may call the API again.  It runs before its own entry leaves *)
(* the table, but what it registers is under another id, so such a call is *)
(* a Send of its own after the delivery.                                   *)
(***************************************************************************)
EXTENDS Naturals, Bags, SequencesExt

CONSTANTS Clients,    \* the Client objects of the process
          Calls,      \* the API calls they may make
          MaxCalls,   \* bound on the calls made
          MaxLosses,  \* bound on datagrams lost
          MaxDups     \* bound on datagrams duplicated

Requests == {"Get", "GetNext", "Set", "GetBulk"}
Notices  == {"Trap", "SNMPv2_Trap", "InformRequest"}

(* An API call: whether a callback is passed, whether every binding has    *)
(* data, the uptime or time_stamp argument, and for a v1 trap its options. *)
CallShape ==
  [op: Requests \cup Notices, cb: BOOLEAN, data: BOOLEAN,
   uptime: {"absent", "zero", "given"},
   generic: {"absent", "coldStart", "linkDown", "enterpriseSpecific"},
   specific: {"absent", "zero", "positive"}, enterprise: BOOLEAN]

ASSUME ManagerAssumption ==
  /\ Calls \subseteq CallShape
  /\ \A a \in Calls : /\ a.op = "InformRequest" => a.cb
                      /\ a.op \in {"SNMPv2_Trap", "Trap"} => ~ a.cb
  /\ MaxCalls \in Nat /\ MaxLosses \in Nat /\ MaxDups \in Nat

VARIABLES
  request_id,   \* the id the next request will have
  callbacks,    \* of each client: id -> the call whose callback it is
  started,      \* the clients whose startuptime was set
  unrefed,      \* the clients closed
  process,      \* "running", "dead" of an exception, or "exited"
  wire,         \* the bag of datagrams under way
  emitted,      \* the calls whose notice the trap listener emitted
  calls,        \* history: the calls made, their ids and what became of them
  ran,          \* history: callbacks run, and the call each response answers
  lost,         \* history: the calls that had a datagram lost
  dups          \* datagrams duplicated so far

vars == <<request_id, callbacks, started, unrefed, process, wire, emitted,
          calls, ran, lost, dups>>

Init ==
  /\ request_id = 1
  /\ callbacks = [c \in Clients |-> << >>]
  /\ started = {}
  /\ unrefed = {}
  /\ process = "running"
  /\ wire = EmptyBag
  /\ emitted = {}
  /\ calls = << >>
  /\ ran = << >>
  /\ lost = {}
  /\ dups = 0

Running == process = "running"

----------------------------------------------------------------------------
(* The checks of Client.trap: a specific trap without a generic one is     *)
(* enterpriseSpecific, and that needs an enterprise.                       *)
TrapRefused(a) ==
  \/ a.generic = "absent" /\ a.specific = "absent"
  \/ /\ a.specific # "absent"
     /\ a.generic \in {"absent", "enterpriseSpecific"}
     /\ ~ a.enterprise

(* getUptime is asked when the caller gave none; a v1 trap takes 0 for     *)
(* none.  It counts from startuptime, which is 1970 until it is set, and   *)
(* the hundredths of a second since then are more than TimeTicks can hold. *)
ClockAsked(a) ==
  CASE a.op = "Trap" -> a.uptime # "given"
    [] a.op \in {"SNMPv2_Trap", "InformRequest"} -> a.uptime = "absent"
    [] OTHER -> FALSE

(* SnmpTrapV1PDU keeps no field whose value is 0, and its encode throws on *)
(* the first field that is missing; specific_trap defaults to 0.           *)
TrapFieldMissing(a) == a.generic = "coldStart" \/ a.specific # "positive"

Unencodable(a) == ~ a.data \/ (a.op = "Trap" /\ TrapFieldMissing(a))

Outcome(c, a) ==
  CASE a.op = "Trap" /\ TrapRefused(a)      -> "refused"
    [] ClockAsked(a) /\ c \notin started    -> "out of range"
    [] Unencodable(a)                       -> "unencodable"
    [] OTHER                                -> "sent"

(* A v1 trap has no request id; every other PDU takes the next.  Mutant:   *)
(* the counter stays.                                                      *)
Numbered(a) == a.op # "Trap"
SameId(a) == request_id
IdAfter(a) == IF Numbered(a) THEN request_id + 1 ELSE request_id

(* The callback is registered before the message is encoded.               *)
Registers(a, out) == a.cb /\ Numbered(a) /\ out \in {"unencodable", "sent"}
Enter(table, id, n) ==
  [i \in DOMAIN table \cup {id} |-> IF i = id THEN n ELSE table[i]]

Datagram(op, c, id, n) == [op |-> op, client |-> c, id |-> id, n |-> n]

(* get, getNext, set, getBulk, inform, SNMPv2_Trap and trap, and the send  *)
(* they share.                                                             *)
Send(c, a) ==
  LET n   == Len(calls) + 1
      out == Outcome(c, a)
  IN /\ Running
     /\ n <= MaxCalls
     /\ calls' = Append(calls, [client |-> c, call |-> a, id |-> request_id,
                                outcome |-> out])
     /\ request_id' = IdAfter(a)
     /\ callbacks' = IF Registers(a, out)
                     THEN [callbacks EXCEPT ![c] = Enter(@, request_id, n)]
                     ELSE callbacks
     /\ wire' = IF out = "sent"
                THEN wire (+) SetToBag({Datagram(a.op, c, request_id, n)})
                ELSE wire
     /\ UNCHANGED <<started, unrefed, process, emitted, ran, lost, dups>>

(* Mutants of Forget: the entry stays; every entry goes.                   *)
Keep(table, id) == table
ForgetAll(table, id) == << >>
Forget(table, id) == Restrict(table, DOMAIN table \ {id})

Received(d) == wire (-) SetToBag({d})

(* Client._process_msg with a response: run the callback registered under  *)
(* its id and forget it; with no such callback, undefined is called and    *)
(* the TypeError ends the process.                                         *)
ProcessResponse(d) ==
  /\ Running
  /\ d.op = "Response"
  /\ wire' = Received(d)
  /\ \/ /\ d.id \in DOMAIN callbacks[d.client]
        /\ ran' = Append(ran, [callback |-> callbacks[d.client][d.id],
                               answer |-> d.n])
        /\ callbacks' = [callbacks EXCEPT ![d.client] = Forget(@, d.id)]
        /\ UNCHANGED process
     \/ /\ d.id \notin DOMAIN callbacks[d.client]
        /\ process' = "dead"
        /\ UNCHANGED <<callbacks, ran>>
  /\ UNCHANGED <<request_id, started, unrefed, emitted, calls, lost, dups>>

(* The startuptime setter, given the time the process started.             *)
SetStartuptime(c) ==
  /\ Running
  /\ c \notin started
  /\ started' = started \cup {c}
  /\ UNCHANGED <<request_id, callbacks, unrefed, process, wire, emitted,
                 calls, ran, lost, dups>>

(* Client.close only lets the process end: the socket stays open.          *)
Close(c) ==
  /\ Running
  /\ c \notin unrefed
  /\ unrefed' = unrefed \cup {c}
  /\ UNCHANGED <<request_id, callbacks, started, process, wire, emitted,
                 calls, ran, lost, dups>>

(* Node ends a process that has nothing left to wait for.                  *)
Exit ==
  /\ Running
  /\ unrefed = Clients
  /\ process' = "exited"
  /\ UNCHANGED <<request_id, callbacks, started, unrefed, wire, emitted,
                 calls, ran, lost, dups>>

----------------------------------------------------------------------------
(* The requests an agent answers: it drops a GetBulk.  Mutant: the switch  *)
(* has lost its case for SetRequest.                                       *)
AnsweredNoSet == {"Get", "GetNext"}
Answered == {"Get", "GetNext", "Set"}

(* The agent, whose providers answer every request in the end; how long    *)
(* they take is not told apart from how long the network takes.            *)
AgentRespond(d) ==
  /\ d.op \in Requests
  /\ wire' = IF d.op \in Answered
             THEN Received(d)
                    (+) SetToBag({Datagram("Response", d.client, d.id, d.n)})
             ELSE Received(d)
  /\ UNCHANGED <<request_id, callbacks, started, unrefed, process, emitted,
                 calls, ran, lost, dups>>

(* What TrapListener._process_msg emits a 'trap' event for; it answers     *)
(* nothing.  Mutant: the switch has lost its case for InformRequest.       *)
EmittedNoInform == {"Trap", "SNMPv2_Trap"}
Emitted == {"Trap", "InformRequest", "SNMPv2_Trap"}

TrapListenerEmit(d) ==
  /\ d.op \in Notices
  /\ wire' = Received(d)
  /\ emitted' = IF d.op \in Emitted THEN emitted \cup {d.n} ELSE emitted
  /\ UNCHANGED <<request_id, callbacks, started, unrefed, process, calls, ran,
                 lost, dups>>

----------------------------------------------------------------------------
Lose(d) ==
  /\ Cardinality(lost) < MaxLosses
  /\ wire' = Received(d)
  /\ lost' = lost \cup {d.n}
  /\ UNCHANGED <<request_id, callbacks, started, unrefed, process, emitted,
                 calls, ran, dups>>

Duplicate(d) ==
  /\ dups < MaxDups
  /\ wire' = wire (+) SetToBag({d})
  /\ dups' = dups + 1
  /\ UNCHANGED <<request_id, callbacks, started, unrefed, process, emitted,
                 calls, ran, lost>>

UnderWay == BagToSet(wire)

Next ==
  \/ \E c \in Clients, a \in Calls : Send(c, a)
  \/ \E c \in Clients : SetStartuptime(c) \/ Close(c)
  \/ Exit
  \/ \E d \in UnderWay : \/ ProcessResponse(d)
                         \/ AgentRespond(d)
                         \/ TrapListenerEmit(d)
                         \/ Lose(d)
                         \/ Duplicate(d)

Spec == Init /\ [][Next]_vars

(* Datagrams that are not lost arrive, and each process's loop takes them. *)
Fairness ==
  /\ WF_vars(\E d \in UnderWay : ProcessResponse(d))
  /\ WF_vars(\E d \in UnderWay : AgentRespond(d))
  /\ WF_vars(\E d \in UnderWay : TrapListenerEmit(d))

FairSpec == Spec /\ Fairness

----------------------------------------------------------------------------
Made == 1..Len(calls)

(* Type invariant: what the tables, the network and the histories hold.    *)
ManagerTypeOK ==
  /\ request_id \in 1..(MaxCalls + 1)
  /\ \A c \in Clients : /\ DOMAIN callbacks[c] \subseteq 1..(request_id - 1)
                        /\ \A id \in DOMAIN callbacks[c] : callbacks[c][id] \in Made
  /\ started \subseteq Clients /\ unrefed \subseteq Clients
  /\ process \in {"running", "dead", "exited"}
  /\ process = "exited" => unrefed = Clients
  /\ IsABag(wire)
  /\ \A d \in UnderWay : d.client \in Clients /\ d.n \in Made
  /\ emitted \subseteq Made /\ lost \subseteq Made
  /\ \A i \in DOMAIN ran : ran[i].callback \in Made /\ ran[i].answer \in Made

(* client.js keeps no record of what it answered beyond the table itself:  *)
(* whatever the network duplicates, a callback runs at most once.          *)
CallbackRunsOnce ==
  \A i, j \in DOMAIN ran : ran[i].callback = ran[j].callback => i = j

(* The id is the only thing that ties a response to a call: a callback is  *)
(* never run with the answer to another call.                              *)
OwnAnswer == \A i \in DOMAIN ran : ran[i].callback = ran[i].answer

(* _process_msg calls what it finds under the id without looking: that     *)
(* ends the process, and it takes a duplicate or a request sent with no    *)
(* callback to bring it about.                                             *)
DiesOfStrayResponse ==
  process = "dead" =>
    dups > 0 \/ \E n \in Made : calls[n].call.op \in Answered /\ ~ calls[n].call.cb

(* A callback that waits, waits for a datagram still under way, unless one *)
(* was lost, none was ever sent because encode threw after the callback    *)
(* was registered, or it went to a peer that does not answer its kind:     *)
(* GetBulk or InformRequest.  There is no timeout: those wait for ever.    *)
WaitsForSomething ==
  \A c \in Clients : \A id \in DOMAIN callbacks[c] :
    LET n == callbacks[c][id]
    IN \/ \E d \in UnderWay : d.n = n
       \/ n \in lost
       \/ calls[n].outcome = "unencodable"
       \/ calls[n].call.op \in {"GetBulk", "InformRequest"}

SentTo(n, ops) == n \in Made /\ calls[n].outcome = "sent" /\ calls[n].call.op \in ops

(* Each get, getNext and set that was sent with a callback is called back, *)
(* unless a datagram of it was lost, a stray response ended the process,   *)
(* or every client was closed first and the process ended of itself.       *)
EveryRequestCalledBack ==
  \A n \in 1..MaxCalls :
    SentTo(n, {"Get", "GetNext", "Set"}) /\ calls[n].call.cb
      ~> \/ \E i \in DOMAIN ran : ran[i].callback = n
         \/ n \in lost
         \/ ~ Running

(* Each trap and inform sent is emitted by the listener, unless it is lost.*)
EveryNoticeEmitted ==
  \A n \in 1..MaxCalls : SentTo(n, Notices) ~> n \in emitted \cup lost

(* docs/protocol.restdown: both trap formats can be encoded.  A v1 trap    *)
(* whose options were accepted, with a timestamp in range and bindings     *)
(* that have data, goes out.                                               *)
V1TrapsEncodable ==
  \A n \in Made : calls[n].call.op = "Trap" /\ calls[n].call.data
                    => calls[n].outcome # "unencodable"
============================================================================

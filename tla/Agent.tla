------------------------------- MODULE Agent -------------------------------
(***************************************************************************)
(* lib/agent.js on one event loop: requests are received, each variable    *)
(* binding is put to the provider of its object, providers answer at once  *)
(* or later and in any order, and the response is transmitted when the     *)
(* last answer is in.  A turn of the loop is the delivery of one message   *)
(* or one provider's later completion.  Inside a turn a message's bindings *)
(* are dispatched one after another; a provider that answers before its    *)
(* handler returns does so between two of them.  An exception raised in a  *)
(* turn is caught by nobody and ends the process: thrown then holds its    *)
(* cause and nothing more happens.                                         *)
(***************************************************************************)
EXTENDS Registry, Provider

CONSTANTS Reqs,         \* datagrams the agent may receive, by identity
          Messages,     \* what a datagram may say
          Uncloneable,  \* names whose binding in a Set carries a Counter64
          MaxVarbinds,  \* bound on the bindings of a message
          MaxRepeats    \* bound on completions invoked a second time

Slots == 1..MaxVarbinds

ASSUME MessagesAssumption ==
  /\ MaxVarbinds \in Nat
  /\ None \notin Messages
  /\ \A m \in Messages : /\ m.op \in Ops
                         /\ m.vbs \in Seq(Oids)
                         /\ Len(m.vbs) <= MaxVarbinds
ASSUME MaxRepeatsAssumption == MaxRepeats \in Nat

VARIABLES
  msg,      \* the message of each datagram received
  cursor,   \* how many of its bindings have been dispatched
  call,     \* the latest ProviderRequest of each binding, open until done
  rsp,      \* the response under construction
  ndone,    \* its count of completions
  sent,     \* the responses transmitted
  thrown,   \* why the process died, "no" while it lives
  repeats,  \* completions invoked a second time, so far
  given     \* history: the first result each binding was given

avars == <<msg, cursor, call, rsp, ndone, sent, thrown, repeats, given>>
vars == <<rvars, avars>>

Blank == [i \in Slots |-> None]
EmptyResponse == [vbs |-> Blank, status |-> noError, index |-> 0]

Init ==
  /\ RegistryInit
  /\ msg = [r \in Reqs |-> None]
  /\ cursor = [r \in Reqs |-> 0]
  /\ call = [r \in Reqs |-> Blank]
  /\ rsp = [r \in Reqs |-> EmptyResponse]
  /\ ndone = [r \in Reqs |-> 0]
  /\ sent = [r \in Reqs |-> << >>]
  /\ thrown = "no"
  /\ repeats = 0
  /\ given = [r \in Reqs |-> Blank]

----------------------------------------------------------------------------
Alive == thrown = "no"

Received(r) == msg[r] # None
Size(r) == Len(msg[r].vbs)

(* The forEach over a request's bindings has not come to its end.          *)
Dispatching(r) == Received(r) /\ msg[r].op \in Handled /\ cursor[r] < Size(r)
Idle == \A r \in Reqs : ~ Dispatching(r)

(* Mutant of Closed: a call that was answered can be answered again.       *)
LeftOpen(prq) == prq

(* The request keeps the provider it was put to, whatever is registered    *)
(* after that: scalar says which kind of provider it is.                   *)
ProviderCall(oid, node) ==
  [kind |-> "call", oid |-> oid, node |-> node, scalar |-> decor[node] = "scalar",
   open |-> TRUE]
Open(r, i) == call[r][i] # None /\ call[r][i].open
Closed(prq) == IF prq = None THEN None ELSE [prq EXCEPT !.open = FALSE]

----------------------------------------------------------------------------
(* Mutant of SetSingleThrows: no code at all is expected of a Get.         *)
AnyCodeThrows(op, res) ==
  CASE res.kind \in {"undefined", "junk"} -> "incompatible result"
    [] res.kind = "code" /\ op # "Set" -> "no logger"
    [] OTHER -> "no"

(* Why _varbind_set_single throws, if it does: it has no case for done     *)
(* called with nothing on a Get or Set, and the warning about a code that  *)
(* only a Set may answer goes to this.log, which no agent has.             *)
SetSingleThrows(op, res) ==
  CASE res.kind \in {"undefined", "junk"} -> "incompatible result"
    [] res.kind = "code" /\ op # "Set" /\ res.code # genErr -> "no logger"
    [] OTHER -> "no"

(* A code has the request's binding cloned, which throws of a Counter64:   *)
(* the setter of the clone finds no hi and lo in a uint64_t.               *)
CloneThrows(op, oid, res) == res.kind = "code" /\ op = "Set" /\ oid \in Uncloneable

StuffThrows(op, oid, res) ==
  IF CloneThrows(op, oid, res) THEN "uncloneable" ELSE SetSingleThrows(op, res)

(* Mutants of SetSingle: the index counts from the binding after, the      *)
(* latest failure is reported, or the first to be answered.                *)
IndexAfter(response, vbs, i, res) ==
  IF res.kind = "varbind"
  THEN [response EXCEPT !.vbs[i] = res]
  ELSE [response EXCEPT !.vbs[i] = Varbind(vbs[i], "echo"),
                        !.status = res.code, !.index = i + 1]

LatestFailure(response, vbs, i, res) ==
  IF res.kind = "varbind"
  THEN [response EXCEPT !.vbs[i] = res]
  ELSE [response EXCEPT !.vbs[i] = Varbind(vbs[i], "echo"),
                        !.status = res.code, !.index = i]

EarliestAnswer(response, vbs, i, res) ==
  IF res.kind = "varbind"
  THEN [response EXCEPT !.vbs[i] = res]
  ELSE LET echoed == [response EXCEPT !.vbs[i] = Varbind(vbs[i], "echo")]
       IN IF response.status = noError
          THEN [echoed EXCEPT !.status = res.code, !.index = i]
          ELSE echoed

(* _varbind_set_single: a code echoes the request's binding, and becomes   *)
(* the response's error unless an earlier binding's already is.            *)
SetSingle(response, vbs, i, res) ==
  IF res.kind = "varbind"
  THEN [response EXCEPT !.vbs[i] = res]
  ELSE LET echoed == [response EXCEPT !.vbs[i] = Varbind(vbs[i], "echo")]
       IN IF response.status = noError \/ i < response.index
          THEN [echoed EXCEPT !.status = res.code, !.index = i]
          ELSE echoed

(* varbinds.length; an element below it that was never assigned is         *)
(* undefined, and encode throws when it comes to it.                       *)
Length(response) ==
  LET assigned == { i \in Slots : response.vbs[i] # None }
  IN IF assigned = {} THEN 0 ELSE CHOOSE i \in assigned : \A j \in assigned : j <= i

Encodable(response) == \A i \in 1..Length(response) : response.vbs[i] # None

(* What _transmit_response puts on the wire.                               *)
Encoded(response) == [response EXCEPT !.vbs = SubSeq(@, 1, Length(response))]

(* Mutants of LastDone: ++ndone >= nvb, and ndone++ == nvb.                *)
EveryDoneFromLast(r) == ndone[r] + 1 >= Size(r)
OneDoneTooMany(r) == ndone[r] = Size(r)

(* ++ndone == nvb                                                          *)
LastDone(r) == ndone[r] + 1 = Size(r)

(* _getset_done, and _getnext_done with a result: stuff it into the        *)
(* response, count it, and transmit when the count comes to the number of  *)
(* bindings.                                                               *)
Stuff(r, i, res) ==
  LET why  == StuffThrows(msg[r].op, msg[r].vbs[i], res)
      full == SetSingle(rsp[r], msg[r].vbs, i, res)
  IN \/ /\ why # "no"
        /\ thrown' = why
        /\ UNCHANGED <<rsp, ndone, sent, given>>
     \/ /\ why = "no"
        /\ rsp' = [rsp EXCEPT ![r] = full]
        /\ ndone' = [ndone EXCEPT ![r] = @ + 1]
        /\ given' = [given EXCEPT ![r][i] = IF @ = None THEN res ELSE @]
        /\ IF LastDone(r) /\ Encodable(full)
           THEN sent' = [sent EXCEPT ![r] = Append(@, Encoded(full))]
           ELSE UNCHANGED sent
        /\ thrown' = IF LastDone(r) /\ ~ Encodable(full)
                     THEN "unassigned varbind" ELSE "no"

----------------------------------------------------------------------------
(* addProviders, in a turn of its own.                                     *)
Register(batch) ==
  /\ Alive /\ Idle
  /\ AddProviders(batch)
  /\ UNCHANGED avars

(* _recv of a well-formed message, and _process_req up to the first        *)
(* binding.  The response is made before the operation is looked at, which *)
(* throws if the message has no request_id to give it; _do_getbulk is      *)
(* empty, and the other operations are ignored.                            *)
Receive(r, m) ==
  /\ Alive /\ Idle
  /\ ~ Received(r)
  /\ msg' = [msg EXCEPT ![r] = m]
  /\ thrown' = IF m.op = "Trap" THEN "no request id" ELSE "no"
  /\ UNCHANGED <<rvars, cursor, call, rsp, ndone, sent, repeats, given>>

(* Mutant of Absence: a scalar is asked for any instance.                  *)
AnyScalarInstance(oid, node) ==
  CASE ~ InstancePossible(node) -> "noSuchObject"
    [] InstancePossible(node) /\ Instance(oid, node) = << >> -> "noSuchInstance"
    [] OTHER -> "no"

(* The test of _do_getset for what it answers itself.                      *)
Absence(oid, node) ==
  CASE ~ InstancePossible(node) -> "noSuchObject"
    [] InstancePossible(node) /\ Instance(oid, node) = << >> -> "noSuchInstance"
    [] decor[node] = "scalar" /\ Instance(oid, node) \notin {<< >>, <<0>>} ->
          "noSuchInstance"
    [] OTHER -> "no"

(* One iteration of _do_getset's forEach.                                  *)
GetSetOne(r, i, oid, node) ==
  \/ /\ RequestThrows(node)
     /\ thrown' = "short node"
     /\ UNCHANGED <<call, rsp, ndone, sent, given>>
  \/ /\ ~ RequestThrows(node) /\ Absence(oid, node) # "no"
     /\ Stuff(r, i, Varbind(oid, Absence(oid, node)))
     /\ UNCHANGED call
  \/ /\ ~ RequestThrows(node) /\ Absence(oid, node) = "no"
     /\ call' = [call EXCEPT ![r][i] = ProviderCall(oid, node)]
     /\ UNCHANGED <<rsp, ndone, sent, given, thrown>>

DispatchGetSet(r) ==
  /\ Alive /\ Dispatching(r) /\ msg[r].op \in Getset
  /\ LET i == cursor[r] + 1
         oid == msg[r].vbs[i]
     IN GetSetOne(r, i, oid, Lookup(oid))
  /\ cursor' = [cursor EXCEPT ![r] = @ + 1]
  /\ UNCHANGED <<rvars, msg, repeats>>

(* _do_getnext_one: ask the next object's provider, or say that there is   *)
(* none, under the name this question was put with.                        *)
GetNextOne(r, i, oid, node) ==
  \/ /\ node = NoNode
     /\ Stuff(r, i, Varbind(oid, "endOfMibView"))
     /\ call' = [call EXCEPT ![r][i] = Closed(@)]
  \/ /\ node \in nodes /\ RequestThrows(node)
     /\ thrown' = "short node"
     /\ UNCHANGED <<call, rsp, ndone, sent, given>>
  \/ /\ node \in nodes /\ ~ RequestThrows(node)
     /\ call' = [call EXCEPT ![r][i] = ProviderCall(oid, node)]
     /\ UNCHANGED <<rsp, ndone, sent, given, thrown>>

(* One iteration of _do_getnext's forEach.                                 *)
DispatchGetNext(r) ==
  /\ Alive /\ Dispatching(r) /\ msg[r].op = "GetNext"
  /\ LET i == cursor[r] + 1
         oid == msg[r].vbs[i]
     IN GetNextOne(r, i, oid, GetnextLookup(oid, TRUE))
  /\ cursor' = [cursor EXCEPT ![r] = @ + 1]
  /\ UNCHANGED <<rvars, msg, repeats>>

(* What the provider of an outstanding request may answer.                 *)
MayAnswer(r, i) ==
  LET prq == call[r][i]
  IN Answers(msg[r].op, prq.oid, prq.node, prq.scalar)

(* A provider invokes done: from its handler, in a later turn, or from the *)
(* handler of another request it is given while it holds this one.  A      *)
(* GetNext answered with nothing goes on from the node just asked.         *)
Complete(r, i) ==
  /\ Alive /\ Open(r, i)
  /\ \E res \in MayAnswer(r, i) :
        \/ /\ msg[r].op = "GetNext" /\ res = Undefined
           /\ LET node == call[r][i].node
              IN GetNextOne(r, i, node, GetnextLookup(node, FALSE))
        \/ /\ msg[r].op # "GetNext" \/ res # Undefined
           /\ Stuff(r, i, res)
           /\ call' = [call EXCEPT ![r][i] = Closed(@)]
  /\ UNCHANGED <<rvars, msg, cursor, repeats>>

(* A provider invokes the same done again, which the documentation leaves  *)
(* undefined, with a result: the agent has nothing that tells it apart.    *)
CompleteAgain(r, i) ==
  /\ Alive /\ repeats < MaxRepeats
  /\ call[r][i] # None /\ ~ Open(r, i)
  /\ \E res \in MayAnswer(r, i) \ {Undefined} : Stuff(r, i, res)
  /\ repeats' = repeats + 1
  /\ UNCHANGED <<rvars, msg, cursor, call>>

Next ==
  \/ \E batch \in Batches : Register(batch)
  \/ \E r \in Reqs, m \in Messages : Receive(r, m)
  \/ \E r \in Reqs : DispatchGetSet(r) \/ DispatchGetNext(r)
  \/ \E r \in Reqs, i \in Slots : Complete(r, i)
  \/ \E r \in Reqs, i \in Slots : CompleteAgain(r, i)

Spec == Init /\ [][Next]_vars

(***************************************************************************)
(* A turn runs to its end, and every provider invokes each done it was     *)
(* given: docs/provider.restdown requires it of exactly one handler.       *)
(***************************************************************************)
Fairness ==
  /\ \A r \in Reqs : WF_vars(DispatchGetSet(r) \/ DispatchGetNext(r))
  /\ \A r \in Reqs, i \in Slots : WF_vars(Complete(r, i))

FairSpec == Spec /\ Fairness

----------------------------------------------------------------------------
(* Type invariant.                                                         *)
Calls == [kind : {"call"}, oid : OID, node : OID, scalar : BOOLEAN, open : BOOLEAN]
Responses == [vbs : [Slots -> Varbinds \cup {None}], status : Errors, index : 0..MaxVarbinds]
Replies == [vbs : Seq(Varbinds), status : Errors, index : 0..MaxVarbinds]
Causes == {"no", "incompatible result", "no logger", "short node",
           "no request id", "uncloneable", "unassigned varbind"}

TypeOK ==
  /\ RegistryTypeOK
  /\ msg \in [Reqs -> Messages \cup {None}]
  /\ cursor \in [Reqs -> 0..MaxVarbinds]
  /\ call \in [Reqs -> [Slots -> Calls \cup {None}]]
  /\ rsp \in [Reqs -> Responses]
  /\ ndone \in [Reqs -> Nat]
  /\ sent \in [Reqs -> Seq(Replies)]
  /\ thrown \in Causes
  /\ repeats \in 0..MaxRepeats
  /\ given \in [Reqs -> [Slots -> Results \cup {None}]]

(***************************************************************************)
(* A datagram is answered at most once, whatever providers do: the count   *)
(* that triggers the transmission passes the number of bindings once, even *)
(* if a provider invokes done again and again.                             *)
(***************************************************************************)
OneResponse == \A r \in Reqs : Len(sent[r]) <= 1

(* The bindings whose element in the response is there.                    *)
Assigned(r) == { i \in Slots : rsp[r].vbs[i] # None }

Accounted(r) ==
  /\ \A i \in Slots : i <= cursor[r] <=> (Open(r, i) \/ i \in Assigned(r))
  /\ \A i \in Slots : ~ (Open(r, i) /\ i \in Assigned(r))
  /\ ndone[r] = Cardinality(Assigned(r))
  /\ sent[r] # << >> <=> /\ Received(r) /\ Size(r) > 0
                         /\ Cardinality(Assigned(r)) = Size(r)

(***************************************************************************)
(* As long as no provider invokes a done twice, no answer is lost and none *)
(* counts twice: every binding dispatched either waits for its provider or *)
(* has its element in the response, the count is the number of these, and  *)
(* the response has gone out exactly when all of them are there.           *)
(***************************************************************************)
EveryBindingAccounted == Alive /\ repeats = 0 => \A r \in Reqs : Accounted(r)

(***************************************************************************)
(* What a provider is asked falls to it, at the moment it is asked         *)
(* (docs/provider.restdown): a Get or Set names an instance of the node,   *)
(* and no scalar's but the 0th; a GetNext can be satisfied by the node and *)
(* a scalar asked for the next instance always has it.                     *)
(***************************************************************************)
InScope(op, prq) ==
  /\ InstancePossible(prq.node)
  /\ op \in Getset => /\ IsDescended(prq.oid, prq.node)
                      /\ decor[prq.node] = "scalar" => prq.oid = Append(prq.node, 0)
  /\ op = "GetNext" => \/ LexLess(prq.oid, prq.node)
                       \/ IsPrefix(prq.node, prq.oid) /\ decor[prq.node] = "column"
                       \/ prq.oid = prq.node

AskedInScope ==
  [][\A r \in Reqs, i \in Slots :
        call'[r][i] # call[r][i] /\ call'[r][i].open => InScope(msg[r].op, call'[r][i])]_vars

(***************************************************************************)
(* A GetNext answer lies ahead of the question, whatever new objects are   *)
(* registered while it is being answered: a manager that walks cannot be   *)
(* sent back.  (An object that is replaced is another matter: a column     *)
(* that becomes a scalar while it is asked is asked again as a scalar.)    *)
(***************************************************************************)
GetNextAdvances ==
  \A r \in Reqs : sent[r] # << >> /\ msg[r].op = "GetNext" =>
     \A i \in DOMAIN sent[r][1].vbs :
        LET vb == sent[r][1].vbs[i]
        IN vb.val = "value" => LexLess(msg[r].vbs[i], vb.name)

(***************************************************************************)
(* With the registry as it is, a GetNext is answered with the first        *)
(* instance after the one named, of all those that providers hold, or with *)
(* endOfMibView if there is none, unless a provider failed.                *)
(***************************************************************************)
Instances == { Append(n, 0) : n \in { o \in nodes : decor[o] = "scalar" } }
             \cup { n \o row : n \in { o \in nodes : decor[o] = "column" }, row \in Rows }

InstancesAfter(oid) == { n \in Instances : LexLess(oid, n) }

GetNextExact ==
  \A r \in Reqs : sent[r] # << >> /\ msg[r].op = "GetNext" =>
     \A i \in 1..Size(r) :
        LET vb    == sent[r][1].vbs[i]
            after == InstancesAfter(msg[r].vbs[i])
        IN vb.val # "echo" =>
              IF after = {} THEN vb.val = "endOfMibView"
              ELSE vb = Varbind(LexFirst(after, None), "value")

(***************************************************************************)
(* The agent outlives every answer that the documentation allows and       *)
(* _varbind_set_single has a case for, and never comes to encode a         *)
(* response with a gap, whatever the order of the answers.  It dies only   *)
(* of requests: one that reaches no node deep enough to be an object       *)
(* identifier, a version 1 trap, and a Set of a Counter64 that fails.      *)
(***************************************************************************)
OutlivesAnswers == thrown \in {"no", "short node", "no request id", "uncloneable"}

(* What goes out, and when, is what RequestReply promises.                 *)
Answerable(m) == m.op \in Handled
RR == INSTANCE RequestReply WITH asked <- msg, replies <- sent
KeepsPromise == RR!Promise

(***************************************************************************)
(* Every Get, Set and GetNext that has a binding is answered, if the       *)
(* process lives.                                                          *)
(***************************************************************************)
EventuallyAnswered ==
  \A r \in Reqs : Received(r) /\ msg[r].op \in Handled /\ Size(r) > 0
                     ~> sent[r] # << >> \/ ~ Alive

----------------------------------------------------------------------------
(* What the comments and the documentation say and the code does not do.   *)

(* lib/agent.js:112-126: undefined, an error code and a varbind "end up    *)
(* here, one way or another, and we just stuff them into the response".    *)
ProviderResultsAreStuffed == thrown \notin {"incompatible result", "no logger"}

(* docs/agent.restdown:49: an agent without providers responds with errors *)
(* to all requests.                                                        *)
ShortNodesAreAnswered == thrown # "short node"

(* docs/provider.restdown:156-159: a GetNext at the end of the MIB view is *)
(* answered as RFC 3416 has it, under the name that was requested.         *)
EndOfViewNamesRequest ==
  \A r \in Reqs : sent[r] # << >> =>
     \A i \in 1..Size(r) :
        LET vb == sent[r][1].vbs[i]
        IN vb.val = "endOfMibView" => vb.name = msg[r].vbs[i]
============================================================================

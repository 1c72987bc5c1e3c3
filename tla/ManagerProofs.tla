--------------------------- MODULE ManagerProofs ----------------------------
(***************************************************************************)
(* Theorems about the managing process (Manager), for any number of        *)
(* clients, calls, losses and duplicates.                                  *)
(***************************************************************************)
EXTENDS Manager, TLAPS

----------------------------------------------------------------------------
(* The wire with a datagram more, or one copy of a datagram less.          *)
LEMMA BagAdd ==
  ASSUME NEW b, IsABag(b), NEW d, NEW b2, b2 = b (+) SetToBag({d})
  PROVE  /\ IsABag(b2)
         /\ BagToSet(b2) = BagToSet(b) \cup {d}
         /\ b2[d] = IF d \in BagToSet(b) THEN b[d] + 1 ELSE 1
         /\ \A e \in BagToSet(b) : e # d => b2[e] = b[e]
BY DEF IsABag, BagToSet, (+), SetToBag

LEMMA BagTake ==
  ASSUME NEW b, IsABag(b), NEW d \in BagToSet(b), NEW b2, b2 = b (-) SetToBag({d})
  PROVE  /\ IsABag(b2)
         /\ BagToSet(b2) = IF b[d] = 1 THEN BagToSet(b) \ {d} ELSE BagToSet(b)
         /\ \A e \in BagToSet(b) : e # d => b2[e] = b[e]
BY DEF IsABag, BagToSet, (-), SetToBag

----------------------------------------------------------------------------
Outcomes == {"refused", "out of range", "unencodable", "sent"}
CallRecords == [client : Clients, call : Calls, id : Nat, outcome : Outcomes]

(* Two calls that were given an id were given different ones, and no call  *)
(* has the one that comes next.                                            *)
CallsOK ==
  /\ calls \in Seq(CallRecords)
  /\ Len(calls) <= MaxCalls
  /\ request_id \in Nat /\ 1 <= request_id /\ request_id <= Len(calls) + 1
  /\ \A m \in Made : Numbered(calls[m].call) =>
        1 <= calls[m].id /\ calls[m].id < request_id
  /\ \A m, n \in Made :
        /\ Numbered(calls[m].call) /\ Numbered(calls[n].call)
        /\ calls[m].id = calls[n].id
        => m = n

(* A callback is filed under its call's client and id, and did not run.    *)
TablesOK ==
  /\ DOMAIN callbacks = Clients
  /\ \A c \in Clients : \A id \in DOMAIN callbacks[c] :
        LET n == callbacks[c][id]
        IN /\ n \in Made
           /\ calls[n].client = c /\ calls[n].id = id
           /\ Numbered(calls[n].call) /\ calls[n].call.cb
           /\ \A i \in DOMAIN ran : ran[i].callback # n

(* A datagram carries its call's client, id and operation.                 *)
WireOK ==
  /\ IsABag(wire)
  /\ \A d \in UnderWay :
        /\ d.client \in Clients /\ d.n \in Made
        /\ calls[d.n].outcome = "sent"
        /\ d.client = calls[d.n].client /\ d.id = calls[d.n].id
        /\ \/ d.op = calls[d.n].call.op
           \/ d.op = "Response" /\ calls[d.n].call.op \in Answered

(* Each callback that ran is another, and was given its own answer.        *)
RanOK ==
  /\ ran \in Seq([callback : Made, answer : Made])
  /\ \A i \in DOMAIN ran : ran[i].callback = ran[i].answer
  /\ CallbackRunsOnce

RestOK ==
  /\ started \subseteq Clients /\ unrefed \subseteq Clients
  /\ process \in {"running", "dead", "exited"}
  /\ process = "exited" => unrefed = Clients
  /\ emitted \subseteq Made /\ lost \subseteq Made
  /\ dups \in Nat

MInv == CallsOK /\ TablesOK /\ WireOK /\ RanOK /\ RestOK

(* While nothing was duplicated, a call has at most one datagram under     *)
(* way, and its callback, if it has one, is in the table.                  *)
SingleFile ==
  dups = 0 =>
    \A d \in UnderWay :
      /\ wire[d] = 1
      /\ \A e \in UnderWay : d.n = e.n => d = e
      /\ Numbered(calls[d.n].call) /\ calls[d.n].call.cb
           => d.id \in DOMAIN callbacks[d.client]

StrayInv == SingleFile /\ DiesOfStrayResponse

----------------------------------------------------------------------------
(* The operations a call may have.                                         *)
LEMMA CallProperties ==
  ASSUME NEW a \in Calls
  PROVE  /\ a.op \in Requests \cup Notices
         /\ a.cb \in BOOLEAN
         /\ a.op \in {"SNMPv2_Trap", "Trap"} => ~ a.cb
BY ManagerAssumption DEF CallShape

LEMMA MInvInit == Init => MInv /\ WaitsForSomething /\ StrayInv
<1> SUFFICES ASSUME Init PROVE MInv /\ WaitsForSomething /\ StrayInv
  OBVIOUS
<1> USE DEF Init
<1>1. Made = {} /\ Len(calls) = 0
  BY DEF Made
<1>2. IsABag(wire) /\ UnderWay = {}
  BY DEF EmptyBag, SetToBag, IsABag, UnderWay, BagToSet
<1>3. CallsOK
  BY <1>1, ManagerAssumption DEF CallsOK
<1>4. TablesOK /\ \A c \in Clients : DOMAIN callbacks[c] = {}
  BY DEF TablesOK
<1>5. WireOK
  BY <1>2 DEF WireOK
<1>6. RanOK
  BY DEF RanOK, CallbackRunsOnce
<1>7. RestOK
  BY DEF RestOK
<1>8. WaitsForSomething
  BY <1>4 DEF WaitsForSomething
<1>9. StrayInv
  BY <1>2 DEF StrayInv, SingleFile, DiesOfStrayResponse
<1>10. QED
  BY <1>3, <1>4, <1>5, <1>6, <1>7, <1>8, <1>9 DEF MInv

----------------------------------------------------------------------------
(* A sequence's elements, and a sequence over a larger set.                *)
LEMMA SeqElements ==
  ASSUME NEW S, NEW s \in Seq(S)
  PROVE  /\ Len(s) \in Nat /\ DOMAIN s = 1..Len(s)
         /\ \A i \in 1..Len(s) : s[i] \in S
OBVIOUS

LEMMA SeqMonotone ==
  ASSUME NEW S, NEW T, S \subseteq T, NEW s \in Seq(S)
  PROVE  s \in Seq(T)
OBVIOUS

(* The elements of the two histories.                                      *)
LEMMA HistoryElements ==
  ASSUME MInv
  PROVE  /\ Len(calls) \in Nat /\ Made = 1..Len(calls) /\ DOMAIN calls = Made
         /\ \A m \in Made : calls[m].id \in Nat /\ calls[m].call \in Calls
         /\ Len(ran) \in Nat /\ DOMAIN ran = 1..Len(ran)
         /\ \A i \in DOMAIN ran : ran[i] \in [callback : Made, answer : Made]
<1>1. calls \in Seq(CallRecords)
  BY DEF MInv, CallsOK
<1>2. \A m \in 1..Len(calls) : calls[m] \in CallRecords
  BY <1>1
<1>3. \A m \in Made : calls[m].id \in Nat /\ calls[m].call \in Calls
  BY <1>2 DEF Made, CallRecords
<1>4. ran \in Seq([callback : Made, answer : Made])
  BY DEF MInv, RanOK
<1>5. /\ Len(ran) \in Nat /\ DOMAIN ran = 1..Len(ran)
      /\ \A i \in 1..Len(ran) : ran[i] \in [callback : Made, answer : Made]
  BY <1>4, SeqElements
<1>6. QED
  BY <1>1, <1>3, <1>5 DEF Made

----------------------------------------------------------------------------
(* What a call does, apart from what it tests.                             *)
LEMMA SendEffect ==
  ASSUME MInv, NEW c \in Clients, NEW a \in Calls, Send(c, a)
  PROVE  LET n == Len(calls) + 1
             out == Outcome(c, a)
             d == Datagram(a.op, c, request_id, n)
         IN /\ Made' = Made \cup {n} /\ n \notin Made /\ n \in Nat
            /\ \A m \in Made : calls'[m] = calls[m]
            /\ calls'[n] = [client |-> c, call |-> a, id |-> request_id, outcome |-> out]
            /\ calls' \in Seq(CallRecords) /\ Len(calls') = n /\ n <= MaxCalls
            /\ request_id' = IF Numbered(a) THEN request_id + 1 ELSE request_id
            /\ out \in Outcomes
            /\ \/ ~ Registers(a, out) /\ UNCHANGED callbacks
               \/ /\ Registers(a, out)
                  /\ callbacks' = [callbacks EXCEPT ![c] = Enter(@, request_id, n)]
            /\ \/ out # "sent" /\ UNCHANGED wire
               \/ out = "sent" /\ wire' = wire (+) SetToBag({d})
            /\ UNCHANGED <<started, unrefed, process, emitted, ran, lost, dups>>
<1> DEFINE n == Len(calls) + 1
           out == Outcome(c, a)
           rec == [client |-> c, call |-> a, id |-> request_id, outcome |-> out]
<1>1. /\ calls \in Seq(CallRecords) /\ Len(calls) \in Nat /\ request_id \in Nat
      /\ DOMAIN calls = 1..Len(calls)
  BY DEF MInv, CallsOK
<1>2. out \in Outcomes
  BY DEF Outcome, Outcomes
<1>3. rec \in CallRecords
  BY <1>1, <1>2 DEF CallRecords
<1>4. calls' = Append(calls, rec) /\ n <= MaxCalls
  BY DEF Send
<1>5. /\ calls' \in Seq(CallRecords) /\ Len(calls') = n /\ calls'[n] = rec
      /\ \A m \in 1..Len(calls) : calls'[m] = calls[m]
  BY <1>1, <1>3, <1>4
<1>6. Made' = Made \cup {n} /\ n \notin Made /\ n \in Nat
  BY <1>1, <1>5 DEF Made
<1>7. QED
  BY <1>2, <1>4, <1>5, <1>6 DEF Send, IdAfter, Made

LEMMA SendKeeps ==
  ASSUME MInv, NEW c \in Clients, NEW a \in Calls, Send(c, a)
  PROVE  MInv'
<1> DEFINE n == Len(calls) + 1
           out == Outcome(c, a)
           d == Datagram(a.op, c, request_id, n)
<1>1. /\ Made' = Made \cup {n} /\ n \notin Made /\ n \in Nat
      /\ \A m \in Made : calls'[m] = calls[m]
      /\ calls'[n] = [client |-> c, call |-> a, id |-> request_id, outcome |-> out]
      /\ calls' \in Seq(CallRecords) /\ Len(calls') = n /\ n <= MaxCalls
      /\ request_id' = IF Numbered(a) THEN request_id + 1 ELSE request_id
      /\ \/ ~ Registers(a, out) /\ UNCHANGED callbacks
         \/ /\ Registers(a, out)
            /\ callbacks' = [callbacks EXCEPT ![c] = Enter(@, request_id, n)]
      /\ \/ out # "sent" /\ UNCHANGED wire
         \/ out = "sent" /\ wire' = wire (+) SetToBag({d})
      /\ UNCHANGED <<started, unrefed, process, emitted, ran, lost, dups>>
  BY SendEffect
<1>2. /\ calls'[n].client = c /\ calls'[n].call = a /\ calls'[n].id = request_id
      /\ calls'[n].outcome = out
      /\ d.op = a.op /\ d.client = c /\ d.id = request_id /\ d.n = n
  BY <1>1 DEF Datagram
<1>3. /\ request_id \in Nat /\ 1 <= request_id /\ request_id <= n
      /\ \A m \in Made : Numbered(calls[m].call) =>
            1 <= calls[m].id /\ calls[m].id < request_id
      /\ \A m \in Made : calls[m].id \in Nat
  BY HistoryElements DEF MInv, CallsOK
<1>4. CallsOK'
  <2>1. \A m \in Made' : Numbered(calls'[m].call) =>
           1 <= calls'[m].id /\ calls'[m].id < request_id'
    BY <1>1, <1>2, <1>3
  <2>2. \A m, k \in Made' :
           /\ Numbered(calls'[m].call) /\ Numbered(calls'[k].call)
           /\ calls'[m].id = calls'[k].id
           => m = k
    BY <1>1, <1>2, <1>3 DEF MInv, CallsOK
  <2>3. QED
    BY <1>1, <1>3, <2>1, <2>2 DEF CallsOK, Numbered
<1>5. TablesOK'
  <2>1. /\ DOMAIN callbacks = Clients
        /\ \A i \in DOMAIN ran : ran[i].callback # n
    BY <1>1, HistoryElements DEF MInv, TablesOK
  <2>2. CASE Registers(a, out)
    <3>1. /\ DOMAIN callbacks' = Clients
          /\ callbacks'[c] = Enter(callbacks[c], request_id, n)
          /\ \A q \in Clients : q # c => callbacks'[q] = callbacks[q]
      BY <1>1, <2>1, <2>2
    <3>2. /\ DOMAIN callbacks'[c] = DOMAIN callbacks[c] \cup {request_id}
          /\ callbacks'[c][request_id] = n
          /\ \A id \in DOMAIN callbacks[c] :
                id # request_id => callbacks'[c][id] = callbacks[c][id]
      BY <3>1 DEF Enter
    <3>3. ASSUME NEW q \in Clients, NEW id \in DOMAIN callbacks'[q]
          PROVE  LET k == callbacks'[q][id]
                 IN /\ k \in Made'
                    /\ calls'[k].client = q /\ calls'[k].id = id
                    /\ Numbered(calls'[k].call) /\ calls'[k].call.cb
                    /\ \A i \in DOMAIN ran : ran[i].callback # k
      <4>1. CASE q = c /\ id = request_id
        BY <1>1, <1>2, <2>1, <2>2, <3>2, <4>1 DEF Registers
      <4>2. CASE ~ (q = c /\ id = request_id)
        <5>1. id \in DOMAIN callbacks[q] /\ callbacks'[q][id] = callbacks[q][id]
          BY <3>1, <3>2, <3>3, <4>2
        <5>2. QED
          BY <1>1, <5>1 DEF MInv, TablesOK
      <4>3. QED
        BY <4>1, <4>2
    <3>4. QED
      BY <1>1, <3>1, <3>3 DEF TablesOK
  <2>3. CASE UNCHANGED callbacks
    BY <1>1, <2>3 DEF MInv, TablesOK
  <2>4. QED
    BY <1>1, <2>2, <2>3
<1>6. WireOK'
  <2>1. CASE UNCHANGED wire
    BY <1>1, <2>1 DEF MInv, WireOK, UnderWay
  <2>2. CASE out = "sent" /\ wire' = wire (+) SetToBag({d})
    <3>1. IsABag(wire') /\ UnderWay' = UnderWay \cup {d}
      <4>1. IsABag(wire)
        BY DEF MInv, WireOK
      <4> HIDE DEF d
      <4>2. QED
        BY <2>2, <4>1, BagAdd DEF UnderWay
    <3>2. QED
      BY <1>1, <1>2, <2>2, <3>1 DEF MInv, WireOK
  <2>3. QED
    BY <1>1, <2>1, <2>2
<1>7. RanOK'
  <2>1. ran \in Seq([callback : Made', answer : Made'])
    <3>1. ran \in Seq([callback : Made, answer : Made]) /\ Made \subseteq Made'
      BY <1>1 DEF MInv, RanOK
    <3>2. [callback : Made, answer : Made] \subseteq [callback : Made', answer : Made']
      BY <3>1
    <3>3. QED
      BY <3>1, <3>2, SeqMonotone
  <2>2. QED
    BY <1>1, <2>1 DEF MInv, RanOK, CallbackRunsOnce
<1>8. RestOK'
  BY <1>1 DEF MInv, RestOK
<1>9. QED
  BY <1>4, <1>5, <1>6, <1>7, <1>8 DEF MInv

(* A response that finds its callback finds its own.                       *)
LEMMA FindsOwn ==
  ASSUME MInv, NEW d \in UnderWay, d.op = "Response",
         d.id \in DOMAIN callbacks[d.client]
  PROVE  callbacks[d.client][d.id] = d.n
<1> DEFINE n == callbacks[d.client][d.id]
<1>1. n \in Made /\ calls[n].id = d.id /\ Numbered(calls[n].call)
  BY DEF MInv, TablesOK, WireOK
<1>2. d.n \in Made /\ calls[d.n].id = d.id /\ Numbered(calls[d.n].call)
  <2>1. d.n \in Made /\ calls[d.n].id = d.id
    BY DEF MInv, WireOK
  <2>2. calls[d.n].call \in Calls
    BY <2>1, HistoryElements
  <2>3. calls[d.n].call.op # "Trap"
    BY <2>2, CallProperties DEF MInv, WireOK, Answered
  <2>4. QED
    BY <2>1, <2>3 DEF Numbered
<1>3. QED
  BY <1>1, <1>2 DEF MInv, CallsOK

LEMMA ResponseKeeps ==
  ASSUME MInv, NEW d \in UnderWay, ProcessResponse(d)
  PROVE  MInv'
<1>1. /\ d.op = "Response" /\ Running
      /\ wire' = wire (-) SetToBag({d})
      /\ UNCHANGED <<request_id, started, unrefed, emitted, calls, lost, dups>>
      /\ Made' = Made
  BY DEF ProcessResponse, Received, Made
<1>2. d.client \in Clients /\ d.n \in Made
  BY DEF MInv, WireOK
<1>3. CallsOK'
  BY <1>1 DEF MInv, CallsOK
<1>4. WireOK'
  <2>1. IsABag(wire') /\ UnderWay' \subseteq UnderWay
    BY <1>1, BagTake DEF MInv, WireOK, UnderWay
  <2>2. QED
    BY <1>1, <2>1 DEF MInv, WireOK
<1>5. CASE /\ d.id \in DOMAIN callbacks[d.client]
           /\ ran' = Append(ran, [callback |-> callbacks[d.client][d.id], answer |-> d.n])
           /\ callbacks' = [callbacks EXCEPT ![d.client] = Forget(@, d.id)]
           /\ UNCHANGED process
  <2>1. callbacks[d.client][d.id] = d.n
    BY <1>1, <1>5, FindsOwn
  <2>2. /\ \A i \in DOMAIN ran : ran[i].callback # d.n
        /\ calls[d.n].client = d.client /\ calls[d.n].id = d.id
    BY <1>2, <1>5, <2>1 DEF MInv, TablesOK
  <2>3. /\ ran \in Seq([callback : Made, answer : Made])
        /\ ran' = Append(ran, [callback |-> d.n, answer |-> d.n])
    BY <1>5, <2>1 DEF MInv, RanOK
  <2>4. /\ ran' \in Seq([callback : Made, answer : Made])
        /\ DOMAIN ran' = DOMAIN ran \cup {Len(ran) + 1}
        /\ \A i \in DOMAIN ran : ran'[i] = ran[i]
        /\ ran'[Len(ran) + 1] = [callback |-> d.n, answer |-> d.n]
        /\ Len(ran) + 1 \notin DOMAIN ran
    BY <1>2, <2>3
  <2>5. RanOK'
    BY <1>1, <2>2, <2>4 DEF MInv, RanOK, CallbackRunsOnce
  <2>6. TablesOK'
    <3>1. /\ DOMAIN callbacks' = Clients
          /\ callbacks'[d.client] = Forget(callbacks[d.client], d.id)
          /\ \A q \in Clients : q # d.client => callbacks'[q] = callbacks[q]
      BY <1>2, <1>5 DEF MInv, TablesOK
    <3>2. /\ DOMAIN callbacks'[d.client] = DOMAIN callbacks[d.client] \ {d.id}
          /\ \A id \in DOMAIN callbacks[d.client] \ {d.id} :
                callbacks'[d.client][id] = callbacks[d.client][id]
      BY <3>1 DEF Forget, Restrict
    <3>3. ASSUME NEW q \in Clients, NEW id \in DOMAIN callbacks'[q]
          PROVE  LET k == callbacks'[q][id]
                 IN /\ k \in Made
                    /\ calls[k].client = q /\ calls[k].id = id
                    /\ Numbered(calls[k].call) /\ calls[k].call.cb
                    /\ \A i \in DOMAIN ran' : ran'[i].callback # k
      <4>1. /\ id \in DOMAIN callbacks[q] /\ callbacks'[q][id] = callbacks[q][id]
            /\ ~ (q = d.client /\ id = d.id)
        BY <3>1, <3>2, <3>3
      <4>2. /\ callbacks[q][id] \in Made
            /\ calls[callbacks[q][id]].client = q /\ calls[callbacks[q][id]].id = id
            /\ Numbered(calls[callbacks[q][id]].call) /\ calls[callbacks[q][id]].call.cb
            /\ \A i \in DOMAIN ran : ran[i].callback # callbacks[q][id]
        BY <4>1 DEF MInv, TablesOK
      <4>3. callbacks[q][id] # d.n
        BY <2>2, <4>1, <4>2
      <4>4. QED
        BY <2>4, <4>1, <4>2, <4>3
    <3>4. QED
      BY <1>1, <3>1, <3>3 DEF TablesOK
  <2>7. RestOK'
    BY <1>1, <1>5 DEF MInv, RestOK
  <2>8. QED
    BY <1>3, <1>4, <2>5, <2>6, <2>7 DEF MInv
<1>6. CASE process' = "dead" /\ UNCHANGED <<callbacks, ran>>
  <2>1. TablesOK' /\ RanOK'
    BY <1>1, <1>6 DEF MInv, TablesOK, RanOK, CallbackRunsOnce
  <2>2. RestOK'
    BY <1>1, <1>6 DEF MInv, RestOK
  <2>3. QED
    BY <1>3, <1>4, <2>1, <2>2 DEF MInv
<1>7. QED
  BY <1>5, <1>6 DEF ProcessResponse

(* The steps of the network and the peers, and those of the process that   *)
(* are about neither calls nor responses.                                  *)
LEMMA OtherKeeps ==
  ASSUME MInv,
         UNCHANGED <<request_id, callbacks, calls, ran>>,
         WireOK' , RestOK'
  PROVE  MInv'
<1>1. Made' = Made
  BY DEF Made
<1>2. CallsOK' /\ TablesOK' /\ RanOK'
  BY <1>1 DEF MInv, CallsOK, TablesOK, RanOK, CallbackRunsOnce
<1>3. QED
  BY <1>2 DEF MInv

LEMMA RespondEffect ==
  ASSUME MInv, NEW d \in UnderWay, AgentRespond(d),
         NEW e, e = Datagram("Response", d.client, d.id, d.n)
  PROVE  /\ IsABag(wire')
         /\ d.op \in Answered => UnderWay' \subseteq UnderWay \cup {e} /\ e \in UnderWay'
         /\ d.op \notin Answered => UnderWay' \subseteq UnderWay
         /\ \A x \in UnderWay : x # d => x \in UnderWay'
         /\ \A x \in UnderWay : x # d /\ x # e => wire'[x] = wire[x]
         /\ wire[d] = 1 => d \notin UnderWay'
         /\ e \notin UnderWay /\ d.op \in Answered => wire'[e] = 1
<1>1. IsABag(wire) /\ d \in BagToSet(wire) /\ d # e
  BY DEF MInv, WireOK, UnderWay, AgentRespond, Requests, Datagram
<1>2. PICK b : b = wire (-) SetToBag({d})
  OBVIOUS
<1>3. /\ IsABag(b)
      /\ BagToSet(b) = IF wire[d] = 1 THEN UnderWay \ {d} ELSE UnderWay
      /\ \A x \in UnderWay : x # d => b[x] = wire[x]
  BY <1>1, <1>2, BagTake DEF UnderWay
<1>4. CASE d.op \in Answered
  <2>1. wire' = b (+) SetToBag({e})
    BY <1>2, <1>4 DEF AgentRespond, Received
  <2>2. /\ IsABag(wire')
        /\ UnderWay' = BagToSet(b) \cup {e}
        /\ wire'[e] = IF e \in BagToSet(b) THEN b[e] + 1 ELSE 1
        /\ \A x \in BagToSet(b) : x # e => wire'[x] = b[x]
    BY <1>3, <2>1, BagAdd DEF UnderWay
  <2>3. QED
    BY <1>1, <1>3, <1>4, <2>2
<1>5. CASE d.op \notin Answered
  <2>1. wire' = b
    BY <1>2, <1>5 DEF AgentRespond, Received
  <2>2. QED
    BY <1>1, <1>3, <1>5, <2>1 DEF UnderWay
<1>6. QED
  BY <1>4, <1>5

(* Taking one copy of a datagram off the wire.                             *)
LEMMA TakeEffect ==
  ASSUME MInv, NEW d \in UnderWay, wire' = Received(d)
  PROVE  /\ IsABag(wire')
         /\ UnderWay' \subseteq UnderWay
         /\ \A x \in UnderWay : x # d => x \in UnderWay' /\ wire'[x] = wire[x]
         /\ wire[d] = 1 => d \notin UnderWay'
<1>1. IsABag(wire) /\ wire' = wire (-) SetToBag({d})
  BY DEF MInv, WireOK, Received
<1>2. QED
  BY <1>1, BagTake DEF UnderWay

LEMMA RespondKeeps ==
  ASSUME MInv, NEW d \in UnderWay, AgentRespond(d)
  PROVE  MInv'
<1>1. PICK e : e = Datagram("Response", d.client, d.id, d.n)
  OBVIOUS
<1>2. /\ IsABag(wire')
      /\ UnderWay' \subseteq UnderWay \cup IF d.op \in Answered THEN {e} ELSE {}
  BY <1>1, RespondEffect
<1>3. /\ UNCHANGED <<request_id, callbacks, started, unrefed, process, emitted,
                      calls, ran, lost, dups>>
      /\ d.op \in Requests /\ Made' = Made
  BY DEF AgentRespond, Made
<1>4. e.op = "Response" /\ e.client = d.client /\ e.id = d.id /\ e.n = d.n
  BY <1>1 DEF Datagram
<1>5. WireOK'
  <2>1. ASSUME NEW x \in UnderWay'
        PROVE  /\ x.client \in Clients /\ x.n \in Made
               /\ calls[x.n].outcome = "sent"
               /\ x.client = calls[x.n].client /\ x.id = calls[x.n].id
               /\ \/ x.op = calls[x.n].call.op
                  \/ x.op = "Response" /\ calls[x.n].call.op \in Answered
    <3>1. CASE x \in UnderWay
      BY <3>1 DEF MInv, WireOK
    <3>2. CASE x = e /\ d.op \in Answered
      BY <1>3, <1>4, <3>2 DEF MInv, WireOK, Requests
    <3>3. QED
      BY <1>2, <2>1, <3>1, <3>2
  <2>2. QED
    BY <1>2, <1>3, <2>1 DEF WireOK
<1>6. RestOK'
  BY <1>3 DEF MInv, RestOK
<1>7. QED
  BY <1>3, <1>5, <1>6, OtherKeeps

(* A step that only takes a datagram off.                                  *)
LEMMA TakeKeeps ==
  ASSUME MInv, NEW d \in UnderWay, wire' = Received(d),
         UNCHANGED <<request_id, callbacks, calls, ran>>, RestOK'
  PROVE  MInv'
<1>1. IsABag(wire') /\ UnderWay' \subseteq UnderWay /\ Made' = Made
  BY TakeEffect DEF Made
<1>2. WireOK'
  BY <1>1 DEF MInv, WireOK
<1>3. QED
  BY <1>2, OtherKeeps

LEMMA DuplicateEffect ==
  ASSUME MInv, NEW d \in UnderWay, Duplicate(d)
  PROVE  IsABag(wire') /\ UnderWay' = UnderWay
<1>1. IsABag(wire) /\ wire' = wire (+) SetToBag({d})
  BY DEF MInv, WireOK, Duplicate
<1>2. IsABag(wire') /\ BagToSet(wire') = BagToSet(wire) \cup {d}
  BY <1>1, BagAdd
<1>3. QED
  BY <1>2 DEF UnderWay

(* The steps of one process that are about neither calls nor datagrams.    *)
LocalStep ==
  /\ \/ \E c \in Clients : SetStartuptime(c) \/ Close(c)
     \/ Exit
     \/ UNCHANGED vars

LEMMA LocalEffect ==
  ASSUME MInv, LocalStep
  PROVE  /\ UNCHANGED <<request_id, callbacks, wire, calls, ran, lost, dups>>
         /\ process' = process \/ process' = "exited"
         /\ RestOK'
<1>1. ASSUME NEW c \in Clients, SetStartuptime(c) PROVE RestOK'
  BY <1>1 DEF SetStartuptime, MInv, RestOK, Made
<1>2. ASSUME NEW c \in Clients, Close(c) PROVE RestOK'
  BY <1>2 DEF Close, Running, MInv, RestOK, Made
<1>3. CASE Exit
  BY <1>3 DEF Exit, MInv, RestOK, Made
<1>4. CASE UNCHANGED vars
  BY <1>4 DEF vars, MInv, RestOK, Made
<1>5. QED
  BY <1>1, <1>2, <1>3, <1>4 DEF LocalStep, SetStartuptime, Close, Exit, vars

LEMMA MInvStep == MInv /\ [Next]_vars => MInv'
<1> SUFFICES ASSUME MInv, [Next]_vars PROVE MInv'
  OBVIOUS
<1>1. ASSUME NEW c \in Clients, NEW a \in Calls, Send(c, a) PROVE MInv'
  BY <1>1, SendKeeps
<1>2. CASE LocalStep
  <2>1. WireOK' /\ RestOK'
    BY <1>2, LocalEffect DEF MInv, WireOK, UnderWay, Made
  <2>2. QED
    BY <1>2, <2>1, LocalEffect, OtherKeeps
<1>3. ASSUME NEW d \in UnderWay, ProcessResponse(d) PROVE MInv'
  BY <1>3, ResponseKeeps
<1>4. ASSUME NEW d \in UnderWay, AgentRespond(d) PROVE MInv'
  BY <1>4, RespondKeeps
<1>5. ASSUME NEW d \in UnderWay, TrapListenerEmit(d) PROVE MInv'
  <2>1. RestOK'
    BY <1>5 DEF TrapListenerEmit, MInv, RestOK, WireOK, Made
  <2>2. QED
    BY <1>5, <2>1, TakeKeeps DEF TrapListenerEmit
<1>6. ASSUME NEW d \in UnderWay, Lose(d) PROVE MInv'
  <2>1. RestOK'
    BY <1>6 DEF Lose, MInv, RestOK, WireOK, Made
  <2>2. QED
    BY <1>6, <2>1, TakeKeeps DEF Lose
<1>7. ASSUME NEW d \in UnderWay, Duplicate(d) PROVE MInv'
  <2>1. WireOK'
    BY <1>7, DuplicateEffect DEF Duplicate, MInv, WireOK, Made
  <2>2. RestOK'
    BY <1>7 DEF Duplicate, MInv, RestOK, Made
  <2>3. QED
    BY <1>7, <2>1, <2>2, OtherKeeps DEF Duplicate
<1>8. QED
  BY <1>1, <1>2, <1>3, <1>4, <1>5, <1>6, <1>7 DEF Next, LocalStep

----------------------------------------------------------------------------
(* A step that neither makes a call nor runs a callback leaves every       *)
(* waiting callback what it waits for.                                     *)
LEMMA StillWaits ==
  ASSUME MInv, WaitsForSomething, UNCHANGED <<callbacks, calls>>,
         lost \subseteq lost',
         \A d \in UnderWay :
            Numbered(calls[d.n].call) /\ calls[d.n].call.cb =>
               \/ \E e \in UnderWay' : e.n = d.n
               \/ d.n \in lost'
               \/ calls[d.n].call.op \in {"GetBulk", "InformRequest"}
  PROVE  WaitsForSomething'
<1>1. ASSUME NEW c \in Clients, NEW id \in DOMAIN callbacks[c]
      PROVE  LET n == callbacks[c][id]
             IN \/ \E d \in UnderWay' : d.n = n
                \/ n \in lost'
                \/ calls[n].outcome = "unencodable"
                \/ calls[n].call.op \in {"GetBulk", "InformRequest"}
  BY <1>1 DEF WaitsForSomething, MInv, TablesOK
<1>2. QED
  BY <1>1 DEF WaitsForSomething

LEMMA SendWaits ==
  ASSUME MInv, WaitsForSomething, NEW c \in Clients, NEW a \in Calls, Send(c, a)
  PROVE  WaitsForSomething'
<1> DEFINE n == Len(calls) + 1
           out == Outcome(c, a)
           d == Datagram(a.op, c, request_id, n)
<1>1. /\ Made' = Made \cup {n} /\ n \notin Made /\ n \in Nat
      /\ \A m \in Made : calls'[m] = calls[m]
      /\ calls'[n] = [client |-> c, call |-> a, id |-> request_id, outcome |-> out]
      /\ \/ ~ Registers(a, out) /\ UNCHANGED callbacks
         \/ /\ Registers(a, out)
            /\ callbacks' = [callbacks EXCEPT ![c] = Enter(@, request_id, n)]
      /\ \/ out # "sent" /\ UNCHANGED wire
         \/ out = "sent" /\ wire' = wire (+) SetToBag({d})
      /\ UNCHANGED lost
  BY SendEffect
<1>2. /\ UnderWay \subseteq UnderWay'
      /\ out = "sent" => d \in UnderWay'
  <2>1. IsABag(wire)
    BY DEF MInv, WireOK
  <2> HIDE DEF d
  <2>2. QED
    BY <1>1, <2>1, BagAdd DEF UnderWay
<1>3. d.n = n /\ calls'[n].outcome = out
  BY <1>1 DEF Datagram
<1>4. ASSUME NEW q \in Clients, NEW id \in DOMAIN callbacks'[q]
      PROVE  LET k == callbacks'[q][id]
             IN \/ \E x \in UnderWay' : x.n = k
                \/ k \in lost'
                \/ calls'[k].outcome = "unencodable"
                \/ calls'[k].call.op \in {"GetBulk", "InformRequest"}
  <2>1. CASE id \in DOMAIN callbacks[q] /\ callbacks'[q][id] = callbacks[q][id]
    <3>1. callbacks[q][id] \in Made
      BY <2>1 DEF MInv, TablesOK
    <3>2. QED
      BY <1>1, <1>2, <2>1, <3>1 DEF WaitsForSomething
  <2>2. CASE ~ (id \in DOMAIN callbacks[q] /\ callbacks'[q][id] = callbacks[q][id])
    <3>1. Registers(a, out) /\ callbacks' = [callbacks EXCEPT ![c] = Enter(@, request_id, n)]
      BY <1>1, <1>4, <2>2
    <3>2. DOMAIN callbacks = Clients
      BY DEF MInv, TablesOK
    <3>3. q = c /\ id = request_id /\ callbacks'[q][id] = n
      BY <1>4, <2>2, <3>1, <3>2 DEF Enter
    <3>4. QED
      BY <1>2, <1>3, <3>1, <3>3 DEF Registers
  <2>3. QED
    BY <2>1, <2>2
<1>5. QED
  BY <1>4 DEF WaitsForSomething

LEMMA ResponseWaits ==
  ASSUME MInv, WaitsForSomething, NEW d \in UnderWay, ProcessResponse(d)
  PROVE  WaitsForSomething'
<1>1. /\ d.op = "Response" /\ wire' = Received(d) /\ UNCHANGED <<calls, lost>>
      /\ d.client \in Clients
  BY DEF ProcessResponse, MInv, WireOK
<1>2. \A x \in UnderWay : x # d => x \in UnderWay'
  BY <1>1, TakeEffect
<1>3. /\ DOMAIN callbacks = Clients
      /\ \/ UNCHANGED callbacks
         \/ callbacks' = [callbacks EXCEPT ![d.client] = Forget(@, d.id)]
  BY DEF ProcessResponse, MInv, TablesOK
<1>4. ASSUME NEW q \in Clients, NEW id \in DOMAIN callbacks'[q]
      PROVE  LET k == callbacks'[q][id]
             IN \/ \E x \in UnderWay' : x.n = k
                \/ k \in lost'
                \/ calls'[k].outcome = "unencodable"
                \/ calls'[k].call.op \in {"GetBulk", "InformRequest"}
  <2>1. id \in DOMAIN callbacks[q] /\ callbacks'[q][id] = callbacks[q][id]
    BY <1>1, <1>3, <1>4 DEF Forget, Restrict
  <2>2. ~ (q = d.client /\ id = d.id)
    BY <1>1, <1>3, <1>4 DEF ProcessResponse, Forget, Restrict
  <2>3. callbacks[q][id] # d.n
    BY <2>1, <2>2 DEF MInv, TablesOK, WireOK
  <2>4. QED
    BY <1>1, <1>2, <2>1, <2>3 DEF WaitsForSomething
<1>5. QED
  BY <1>4 DEF WaitsForSomething

LEMMA WaitsStep == MInv /\ WaitsForSomething /\ [Next]_vars => WaitsForSomething'
<1> SUFFICES ASSUME MInv, WaitsForSomething, [Next]_vars PROVE WaitsForSomething'
  OBVIOUS
<1>1. CASE LocalStep
  <2>1. UNCHANGED <<callbacks, wire, calls, lost>> /\ UnderWay' = UnderWay
    BY <1>1, LocalEffect DEF UnderWay
  <2>2. QED
    BY <2>1, StillWaits
<1>2. ASSUME NEW d \in UnderWay, AgentRespond(d) PROVE WaitsForSomething'
  <2>1. PICK e : e = Datagram("Response", d.client, d.id, d.n)
    OBVIOUS
  <2>2. /\ d.op \in Answered => e \in UnderWay'
        /\ \A x \in UnderWay : x # d => x \in UnderWay'
    BY <1>2, <2>1, RespondEffect
  <2>3. /\ UNCHANGED <<callbacks, calls, lost>> /\ d.op \in Requests /\ e.n = d.n
        /\ d.op = calls[d.n].call.op
    BY <1>2, <2>1 DEF AgentRespond, Datagram, MInv, WireOK, Requests
  <2>4. QED
    BY <2>2, <2>3, StillWaits DEF Requests, Answered
<1>3. ASSUME NEW d \in UnderWay, TrapListenerEmit(d) PROVE WaitsForSomething'
  <2>1. /\ UNCHANGED <<callbacks, calls, lost>> /\ wire' = Received(d)
        /\ d.op \in Notices /\ d.n \in Made /\ d.op = calls[d.n].call.op
    BY <1>3 DEF TrapListenerEmit, MInv, WireOK, Notices
  <2>2. \A x \in UnderWay : x # d => x \in UnderWay'
    BY <2>1, TakeEffect
  <2>3. Numbered(calls[d.n].call) /\ calls[d.n].call.cb => d.op = "InformRequest"
    BY <2>1, HistoryElements, CallProperties DEF Notices, Numbered
  <2>4. QED
    BY <2>1, <2>2, <2>3, StillWaits
<1>4. ASSUME NEW d \in UnderWay, Lose(d) PROVE WaitsForSomething'
  <2>1. /\ UNCHANGED <<callbacks, calls>> /\ wire' = Received(d)
        /\ lost' = lost \cup {d.n}
    BY <1>4 DEF Lose
  <2>2. \A x \in UnderWay : x # d => x \in UnderWay'
    BY <2>1, TakeEffect
  <2>3. QED
    BY <2>1, <2>2, StillWaits
<1>5. ASSUME NEW d \in UnderWay, Duplicate(d) PROVE WaitsForSomething'
  <2>1. UNCHANGED <<callbacks, calls, lost>> /\ UnderWay' = UnderWay
    BY <1>5, DuplicateEffect DEF Duplicate
  <2>2. QED
    BY <2>1, StillWaits
<1>6. QED
  BY <1>1, <1>2, <1>3, <1>4, <1>5, SendWaits, ResponseWaits DEF Next, LocalStep

----------------------------------------------------------------------------
(* SingleFile, for the datagram x.                                         *)
Alone(x) ==
  /\ wire[x] = 1
  /\ \A e \in UnderWay : x.n = e.n => x = e
  /\ Numbered(calls[x.n].call) /\ calls[x.n].call.cb
       => x.id \in DOMAIN callbacks[x.client]

LEMMA SendAlone ==
  ASSUME MInv, StrayInv, NEW c \in Clients, NEW a \in Calls, Send(c, a)
  PROVE  StrayInv'
<1> DEFINE n == Len(calls) + 1
           out == Outcome(c, a)
           d == Datagram(a.op, c, request_id, n)
<1>1. /\ Made' = Made \cup {n} /\ n \notin Made /\ n \in Nat
      /\ \A m \in Made : calls'[m] = calls[m]
      /\ calls'[n] = [client |-> c, call |-> a, id |-> request_id, outcome |-> out]
      /\ \/ ~ Registers(a, out) /\ UNCHANGED callbacks
         \/ /\ Registers(a, out)
            /\ callbacks' = [callbacks EXCEPT ![c] = Enter(@, request_id, n)]
      /\ \/ out # "sent" /\ UNCHANGED wire
         \/ out = "sent" /\ wire' = wire (+) SetToBag({d})
      /\ UNCHANGED <<process, dups>>
  BY SendEffect
<1>2. d.n = n /\ d.id = request_id /\ d.client = c
  BY DEF Datagram
<1>3. IsABag(wire) /\ DOMAIN callbacks = Clients /\ \A x \in UnderWay : x.n \in Made
  BY DEF MInv, WireOK, TablesOK
<1>4. /\ \A q \in Clients : DOMAIN callbacks[q] \subseteq DOMAIN callbacks'[q]
      /\ Registers(a, out) => request_id \in DOMAIN callbacks'[c]
  BY <1>1, <1>3 DEF Enter
<1>5. /\ \/ out # "sent" /\ UnderWay' = UnderWay
         \/ out = "sent" /\ UnderWay' = UnderWay \cup {d} /\ wire'[d] = 1
      /\ \A x \in UnderWay : wire'[x] = wire[x]
  <2>1. d \notin UnderWay
    BY <1>1, <1>2, <1>3
  <2>2. CASE out # "sent" /\ UNCHANGED wire
    BY <2>2 DEF UnderWay
  <2>3. CASE out = "sent" /\ wire' = wire (+) SetToBag({d})
    <3> HIDE DEF d
    <3>1. /\ BagToSet(wire') = BagToSet(wire) \cup {d}
          /\ wire'[d] = IF d \in BagToSet(wire) THEN wire[d] + 1 ELSE 1
          /\ \A x \in BagToSet(wire) : x # d => wire'[x] = wire[x]
      BY <1>3, <2>3, BagAdd
    <3>2. QED
      BY <2>1, <2>3, <3>1 DEF UnderWay
  <2>4. QED
    BY <1>1, <2>2, <2>3
<1>6. ASSUME dups = 0, NEW x \in UnderWay' PROVE Alone(x)'
  <2>1. CASE x \in UnderWay
    <3>1. Alone(x)
      BY <1>6, <2>1 DEF StrayInv, SingleFile, Alone
    <3>2. x.client \in Clients /\ x.n \in Made
      BY <2>1 DEF MInv, WireOK
    <3>3. \A e \in UnderWay' : x.n = e.n => x = e
      BY <1>1, <1>2, <1>5, <3>1, <3>2 DEF Alone
    <3>4. QED
      BY <1>1, <1>4, <1>5, <2>1, <3>1, <3>2, <3>3 DEF Alone
  <2>2. CASE x = d /\ out = "sent"
    <3>1. wire'[x] = 1 /\ \A e \in UnderWay' : x.n = e.n => x = e
      BY <1>1, <1>2, <1>3, <1>5, <2>2
    <3>2. Numbered(calls'[x.n].call) /\ calls'[x.n].call.cb
             => x.id \in DOMAIN callbacks'[x.client]
      BY <1>1, <1>2, <1>4, <2>2 DEF Registers
    <3>3. QED
      BY <3>1, <3>2 DEF Alone
  <2>3. QED
    BY <1>5, <1>6, <2>1, <2>2
<1>7. SingleFile'
  BY <1>1, <1>6 DEF SingleFile, Alone
<1>8. DiesOfStrayResponse'
  BY <1>1 DEF StrayInv, DiesOfStrayResponse
<1>9. QED
  BY <1>7, <1>8 DEF StrayInv

(* The call that a response under way answers.                             *)
LEMMA ResponseCall ==
  ASSUME MInv, NEW d \in UnderWay, d.op = "Response"
  PROVE  /\ d.n \in Made /\ Numbered(calls[d.n].call)
         /\ calls[d.n].call.op \in Answered
<1>1. /\ d.n \in Made
      /\ d.op = calls[d.n].call.op \/ calls[d.n].call.op \in Answered
  BY DEF MInv, WireOK
<1>2. calls[d.n].call.op \in Requests \cup Notices
  BY <1>1, HistoryElements, CallProperties
<1>3. QED
  BY <1>1, <1>2 DEF Requests, Notices, Answered, Numbered

LEMMA ResponseAlone ==
  ASSUME MInv, StrayInv, NEW d \in UnderWay, ProcessResponse(d)
  PROVE  StrayInv'
<1>1. /\ d.op = "Response" /\ wire' = Received(d) /\ UNCHANGED <<calls, dups>>
      /\ Made' = Made
  BY DEF ProcessResponse, Made
<1>2. /\ UnderWay' \subseteq UnderWay
      /\ \A x \in UnderWay : x # d => wire'[x] = wire[x]
      /\ wire[d] = 1 => d \notin UnderWay'
  BY <1>1, TakeEffect
<1>3. /\ d.n \in Made /\ Numbered(calls[d.n].call)
      /\ calls[d.n].call.op \in Answered
  BY <1>1, ResponseCall
<1>4. /\ DOMAIN callbacks = Clients
      /\ \A x \in UnderWay : /\ x.client \in Clients /\ x.n \in Made
                             /\ x.client = calls[x.n].client /\ x.id = calls[x.n].id
  BY DEF MInv, TablesOK, WireOK
<1>5. \A q \in Clients : \A id \in DOMAIN callbacks[q] :
         id \in DOMAIN callbacks'[q] \/ (q = d.client /\ id = d.id)
  BY <1>4 DEF ProcessResponse, Forget, Restrict
<1>6. ASSUME dups = 0, NEW x \in UnderWay' PROVE Alone(x)'
  <2>1. x \in UnderWay /\ Alone(x) /\ Alone(d) /\ x # d
    BY <1>2, <1>6 DEF StrayInv, SingleFile, Alone
  <2>2. x.n # d.n
    BY <2>1 DEF Alone
  <2>3. ASSUME Numbered(calls[x.n].call), calls[x.n].call.cb
        PROVE  x.id \in DOMAIN callbacks'[x.client]
    <3>1. x.id # d.id
      BY <1>3, <1>4, <2>1, <2>2, <2>3 DEF MInv, CallsOK
    <3>2. QED
      BY <1>4, <1>5, <2>1, <2>3, <3>1 DEF Alone
  <2>4. QED
    BY <1>1, <1>2, <2>1, <2>3 DEF Alone
<1>7. SingleFile'
  BY <1>1, <1>6 DEF SingleFile, Alone
<1>8. DiesOfStrayResponse'
  <2>1. CASE d.id \notin DOMAIN callbacks[d.client] /\ dups = 0
    <3>1. ~ calls[d.n].call.cb
      BY <1>3, <2>1 DEF StrayInv, SingleFile
    <3>2. QED
      BY <1>1, <1>3, <3>1 DEF DiesOfStrayResponse
  <2>2. CASE d.id \in DOMAIN callbacks[d.client]
    BY <1>1, <2>2 DEF ProcessResponse, StrayInv, DiesOfStrayResponse
  <2>3. CASE dups # 0
    BY <1>1, <2>3 DEF MInv, RestOK, DiesOfStrayResponse
  <2>4. QED
    BY <2>1, <2>2, <2>3
<1>9. QED
  BY <1>7, <1>8 DEF StrayInv

LEMMA RespondAlone ==
  ASSUME MInv, StrayInv, NEW d \in UnderWay, AgentRespond(d)
  PROVE  StrayInv'
<1>1. PICK e : e = Datagram("Response", d.client, d.id, d.n)
  OBVIOUS
<1>2. /\ e.n = d.n /\ e.id = d.id /\ e.client = d.client /\ e # d
      /\ UNCHANGED <<calls, callbacks, process, dups>> /\ Made' = Made
  BY <1>1 DEF AgentRespond, Datagram, Requests, Made
<1>3. /\ UnderWay' \subseteq UnderWay \cup {e}
      /\ \A x \in UnderWay : x # d /\ x # e => wire'[x] = wire[x]
      /\ wire[d] = 1 => d \notin UnderWay'
      /\ e \in UnderWay' /\ e \notin UnderWay => wire'[e] = 1
  BY <1>1, RespondEffect
<1>4. ASSUME dups = 0, NEW x \in UnderWay' PROVE Alone(x)'
  <2>1. Alone(d) /\ e \notin UnderWay /\ x # d
    BY <1>2, <1>3, <1>4 DEF StrayInv, SingleFile, Alone
  <2>2. CASE x \in UnderWay
    <3>1. Alone(x) /\ x.n # d.n
      BY <1>4, <2>1, <2>2 DEF StrayInv, SingleFile, Alone
    <3>2. QED
      BY <1>2, <1>3, <2>1, <2>2, <3>1 DEF Alone
  <2>3. CASE x = e
    BY <1>2, <1>3, <1>4, <2>1, <2>3 DEF Alone
  <2>4. QED
    BY <1>3, <1>4, <2>2, <2>3
<1>5. SingleFile'
  BY <1>2, <1>4 DEF SingleFile, Alone
<1>6. QED
  BY <1>2, <1>5 DEF StrayInv, DiesOfStrayResponse

LEMMA TakeAlone ==
  ASSUME MInv, StrayInv, NEW d \in UnderWay, wire' = Received(d),
         UNCHANGED <<calls, callbacks, process, dups>>
  PROVE  StrayInv'
<1>1. /\ UnderWay' \subseteq UnderWay /\ Made' = Made
      /\ \A x \in UnderWay : x # d => wire'[x] = wire[x]
      /\ wire[d] = 1 => d \notin UnderWay'
  BY TakeEffect DEF Made
<1>2. SingleFile'
  BY <1>1 DEF StrayInv, SingleFile
<1>3. QED
  BY <1>1, <1>2 DEF StrayInv, DiesOfStrayResponse

LEMMA StrayStep == MInv /\ StrayInv /\ [Next]_vars => StrayInv'
<1> SUFFICES ASSUME MInv, StrayInv, [Next]_vars PROVE StrayInv'
  OBVIOUS
<1>1. CASE LocalStep
  <2>1. /\ UNCHANGED <<callbacks, wire, calls, dups>>
        /\ process' = process \/ process' = "exited"
    BY <1>1, LocalEffect
  <2>2. QED
    BY <2>1 DEF StrayInv, SingleFile, DiesOfStrayResponse, UnderWay, Made
<1>2. ASSUME NEW d \in UnderWay, TrapListenerEmit(d) PROVE StrayInv'
  BY <1>2, TakeAlone DEF TrapListenerEmit
<1>3. ASSUME NEW d \in UnderWay, Lose(d) PROVE StrayInv'
  BY <1>3, TakeAlone DEF Lose
<1>4. ASSUME NEW d \in UnderWay, Duplicate(d) PROVE StrayInv'
  <2>1. dups' > 0 /\ dups' # 0
    BY <1>4 DEF Duplicate, MInv, RestOK
  <2>2. QED
    BY <2>1 DEF StrayInv, SingleFile, DiesOfStrayResponse
<1>5. QED
  BY <1>1, <1>2, <1>3, <1>4, SendAlone, ResponseAlone, RespondAlone DEF Next, LocalStep

----------------------------------------------------------------------------
LEMMA ManagerInv == Spec => [](MInv /\ WaitsForSomething /\ StrayInv)
<1>1. MInv /\ WaitsForSomething /\ StrayInv /\ [Next]_vars
        => (MInv /\ WaitsForSomething /\ StrayInv)'
  BY MInvStep, WaitsStep, StrayStep
<1>2. QED
  BY <1>1, MInvInit, PTL DEF Spec

(***************************************************************************)
(* The type invariant, for any number of clients, calls, losses and        *)
(* duplicates.                                                             *)
(***************************************************************************)
THEOREM ManagerTypeCorrect == Spec => []ManagerTypeOK
<1>1. MInv => ManagerTypeOK
  <2> SUFFICES ASSUME MInv PROVE ManagerTypeOK
    OBVIOUS
  <2>1. request_id \in 1..(MaxCalls + 1)
    BY HistoryElements, ManagerAssumption DEF MInv, CallsOK
  <2>2. \A c \in Clients : /\ DOMAIN callbacks[c] \subseteq 1..(request_id - 1)
                           /\ \A id \in DOMAIN callbacks[c] : callbacks[c][id] \in Made
    <3>1. ASSUME NEW c \in Clients, NEW id \in DOMAIN callbacks[c]
          PROVE  id \in 1..(request_id - 1) /\ callbacks[c][id] \in Made
      <4>1. callbacks[c][id] \in Made /\ calls[callbacks[c][id]].id = id
            /\ Numbered(calls[callbacks[c][id]].call)
        BY <3>1 DEF MInv, TablesOK
      <4>2. id \in Nat /\ 1 <= id /\ id < request_id /\ request_id \in Nat
        BY <4>1, HistoryElements DEF MInv, CallsOK
      <4>3. QED
        BY <4>1, <4>2
    <3>2. QED
      BY <3>1
  <2>3. \A i \in DOMAIN ran : ran[i].callback \in Made /\ ran[i].answer \in Made
    BY HistoryElements
  <2>4. QED
    BY <2>1, <2>2, <2>3 DEF ManagerTypeOK, MInv, RestOK, WireOK
<1>2. QED
  BY <1>1, ManagerInv, PTL

(***************************************************************************)
(* A callback is never run with the answer to another call: ids are not    *)
(* used twice, and one is all that _process_msg goes by.                   *)
(***************************************************************************)
THEOREM AnswersMatched == Spec => []OwnAnswer
<1>1. MInv => OwnAnswer
  BY DEF MInv, RanOK, OwnAnswer
<1>2. QED
  BY <1>1, ManagerInv, PTL

(***************************************************************************)
(* A callback runs at most once, whatever the network duplicates.          *)
(***************************************************************************)
THEOREM RunsOnce == Spec => []CallbackRunsOnce
<1>1. MInv => CallbackRunsOnce
  BY DEF MInv, RanOK
<1>2. QED
  BY <1>1, ManagerInv, PTL

(***************************************************************************)
(* A callback in the table has something to wait for, or is one of the     *)
(* kinds that wait for ever.                                               *)
(***************************************************************************)
THEOREM WaitsExplained == Spec => []WaitsForSomething
<1>1. QED
  BY ManagerInv, PTL

(***************************************************************************)
(* The process dies of a response only if one was duplicated, or a request *)
(* was sent with no callback.                                              *)
(***************************************************************************)
THEOREM DeathExplained == Spec => []DiesOfStrayResponse
<1>1. StrayInv => DiesOfStrayResponse
  BY DEF StrayInv
<1>2. QED
  BY <1>1, ManagerInv, PTL
============================================================================

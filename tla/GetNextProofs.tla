---------------------------- MODULE GetNextProofs ----------------------------
(***************************************************************************)
(* Theorems about what providers are asked, how a GetNext is answered and  *)
(* what a walk prints.  They bring together two sides that the other       *)
(* modules keep apart: where next_match leads in the tree (RegistryProofs) *)
(* and what becomes of a request's bindings (AgentProofs).                 *)
(***************************************************************************)
EXTENDS AgentProofs, Walk

----------------------------------------------------------------------------
(* What follows a node without being below it follows everything below it, *)
(* and so does everything below the other.                                 *)
LEMMA AfterCarries ==
  ASSUME NEW a \in OID, NEW b \in OID, NEW x \in OID, NEW y \in OID,
         LexLess(a, b), ~ IsPrefix(a, b), IsPrefix(a, x), IsPrefix(b, y)
  PROVE  LexLess(x, y)
<1>1. /\ Len(a) \in Nat /\ Len(b) \in Nat
      /\ \A k \in Pos : /\ At(a, k) \in Int /\ At(b, k) \in Int
                        /\ k > Len(a) => At(a, k) = -1
                        /\ k > Len(b) => At(b, k) = -1
                        /\ k <= Len(a) => At(a, k) >= 0
  BY AtType
<1>2. PICK k \in Pos : (\A j \in 1..(k - 1) : At(a, j) = At(b, j)) /\ At(a, k) < At(b, k)
  BY LexAt
<1>3. \A j \in 1..Len(a) : At(x, j) = At(a, j)
  BY PrefixAt
<1>4. \A j \in 1..Len(b) : At(y, j) = At(b, j)
  BY PrefixAt
<1>5. k <= Len(a)
  <2> SUFFICES ASSUME ~ (k <= Len(a)) PROVE FALSE
    OBVIOUS
  <2>1. \A j \in 1..Len(a) : At(b, j) = At(a, j)
    BY <1>1, <1>2 DEF Pos
  <2>2. QED
    BY <2>1, PrefixAt
<1>6. k <= Len(b)
  <2>1. k \in Nat /\ At(a, k) >= 0 /\ At(a, k) < At(b, k)
    BY <1>1, <1>2, <1>5 DEF Pos
  <2>2. At(a, k) \in Int /\ (k > Len(b) => At(b, k) = -1)
    BY <1>1
  <2>3. QED
    BY <1>1, <2>1, <2>2
<1>7. \A j \in 1..(k - 1) : At(x, j) = At(y, j)
  BY <1>1, <1>2, <1>3, <1>4, <1>5, <1>6 DEF Pos
<1>8. At(x, k) < At(y, k)
  BY <1>1, <1>2, <1>3, <1>4, <1>5, <1>6 DEF Pos
<1>9. QED
  BY <1>7, <1>8, LexAt

(* A name and what extends it.                                             *)
LEMMA Extends ==
  ASSUME NEW m \in OID, NEW row \in OID
  PROVE  m \o row \in OID /\ IsPrefix(m, m \o row)
<1>1. /\ m \o row \in OID
      /\ Len(m \o row) = Len(m) + Len(row)
      /\ \A i \in 1..(Len(m) + Len(row)) :
            (m \o row)[i] = IF i <= Len(m) THEN m[i] ELSE row[i - Len(m)]
  BY ConcatProperties DEF OID
<1>2. Len(m) \in Nat /\ Len(row) \in Nat
  BY AtType
<1>3. \A i \in 1..Len(m) : At(m \o row, i) = At(m, i)
  BY <1>1, <1>2 DEF At
<1>4. QED
  BY <1>1, <1>3, PrefixAt

LEMMA PrefixLeq ==
  ASSUME NEW a \in OID, NEW b \in OID, IsPrefix(a, b)
  PROVE  LexLeq(a, b)
BY DEF LexLeq, LexLess, IsStrictPrefix

LEMMA LexLeqLess ==
  ASSUME NEW a \in OID, NEW b \in OID, NEW c \in OID
  PROVE  /\ LexLeq(a, b) /\ LexLess(b, c) => LexLess(a, c)
         /\ LexLess(a, b) /\ LexLeq(b, c) => LexLess(a, c)
         /\ LexLeq(a, b) /\ LexLeq(b, c) => LexLeq(a, c)
BY LexTransitive DEF LexLeq

----------------------------------------------------------------------------
(* The first object a GetNext is put to, whatever identifier it names.     *)
LEMMA AskedFirst ==
  ASSUME RegistryInv, NoNesting, NEW oid \in OID
  PROVE  GetnextLookup(oid, TRUE) = FirstToAsk(oid, TRUE)
BY AskExact, AskInside

LEMMA FirstToAskIs ==
  ASSUME RegistryInv, NEW oid \in OID, NEW first \in BOOLEAN
  PROVE  LET n == FirstToAsk(oid, first)
         IN /\ n = NoNode => \A m \in Objects : ~ Follows(m, oid, first)
            /\ n # NoNode => /\ n \in Objects /\ Follows(n, oid, first)
                             /\ \A m \in Objects : Follows(m, oid, first) => LexLeq(n, m)
<1> DEFINE A == { m \in Objects : Follows(m, oid, first) }
           n == FirstToAsk(oid, first)
<1>1. A \in SUBSET OID /\ IsFiniteSet(A) /\ NoNode \notin OID
  <2>1. A \in SUBSET nodes /\ nodes \in SUBSET OID /\ IsFiniteSet(nodes)
    BY DEF RegistryInv, RegistryTypeOK, MibTypeOK, Objects
  <2> HIDE DEF A
  <2>2. QED
    BY <2>1, FS_Subset, NoNodeAssumption
<1>2. n = LexFirst(A, NoNode)
  BY DEF FirstToAsk
<1> HIDE DEF A, n
<1>3. CASE A = {}
  <2>1. n = NoNode
    BY <1>2, <1>3 DEF LexFirst
  <2>2. QED
    BY <1>3, <2>1 DEF A, n
<1>4. CASE A # {}
  <2>1. n \in A /\ \A m \in A : LexLeq(n, m)
    BY <1>1, <1>2, <1>4, LexFirstExists
  <2>2. n # NoNode
    BY <1>1, <2>1
  <2>3. QED
    BY <2>1, <2>2 DEF A, n
<1>5. QED
  BY <1>3, <1>4

----------------------------------------------------------------------------
(* Every call was put to a node of the tree, and a response holds elements *)
(* only for bindings that its request has.                                 *)
CallsOnNodes == \A r \in Reqs, i \in Slots : call[r][i] # None => call[r][i].node \in nodes

ResponseReached ==
  \A r \in Reqs, i \in Slots : rsp[r].vbs[i] # None => Received(r) /\ i <= Size(r)

InvG == InvB /\ RegistryInv /\ CallsOnNodes /\ ResponseReached

(* Where a GetNext's question about one binding leads: the first, or the   *)
(* next after a provider that had nothing more.                            *)
Leads(r, i, oid, node) ==
  \/ oid = msg[r].vbs[i] /\ node = GetnextLookup(oid, TRUE)
  \/ /\ Open(r, i) /\ Undefined \in MayAnswer(r, i)
     /\ oid = call[r][i].node /\ node = GetnextLookup(oid, FALSE)

(* A step of a GetNext: a question, put or found to lead nowhere, or an    *)
(* answer.                                                                 *)
Questions(r, i) ==
  \E oid \in OID : \E node : Leads(r, i, oid, node) /\ GetNextOne(r, i, oid, node)

Answers1(r, i) ==
  /\ call[r][i] # None
  /\ \E res \in MayAnswer(r, i) \ {Undefined} : Stuff(r, i, res)
  /\ call'[r][i] \in {call[r][i], Closed(call[r][i])}

GetNextStep(r, i) ==
  /\ Received(r) /\ msg[r].op = "GetNext" /\ i <= Size(r)
  /\ UNCHANGED <<rvars, msg>>
  /\ \A q \in Reqs, j \in Slots : call'[q][j] = call[q][j] \/ (q = r /\ j = i)
  /\ Questions(r, i) \/ Answers1(r, i)

(* Every step about a GetNext is one of these.                             *)
LEMMA DispatchIsGetNextStep ==
  ASSUME InvA, NEW r \in Reqs, DispatchGetNext(r)
  PROVE  \E i \in Slots : GetNextStep(r, i)
<1>1. PICK i \in Slots :
        /\ i = cursor[r] + 1 /\ Dispatching(r) /\ UNCHANGED <<rvars, msg>>
        /\ OneResult(r, i, msg[r].vbs[i])
  BY DispatchResult
<1>2. /\ TypeOK /\ Received(r) /\ msg[r].op = "GetNext" /\ cursor[r] \in Nat
      /\ cursor[r] < Size(r) /\ Size(r) \in Nat
  BY <1>1, ReceivedProperties, MessagesAssumption
     DEF InvA, TypeOK, Dispatching, DispatchGetNext
<1>3. i <= Size(r) /\ msg[r].vbs[i] \in OID
  BY <1>1, <1>2, ReceivedProperties, MessagesAssumption DEF Slots
<1>4. GetNextOne(r, i, msg[r].vbs[i], GetnextLookup(msg[r].vbs[i], TRUE))
  BY <1>1 DEF DispatchGetNext
<1>5. Questions(r, i)
  BY <1>3, <1>4, Zenon DEF Questions, Leads
<1>6. \A q \in Reqs, j \in Slots : call'[q][j] = call[q][j] \/ (q = r /\ j = i)
  BY <1>1, <1>2, <1>3, OneResultCalls
<1>7. QED
  BY <1>1, <1>2, <1>3, <1>5, <1>6 DEF GetNextStep

LEMMA CompleteIsGetNextStep ==
  ASSUME InvA, NEW r \in Reqs, NEW i \in Slots, msg[r].op = "GetNext",
         Complete(r, i) \/ CompleteAgain(r, i)
  PROVE  GetNextStep(r, i)
<1>1. call[r][i] # None /\ UNCHANGED <<rvars, msg>>
  BY DEF Complete, CompleteAgain, Open
<1>2. /\ Received(r) /\ i <= Size(r) /\ call[r][i] \in Calls /\ TypeOK
      /\ call[r][i].node \in OID /\ call \in [Reqs -> [Slots -> Calls \cup {None}]]
  BY <1>1, CallReached DEF InvA, TypeOK, Calls
<1>3. CASE CompleteAgain(r, i)
  <2>1. Answers1(r, i) /\ call' = call
    BY <1>1, <1>3 DEF CompleteAgain, Answers1
  <2>2. QED
    BY <1>1, <1>2, <2>1 DEF GetNextStep
<1>4. CASE Complete(r, i)
  <2>1. PICK res \in MayAnswer(r, i) :
          \/ /\ res = Undefined
             /\ GetNextOne(r, i, call[r][i].node, GetnextLookup(call[r][i].node, FALSE))
          \/ /\ res # Undefined
             /\ Stuff(r, i, res)
             /\ call' = [call EXCEPT ![r][i] = Closed(@)]
    BY <1>4 DEF Complete
  <2>2. Open(r, i)
    BY <1>4 DEF Complete
  <2>3. CASE /\ res = Undefined
             /\ GetNextOne(r, i, call[r][i].node, GetnextLookup(call[r][i].node, FALSE))
    <3>1. Questions(r, i)
      BY <1>2, <2>2, <2>3, Zenon DEF Questions, Leads
    <3>2. OneResult(r, i, call[r][i].node)
      BY <1>2, <2>3, GetNextOneResult
    <3>3. \A q \in Reqs, j \in Slots : call'[q][j] = call[q][j] \/ (q = r /\ j = i)
      BY <1>2, <3>2, OneResultCalls
    <3>4. QED
      BY <1>1, <1>2, <3>1, <3>3 DEF GetNextStep
  <2>4. CASE /\ res # Undefined
             /\ Stuff(r, i, res)
             /\ call' = [call EXCEPT ![r][i] = Closed(@)]
    <3>1. call'[r][i] = Closed(call[r][i])
      BY <1>2, <2>4
    <3>2. Answers1(r, i)
      BY <1>1, <2>1, <2>4, <3>1, Zenon DEF Answers1
    <3>3. \A q \in Reqs, j \in Slots : call'[q][j] = call[q][j] \/ (q = r /\ j = i)
      BY <1>2, <2>4
    <3>4. QED
      BY <1>1, <1>2, <3>2, <3>3 DEF GetNextStep
  <2>5. QED
    BY <2>1, <2>3, <2>4
<1>5. QED
  BY <1>3, <1>4

----------------------------------------------------------------------------
(* What was put to a provider, and why to that one.                        *)
AskedFor(r, i, oid, node) ==
  \/ /\ msg[r].op \in Getset /\ oid = msg[r].vbs[i]
     /\ node = Lookup(oid) /\ Absence(oid, node) = "no"
  \/ /\ msg[r].op = "GetNext" /\ Leads(r, i, oid, node)

CallMade(r, i) ==
  /\ Received(r) /\ i <= Size(r)
  /\ \E oid \in OID, node \in nodes :
        call'[r][i] = ProviderCall(oid, node) /\ AskedFor(r, i, oid, node)

CallStep(r, i) ==
  \/ call'[r][i] = call[r][i]
  \/ call'[r][i] = Closed(call[r][i])
  \/ CallMade(r, i)

LEMMA GetSetCalls ==
  ASSUME InvA, NEW r \in Reqs, DispatchGetSet(r)
  PROVE  \A q \in Reqs, j \in Slots : CallStep(q, j)
<1>1. PICK i \in Slots :
        /\ i = cursor[r] + 1 /\ Dispatching(r) /\ call[r][i] = None
        /\ OneResult(r, i, msg[r].vbs[i])
  BY DispatchResult
<1> DEFINE oid == msg[r].vbs[i]
           node == Lookup(oid)
<1>2. /\ TypeOK /\ Received(r) /\ msg[r].op \in Getset /\ cursor[r] \in Nat
      /\ cursor[r] < Size(r) /\ Size(r) \in Nat
      /\ call \in [Reqs -> [Slots -> Calls \cup {None}]]
  BY <1>1, ReceivedProperties, MessagesAssumption
     DEF InvA, TypeOK, Dispatching, DispatchGetSet
<1>3. i <= Size(r) /\ oid \in OID
  BY <1>1, <1>2, ReceivedProperties, MessagesAssumption DEF Slots
<1>4. node \in nodes
  BY <1>2, <1>3, LookupIs DEF TypeOK, RegistryTypeOK
<1>5. GetSetOne(r, i, oid, node)
  BY <1>1 DEF DispatchGetSet
<1>6. \A q \in Reqs, j \in Slots : call'[q][j] = call[q][j] \/ (q = r /\ j = i)
  BY <1>1, <1>2, <1>3, OneResultCalls
<1>7. CallStep(r, i)
  <2>1. CASE UNCHANGED call
    BY <2>1 DEF CallStep
  <2>2. CASE Absence(oid, node) = "no" /\ call' = [call EXCEPT ![r][i] = ProviderCall(oid, node)]
    <3>1. call'[r][i] = ProviderCall(oid, node)
      BY <1>2, <2>2
    <3>2. CallMade(r, i)
      BY <1>2, <1>3, <1>4, <2>2, <3>1, Zenon DEF CallMade, AskedFor
    <3>3. QED
      BY <3>2 DEF CallStep
  <2>3. QED
    BY <1>5, <2>1, <2>2, Zenon DEF GetSetOne
<1>8. QED
  BY <1>6, <1>7 DEF CallStep

LEMMA GetNextCalls ==
  ASSUME InvA, NEW r \in Reqs, NEW i \in Slots, GetNextStep(r, i)
  PROVE  \A q \in Reqs, j \in Slots : CallStep(q, j)
<1>1. \A q \in Reqs, j \in Slots : call'[q][j] = call[q][j] \/ (q = r /\ j = i)
  BY DEF GetNextStep
<1>2. call \in [Reqs -> [Slots -> Calls \cup {None}]]
  BY DEF InvA, TypeOK
<1>3. CASE Answers1(r, i)
  BY <1>1, <1>3 DEF Answers1, CallStep
<1>4. CASE Questions(r, i)
  <2>0. PICK oid \in OID : \E node : Leads(r, i, oid, node) /\ GetNextOne(r, i, oid, node)
    BY <1>4 DEF Questions
  <2>1. PICK node : Leads(r, i, oid, node) /\ GetNextOne(r, i, oid, node)
    BY <2>0
  <2>2. CASE UNCHANGED call
    BY <2>2 DEF CallStep
  <2>3. CASE call' = [call EXCEPT ![r][i] = Closed(@)]
    BY <1>1, <1>2, <2>3 DEF CallStep
  <2>4. CASE node \in nodes /\ call' = [call EXCEPT ![r][i] = ProviderCall(oid, node)]
    <3>1. call'[r][i] = ProviderCall(oid, node)
      BY <1>2, <2>4
    <3>2. CallMade(r, i)
      BY <2>1, <2>4, <3>1 DEF CallMade, AskedFor, GetNextStep
    <3>3. QED
      BY <1>1, <3>2 DEF CallStep
  <2>5. QED
    BY <2>1, <2>2, <2>3, <2>4, Zenon DEF GetNextOne
<1>5. QED
  BY <1>3, <1>4 DEF GetNextStep

(* Whatever the step, a call changes by being closed or by being made.     *)
LEMMA CallsChange ==
  ASSUME InvA, [Next]_vars
  PROVE  \A q \in Reqs, j \in Slots : CallStep(q, j)
<1>1. CASE UNCHANGED call
  BY <1>1 DEF CallStep
<1>2. ASSUME NEW r \in Reqs, DispatchGetSet(r) \/ DispatchGetNext(r)
      PROVE  \A q \in Reqs, j \in Slots : CallStep(q, j)
  BY <1>2, GetSetCalls, DispatchIsGetNextStep, GetNextCalls
<1>3. ASSUME NEW r \in Reqs, NEW i \in Slots, Complete(r, i)
      PROVE  \A q \in Reqs, j \in Slots : CallStep(q, j)
  <2>1. CASE msg[r].op = "GetNext"
    BY <1>3, <2>1, CompleteIsGetNextStep, GetNextCalls
  <2>2. CASE msg[r].op # "GetNext"
    <3>1. call' = [call EXCEPT ![r][i] = Closed(@)]
      BY <1>3, <2>2 DEF Complete
    <3>2. call \in [Reqs -> [Slots -> Calls \cup {None}]]
      BY DEF InvA, TypeOK
    <3>3. QED
      BY <3>1, <3>2 DEF CallStep
  <2>3. QED
    BY <2>1, <2>2
<1>4. QED
  BY <1>1, <1>2, <1>3 DEF Next, Register, Receive, CompleteAgain, vars, avars

(* What is in the tree stays there, and the registry changes only when     *)
(* addProviders is called.                                                 *)
LEMMA RegistrySteps ==
  ASSUME RegistryInv, [Next]_vars
  PROVE  /\ RegistryInv'
         /\ nodes \subseteq nodes'
         /\ UNCHANGED rvars \/ UNCHANGED avars
<1>1. CASE UNCHANGED rvars
  BY <1>1 DEF RegistryInv, RegistryTypeOK, MibTypeOK, rvars
<1>2. ASSUME NEW batch \in Batches, Register(batch)
      PROVE  RegistryInv' /\ nodes \subseteq nodes' /\ UNCHANGED avars
  BY <1>2, AddProvidersInv DEF Register, AddProviders, Added
<1>3. QED
  BY <1>1, <1>2 DEF Next, Receive, DispatchGetSet, DispatchGetNext, Complete, CompleteAgain, vars

----------------------------------------------------------------------------
(* What an answer stuffed leaves of the responses.                         *)
Stuffed(r, i, res, v) ==
  /\ res.kind \in {"varbind", "code"}
  /\ rsp'[r] \in Responses
  /\ \A j \in Slots : rsp'[r].vbs[j] = IF j = i THEN v ELSE rsp[r].vbs[j]
  /\ \A q \in Reqs : q # r => rsp'[q] = rsp[q] /\ sent'[q] = sent[q]
  /\ \/ sent'[r] = sent[r]
     \/ /\ Encodable(rsp'[r])
        /\ sent'[r] = Append(sent[r], Encoded(rsp'[r]))

LEMMA StuffLeaves ==
  ASSUME TypeOK, NEW r \in Reqs, Received(r), NEW i \in Slots, i <= Size(r),
         NEW res \in Results, Stuff(r, i, res)
  PROVE  \/ UNCHANGED <<rsp, sent>>
         \/ Stuffed(r, i, res, IF res.kind = "varbind" THEN res
                               ELSE Varbind(msg[r].vbs[i], "echo"))
<1> DEFINE full == SetSingle(rsp[r], msg[r].vbs, i, res)
           v == IF res.kind = "varbind" THEN res ELSE Varbind(msg[r].vbs[i], "echo")
<1>1. ASSUME StuffThrows(msg[r].op, msg[r].vbs[i], res) = "no"
      PROVE  Stuffed(r, i, res, v)
  <2>1. /\ rsp' = [rsp EXCEPT ![r] = full]
        /\ IF LastDone(r) /\ Encodable(full)
           THEN sent' = [sent EXCEPT ![r] = Append(@, Encoded(full))]
           ELSE UNCHANGED sent
    BY <1>1, Zenon DEF Stuff
  <2>2. res.kind \in {"varbind", "code"}
    BY <1>1 DEF StuffThrows, SetSingleThrows, Results, Varbinds, Undefined, Junk
  <2>3. /\ rsp \in [Reqs -> Responses] /\ rsp[r] \in Responses
        /\ sent \in [Reqs -> Seq(Replies)]
    BY DEF TypeOK
  <2>4. full.vbs = [rsp[r].vbs EXCEPT ![i] = v]
    BY <2>2, <2>3 DEF SetSingle, Responses
  <2>5. full \in Responses
    <3>1. msg[r].vbs[i] \in OID
      BY ReceivedProperties DEF Slots
    <3>2. QED
      BY <2>2, <2>3, <3>1, SetSingleType
  <2> HIDE DEF full, v
  <2>6. rsp'[r] = full /\ \A q \in Reqs : q # r => rsp'[q] = rsp[q]
    BY <2>1, <2>3
  <2>7. \A j \in Slots : full.vbs[j] = IF j = i THEN v ELSE rsp[r].vbs[j]
    BY <2>3, <2>4 DEF Responses
  <2>8. \A q \in Reqs : q # r => sent'[q] = sent[q]
    BY <2>1, <2>3
  <2>9. sent'[r] = sent[r] \/ (Encodable(full) /\ sent'[r] = Append(sent[r], Encoded(full)))
    BY <2>1, <2>3
  <2>10. QED
    BY <2>2, <2>5, <2>6, <2>7, <2>8, <2>9, Zenon DEF Stuffed
<1>2. QED
  BY <1>1, Zenon DEF Stuff

(* Each element of a response, and of what was sent, is one of those that  *)
(* G allows in its place.  It stays so if what is stuffed is allowed.      *)
Within(response, replies, G) ==
  /\ \A j \in Slots : response.vbs[j] # None => response.vbs[j] \in G[j]
  /\ \A k \in DOMAIN replies : \A j \in DOMAIN replies[k].vbs : replies[k].vbs[j] \in G[j]

LEMMA StuffedKeeps ==
  ASSUME TypeOK, NEW r \in Reqs, NEW i \in Slots, NEW res, NEW v, NEW G,
         Stuffed(r, i, res, v), v \in G[i], Within(rsp[r], sent[r], G)
  PROVE  Within(rsp'[r], sent'[r], G)
<1> DEFINE full == rsp'[r]
<1>1. full \in Responses /\ sent[r] \in Seq(Replies)
  BY DEF Stuffed, TypeOK
<1>2. \A j \in Slots : full.vbs[j] # None => full.vbs[j] \in G[j]
  BY DEF Stuffed, Within
<1>3. CASE sent'[r] = sent[r]
  BY <1>2, <1>3 DEF Within
<1>4. CASE Encodable(full) /\ sent'[r] = Append(sent[r], Encoded(full))
  <2> DEFINE n == Length(full)
             e == Encoded(full)
  <2> HIDE DEF full
  <2>1. n \in 0..MaxVarbinds /\ MaxVarbinds \in Nat
    BY <1>1, LengthProperties, MessagesAssumption
  <2>2. \A j \in 1..n : j \in Slots /\ full.vbs[j] # None
    BY <1>4, <2>1 DEF Encodable, Slots
  <2>3. e.vbs = SubSeq(full.vbs, 1, n) /\ e \in Replies
    BY <1>1, <1>4, EncodedType DEF Encoded, Responses
  <2> HIDE DEF n
  <2>4. DOMAIN e.vbs = 1..n /\ \A j \in 1..n : e.vbs[j] = full.vbs[j]
    BY <2>1, <2>3
  <2>5. \A j \in DOMAIN e.vbs : e.vbs[j] \in G[j]
    BY <1>2, <2>2, <2>4
  <2>6. sent'[r] = Append(sent[r], e)
    BY <1>4
  <2> HIDE DEF e
  <2>7. \A k \in DOMAIN sent'[r] : (k \in DOMAIN sent[r] /\ sent'[r][k] = sent[r][k])
                                   \/ sent'[r][k] = e
    BY <1>1, <2>3, <2>6
  <2>8. \A k \in DOMAIN sent'[r] :
           \A j \in DOMAIN sent'[r][k].vbs : sent'[r][k].vbs[j] \in G[j]
    BY <2>5, <2>7 DEF Within
  <2>9. QED
    BY <1>2, <2>8 DEF full, Within
<1>5. QED
  BY <1>3, <1>4 DEF Stuffed

LEMMA StuffKeeps ==
  ASSUME TypeOK, NEW r \in Reqs, Received(r), NEW i \in Slots, i <= Size(r),
         NEW res \in Results, Stuff(r, i, res), NEW G, Within(rsp[r], sent[r], G),
         res.kind = "varbind" => res \in G[i],
         Varbind(msg[r].vbs[i], "echo") \in G[i]
  PROVE  Within(rsp'[r], sent'[r], G)
<1> DEFINE v == IF res.kind = "varbind" THEN res ELSE Varbind(msg[r].vbs[i], "echo")
<1>1. v \in G[i]
  OBVIOUS
<1>2. UNCHANGED <<rsp, sent>> \/ Stuffed(r, i, res, v)
  BY StuffLeaves
<1> HIDE DEF v
<1>3. CASE UNCHANGED <<rsp, sent>>
  BY <1>3
<1>4. QED
  BY <1>1, <1>2, <1>3, StuffedKeeps

LEMMA StepResponseReached ==
  ASSUME InvB, ResponseReached, [Next]_vars
  PROVE  ResponseReached'
<1>1. InvA /\ TypeOK
  BY DEF InvB, InvA
<1>2. CASE StuffStep
  <2>1. PICK r \in Reqs, i \in Slots, res \in Results :
          Received(r) /\ i <= Size(r) /\ UNCHANGED msg /\ Stuff(r, i, res)
    BY <1>2 DEF StuffStep
  <2>2. /\ \A q \in Reqs : q # r => rsp'[q] = rsp[q]
        /\ \A j \in Slots : j # i => rsp'[r].vbs[j] = rsp[r].vbs[j]
    BY <1>1, <2>1, StuffLeaves DEF Stuffed
  <2>3. QED
    BY <2>1, <2>2 DEF ResponseReached, Received, Size
<1>3. CASE QuietStep
  <2>1. \A q \in Reqs : Received(q) => msg'[q] = msg[q]
    BY <1>1, <1>3 DEF QuietStep, TypeOK, Received
  <2>2. QED
    BY <1>3, <2>1 DEF QuietStep, ResponseReached, Received, Size
<1>4. QED
  BY <1>1, <1>2, <1>3, StepShape

LEMMA InvGInductive == (Init => InvG) /\ (InvG /\ [Next]_vars => InvG')
<1>1. ASSUME Init PROVE InvG
  <2>1. InvB
    BY <1>1, InvBInductive
  <2>2. RegistryInv
    BY <1>1, RegistryInvInit DEF Init
  <2>3. CallsOnNodes /\ ResponseReached
    BY <1>1 DEF Init, CallsOnNodes, ResponseReached, Blank, EmptyResponse
  <2>4. QED
    BY <2>1, <2>2, <2>3 DEF InvG
<1>2. ASSUME InvG, [Next]_vars PROVE InvG'
  <2>1. InvB' /\ ResponseReached'
    BY <1>2, InvBInductive, StepResponseReached DEF InvG
  <2>2. RegistryInv' /\ nodes \subseteq nodes'
    BY <1>2, RegistrySteps DEF InvG
  <2>3. ASSUME NEW q \in Reqs, NEW j \in Slots, call'[q][j] # None
        PROVE  call'[q][j].node \in nodes
    <3>1. CallStep(q, j) /\ (call[q][j] # None => call[q][j].node \in nodes)
      BY <1>2, CallsChange DEF InvG, InvB, CallsOnNodes
    <3>2. call[q][j] \in Calls \cup {None}
      BY <1>2 DEF InvG, InvB, InvA, TypeOK
    <3>3. CASE CallMade(q, j)
      BY <3>3 DEF CallMade, ProviderCall
    <3>4. CASE call'[q][j] = call[q][j]
      BY <2>3, <3>1, <3>4
    <3>5. CASE call'[q][j] = Closed(call[q][j])
      <4>1. call[q][j] # None /\ call'[q][j] = [call[q][j] EXCEPT !.open = FALSE]
        BY <2>3, <3>5 DEF Closed
      <4>2. call'[q][j].node = call[q][j].node
        BY <3>2, <4>1 DEF Calls
      <4>3. QED
        BY <3>1, <4>1, <4>2
    <3>6. QED
      BY <3>1, <3>3, <3>4, <3>5 DEF CallStep
  <2>4. CallsOnNodes'
    BY <2>2, <2>3 DEF CallsOnNodes
  <2>5. QED
    BY <2>1, <2>2, <2>4 DEF InvG
<1>3. QED
  BY <1>1, <1>2

----------------------------------------------------------------------------
(* What a provider is asked.  First a Get or a Set, for an instance of the *)
(* node that lookup finds.                                                 *)
LEMMA GetSetInScope ==
  ASSUME MibTypeOK, NEW oid \in OID, NEW node, node = Lookup(oid),
         Absence(oid, node) = "no"
  PROVE  /\ InstancePossible(node) /\ IsDescended(oid, node)
         /\ decor[node] = "scalar" => oid = Append(node, 0)
<1>1. node \in OID /\ IsPrefix(node, oid)
  BY LookupIs
<1>2. /\ InstancePossible(node)
      /\ Instance(oid, node) # << >>
      /\ decor[node] = "scalar" => Instance(oid, node) = <<0>>
  <2> HIDE DEF InstancePossible, Instance
  <2>1. InstancePossible(node)
    BY DEF Absence
  <2>2. QED
    BY <2>1 DEF Absence
<1>3. /\ Len(oid) \in Nat /\ Len(node) \in Nat /\ Len(node) <= Len(oid)
      /\ \A k \in 1..Len(node) : At(oid, k) = At(node, k)
  BY <1>1, AtType, PrefixAt
<1>4. IsDescended(oid, node)
  <2> SUFFICES ASSUME node = oid PROVE FALSE
    BY <1>1 DEF IsDescended, IsStrictPrefix
  <2>1. SubSeq(oid, Len(oid) + 1, Len(oid)) = << >>
    BY <1>3 DEF OID
  <2>2. QED
    BY <1>2, <2>1 DEF Instance
<1>5. ASSUME decor[node] = "scalar" PROVE oid = Append(node, 0)
  <2>1. SubSeq(oid, Len(node) + 1, Len(oid)) = <<0>>
    BY <1>2, <1>5 DEF Instance
  <2>2. /\ Len(SubSeq(oid, Len(node) + 1, Len(oid))) = Len(oid) - Len(node)
        /\ Len(node) < Len(oid) => SubSeq(oid, Len(node) + 1, Len(oid))[1] = oid[Len(node) + 1]
    BY <1>3, SubSeqProperties DEF OID
  <2>3. Len(oid) = Len(node) + 1 /\ oid[Len(node) + 1] = 0
    <3>1. Len(<<0>>) = 1 /\ <<0>>[1] = 0
      OBVIOUS
    <3>2. Len(oid) - Len(node) = 1
      BY <2>1, <2>2, <3>1
    <3>3. Len(oid) = Len(node) + 1 /\ Len(node) < Len(oid)
      BY <1>3, <3>2
    <3>4. SubSeq(oid, Len(node) + 1, Len(oid))[1] = 0
      BY <2>1, <3>1
    <3>5. QED
      BY <2>2, <3>3, <3>4, Zenon
  <2>4. /\ Append(node, 0) \in OID
        /\ \A k \in Pos : At(Append(node, 0), k) = IF k <= Len(node) THEN At(node, k)
                                                   ELSE IF k = Len(node) + 1 THEN 0 ELSE -1
    BY <1>1, AppendAt
  <2>5. \A k \in Pos : At(oid, k) = At(Append(node, 0), k)
    BY <1>3, <2>3, <2>4 DEF At, Pos
  <2>6. QED
    BY <2>4, <2>5, AtEqual
<1>6. QED
  BY <1>2, <1>4, <1>5

(* An object found by the first question, and by the next from a node.     *)
LEMMA FirstInScope ==
  ASSUME RegistryInv, NoNesting, NEW oid \in OID, NEW node \in nodes,
         node = GetnextLookup(oid, TRUE)
  PROVE  /\ node \in Objects /\ Follows(node, oid, TRUE)
         /\ decor[node] = "scalar" => LexLeq(oid, node)
         /\ decor[node] = "column" => LexLess(oid, node) \/ IsPrefix(node, oid)
         /\ \A m \in Objects : Follows(m, oid, TRUE) => LexLeq(node, m)
<1>1. node = FirstToAsk(oid, TRUE) /\ node # NoNode /\ node \in OID
  BY AskedFirst, NoNodeAssumption DEF RegistryInv, RegistryTypeOK, MibTypeOK
<1>2. /\ node \in Objects /\ Follows(node, oid, TRUE)
      /\ \A m \in Objects : Follows(m, oid, TRUE) => LexLeq(node, m)
  BY <1>1, FirstToAskIs
<1>3. QED
  BY <1>1, <1>2, FirstChildNext DEF Follows

LEMMA NextFromColumn ==
  ASSUME RegistryInv, NoNesting, NEW n \in Objects, decor[n] = "column",
         NEW node, node = GetnextLookup(n, FALSE)
  PROVE  /\ node = NoNode => \A m \in Objects : ~ LexLess(n, m)
         /\ node # NoNode => /\ node \in Objects /\ LexLess(n, node)
                             /\ \A m \in Objects : LexLess(n, m) => LexLeq(node, m)
<1>1. n \in OID /\ MibTypeOK
  BY ObjectNode
<1>2. node = FirstToAsk(n, FALSE)
  BY AskAfterColumn
<1>3. \A m \in Objects : Follows(m, n, FALSE) <=> LexLess(n, m)
  BY <1>1, FollowsIs
<1>4. QED
  BY <1>1, <1>2, <1>3, FirstToAskIs

LEMMA NextFromScalar ==
  ASSUME RegistryInv, NEW n \in Objects, decor[n] = "scalar"
  PROVE  GetnextLookup(n, FALSE) = n
<1>1. Lookup(n) = n
  BY ObjectNode, LookupIs
<1>2. QED
  BY <1>1 DEF GetnextLookup, InstancePossible

LEMMA NextFromOther ==
  ASSUME RegistryInv, NoNesting, NEW n \in nodes, n \notin Objects,
         NEW node \in nodes, node = GetnextLookup(n, FALSE)
  PROVE  node \in Objects /\ LexLess(n, node)
<1>1. /\ n \in OID /\ MibTypeOK /\ Lookup(n) = n /\ decor[n] \notin {"scalar", "column"}
      /\ nodes \in SUBSET OID /\ IsFiniteSet(nodes) /\ NoNode \notin OID
  BY LookupIs, NoNodeAssumption
     DEF RegistryInv, RegistryTypeOK, MibTypeOK, Objects, InstancePossible
<1> DEFINE A == { m \in Objects : LexLeq(Append(n, 0), m) }
<1>2. node = LexFirst(A, NoNode)
  <2>1. node = NextObject(n, 0)
    BY <1>1 DEF GetnextLookup, InstancePossible
  <2>2. QED
    BY <2>1, NextObjectIs
<1>3. A \in SUBSET nodes /\ A \in SUBSET OID
  BY <1>1 DEF Objects
<1> HIDE DEF A
<1>4. IsFiniteSet(A)
  BY <1>1, <1>3, FS_Subset
<1>5. A # {}
  BY <1>1, <1>2 DEF LexFirst
<1>6. node \in A
  <2>1. LexFirst(A, NoNode) \in A
    BY <1>3, <1>4, <1>5, LexFirstExists
  <2>2. QED
    BY <1>2, <2>1
<1>7. QED
  BY <1>1, <1>3, <1>6, FirstChildNext DEF A

LEMMA AskedForInScope ==
  ASSUME InvG, NoNesting, NEW r \in Reqs, NEW i \in Slots, NEW oid \in OID,
         NEW node \in nodes, AskedFor(r, i, oid, node)
  PROVE  InScope(msg[r].op, ProviderCall(oid, node))
<1>1. RegistryInv /\ MibTypeOK
  BY DEF InvG, RegistryInv, RegistryTypeOK
<1> DEFINE prq == ProviderCall(oid, node)
<1>2. prq.oid = oid /\ prq.node = node
  BY DEF ProviderCall
<1>3. CASE msg[r].op \in Getset /\ node = Lookup(oid) /\ Absence(oid, node) = "no"
  <2>1. /\ InstancePossible(node) /\ IsDescended(oid, node)
        /\ decor[node] = "scalar" => oid = Append(node, 0)
    BY <1>1, <1>3, GetSetInScope
  <2>2. msg[r].op # "GetNext"
    BY <1>3 DEF Getset
  <2>3. QED
    BY <1>2, <2>1, <2>2 DEF InScope
<1>4. ASSUME msg[r].op = "GetNext", node \in Objects,
             \/ LexLess(oid, node) \/ oid = node
             \/ IsPrefix(node, oid) /\ decor[node] = "column"
      PROVE  InScope(msg[r].op, prq)
  <2>1. msg[r].op \notin Getset /\ InstancePossible(node)
    BY <1>4 DEF Getset, Objects
  <2>2. QED
    BY <1>2, <1>4, <2>1 DEF InScope
<1>5. CASE msg[r].op = "GetNext" /\ node = GetnextLookup(oid, TRUE)
  <2>1. /\ node \in Objects
        /\ decor[node] = "scalar" => LexLeq(oid, node)
        /\ decor[node] = "column" => LexLess(oid, node) \/ IsPrefix(node, oid)
    BY <1>1, <1>5, FirstInScope
  <2>2. QED
    BY <1>4, <1>5, <2>1 DEF Objects, InstancePossible, LexLeq
<1>6. CASE /\ msg[r].op = "GetNext" /\ Open(r, i)
           /\ oid = call[r][i].node /\ node = GetnextLookup(oid, FALSE)
  <2>1. oid \in nodes
    BY <1>6 DEF InvG, CallsOnNodes, Open
  <2>2. CASE oid \notin Objects
    BY <1>1, <1>4, <1>6, <2>1, <2>2, NextFromOther
  <2>3. CASE oid \in Objects /\ decor[oid] = "scalar"
    BY <1>1, <1>4, <1>6, <2>3, NextFromScalar
  <2>4. CASE oid \in Objects /\ decor[oid] = "column"
    <3>1. node # NoNode
      BY <1>1, NoNodeAssumption DEF MibTypeOK
    <3>2. QED
      BY <1>1, <1>4, <1>6, <2>4, <3>1, NextFromColumn
  <2>5. QED
    BY <2>2, <2>3, <2>4 DEF Objects, InstancePossible
<1>7. QED
  BY <1>3, <1>5, <1>6 DEF AskedFor, Leads

(***************************************************************************)
(* What falls to a provider is all it is asked, whatever the requests and  *)
(* however often it passes a GetNext on, as long as no object is           *)
(* registered inside another.                                              *)
(***************************************************************************)
THEOREM AskedWithinScope == Spec /\ []NoNesting => AskedInScope
<1> DEFINE Asked == \A r \in Reqs, i \in Slots :
                       call'[r][i] # call[r][i] /\ call'[r][i].open
                          => InScope(msg[r].op, call'[r][i])
<1>1. InvG /\ NoNesting /\ [Next]_vars => Asked
  <2> SUFFICES ASSUME InvG, NoNesting, [Next]_vars, NEW r \in Reqs, NEW i \in Slots,
                      call'[r][i] # call[r][i], call'[r][i].open
               PROVE  InScope(msg[r].op, call'[r][i])
    OBVIOUS
  <2>1. CallStep(r, i) /\ call[r][i] \in Calls \cup {None}
    BY CallsChange DEF InvG, InvB, InvA, TypeOK
  <2>2. call'[r][i] # Closed(call[r][i])
    BY <2>1 DEF Closed, Calls
  <2>3. CallMade(r, i)
    BY <2>1, <2>2 DEF CallStep
  <2>4. QED
    BY <2>3, AskedForInScope DEF CallMade
<1>2. QED
  BY <1>1, InvGInductive, PTL DEF Spec, AskedInScope

----------------------------------------------------------------------------
(* A step as one GetNext sees it: it has just been received, or nothing of *)
(* it changes, or one of its bindings is asked about or answered.          *)
AsksNext(r) == Received(r) /\ msg[r].op = "GetNext"

Fresh(q) ==
  /\ \A i \in Slots : call'[q][i] = None /\ rsp'[q].vbs[i] = None
  /\ sent'[q] = << >>

Untouched(q) == UNCHANGED <<msg[q], call[q], rsp[q], sent[q]>>

LEMMA OthersUntouched ==
  ASSUME TypeOK, NEW r \in Reqs, Received(r), NEW i \in Slots, i <= Size(r), UNCHANGED msg,
         \A p \in Reqs, j \in Slots : call'[p][j] = call[p][j] \/ (p = r /\ j = i),
         UNCHANGED <<rsp, sent>> \/ \E res \in Results : Stuff(r, i, res),
         call' \in [Reqs -> [Slots -> Calls \cup {None}]],
         NEW q \in Reqs, q # r
  PROVE  Untouched(q)
<1>1. rsp'[q] = rsp[q] /\ sent'[q] = sent[q]
  <2>1. CASE UNCHANGED <<rsp, sent>>
    BY <2>1
  <2>2. ASSUME NEW res \in Results, Stuff(r, i, res)
        PROVE  rsp'[q] = rsp[q] /\ sent'[q] = sent[q]
    BY <2>2, StuffLeaves DEF Stuffed
  <2>3. QED
    BY <2>1, <2>2
<1>2. call'[q] = call[q]
  BY DEF TypeOK
<1>3. QED
  BY <1>1, <1>2 DEF Untouched

LEMMA ReceiveShape ==
  ASSUME InvG, NEW r \in Reqs, NEW m \in Messages, Receive(r, m), NEW q \in Reqs
  PROVE  IF q = r THEN Fresh(q) ELSE Untouched(q)
<1>1. /\ UNCHANGED <<call, rsp, sent>> /\ ~ Received(r)
      /\ msg' = [msg EXCEPT ![r] = m]
  BY DEF Receive
<1>2. CASE q = r
  <2>1. cursor[q] = 0 /\ sent[q] = << >> /\ \A j \in Slots : ~ (j <= 0)
    BY <1>1, <1>2, MessagesAssumption
       DEF InvG, InvB, InvA, CallsInDispatch, CountPassed, Slots
  <2>2. \A i \in Slots : call[q][i] = None /\ rsp[q].vbs[i] = None
    BY <1>1, <1>2, <2>1 DEF InvG, InvB, InvA, CallsInDispatch, ResponseReached
  <2>3. QED
    BY <1>1, <1>2, <2>1, <2>2 DEF Fresh
<1>3. CASE q # r
  BY <1>1, <1>3 DEF Untouched, InvG, InvB, InvA, TypeOK
<1>4. QED
  BY <1>2, <1>3

LEMMA GetNextShape ==
  ASSUME InvG, [Next]_vars, NEW q \in Reqs, AsksNext(q)'
  PROVE  \/ Fresh(q)
         \/ AsksNext(q) /\ Untouched(q)
         \/ AsksNext(q) /\ \E i \in Slots : GetNextStep(q, i)
<1>1. InvA /\ TypeOK /\ InvA'
  BY NextInvA DEF InvG, InvB, InvA
<1>2. call' \in [Reqs -> [Slots -> Calls \cup {None}]]
  BY <1>1 DEF InvA, TypeOK
<1>3. UNCHANGED msg => AsksNext(q)
  BY DEF AsksNext, Received
<1>4. ASSUME NEW batch \in Batches, Register(batch) PROVE Untouched(q) /\ UNCHANGED msg
  BY <1>4 DEF Register, avars, Untouched
<1>5. ASSUME NEW r \in Reqs, NEW m \in Messages, Receive(r, m)
      PROVE  Fresh(q) \/ (AsksNext(q) /\ Untouched(q))
  BY <1>5, ReceiveShape DEF AsksNext, Received, Untouched
<1>6. ASSUME NEW r \in Reqs, DispatchGetSet(r) \/ DispatchGetNext(r)
      PROVE  \/ Untouched(q) /\ UNCHANGED msg
             \/ UNCHANGED msg /\ \E i \in Slots : GetNextStep(q, i)
  <2>1. PICK i \in Slots :
          /\ i = cursor[r] + 1 /\ Dispatching(r) /\ UNCHANGED <<rvars, msg>>
          /\ OneResult(r, i, msg[r].vbs[i])
    BY <1>1, <1>6, DispatchResult
  <2>2. Received(r) /\ i <= Size(r) /\ msg[r].vbs[i] \in OID
    <3>1. /\ Received(r) /\ cursor[r] \in Nat /\ cursor[r] < Size(r) /\ Size(r) \in Nat
      BY <1>1, <2>1, ReceivedProperties, MessagesAssumption DEF TypeOK, Dispatching
    <3>2. QED
      BY <1>1, <2>1, <3>1, ReceivedProperties, MessagesAssumption DEF Slots
  <2>3. CASE q # r
    <3>1. \A p \in Reqs, j \in Slots : call'[p][j] = call[p][j] \/ (p = r /\ j = i)
      BY <1>1, <2>1, <2>2, OneResultCalls
    <3>2. UNCHANGED <<rsp, sent>> \/ \E res \in Results : Stuff(r, i, res)
      <4>1. \A val \in Vals : Varbind(msg[r].vbs[i], val) \in Results
        BY <2>2 DEF Varbind, Results, Varbinds
      <4>2. QED
        BY <2>1, <4>1, Zenon DEF OneResult
    <3>3. QED
      BY <1>1, <1>2, <2>1, <2>2, <2>3, <3>1, <3>2, OthersUntouched
  <2>4. CASE q = r
    <3>1. msg[r].op = "GetNext"
      BY <1>3, <2>1, <2>4 DEF AsksNext
    <3>2. DispatchGetNext(r)
      BY <1>6, <3>1 DEF DispatchGetSet, Getset
    <3>3. QED
      BY <1>1, <2>1, <2>4, <3>2, DispatchIsGetNextStep
  <2>5. QED
    BY <2>1, <2>3, <2>4
<1>7. ASSUME NEW r \in Reqs, NEW i \in Slots, Complete(r, i) \/ CompleteAgain(r, i)
      PROVE  \/ Untouched(q) /\ UNCHANGED msg
             \/ UNCHANGED msg /\ \E j \in Slots : GetNextStep(q, j)
  <2>1. call[r][i] # None /\ UNCHANGED <<rvars, msg>>
    BY <1>7 DEF Complete, CompleteAgain, Open
  <2>2. Received(r) /\ i <= Size(r)
    BY <1>1, <2>1, CallReached
  <2>3. CASE q = r
    BY <1>1, <1>3, <1>7, <2>1, <2>3, CompleteIsGetNextStep DEF AsksNext
  <2>4. CASE q # r /\ CompleteAgain(r, i)
    <3>1. call' = call /\ \E res \in Results : Stuff(r, i, res)
      BY <1>1, <2>1, <2>4, MayAnswerType DEF CompleteAgain
    <3>2. QED
      BY <1>1, <1>2, <2>1, <2>2, <2>4, <3>1, OthersUntouched
  <2>5. CASE q # r /\ Complete(r, i)
    <3>1. \/ \E node \in OID : OneResult(r, i, node)
          \/ /\ \E res \in Results : Stuff(r, i, res)
             /\ call' = [call EXCEPT ![r][i] = Closed(@)]
      BY <1>1, <2>5, CompleteResult DEF Plausible
    <3>2. ASSUME NEW node \in OID, OneResult(r, i, node)
          PROVE  /\ UNCHANGED <<rsp, sent>> \/ \E res \in Results : Stuff(r, i, res)
                 /\ \A p \in Reqs, j \in Slots : call'[p][j] = call[p][j] \/ (p = r /\ j = i)
      <4>1. \A val \in Vals : Varbind(node, val) \in Results
        BY DEF Varbind, Results, Varbinds
      <4>2. UNCHANGED <<rsp, sent>> \/ \E res \in Results : Stuff(r, i, res)
        BY <3>2, <4>1, Zenon DEF OneResult
      <4>3. QED
        BY <1>1, <3>2, <4>2, OneResultCalls
    <3>3. call' = [call EXCEPT ![r][i] = Closed(@)] =>
             \A p \in Reqs, j \in Slots : call'[p][j] = call[p][j] \/ (p = r /\ j = i)
      BY <1>1 DEF TypeOK
    <3>4. QED
      BY <1>1, <1>2, <2>1, <2>2, <2>5, <3>1, <3>2, <3>3, OthersUntouched
  <2>6. QED
    BY <1>7, <2>3, <2>4, <2>5
<1>8. CASE UNCHANGED vars
  BY <1>3, <1>8 DEF vars, avars, Untouched
<1>9. QED
  BY <1>3, <1>4, <1>5, <1>6, <1>7, <1>8 DEF Next, vars, avars

----------------------------------------------------------------------------
(***************************************************************************)
(* What the questions and answers of a GetNext have to do with the name o  *)
(* that its binding gave.  A scalar is asked only for an instance after o; *)
(* a column is either asked with o itself, or lies after o and after what  *)
(* it is asked with, so that all of its rows do.                           *)
(***************************************************************************)
QuestionAhead(o, prq) ==
  /\ prq.node \in Objects
  /\ prq.scalar <=> decor[prq.node] = "scalar"
  /\ prq.scalar => LexLeq(o, prq.node)
  /\ ~ prq.scalar => \/ LexLess(o, prq.node) /\ LexLess(prq.oid, prq.node)
                     \/ prq.oid = o /\ IsPrefix(prq.node, o)

AnswerAhead(o, vb) == vb.val = "value" => LexLess(o, vb.name)

(* Providers may fail in ways the documentation has nothing of, but do not *)
(* answer a GetNext with a varbind other than the one that comes next.     *)
SlipsAreNoVarbinds == \A s \in Slips : s.op = "GetNext" => s.res.kind # "varbind"

LEMMA FirstAhead ==
  ASSUME RegistryInv, NoNesting, NEW o \in OID, NEW node \in nodes,
         node = GetnextLookup(o, TRUE)
  PROVE  QuestionAhead(o, ProviderCall(o, node))
<1> DEFINE prq == ProviderCall(o, node)
<1>1. prq.oid = o /\ prq.node = node /\ (prq.scalar <=> decor[node] = "scalar")
  BY DEF ProviderCall
<1>2. /\ node \in Objects
      /\ decor[node] = "scalar" => LexLeq(o, node)
      /\ decor[node] = "column" => LexLess(o, node) \/ IsPrefix(node, o)
  BY FirstInScope
<1>3. decor[node] \in {"scalar", "column"}
  BY <1>2 DEF Objects, InstancePossible
<1> HIDE DEF prq
<1>4. QED
  BY <1>1, <1>2, <1>3 DEF QuestionAhead, prq

(* Going on from a column leads past everything it holds, and so past o.   *)
LEMMA NextAhead ==
  ASSUME RegistryInv, NoNesting, NEW o \in OID, NEW prq \in Calls, QuestionAhead(o, prq),
         NEW node \in nodes, node = GetnextLookup(prq.node, FALSE)
  PROVE  QuestionAhead(o, ProviderCall(prq.node, node))
<1> DEFINE new == ProviderCall(prq.node, node)
           n == prq.node
<1>1. /\ new.oid = n /\ new.node = node /\ (new.scalar <=> decor[node] = "scalar")
      /\ n \in Objects /\ n \in nodes /\ n \in OID /\ node \in OID
      /\ decor[n] \in {"scalar", "column"} /\ NoNode \notin OID
  BY ObjectNode, NoNodeAssumption
     DEF ProviderCall, QuestionAhead, Objects, InstancePossible, RegistryInv,
         RegistryTypeOK, MibTypeOK
<1> HIDE DEF new
<1>2. CASE decor[n] = "scalar"
  <2>1. node = n
    BY <1>1, <1>2, NextFromScalar
  <2>2. QED
    BY <1>1, <1>2, <2>1 DEF QuestionAhead, new
<1>3. CASE decor[n] = "column"
  <2>1. node \in Objects /\ LexLess(n, node) /\ decor[node] \in {"scalar", "column"}
    BY <1>1, <1>3, NextFromColumn DEF Objects, InstancePossible
  <2>2. ~ IsPrefix(n, node)
    <3>1. n # node
      BY <1>1, <2>1, LexIrreflexive
    <3>2. QED
      BY <1>1, <3>1 DEF NoNesting, IsStrictPrefix
  <2>3. LexLess(o, node)
    <3>1. CASE LexLess(o, n)
      BY <1>1, <2>1, <3>1, LexTransitive
    <3>2. CASE IsPrefix(n, o)
      <4>1. IsPrefix(node, node)
        BY <1>1, PrefixAt
      <4>2. QED
        BY <1>1, <2>1, <2>2, <3>2, <4>1, AfterCarries
    <3>3. QED
      BY <1>3, <3>1, <3>2 DEF QuestionAhead
  <2>4. QED
    BY <1>1, <2>1, <2>3 DEF QuestionAhead, new, LexLeq
<1>4. QED
  BY <1>1, <1>2, <1>3

(* What a provider may answer a GetNext with.                              *)
LEMMA GetNextAnswers ==
  ASSUME NEW q, NEW node, NEW scalar \in BOOLEAN, NEW res,
         res \in Answers("GetNext", q, node, scalar)
  PROVE  /\ \/ scalar /\ res = Varbind(Append(node, 0), "value")
            \/ ~ scalar /\ \E n \in NextRow(q, node) : res = Varbind(n, "value")
            \/ ~ scalar /\ res = Undefined /\ RowsAfter(q, node) = {}
            \/ res = Code(genErr)
            \/ \E s \in Slips : s.op = "GetNext" /\ res = s.res
<1>1. CASE scalar /\ res \in ScalarAnswers("GetNext", node)
  BY <1>1 DEF ScalarAnswers, ReadOnlyScalar, CreateVarbind
<1>2. CASE ~ scalar /\ res \in ColumnAnswers("GetNext", q, node)
  BY <1>2 DEF ColumnAnswers
<1>3. QED
  BY <1>1, <1>2 DEF Answers

LEMMA NextRowIs ==
  ASSUME NEW q \in OID, NEW c \in OID
  PROVE  /\ \A n \in RowsAfter(q, c) : n \in OID /\ IsPrefix(c, n) /\ LexLess(q, n)
         /\ \A n \in NextRow(q, c) : /\ n \in RowsAfter(q, c)
                                     /\ \A m \in RowsAfter(q, c) : LexLeq(n, m)
BY Extends, ProviderAssumption DEF RowsAfter, NextRow

LEMMA AnswerLiesAhead ==
  ASSUME SlipsAreNoVarbinds, RegistryInv, NEW o \in OID, NEW prq \in Calls,
         QuestionAhead(o, prq), NEW res \in Answers("GetNext", prq.oid, prq.node, prq.scalar),
         res.kind = "varbind"
  PROVE  AnswerAhead(o, res)
<1> DEFINE n == prq.node
           q == prq.oid
<1>1. n \in OID /\ q \in OID /\ prq.scalar \in BOOLEAN
  BY DEF Calls
<1>2. \/ prq.scalar /\ res = Varbind(Append(n, 0), "value")
      \/ ~ prq.scalar /\ \E m \in NextRow(q, n) : res = Varbind(m, "value")
  BY <1>1, GetNextAnswers DEF SlipsAreNoVarbinds, Undefined, Code
<1>3. CASE prq.scalar /\ res = Varbind(Append(n, 0), "value")
  <2>1. LexLeq(o, n)
    BY <1>3 DEF QuestionAhead
  <2>2. LexLess(o, Append(n, 0))
    BY <1>1, <2>1, FirstChildNext
  <2>3. QED
    BY <1>3, <2>2 DEF AnswerAhead, Varbind
<1>4. ASSUME ~ prq.scalar, NEW m \in NextRow(q, n), res = Varbind(m, "value")
      PROVE  AnswerAhead(o, res)
  <2>1. m \in OID /\ IsPrefix(n, m) /\ LexLess(q, m)
    BY <1>1, NextRowIs
  <2>2. CASE LexLess(o, n)
    <3>1. LexLess(o, m)
      BY <1>1, <2>1, <2>2, PrefixLeq, LexLeqLess
    <3>2. QED
      BY <1>4, <3>1 DEF AnswerAhead, Varbind
  <2>3. CASE q = o
    BY <1>4, <2>1, <2>3 DEF AnswerAhead, Varbind
  <2>4. QED
    BY <1>4, <2>2, <2>3 DEF QuestionAhead
<1>5. QED
  BY <1>2, <1>3, <1>4

----------------------------------------------------------------------------
(* One GetNext goes ahead: its questions, what its response holds, and     *)
(* what was sent.                                                          *)
AheadOf(r) == [i \in Nat |-> { vb \in Varbinds : AnswerAhead(msg[r].vbs[i], vb) }]

GoesAhead(r) ==
  /\ \A i \in Slots : call[r][i] # None => QuestionAhead(msg[r].vbs[i], call[r][i])
  /\ Within(rsp[r], sent[r], AheadOf(r))

InvAhead == InvG /\ \A r \in Reqs : AsksNext(r) => GoesAhead(r)

(* Whatever is registered is registered beside what there is.              *)
NothingReplaced == \A n \in Objects : decor'[n] = decor[n]

LEMMA ClosedCall ==
  ASSUME NEW prq \in Calls
  PROVE  /\ Closed(prq) \in Calls /\ Closed(prq).oid = prq.oid
         /\ Closed(prq).node = prq.node /\ Closed(prq).scalar = prq.scalar
<1>1. prq # None
  BY DEF Calls, None
<1>2. Closed(prq) = [prq EXCEPT !.open = FALSE]
  BY <1>1 DEF Closed
<1>3. QED
  BY <1>2 DEF Calls

(* The step of a GetNext, in terms of what can be stuffed and asked.       *)
LEMMA GetNextStepIs ==
  ASSUME InvA, NEW r \in Reqs, NEW i \in Slots, GetNextStep(r, i)
  PROVE  \/ UNCHANGED <<rsp, sent>> /\ call'[r][i] = call[r][i]
         \/ /\ UNCHANGED <<rsp, sent>>
            /\ \E oid \in OID, node \in nodes :
                  /\ Leads(r, i, oid, node) /\ ~ RequestThrows(node)
                  /\ call'[r][i] = ProviderCall(oid, node)
         \/ /\ call'[r][i] = Closed(call[r][i])
            /\ \E oid \in OID : /\ Leads(r, i, oid, NoNode)
                                /\ Stuff(r, i, Varbind(oid, "endOfMibView"))
         \/ /\ call[r][i] # None /\ call'[r][i] \in {call[r][i], Closed(call[r][i])}
            /\ \E res \in MayAnswer(r, i) : Stuff(r, i, res)
<1>1. call \in [Reqs -> [Slots -> Calls \cup {None}]]
  BY DEF InvA, TypeOK
<1>2. CASE Answers1(r, i)
  BY <1>2 DEF Answers1
<1>3. CASE Questions(r, i)
  <2>0. PICK oid \in OID : \E node : Leads(r, i, oid, node) /\ GetNextOne(r, i, oid, node)
    BY <1>3 DEF Questions
  <2>1. PICK node : Leads(r, i, oid, node) /\ GetNextOne(r, i, oid, node)
    BY <2>0
  <2>2. CASE node = NoNode /\ Stuff(r, i, Varbind(oid, "endOfMibView"))
             /\ call' = [call EXCEPT ![r][i] = Closed(@)]
    <3>1. call'[r][i] = Closed(call[r][i])
      BY <1>1, <2>2
    <3>2. QED
      BY <2>1, <2>2, <3>1, Zenon
  <2>3. CASE UNCHANGED <<call, rsp, ndone, sent, given>>
    BY <2>3
  <2>4. CASE /\ node \in nodes /\ ~ RequestThrows(node)
             /\ call' = [call EXCEPT ![r][i] = ProviderCall(oid, node)]
             /\ UNCHANGED <<rsp, sent>>
    <3>1. call'[r][i] = ProviderCall(oid, node)
      BY <1>1, <2>4
    <3>2. QED
      BY <2>1, <2>4, <3>1
  <2>5. QED
    BY <2>1, <2>2, <2>3, <2>4, Zenon DEF GetNextOne
<1>4. QED
  BY <1>2, <1>3 DEF GetNextStep

LEMMA StepGoesAhead ==
  ASSUME SlipsAreNoVarbinds, InvAhead, NoNesting, NEW r \in Reqs, AsksNext(r),
         NEW i \in Slots, GetNextStep(r, i)
  PROVE  GoesAhead(r)'
<1> DEFINE o == msg[r].vbs[i]
           prq == call[r][i]
           G == AheadOf(r)
<1>1. /\ InvA /\ TypeOK /\ RegistryInv /\ Received(r) /\ msg[r].op = "GetNext" /\ i <= Size(r)
      /\ UNCHANGED <<rvars, msg>>
      /\ \A j \in Slots : j # i => call'[r][j] = call[r][j]
  BY DEF InvAhead, InvG, InvB, InvA, AsksNext, GetNextStep
<1>2. o \in OID /\ i \in Nat /\ prq \in Calls \cup {None}
      /\ (prq # None => QuestionAhead(o, prq))
  <2>1. o \in OID /\ i \in Nat
    BY <1>1, ReceivedProperties, MessagesAssumption DEF Slots
  <2>2. QED
    BY <1>1, <2>1 DEF TypeOK, InvAhead, GoesAhead
<1>3. Within(rsp[r], sent[r], G) /\ AheadOf(r)' = G
  BY <1>1 DEF InvAhead, GoesAhead, AheadOf
<1>4. o = msg[r].vbs[i]
  OBVIOUS
<1>5. Varbind(o, "echo") \in G[i]
  BY <1>2 DEF AheadOf, AnswerAhead, Varbind, Varbinds, Vals
<1>6. ASSUME call'[r][i] # None => QuestionAhead(o, call'[r][i]),
             Within(rsp'[r], sent'[r], G)
      PROVE  GoesAhead(r)'
  <2>1. ASSUME NEW j \in Slots, call'[r][j] # None
        PROVE  QuestionAhead(msg[r].vbs[j], call[r][j])'
    <3>1. PICK x, c : x = msg[r].vbs[j] /\ c = call'[r][j]
      OBVIOUS
    <3>2. QuestionAhead(x, c)
      BY <1>1, <1>6, <2>1, <3>1 DEF InvAhead, GoesAhead
    <3>3. QED
      BY <1>1, <3>1, <3>2 DEF QuestionAhead, Objects, InstancePossible, rvars
  <2>2. QED
    BY <1>1, <1>3, <1>6, <2>1 DEF GoesAhead
<1> HIDE DEF G
<1>7. call'[r][i] = Closed(prq) => (call'[r][i] # None => QuestionAhead(o, call'[r][i]))
  <2>1. Closed(None) = None
    BY DEF Closed
  <2>2. QED
    BY <1>2, <2>1, ClosedCall DEF QuestionAhead
<1>8. CASE UNCHANGED <<rsp, sent>> /\ call'[r][i] = call[r][i]
  BY <1>2, <1>3, <1>6, <1>8
<1>9. ASSUME UNCHANGED <<rsp, sent>>, NEW oid \in OID, NEW node \in nodes,
             Leads(r, i, oid, node), call'[r][i] = ProviderCall(oid, node)
      PROVE  GoesAhead(r)'
  <2>1. QuestionAhead(o, ProviderCall(oid, node))
    <3>1. CASE oid = o /\ node = GetnextLookup(o, TRUE)
      BY <1>1, <1>2, <1>9, <3>1, FirstAhead
    <3>2. CASE prq # None /\ oid = prq.node /\ node = GetnextLookup(prq.node, FALSE)
      BY <1>1, <1>2, <1>9, <3>2, NextAhead
    <3>3. QED
      BY <1>9, <3>1, <3>2 DEF Leads, Open
  <2>2. QED
    BY <1>3, <1>6, <1>9, <2>1
<1>10. ASSUME call'[r][i] = Closed(prq), NEW oid \in OID,
              Stuff(r, i, Varbind(oid, "endOfMibView"))
       PROVE  GoesAhead(r)'
  <2> DEFINE res == Varbind(oid, "endOfMibView")
  <2>1. res \in Results /\ res \in G[i]
    BY <1>2 DEF G, AheadOf, AnswerAhead, Varbind, Varbinds, Vals, Results
  <2> HIDE DEF res
  <2>2. Within(rsp'[r], sent'[r], G)
    BY <1>1, <1>3, <1>5, <1>10, <2>1, StuffKeeps DEF res
  <2>3. QED
    BY <1>6, <1>7, <1>10, <2>2
<1>11. ASSUME prq # None, call'[r][i] \in {prq, Closed(prq)},
              NEW res \in MayAnswer(r, i), Stuff(r, i, res)
       PROVE  GoesAhead(r)'
  <2>1. res \in Results
    BY <1>1, <1>11, MayAnswerType
  <2>2. ASSUME res.kind = "varbind" PROVE res \in G[i]
    <3>1. res \in Answers("GetNext", prq.oid, prq.node, prq.scalar)
      BY <1>1 DEF MayAnswer
    <3>2. AnswerAhead(o, res)
      BY <1>1, <1>2, <1>11, <2>2, <3>1, AnswerLiesAhead
    <3>3. res \in Varbinds
      BY <2>1, <2>2 DEF Results, Undefined, Junk
    <3>4. QED
      BY <1>2, <3>2, <3>3 DEF G, AheadOf
  <2>3. Within(rsp'[r], sent'[r], G)
    BY <1>1, <1>3, <1>5, <1>11, <2>1, <2>2, StuffKeeps
  <2>4. QED
    BY <1>2, <1>6, <1>7, <1>11, <2>3
<1>12. QED
  BY <1>1, <1>8, <1>9, <1>10, <1>11, GetNextStepIs

LEMMA InvAheadInductive ==
  ASSUME SlipsAreNoVarbinds
  PROVE  /\ Init => InvAhead
         /\ InvAhead /\ NoNesting /\ [NothingReplaced]_vars /\ [Next]_vars => InvAhead'
<1>1. ASSUME Init PROVE InvAhead
  <2>1. InvG
    BY <1>1, InvGInductive
  <2>2. \A r \in Reqs : ~ AsksNext(r)
    BY <1>1 DEF Init, AsksNext, Received
  <2>3. QED
    BY <2>1, <2>2 DEF InvAhead
<1>2. ASSUME InvAhead, NoNesting, [NothingReplaced]_vars, [Next]_vars PROVE InvAhead'
  <2>1. InvG /\ InvG'
    BY <1>2, InvGInductive DEF InvAhead
  <2>2. ASSUME NEW q \in Reqs, AsksNext(q)' PROVE GoesAhead(q)'
    <3>1. CASE Fresh(q)
      <4>1. \A i \in Slots : ~ (call'[q][i] # None) /\ ~ (rsp'[q].vbs[i] # None)
        BY <3>1 DEF Fresh
      <4>2. DOMAIN sent'[q] = {}
        BY <3>1 DEF Fresh
      <4>3. QED
        BY <4>1, <4>2 DEF GoesAhead, Within
    <3>2. CASE AsksNext(q) /\ \E i \in Slots : GetNextStep(q, i)
      BY <1>2, <3>2, StepGoesAhead
    <3>3. CASE AsksNext(q) /\ Untouched(q)
      <4>1. GoesAhead(q) /\ msg'[q] = msg[q] /\ call'[q] = call[q]
        BY <1>2, <3>3 DEF InvAhead, Untouched
      <4>2. Within(rsp'[q], sent'[q], AheadOf(q)')
        BY <3>3, <4>1 DEF GoesAhead, Untouched, AheadOf
      <4>3. \A n \in Objects : n \in Objects' /\ decor'[n] = decor[n]
        <5>1. nodes \subseteq nodes'
          BY <1>2, RegistrySteps DEF InvAhead, InvG
        <5>2. NothingReplaced
          BY <1>2 DEF vars, rvars, NothingReplaced
        <5>3. QED
          BY <5>1, <5>2 DEF NothingReplaced, Objects, InstancePossible
      <4>4. ASSUME NEW i \in Slots, call'[q][i] # None
            PROVE  QuestionAhead(msg[q].vbs[i], call[q][i])'
        <5>1. QuestionAhead(msg[q].vbs[i], call[q][i])
          BY <4>1, <4>4 DEF GoesAhead
        <5>2. QED
          BY <4>1, <4>3, <5>1 DEF QuestionAhead
      <4>5. QED
        BY <4>2, <4>4 DEF GoesAhead
    <3>4. QED
      BY <1>2, <2>1, <2>2, <3>1, <3>2, <3>3, GetNextShape
  <2>3. QED
    BY <2>1, <2>2 DEF InvAhead
<1>3. QED
  BY <1>1, <1>2

LEMMA GoesAheadIs ==
  ASSUME InvAhead
  PROVE  GetNextAdvances
<1> SUFFICES ASSUME NEW r \in Reqs, sent[r] # << >>, msg[r].op = "GetNext",
                    NEW i \in DOMAIN sent[r][1].vbs, sent[r][1].vbs[i].val = "value"
             PROVE  LexLess(msg[r].vbs[i], sent[r][1].vbs[i].name)
  BY DEF GetNextAdvances
<1>1. Received(r) /\ sent[r] \in Seq(Replies)
  BY DEF InvAhead, InvG, InvB, InvA, TypeOK, CountPassed
<1>2. 1 \in DOMAIN sent[r] /\ sent[r][1] \in Replies
  BY <1>1
<1>3. i \in Nat
  BY <1>2 DEF Replies
<1>4. sent[r][1].vbs[i] \in AheadOf(r)[i]
  BY <1>1, <1>2 DEF InvAhead, AsksNext, GoesAhead, Within
<1>5. QED
  BY <1>3, <1>4 DEF AheadOf, AnswerAhead

(***************************************************************************)
(* A GetNext is answered with a name after the one it asked for, whatever  *)
(* the order of the answers and however often a provider passes it on.     *)
(* New objects may be registered meanwhile, but none inside or in place of *)
(* another: a column that becomes a scalar while it is being asked is      *)
(* asked again as a scalar, and its instance may lie behind.               *)
(***************************************************************************)
THEOREM GetNextGoesAhead ==
  ASSUME SlipsAreNoVarbinds
  PROVE  Spec /\ []NoNesting /\ [][NothingReplaced]_vars => []GetNextAdvances
<1>1. Init => InvAhead
  BY InvAheadInductive
<1>2. InvAhead /\ NoNesting /\ [NothingReplaced]_vars /\ [Next]_vars => InvAhead'
  BY InvAheadInductive
<1>3. InvAhead => GetNextAdvances
  BY GoesAheadIs
<1>4. QED
  BY <1>1, <1>2, <1>3, PTL DEF Spec

----------------------------------------------------------------------------
(***************************************************************************)
(* With the registry as it is: the object a GetNext is put to comes before *)
(* every instance after the name o that its binding gave, so that what the *)
(* first provider with an answer says is the first of them, and there are  *)
(* none where no provider is left.                                         *)
(***************************************************************************)
QuestionExact(o, prq) ==
  /\ QuestionAhead(o, prq)
  /\ \A n \in InstancesAfter(o) : LexLess(prq.node, n)

AnswerExact(o, vb) ==
  vb.val # "echo" => IF InstancesAfter(o) = {} THEN vb.val = "endOfMibView"
                     ELSE vb = Varbind(LexFirst(InstancesAfter(o), None), "value")

(* Providers may fail in ways the documentation has nothing of, but none   *)
(* answers a GetNext with a wrong varbind or with nothing by mistake.      *)
SlipsFail == \A s \in Slips : s.op = "GetNext" => s.res.kind \in {"code", "junk"}

(* Where an instance comes from.                                           *)
LEMMA InstanceOf ==
  ASSUME RegistryInv, NEW o \in OID, NEW n \in InstancesAfter(o)
  PROVE  /\ n \in OID /\ LexLess(o, n)
         /\ \E m \in Objects : /\ m \in OID /\ IsPrefix(m, n)
                               /\ \/ decor[m] = "scalar" /\ n = Append(m, 0)
                                  \/ decor[m] = "column" /\ \E row \in Rows : n = m \o row
<1>1. nodes \in SUBSET OID
  BY DEF RegistryInv, RegistryTypeOK, MibTypeOK
<1>2. n \in Instances /\ LexLess(o, n)
  BY DEF InstancesAfter
<1>3. CASE \E m \in nodes : decor[m] = "scalar" /\ n = Append(m, 0)
  <2>1. PICK m \in nodes : decor[m] = "scalar" /\ n = Append(m, 0)
    BY <1>3
  <2>2. m \in OID /\ m \in Objects /\ n \in OID
    BY <1>1, <2>1, AppendAt DEF Objects, InstancePossible
  <2>3. IsPrefix(m, n)
    <3>1. Len(m) \in Nat /\ \A k \in 1..Len(m) : k \in Pos /\ At(n, k) = At(m, k)
      BY <2>1, <2>2, AppendAt, AtType DEF Pos
    <3>2. QED
      BY <2>2, <3>1, PrefixAt
  <2>4. QED
    BY <1>2, <2>1, <2>2, <2>3
<1>4. CASE \E m \in nodes, row \in Rows : decor[m] = "column" /\ n = m \o row
  <2>1. PICK m \in nodes, row \in Rows : decor[m] = "column" /\ n = m \o row
    BY <1>4
  <2>2. m \in OID /\ row \in OID /\ m \in Objects
    BY <1>1, <2>1, ProviderAssumption DEF Objects, InstancePossible
  <2>3. QED
    BY <1>2, <2>1, <2>2, Extends
<1>5. QED
  BY <1>2, <1>3, <1>4 DEF Instances

(* No instance is an object.                                               *)
LEMMA InstanceBelow ==
  ASSUME RegistryInv, NoNesting, NEW o \in OID, NEW n \in InstancesAfter(o)
  PROVE  n \notin Objects
<1> SUFFICES ASSUME n \in Objects PROVE FALSE
  OBVIOUS
<1>1. n \in OID
  BY InstanceOf
<1>2. PICK m \in Objects : /\ m \in OID /\ IsPrefix(m, n)
                           /\ \/ decor[m] = "scalar" /\ n = Append(m, 0)
                              \/ decor[m] = "column" /\ \E row \in Rows : n = m \o row
  BY InstanceOf
<1>3. Len(m) \in Nat
  BY <1>2, AtType
<1>4. m # n
  <2>1. CASE n = Append(m, 0)
    BY <1>2, <1>3, <2>1, AppendAt
  <2>2. ASSUME NEW row \in Rows, n = m \o row PROVE m # n
    <3>1. row \in OID /\ row # << >> /\ Len(row) \in Nat
      BY ProviderAssumption, AtType DEF Root
    <3>2. Len(row) # 0 /\ Len(n) = Len(m) + Len(row)
      BY <1>2, <2>2, <3>1, ConcatProperties, EmptySeq DEF OID
    <3>3. QED
      BY <1>3, <3>1, <3>2
  <2>3. QED
    BY <1>2, <2>1, <2>2
<1>5. QED
  BY <1>2, <1>4 DEF NoNesting, IsStrictPrefix, Objects

(* The instances of an object registered are instances.                    *)
LEMMA InstanceIs ==
  ASSUME RegistryInv, NEW c \in Objects
  PROVE  /\ decor[c] = "scalar" => Append(c, 0) \in Instances
         /\ decor[c] = "column" => \A row \in Rows : c \o row \in Instances
BY DEF Objects, Instances

(* An object that comes before an instance after o and does not hold it    *)
(* comes before the object that does.                                      *)
LEMMA BeforeItsObject ==
  ASSUME NoNesting, NEW c \in OID, NEW m \in OID, NEW n \in OID, m \in Objects, c \in nodes,
         LexLess(c, n), ~ IsPrefix(c, n), IsPrefix(m, n)
  PROVE  LexLess(c, m)
<1>1. c # m
  OBVIOUS
<1>2. ASSUME LexLess(m, c) PROVE FALSE
  <2>1. ~ IsPrefix(m, c)
    BY <1>1 DEF NoNesting, IsStrictPrefix
  <2>2. IsPrefix(c, c)
    BY PrefixAt
  <2>3. LexLess(n, c)
    BY <1>2, <2>1, <2>2, AfterCarries
  <2>4. QED
    BY <2>3, LexTransitive, LexIrreflexive
<1>3. QED
  BY <1>1, <1>2, LexTotal

(* Two objects that an instance lies in are one.                           *)
LEMMA OneObject ==
  ASSUME NoNesting, NEW c \in OID, NEW m \in OID, NEW n \in OID, m \in Objects, c \in Objects,
         IsPrefix(c, n), IsPrefix(m, n)
  PROVE  c = m
<1>1. /\ Len(c) \in Nat /\ Len(m) \in Nat
      /\ \A k \in 1..Len(c) : At(n, k) = At(c, k)
      /\ \A k \in 1..Len(m) : At(n, k) = At(m, k)
  BY AtType, PrefixAt
<1>2. CASE Len(c) <= Len(m)
  <2>1. \A k \in 1..Len(c) : At(m, k) = At(c, k)
    BY <1>1, <1>2
  <2>2. IsPrefix(c, m)
    BY <2>1, PrefixAt
  <2>3. QED
    BY <2>2 DEF NoNesting, IsStrictPrefix, Objects
<1>3. CASE Len(m) <= Len(c)
  <2>1. \A k \in 1..Len(m) : At(c, k) = At(m, k)
    BY <1>1, <1>3
  <2>2. IsPrefix(m, c)
    BY <2>1, PrefixAt
  <2>3. QED
    BY <2>2 DEF NoNesting, IsStrictPrefix, Objects
<1>4. QED
  BY <1>1, <1>2, <1>3

(* An instance after o that lies in the column asked is one of the rows    *)
(* that the provider may answer with.                                      *)
LEMMA InstanceInColumn ==
  ASSUME RegistryInv, NoNesting, NEW o \in OID, NEW prq \in Calls, QuestionAhead(o, prq),
         ~ prq.scalar, NEW n \in InstancesAfter(o), IsPrefix(prq.node, n)
  PROVE  n \in RowsAfter(prq.oid, prq.node)
<1> DEFINE c == prq.node
           q == prq.oid
<1>1. c \in OID /\ q \in OID /\ c \in Objects /\ decor[c] # "scalar"
  BY DEF Calls, QuestionAhead
<1>2. n \in OID /\ LexLess(o, n)
  BY InstanceOf
<1>3. PICK m \in Objects : /\ m \in OID /\ IsPrefix(m, n)
                           /\ \/ decor[m] = "scalar" /\ n = Append(m, 0)
                              \/ decor[m] = "column" /\ \E row \in Rows : n = m \o row
  BY InstanceOf
<1>4. c = m
  BY <1>1, <1>2, <1>3, OneObject
<1>5. \E row \in Rows : n = c \o row
  BY <1>1, <1>3, <1>4
<1>6. LexLess(q, n)
  <2>1. CASE q = o
    BY <1>2, <2>1
  <2>2. CASE LexLess(q, c)
    BY <1>1, <1>2, <2>2, PrefixLeq, LexLeqLess
  <2>3. QED
    BY <2>1, <2>2 DEF QuestionAhead
<1>7. QED
  BY <1>5, <1>6 DEF RowsAfter

LEMMA FirstExact ==
  ASSUME RegistryInv, NoNesting, NEW o \in OID, NEW node, node = GetnextLookup(o, TRUE)
  PROVE  /\ node = NoNode => InstancesAfter(o) = {}
         /\ node \in nodes => QuestionExact(o, ProviderCall(o, node))
<1>1. nodes \in SUBSET OID /\ node = FirstToAsk(o, TRUE) /\ NoNode \notin OID
  BY AskedFirst, NoNodeAssumption DEF RegistryInv, RegistryTypeOK, MibTypeOK
<1>2. ASSUME NEW n \in InstancesAfter(o)
      PROVE  \E m \in Objects : m \in OID /\ Follows(m, o, TRUE) /\ LexLess(m, n)
  <2>1. PICK m \in Objects : /\ m \in OID /\ IsPrefix(m, n)
                             /\ \/ decor[m] = "scalar" /\ n = Append(m, 0)
                                \/ decor[m] = "column" /\ \E row \in Rows : n = m \o row
    BY InstanceOf
  <2>2. n \in OID /\ LexLess(o, n)
    BY InstanceOf
  <2>3. m # n
    BY <2>1, InstanceBelow
  <2>4. LexLess(m, n)
    BY <2>1, <2>3 DEF LexLess, IsStrictPrefix
  <2>5. Follows(m, o, TRUE)
    <3>1. CASE decor[m] = "scalar" /\ n = Append(m, 0)
      BY <2>2, <3>1 DEF Follows
    <3>2. CASE decor[m] = "column"
      <4>1. ASSUME LexLess(m, o), ~ IsPrefix(m, o) PROVE FALSE
        <5>1. IsPrefix(o, o)
          BY PrefixAt
        <5>2. LexLess(n, o)
          BY <2>1, <2>2, <4>1, <5>1, AfterCarries
        <5>3. QED
          BY <2>2, <5>2, LexTransitive, LexIrreflexive
      <4>2. IsPrefix(o, o)
        BY PrefixAt
      <4>3. QED
        BY <2>1, <3>2, <4>1, <4>2, LexTotal DEF Follows
    <3>3. QED
      BY <2>1, <3>1, <3>2
  <2>6. QED
    BY <2>1, <2>4, <2>5
<1>3. node = NoNode => InstancesAfter(o) = {}
  BY <1>1, <1>2, FirstToAskIs
<1>4. ASSUME node \in nodes PROVE QuestionExact(o, ProviderCall(o, node))
  <2>1. QuestionAhead(o, ProviderCall(o, node))
    BY <1>4, FirstAhead
  <2>2. \A m \in Objects : Follows(m, o, TRUE) => LexLeq(node, m)
    BY <1>1, <1>4, FirstToAskIs
  <2>3. ASSUME NEW n \in InstancesAfter(o) PROVE LexLess(node, n)
    <3>1. PICK m \in Objects : m \in OID /\ Follows(m, o, TRUE) /\ LexLess(m, n)
      BY <1>2
    <3>2. n \in OID /\ LexLeq(node, m) /\ node \in OID
      BY <1>1, <1>4, <2>2, <3>1, InstanceOf
    <3>3. QED
      BY <3>1, <3>2, LexLeqLess
  <2>4. QED
    BY <2>1, <2>3 DEF QuestionExact, ProviderCall
<1>5. QED
  BY <1>3, <1>4

(* A column that has no row after what it is asked with has no instance    *)
(* after o, so that the object to go on with comes before all there are.   *)
LEMMA NextExact ==
  ASSUME RegistryInv, NoNesting, NEW o \in OID, NEW prq \in Calls, QuestionExact(o, prq),
         ~ prq.scalar, RowsAfter(prq.oid, prq.node) = {},
         NEW node, node = GetnextLookup(prq.node, FALSE)
  PROVE  /\ node = NoNode => InstancesAfter(o) = {}
         /\ node \in nodes => QuestionExact(o, ProviderCall(prq.node, node))
<1> DEFINE c == prq.node
<1>1. /\ c \in OID /\ c \in Objects /\ c \in nodes /\ decor[c] = "column"
      /\ QuestionAhead(o, prq) /\ nodes \in SUBSET OID /\ NoNode \notin OID
  BY NoNodeAssumption DEF QuestionExact, QuestionAhead, Calls, Objects, InstancePossible,
                          RegistryInv, RegistryTypeOK, MibTypeOK
<1>2. ASSUME NEW n \in InstancesAfter(o)
      PROVE  \E m \in Objects : m \in OID /\ LexLess(c, m) /\ LexLeq(m, n)
  <2>1. PICK m \in Objects : m \in OID /\ IsPrefix(m, n)
    BY InstanceOf
  <2>2. n \in OID /\ LexLess(c, n)
    BY InstanceOf DEF QuestionExact
  <2>3. ~ IsPrefix(c, n)
    BY <1>1, InstanceInColumn
  <2>4. LexLess(c, m)
    BY <1>1, <2>1, <2>2, <2>3, BeforeItsObject
  <2>5. QED
    BY <2>1, <2>2, <2>4, PrefixLeq
<1>3. /\ node = NoNode => \A m \in Objects : ~ LexLess(c, m)
      /\ node # NoNode => \A m \in Objects : LexLess(c, m) => LexLeq(node, m)
  BY <1>1, NextFromColumn
<1>4. node = NoNode => InstancesAfter(o) = {}
  BY <1>2, <1>3
<1>5. ASSUME node \in nodes PROVE QuestionExact(o, ProviderCall(c, node))
  <2>1. QuestionAhead(o, ProviderCall(c, node))
    BY <1>1, <1>5, NextAhead
  <2>2. node \in OID /\ node # NoNode /\ node \in Objects /\ LexLess(c, node)
    BY <1>1, <1>5, NextFromColumn
  <2>3. ASSUME NEW n \in InstancesAfter(o) PROVE LexLess(node, n)
    <3>1. PICK m \in Objects : m \in OID /\ IsPrefix(m, n)
      BY InstanceOf
    <3>2. n \in OID /\ LexLess(c, n)
      BY InstanceOf DEF QuestionExact
    <3>3. ~ IsPrefix(c, n)
      BY <1>1, InstanceInColumn
    <3>4. LexLess(c, m)
      BY <1>1, <3>1, <3>2, <3>3, BeforeItsObject
    <3>5. LexLeq(node, m)
      BY <1>3, <2>2, <3>4
    <3>6. LexLess(m, n)
      <4>1. m # n
        BY <3>1, InstanceBelow
      <4>2. QED
        BY <3>1, <4>1 DEF LexLess, IsStrictPrefix
    <3>7. QED
      BY <2>2, <3>1, <3>2, <3>5, <3>6, LexLeqLess
  <2>4. QED
    BY <2>1, <2>3 DEF QuestionExact, ProviderCall
<1>6. QED
  BY <1>4, <1>5

(* What a provider answers is the first instance after o.                  *)
AnswerFirst(o, vb) ==
  vb.val = "value" => /\ vb.name \in InstancesAfter(o)
                      /\ \A n \in InstancesAfter(o) : LexLeq(vb.name, n)

LEMMA AnswerIsExact ==
  ASSUME SlipsFail, RegistryInv, NoNesting, NEW o \in OID, NEW prq \in Calls,
         QuestionExact(o, prq),
         NEW res \in Answers("GetNext", prq.oid, prq.node, prq.scalar),
         res.kind = "varbind"
  PROVE  AnswerExact(o, res) /\ AnswerFirst(o, res)
<1> DEFINE c == prq.node
           q == prq.oid
           after == InstancesAfter(o)
<1>1. /\ c \in OID /\ q \in OID /\ prq.scalar \in BOOLEAN /\ c \in Objects
      /\ prq.scalar <=> decor[c] = "scalar"
      /\ decor[c] \in {"scalar", "column"} /\ QuestionAhead(o, prq)
  BY DEF Calls, QuestionExact, QuestionAhead, Objects, InstancePossible
<1>2. \A n \in after : n \in OID /\ LexLess(c, n)
  BY InstanceOf DEF QuestionExact
<1>3. PICK first : /\ res = Varbind(first, "value")
                   /\ \/ prq.scalar /\ first = Append(c, 0)
                      \/ ~ prq.scalar /\ first \in NextRow(q, c)
  <2>1. \/ prq.scalar /\ res = Varbind(Append(c, 0), "value")
        \/ ~ prq.scalar /\ \E n \in NextRow(q, c) : res = Varbind(n, "value")
        \/ res = Undefined \/ res = Code(genErr)
        \/ \E s \in Slips : s.op = "GetNext" /\ res = s.res
    BY <1>1, GetNextAnswers
  <2>2. res # Undefined /\ res # Code(genErr)
    BY DEF Undefined, Code
  <2>3. ~ \E s \in Slips : s.op = "GetNext" /\ res = s.res
    BY DEF SlipsFail
  <2>4. QED
    BY <2>1, <2>2, <2>3
<1>4. LexLess(o, first)
  <2>1. SlipsAreNoVarbinds
    BY DEF SlipsFail, SlipsAreNoVarbinds
  <2>2. AnswerAhead(o, res)
    BY <1>1, <2>1, AnswerLiesAhead
  <2>3. QED
    BY <1>3, <2>2 DEF AnswerAhead, Varbind
<1>5. first \in Instances /\ first \in OID
  <2>1. CASE prq.scalar /\ first = Append(c, 0)
    BY <1>1, <2>1, InstanceIs, AppendAt
  <2>2. CASE ~ prq.scalar /\ first \in NextRow(q, c)
    <3>1. first \in RowsAfter(q, c) /\ first \in OID
      BY <1>1, <2>2, NextRowIs
    <3>2. QED
      BY <1>1, <2>2, <3>1, InstanceIs DEF RowsAfter
  <2>3. QED
    BY <1>3, <2>1, <2>2
<1>6. ASSUME NEW n \in after PROVE LexLeq(first, n)
  <2>1. n \in OID /\ LexLess(c, n)
    BY <1>2
  <2>2. CASE prq.scalar /\ first = Append(c, 0)
    BY <1>1, <2>1, <2>2, FirstChildNext
  <2>3. CASE ~ prq.scalar /\ first \in NextRow(q, c)
    <3>1. /\ first \in RowsAfter(q, c) /\ IsPrefix(c, first)
          /\ \A m \in RowsAfter(q, c) : LexLeq(first, m)
      BY <1>1, <2>3, NextRowIs
    <3>2. CASE IsPrefix(c, n)
      <4>1. n \in RowsAfter(q, c)
        BY <1>1, <2>3, <3>2, InstanceInColumn
      <4>2. QED
        BY <3>1, <4>1
    <3>3. CASE ~ IsPrefix(c, n)
      <4>1. IsPrefix(n, n)
        BY <2>1, PrefixAt
      <4>2. LexLess(first, n)
        BY <1>1, <1>5, <2>1, <3>1, <3>3, <4>1, AfterCarries
      <4>3. QED
        BY <4>2 DEF LexLeq
    <3>4. QED
      BY <3>2, <3>3
  <2>4. QED
    BY <1>3, <2>2, <2>3
<1>7. first \in after /\ after \in SUBSET OID
  BY <1>2, <1>4, <1>5 DEF InstancesAfter
<1> HIDE DEF after
<1>8. LexFirst(after, None) = first
  BY <1>6, <1>7, LexFirstIs
<1>9. AnswerExact(o, res)
  BY <1>3, <1>7, <1>8 DEF AnswerExact, after
<1>10. AnswerFirst(o, res)
  BY <1>3, <1>6, <1>7 DEF AnswerFirst, Varbind, after
<1>11. QED
  BY <1>9, <1>10

----------------------------------------------------------------------------
(* One GetNext is exact: its questions, what its response holds, and what  *)
(* was sent.                                                               *)
ExactOf(r) == [i \in Nat |-> { vb \in Varbinds : AnswerExact(msg[r].vbs[i], vb) }]

GoesExact(r) ==
  /\ \A i \in Slots : call[r][i] # None => QuestionExact(msg[r].vbs[i], call[r][i])
  /\ Within(rsp[r], sent[r], ExactOf(r))

(* Every reply has an element for each binding of its request.             *)
FullReplies == \A r \in Reqs : sent[r] # << >> => Len(sent[r][1].vbs) = Size(r)

InvExact ==
  InvG /\ InvC /\ FullReplies /\ \A r \in Reqs : AsksNext(r) => GoesExact(r)

(* All providers were registered before the first request was received.    *)
QuietRegistry == rvars' # rvars => \A r \in Reqs : ~ Received(r)

LEMMA SameInstances ==
  ASSUME UNCHANGED rvars
  PROVE  \A o : InstancesAfter(o)' = InstancesAfter(o)
BY DEF InstancesAfter, Instances, rvars

LEMMA StepGoesExact ==
  ASSUME SlipsFail, InvExact, NoNesting, NEW r \in Reqs, AsksNext(r),
         NEW i \in Slots, GetNextStep(r, i)
  PROVE  GoesExact(r)'
<1> DEFINE o == msg[r].vbs[i]
           prq == call[r][i]
           G == ExactOf(r)
<1>1. /\ InvA /\ TypeOK /\ RegistryInv /\ Received(r) /\ msg[r].op = "GetNext" /\ i <= Size(r)
      /\ UNCHANGED <<rvars, msg>>
      /\ \A j \in Slots : j # i => call'[r][j] = call[r][j]
  BY DEF InvExact, InvG, InvB, InvA, AsksNext, GetNextStep
<1>2. o \in OID /\ i \in Nat /\ prq \in Calls \cup {None}
      /\ (prq # None => QuestionExact(o, prq))
  <2>1. o \in OID /\ i \in Nat
    BY <1>1, ReceivedProperties, MessagesAssumption DEF Slots
  <2>2. QED
    BY <1>1, <2>1 DEF TypeOK, InvExact, GoesExact
<1>3. Within(rsp[r], sent[r], G) /\ ExactOf(r)' = G
  <2>1. \A n : InstancesAfter(n)' = InstancesAfter(n)
    BY <1>1, SameInstances
  <2>2. QED
    BY <1>1, <2>1 DEF InvExact, GoesExact, ExactOf, AnswerExact
<1>4. Varbind(o, "echo") \in G[i]
  BY <1>2 DEF ExactOf, AnswerExact, Varbind, Varbinds, Vals
<1>5. InstancesAfter(o) = {} => \A oid \in OID : Varbind(oid, "endOfMibView") \in G[i]
  BY <1>2 DEF ExactOf, AnswerExact, Varbind, Varbinds, Vals
<1>6. ASSUME call'[r][i] # None => QuestionExact(o, call'[r][i]),
             Within(rsp'[r], sent'[r], G)
      PROVE  GoesExact(r)'
  <2>1. ASSUME NEW j \in Slots, call'[r][j] # None
        PROVE  QuestionExact(msg[r].vbs[j], call[r][j])'
    <3>1. PICK x, c : x = msg[r].vbs[j] /\ c = call'[r][j]
      OBVIOUS
    <3>2. QuestionExact(x, c)
      BY <1>1, <1>6, <2>1, <3>1 DEF InvExact, GoesExact
    <3>3. InstancesAfter(x)' = InstancesAfter(x)
      BY <1>1, SameInstances
    <3>4. QED
      BY <1>1, <3>1, <3>2, <3>3
         DEF QuestionExact, QuestionAhead, Objects, InstancePossible, rvars
  <2>2. QED
    BY <1>1, <1>3, <1>6, <2>1 DEF GoesExact
<1> HIDE DEF G
<1>7. call'[r][i] = Closed(prq) => (call'[r][i] # None => QuestionExact(o, call'[r][i]))
  <2>1. Closed(None) = None
    BY DEF Closed
  <2>2. QED
    BY <1>2, <2>1, ClosedCall DEF QuestionExact, QuestionAhead
<1>8. ASSUME NEW oid \in OID, NEW node, Leads(r, i, oid, node)
      PROVE  /\ node = NoNode => InstancesAfter(o) = {}
             /\ node \in nodes => QuestionExact(o, ProviderCall(oid, node))
  <2>1. CASE oid = o /\ node = GetnextLookup(o, TRUE)
    BY <1>1, <1>2, <2>1, FirstExact
  <2>2. CASE /\ prq # None /\ Undefined \in MayAnswer(r, i)
             /\ oid = prq.node /\ node = GetnextLookup(prq.node, FALSE)
    <3>1. prq \in Calls /\ QuestionExact(o, prq) /\ prq.scalar \in BOOLEAN
      BY <1>2, <2>2 DEF Calls
    <3>2. Undefined \in Answers("GetNext", prq.oid, prq.node, prq.scalar)
      BY <1>1, <2>2 DEF MayAnswer
    <3>3. ~ prq.scalar /\ RowsAfter(prq.oid, prq.node) = {}
      BY <3>1, <3>2, GetNextAnswers DEF SlipsFail, Undefined, Varbind, Code
    <3>4. QED
      BY <1>1, <1>2, <2>2, <3>1, <3>3, NextExact
  <2>3. QED
    BY <1>8, <2>1, <2>2 DEF Leads, Open
<1>9. CASE UNCHANGED <<rsp, sent>> /\ call'[r][i] = call[r][i]
  BY <1>2, <1>3, <1>6, <1>9
<1>10. ASSUME UNCHANGED <<rsp, sent>>, NEW oid \in OID, NEW node \in nodes,
              Leads(r, i, oid, node), call'[r][i] = ProviderCall(oid, node)
       PROVE  GoesExact(r)'
  BY <1>3, <1>6, <1>8, <1>10
<1>11. ASSUME call'[r][i] = Closed(prq), NEW oid \in OID, Leads(r, i, oid, NoNode),
              Stuff(r, i, Varbind(oid, "endOfMibView"))
       PROVE  GoesExact(r)'
  <2> DEFINE res == Varbind(oid, "endOfMibView")
  <2>1. res \in Results /\ res \in G[i]
    BY <1>5, <1>8, <1>11 DEF Varbind, Varbinds, Vals, Results
  <2> HIDE DEF res
  <2>2. Within(rsp'[r], sent'[r], G)
    BY <1>1, <1>3, <1>4, <1>11, <2>1, StuffKeeps DEF res
  <2>3. QED
    BY <1>6, <1>7, <1>11, <2>2
<1>12. ASSUME prq # None, call'[r][i] \in {prq, Closed(prq)},
              NEW res \in MayAnswer(r, i), Stuff(r, i, res)
       PROVE  GoesExact(r)'
  <2>1. res \in Results
    BY <1>1, <1>12, MayAnswerType
  <2>2. ASSUME res.kind = "varbind" PROVE res \in G[i]
    <3>1. res \in Answers("GetNext", prq.oid, prq.node, prq.scalar)
      BY <1>1 DEF MayAnswer
    <3>2. AnswerExact(o, res)
      BY <1>1, <1>2, <1>12, <2>2, <3>1, AnswerIsExact
    <3>3. res \in Varbinds
      BY <2>1, <2>2 DEF Results, Undefined, Junk
    <3>4. QED
      BY <1>2, <3>2, <3>3 DEF G, ExactOf
  <2>3. Within(rsp'[r], sent'[r], G)
    BY <1>1, <1>3, <1>4, <1>12, <2>1, <2>2, StuffKeeps
  <2>4. QED
    BY <1>2, <1>6, <1>7, <1>12, <2>3
<1>13. QED
  BY <1>1, <1>9, <1>10, <1>11, <1>12, GetNextStepIs

(* A reply goes out with the last answer, when every element is there.     *)
LEMMA StepFullReplies ==
  ASSUME InvC, InvC', FullReplies, [Next]_vars, repeats' = 0
  PROVE  FullReplies'
<1>1. /\ InvA /\ TypeOK /\ InvA' /\ TypeOK' /\ CountPassed
      /\ repeats = 0 /\ ((\E r \in Reqs, i \in Slots : BindingStep(r, i)) \/ OtherStep)
  BY StepIsBindingStep DEF InvC, InvB, InvA
<1>2. ASSUME UNCHANGED sent PROVE FullReplies'
  <2>1. \A r \in Reqs : sent[r] # << >> => msg'[r] = msg[r]
    <3>1. \A r \in Reqs : Received(r) => msg'[r] = msg[r]
      BY <1>1 DEF OtherStep, BindingStep, Received, TypeOK
    <3>2. QED
      BY <1>1, <3>1 DEF CountPassed
  <2>2. QED
    BY <1>2, <2>1 DEF FullReplies, Size
<1>3. ASSUME NEW r \in Reqs, NEW i \in Slots, BindingStep(r, i), NEW res \in Results,
             Stuff(r, i, res)
      PROVE  FullReplies'
  <2>1. /\ Alive /\ Received(r) /\ i <= Size(r) /\ i \notin Assigned(r) /\ UNCHANGED msg
    BY <1>3 DEF BindingStep
  <2>2. CASE ~ Alive'
    <3>1. UNCHANGED sent
      BY <1>1, <1>3, <2>1, <2>2, StuffOutcome
    <3>2. QED
      BY <1>2, <3>1
  <2>3. CASE UNCHANGED <<rsp, sent>>
    BY <1>2, <2>3
  <2>4. ASSUME Alive', NEW v, Stuffed(r, i, res, v) PROVE FullReplies'
    <3>1. \A q \in Reqs : q # r => sent'[q] = sent[q] /\ msg'[q] = msg[q]
      BY <2>1, <2>4 DEF Stuffed
    <3>2. CASE sent'[r] = sent[r]
      BY <2>1, <3>1, <3>2 DEF FullReplies, Size
    <3>3. CASE /\ Encodable(rsp'[r])
               /\ sent'[r] = Append(sent[r], Encoded(rsp'[r]))
      <4> DEFINE full == rsp'[r]
                 n == Length(full)
      <4>1. /\ full \in Responses /\ sent[r] \in Seq(Replies) /\ sent'[r] \in Seq(Replies)
            /\ Encoded(full) \in Replies /\ Len(sent'[r]) = 1
        <5>1. full \in Responses /\ sent[r] \in Seq(Replies) /\ sent'[r] \in Seq(Replies)
          BY <1>1, <2>4 DEF Stuffed, TypeOK
        <5>2. sent'[r] # << >>
          BY <3>3, <5>1
        <5>3. QED
          BY <3>3, <5>1, <5>2, EncodedType DEF InvC, InvB, CountPassed
      <4>2. sent'[r][1] = Encoded(full)
        BY <3>3, <4>1
      <4>3. Accounted(r)'
        BY <2>4 DEF InvC, EveryBindingAccounted
      <4>4. Cardinality(Assigned(r)') = Size(r)
        BY <2>1, <4>1, <4>3 DEF Accounted, Size
      <4>5. Assigned(r)' = 1..Size(r)
        <5>1. /\ Size(r) \in Nat /\ Size(r) <= MaxVarbinds /\ MaxVarbinds \in Nat
              /\ cursor'[r] <= Size(r) /\ cursor'[r] \in Nat
          BY <1>1, <2>1, ReceivedProperties, MessagesAssumption
             DEF InvA, CallsInDispatch, TypeOK, Received, Size
        <5>2. Assigned(r)' \in SUBSET (1..Size(r))
          BY <4>3, <5>1 DEF Accounted, Assigned, Slots
        <5>3. IsFiniteSet(1..Size(r)) /\ Cardinality(1..Size(r)) = Size(r)
          BY <5>1, CountTo
        <5>4. QED
          BY <4>4, <5>2, <5>3, FS_Subset
      <4>6. \A j \in Slots : full.vbs[j] # None <=> j \in 1..Size(r)
        BY <4>5 DEF Assigned
      <4>7. Size(r) \in Slots
        BY <1>1, <2>1, ReceivedProperties, MessagesAssumption DEF Slots
      <4> HIDE DEF full
      <4>8. n = Size(r)
        <5>1. /\ n \in 0..MaxVarbinds /\ MaxVarbinds \in Nat
              /\ \A j \in Slots : full.vbs[j] # None => j <= n
              /\ n > 0 => full.vbs[n] # None
          BY <4>1, LengthProperties, MessagesAssumption
        <5>2. Size(r) <= n
          BY <4>6, <4>7, <5>1 DEF Slots
        <5>3. QED
          BY <4>6, <4>7, <5>1, <5>2 DEF Slots
      <4>9. Len(Encoded(full).vbs) = n
        <5>1. Encoded(full).vbs = SubSeq(full.vbs, 1, n)
          BY <4>1 DEF Encoded, Responses
        <5>2. QED
          BY <4>7, <4>8, <5>1 DEF Slots
      <4>10. QED
        BY <2>1, <3>1, <4>2, <4>8, <4>9 DEF FullReplies, Size, full
    <3>4. QED
      BY <2>4, <3>2, <3>3 DEF Stuffed
  <2>5. QED
    BY <1>1, <1>3, <2>1, <2>2, <2>3, <2>4, StuffLeaves
<1>4. QED
  BY <1>1, <1>2, <1>3 DEF BindingStep, OtherStep, Plausible

LEMMA InvExactInductive ==
  ASSUME SlipsFail, MaxRepeats = 0
  PROVE  /\ Init => InvExact
         /\ InvExact /\ NoNesting /\ [QuietRegistry]_vars /\ [Next]_vars => InvExact'
<1>1. ASSUME Init PROVE InvExact
  <2>1. InvG /\ InvC
    BY <1>1, InvGInductive, InvCInductive
  <2>2. FullReplies /\ \A r \in Reqs : ~ AsksNext(r)
    BY <1>1 DEF Init, AsksNext, Received, FullReplies
  <2>3. QED
    BY <2>1, <2>2 DEF InvExact
<1>2. ASSUME InvExact, NoNesting, [QuietRegistry]_vars, [Next]_vars PROVE InvExact'
  <2>1. InvG /\ InvG' /\ InvC /\ InvC'
    BY <1>2, InvGInductive, InvCInductive DEF InvExact
  <2>2. FullReplies'
    <3>1. repeats' = 0
      BY <2>1 DEF InvC, InvB, InvA, TypeOK
    <3>2. QED
      BY <1>2, <2>1, <3>1, StepFullReplies DEF InvExact
  <2>3. ASSUME NEW q \in Reqs, AsksNext(q)' PROVE GoesExact(q)'
    <3>1. CASE Fresh(q)
      <4>1. \A i \in Slots : ~ (call'[q][i] # None) /\ ~ (rsp'[q].vbs[i] # None)
        BY <3>1 DEF Fresh
      <4>2. DOMAIN sent'[q] = {}
        BY <3>1 DEF Fresh
      <4>3. QED
        BY <4>1, <4>2 DEF GoesExact, Within
    <3>2. CASE AsksNext(q) /\ \E i \in Slots : GetNextStep(q, i)
      BY <1>2, <3>2, StepGoesExact
    <3>3. CASE AsksNext(q) /\ Untouched(q)
      <4>1. /\ GoesExact(q) /\ msg'[q] = msg[q] /\ call'[q] = call[q]
            /\ rsp'[q] = rsp[q] /\ sent'[q] = sent[q]
        BY <1>2, <3>3 DEF InvExact, Untouched
      <4>2. UNCHANGED rvars
        BY <1>2, <3>3 DEF QuietRegistry, AsksNext, vars
      <4>3. \A n : InstancesAfter(n)' = InstancesAfter(n)
        BY <4>2, SameInstances
      <4>4. Within(rsp'[q], sent'[q], ExactOf(q)')
        BY <4>1, <4>3 DEF GoesExact, ExactOf, AnswerExact
      <4>5. ASSUME NEW i \in Slots, call'[q][i] # None
            PROVE  QuestionExact(msg[q].vbs[i], call[q][i])'
        <5>1. PICK x, c : x = msg[q].vbs[i] /\ c = call[q][i]
          OBVIOUS
        <5>2. QuestionExact(x, c)
          BY <4>1, <4>5, <5>1 DEF GoesExact
        <5>3. QED
          BY <4>1, <4>2, <4>3, <5>1, <5>2
             DEF QuestionExact, QuestionAhead, Objects, InstancePossible, rvars
      <4>6. QED
        BY <4>4, <4>5 DEF GoesExact
    <3>4. QED
      BY <1>2, <2>1, <2>3, <3>1, <3>2, <3>3, GetNextShape
  <2>4. QED
    BY <2>1, <2>2, <2>3 DEF InvExact
<1>3. QED
  BY <1>1, <1>2

LEMMA GoesExactIs ==
  ASSUME InvExact
  PROVE  GetNextExact
<1> SUFFICES ASSUME NEW r \in Reqs, sent[r] # << >>, msg[r].op = "GetNext", NEW i \in 1..Size(r)
             PROVE  AnswerExact(msg[r].vbs[i], sent[r][1].vbs[i])
  BY DEF GetNextExact, AnswerExact
<1>1. Received(r) /\ sent[r] \in Seq(Replies) /\ Len(sent[r][1].vbs) = Size(r)
  BY DEF InvExact, FullReplies, InvG, InvB, InvA, TypeOK, CountPassed
<1>2. 1 \in DOMAIN sent[r] /\ sent[r][1] \in Replies
  BY <1>1
<1>3. i \in Nat /\ i \in DOMAIN sent[r][1].vbs
  BY <1>1, <1>2 DEF Replies
<1>4. sent[r][1].vbs[i] \in ExactOf(r)[i]
  BY <1>1, <1>2, <1>3 DEF InvExact, AsksNext, GoesExact, Within
<1>5. QED
  BY <1>3, <1>4 DEF ExactOf

(***************************************************************************)
(* A GetNext is answered with the first instance after the one it names of *)
(* all that the providers hold, or with endOfMibView if there is none,     *)
(* unless a provider failed: for any tree of providers registered before   *)
(* the first request and none inside another, any number of requests and   *)
(* bindings, and any order of the answers, with each done invoked once.    *)
(***************************************************************************)
THEOREM GetNextIsExact ==
  ASSUME SlipsFail, MaxRepeats = 0
  PROVE  Spec /\ []NoNesting /\ [][QuietRegistry]_vars => []GetNextExact
<1>1. Init => InvExact
  BY InvExactInductive
<1>2. InvExact /\ NoNesting /\ [QuietRegistry]_vars /\ [Next]_vars => InvExact'
  BY InvExactInductive
<1>3. InvExact => GetNextExact
  BY GoesExactIs
<1>4. QED
  BY <1>1, <1>2, <1>3, PTL DEF Spec

----------------------------------------------------------------------------
(* The status of a response to anything but a Set is genErr or none.       *)
Mild(r) ==
  /\ rsp[r].status \in {noError, genErr}
  /\ \A k \in DOMAIN sent[r] : sent[r][k].status \in {noError, genErr}

MildInv == \A r \in Reqs : (Received(r) /\ msg[r].op = "Set") \/ Mild(r)

LEMMA StuffMild ==
  ASSUME TypeOK, NEW r \in Reqs, Received(r), msg[r].op # "Set", NEW i \in Slots, i <= Size(r),
         NEW res \in Results, Stuff(r, i, res), Mild(r)
  PROVE  Mild(r)'
<1> DEFINE full == SetSingle(rsp[r], msg[r].vbs, i, res)
<1>1. CASE UNCHANGED <<rsp, sent>>
  BY <1>1 DEF Mild
<1>2. ASSUME StuffThrows(msg[r].op, msg[r].vbs[i], res) = "no",
             rsp' = [rsp EXCEPT ![r] = full],
             IF LastDone(r) /\ Encodable(full)
             THEN sent' = [sent EXCEPT ![r] = Append(@, Encoded(full))]
             ELSE UNCHANGED sent
      PROVE  Mild(r)'
  <2>1. res.kind = "varbind" \/ (res.kind = "code" /\ res.code = genErr)
    BY <1>2 DEF StuffThrows, SetSingleThrows, CloneThrows, Results, Varbinds, Undefined, Junk
  <2>2. /\ rsp \in [Reqs -> Responses] /\ rsp[r] \in Responses
        /\ sent \in [Reqs -> Seq(Replies)] /\ sent[r] \in Seq(Replies)
    BY DEF TypeOK
  <2>3. full.status \in {noError, genErr}
    BY <2>1, <2>2 DEF SetSingle, Responses, Mild
  <2>4. full \in Responses
    <3>1. msg[r].vbs[i] \in OID
      BY ReceivedProperties DEF Slots
    <3>2. QED
      BY <2>1, <2>2, <3>1, SetSingleType
  <2> HIDE DEF full
  <2>5. rsp'[r] = full
    BY <1>2, <2>2
  <2>6. CASE UNCHANGED sent
    BY <2>3, <2>5, <2>6 DEF Mild
  <2>7. CASE Encodable(full) /\ sent' = [sent EXCEPT ![r] = Append(@, Encoded(full))]
    <3> DEFINE e == Encoded(full)
    <3>1. e.status = full.status
      BY <2>4 DEF Encoded, Responses
    <3>2. e \in Replies
      BY <2>4, <2>7, EncodedType
    <3>3. sent'[r] = Append(sent[r], e)
      BY <2>2, <2>7
    <3> HIDE DEF e
    <3>4. \A k \in DOMAIN sent'[r] : (k \in DOMAIN sent[r] /\ sent'[r][k] = sent[r][k])
                                     \/ sent'[r][k] = e
      BY <2>2, <3>2, <3>3
    <3>5. QED
      BY <2>3, <2>5, <3>1, <3>4 DEF Mild
  <2>8. QED
    BY <1>2, <2>6, <2>7
<1>3. QED
  BY <1>1, <1>2, Zenon DEF Stuff

LEMMA MildInductive == (Init => MildInv) /\ (InvG /\ MildInv /\ [Next]_vars => MildInv')
<1>1. Init => MildInv
  BY DEF Init, MildInv, Mild, EmptyResponse
<1>2. ASSUME InvG, MildInv, [Next]_vars PROVE MildInv'
  <2>1. InvA /\ TypeOK
    BY <1>2 DEF InvG, InvB, InvA
  <2>2. CASE StuffStep
    <3>1. PICK r \in Reqs, i \in Slots, res \in Results :
            Received(r) /\ i <= Size(r) /\ UNCHANGED msg /\ Stuff(r, i, res)
      BY <2>2 DEF StuffStep
    <3>2. UNCHANGED <<rsp, sent>> \/ \A q \in Reqs : q # r => rsp'[q] = rsp[q] /\ sent'[q] = sent[q]
      BY <2>1, <3>1, StuffLeaves DEF Stuffed
    <3>3. \A q \in Reqs : q # r => (Mild(q) => Mild(q)')
      BY <3>2 DEF Mild
    <3>4. msg[r].op # "Set" => Mild(r)'
      BY <1>2, <2>1, <3>1, StuffMild DEF MildInv
    <3>5. QED
      BY <1>2, <3>1, <3>3, <3>4 DEF MildInv, Received
  <2>3. CASE QuietStep
    <3>1. \A q \in Reqs : Received(q) => msg'[q] = msg[q]
      BY <2>1, <2>3 DEF QuietStep, TypeOK, Received
    <3>2. \A q \in Reqs : Mild(q) => Mild(q)'
      BY <2>3 DEF QuietStep, Mild
    <3>3. QED
      BY <1>2, <3>1, <3>2 DEF MildInv, Received
  <2>4. QED
    BY <2>1, <1>2, <2>2, <2>3, StepShape
<1>3. QED
  BY <1>1, <1>2

----------------------------------------------------------------------------
(* What extends a name deep enough to be encoded is deep enough.           *)
LEMMA CanonicalExtends ==
  ASSUME NEW a \in OID, NEW b \in OID, IsPrefix(a, b), Canonical(a)
  PROVE  Canonical(b)
<1>1. Len(a) \in Nat /\ Len(b) \in Nat /\ Len(a) <= Len(b)
  BY AtType, PrefixAt
<1>2. \A i \in 1..Len(b) : b[i] >= 0
  BY DEF OID
<1>3. QED
  BY <1>1, <1>2 DEF Canonical, MinOidLen

LEMMA AskedIsCanonical ==
  ASSUME TypeOK, NEW r \in Reqs, Received(r), NEW i \in Nat, i >= 1, i <= Size(r)
  PROVE  Canonical(msg[r].vbs[i]) /\ msg[r].vbs[i] \in Oids
<1>1. msg[r] \in Messages
  BY DEF TypeOK, Received
<1>2. msg[r].vbs \in Seq(Oids)
  BY <1>1, MessagesAssumption
<1>3. msg[r].vbs[i] \in Oids
  BY <1>2, ElementOfSeq DEF Size
<1>4. QED
  BY <1>3, OidsAssumption

(***************************************************************************)
(* The name of an answer to a GetNext for o: one that can be asked for,    *)
(* the first instance after o if it has a value, o itself if the provider  *)
(* failed, and at the end of the view o or the last column that was asked. *)
(***************************************************************************)
Named(o, vb) ==
  /\ Canonical(vb.name)
  /\ AnswerFirst(o, vb)
  /\ vb.val = "echo" => vb.name = o
  /\ vb.val = "endOfMibView" =>
        \/ vb.name = o
        \/ vb.name \in Objects /\ (LexLess(o, vb.name) \/ IsPrefix(vb.name, o))

NamedOf(r) == [i \in Nat |-> { vb \in Varbinds : Named(msg[r].vbs[i], vb) }]

GoesNamed(r) ==
  /\ \A i \in Slots : call[r][i] # None => Canonical(call[r][i].node)
  /\ Within(rsp[r], sent[r], NamedOf(r))

LEMMA AnswerIsNamed ==
  ASSUME SlipsFail, RegistryInv, NoNesting, NEW o \in OID, NEW prq \in Calls,
         QuestionExact(o, prq), Canonical(prq.node),
         NEW res \in Answers("GetNext", prq.oid, prq.node, prq.scalar),
         res.kind = "varbind"
  PROVE  Named(o, res)
<1> DEFINE c == prq.node
           q == prq.oid
<1>1. c \in OID /\ q \in OID /\ prq.scalar \in BOOLEAN
  BY DEF Calls
<1>2. \/ res = Varbind(Append(c, 0), "value")
      \/ \E n \in NextRow(q, c) : res = Varbind(n, "value")
  BY <1>1, GetNextAnswers DEF SlipsFail, Undefined, Code
<1>3. PICK n : n \in OID /\ IsPrefix(c, n) /\ res = Varbind(n, "value")
  <2>1. CASE res = Varbind(Append(c, 0), "value")
    <3>1. /\ Append(c, 0) \in OID /\ Len(c) \in Nat
          /\ \A k \in Pos : k <= Len(c) => At(Append(c, 0), k) = At(c, k)
      BY <1>1, AppendAt, AtType
    <3>2. \A k \in 1..Len(c) : At(Append(c, 0), k) = At(c, k)
      BY <3>1 DEF Pos
    <3>3. IsPrefix(c, Append(c, 0))
      BY <1>1, <3>1, <3>2, PrefixAt
    <3>4. QED
      BY <2>1, <3>1, <3>3
  <2>2. CASE \E n \in NextRow(q, c) : res = Varbind(n, "value")
    BY <1>1, <2>2, NextRowIs
  <2>3. QED
    BY <1>2, <2>1, <2>2
<1>4. Canonical(n)
  BY <1>1, <1>3, CanonicalExtends
<1>5. AnswerFirst(o, res)
  BY AnswerIsExact
<1>6. QED
  BY <1>3, <1>4, <1>5 DEF Named, Varbind

LEMMA StepGoesNamed ==
  ASSUME SlipsFail, InvExact, NoNesting, NEW r \in Reqs, AsksNext(r), GoesNamed(r),
         NEW i \in Slots, GetNextStep(r, i)
  PROVE  GoesNamed(r)'
<1> DEFINE o == msg[r].vbs[i]
           prq == call[r][i]
           G == NamedOf(r)
<1>1. /\ InvA /\ TypeOK /\ RegistryInv /\ Received(r) /\ msg[r].op = "GetNext" /\ i <= Size(r)
      /\ UNCHANGED <<rvars, msg>>
      /\ \A j \in Slots : j # i => call'[r][j] = call[r][j]
  BY DEF InvExact, InvG, InvB, InvA, AsksNext, GetNextStep
<1>2. /\ o \in OID /\ i \in Nat /\ prq \in Calls \cup {None} /\ Canonical(o)
      /\ prq # None => QuestionExact(o, prq) /\ Canonical(prq.node)
  <2>1. o \in OID /\ i \in Nat /\ i >= 1
    BY <1>1, ReceivedProperties, MessagesAssumption DEF Slots
  <2>2. Canonical(o)
    BY <1>1, <2>1, AskedIsCanonical
  <2>3. QED
    BY <1>1, <2>1, <2>2 DEF TypeOK, InvExact, GoesExact, GoesNamed
<1>3. Within(rsp[r], sent[r], G) /\ NamedOf(r)' = G
  <2>1. \A n : InstancesAfter(n)' = InstancesAfter(n)
    BY <1>1, SameInstances
  <2>2. NamedOf(r)' = G
    BY <1>1, <2>1 DEF NamedOf, Named, AnswerFirst, Objects, InstancePossible, rvars
  <2>3. QED
    BY <2>2 DEF GoesNamed
<1>4. Varbind(o, "echo") \in G[i]
  BY <1>2 DEF NamedOf, Named, AnswerFirst, Varbind, Varbinds, Vals
<1>5. ASSUME call'[r][i] # None => Canonical(call'[r][i].node),
             Within(rsp'[r], sent'[r], G)
      PROVE  GoesNamed(r)'
  BY <1>1, <1>3, <1>5 DEF GoesNamed
<1> HIDE DEF G
<1>6. call'[r][i] = Closed(prq) => (call'[r][i] # None => Canonical(call'[r][i].node))
  <2>1. Closed(None) = None
    BY DEF Closed
  <2>2. QED
    BY <1>2, <2>1, ClosedCall
<1>7. CASE UNCHANGED <<rsp, sent>> /\ call'[r][i] = call[r][i]
  BY <1>2, <1>3, <1>5, <1>7
<1>8. ASSUME UNCHANGED <<rsp, sent>>, NEW oid \in OID, NEW node \in nodes,
             ~ RequestThrows(node), call'[r][i] = ProviderCall(oid, node)
      PROVE  GoesNamed(r)'
  <2>1. call'[r][i].node = node /\ Canonical(node)
    BY <1>8 DEF ProviderCall, RequestThrows
  <2>2. QED
    BY <1>3, <1>5, <1>8, <2>1
<1>9. ASSUME call'[r][i] = Closed(prq), NEW oid \in OID, Leads(r, i, oid, NoNode),
             Stuff(r, i, Varbind(oid, "endOfMibView"))
      PROVE  GoesNamed(r)'
  <2> DEFINE res == Varbind(oid, "endOfMibView")
  <2>1. \/ oid = o
        \/ /\ Canonical(oid) /\ oid \in Objects
           /\ LexLess(o, oid) \/ IsPrefix(oid, o)
    <3>1. CASE oid = o
      BY <3>1
    <3>2. CASE prq # None /\ Undefined \in MayAnswer(r, i) /\ oid = prq.node
      <4>1. prq \in Calls /\ QuestionExact(o, prq) /\ prq.scalar \in BOOLEAN
        BY <1>2, <3>2 DEF Calls
      <4>2. Undefined \in Answers("GetNext", prq.oid, prq.node, prq.scalar)
        BY <1>1, <3>2 DEF MayAnswer
      <4>3. ~ prq.scalar
        BY <4>1, <4>2, GetNextAnswers DEF SlipsFail, Undefined, Varbind, Code
      <4>4. QED
        BY <1>2, <3>2, <4>1, <4>3 DEF QuestionExact, QuestionAhead
    <3>3. QED
      BY <1>9, <3>1, <3>2 DEF Leads, Open
  <2>2. res \in Results /\ res \in G[i]
    BY <1>2, <2>1 DEF G, NamedOf, Named, AnswerFirst, Varbind, Varbinds, Vals, Results
  <2> HIDE DEF res
  <2>3. Within(rsp'[r], sent'[r], G)
    BY <1>1, <1>3, <1>4, <1>9, <2>2, StuffKeeps DEF res
  <2>4. QED
    BY <1>5, <1>6, <1>9, <2>3
<1>10. ASSUME prq # None, call'[r][i] \in {prq, Closed(prq)},
              NEW res \in MayAnswer(r, i), Stuff(r, i, res)
       PROVE  GoesNamed(r)'
  <2>1. res \in Results
    BY <1>1, <1>10, MayAnswerType
  <2>2. ASSUME res.kind = "varbind" PROVE res \in G[i]
    <3>1. res \in Answers("GetNext", prq.oid, prq.node, prq.scalar)
      BY <1>1 DEF MayAnswer
    <3>2. Named(o, res)
      BY <1>1, <1>2, <1>10, <2>2, <3>1, AnswerIsNamed
    <3>3. res \in Varbinds
      BY <2>1, <2>2 DEF Results, Undefined, Junk
    <3>4. QED
      BY <1>2, <3>2, <3>3 DEF G, NamedOf
  <2>3. Within(rsp'[r], sent'[r], G)
    BY <1>1, <1>3, <1>4, <1>10, <2>1, <2>2, StuffKeeps
  <2>4. QED
    BY <1>2, <1>5, <1>6, <1>10, <2>3
<1>11. QED
  BY <1>1, <1>7, <1>8, <1>9, <1>10, GetNextStepIs

InvNamed == InvExact /\ MildInv /\ \A r \in Reqs : AsksNext(r) => GoesNamed(r)

LEMMA InvNamedInductive ==
  ASSUME SlipsFail, MaxRepeats = 0
  PROVE  /\ Init => InvNamed
         /\ InvNamed /\ NoNesting /\ [QuietRegistry]_vars /\ [Next]_vars => InvNamed'
<1>1. ASSUME Init PROVE InvNamed
  <2>1. \A r \in Reqs : ~ AsksNext(r)
    BY <1>1 DEF Init, AsksNext, Received
  <2>2. QED
    BY <1>1, <2>1, InvExactInductive, MildInductive DEF InvNamed
<1>2. ASSUME InvNamed, NoNesting, [QuietRegistry]_vars, [Next]_vars PROVE InvNamed'
  <2>1. InvExact /\ InvExact' /\ InvG /\ MildInv'
    BY <1>2, InvExactInductive, MildInductive DEF InvNamed, InvExact
  <2>2. ASSUME NEW q \in Reqs, AsksNext(q)' PROVE GoesNamed(q)'
    <3>1. CASE Fresh(q)
      <4>1. \A i \in Slots : ~ (call'[q][i] # None) /\ ~ (rsp'[q].vbs[i] # None)
        BY <3>1 DEF Fresh
      <4>2. DOMAIN sent'[q] = {}
        BY <3>1 DEF Fresh
      <4>3. QED
        BY <4>1, <4>2 DEF GoesNamed, Within
    <3>2. CASE AsksNext(q) /\ \E i \in Slots : GetNextStep(q, i)
      BY <1>2, <2>1, <3>2, StepGoesNamed DEF InvNamed
    <3>3. CASE AsksNext(q) /\ Untouched(q)
      <4>1. /\ GoesNamed(q) /\ msg'[q] = msg[q] /\ call'[q] = call[q]
            /\ rsp'[q] = rsp[q] /\ sent'[q] = sent[q]
        BY <1>2, <3>3 DEF InvNamed, Untouched
      <4>2. UNCHANGED rvars
        BY <1>2, <3>3 DEF QuietRegistry, AsksNext, vars
      <4>3. NamedOf(q)' = NamedOf(q)
        <5>1. \A n : InstancesAfter(n)' = InstancesAfter(n)
          BY <4>2, SameInstances
        <5>2. QED
          BY <4>1, <4>2, <5>1
             DEF NamedOf, Named, AnswerFirst, Objects, InstancePossible, rvars
      <4>4. QED
        BY <4>1, <4>3 DEF GoesNamed
    <3>4. QED
      BY <1>2, <2>1, <2>2, <3>1, <3>2, <3>3, GetNextShape
  <2>3. QED
    BY <2>1, <2>2 DEF InvNamed
<1>3. QED
  BY <1>1, <1>2

----------------------------------------------------------------------------
(* Whatever lies between two names below c is below c.                     *)
LEMMA BelowBetween ==
  ASSUME NEW c \in OID, NEW x \in OID, NEW y \in OID, NEW z \in OID,
         IsPrefix(c, x), IsPrefix(c, z), LexLeq(x, y), LexLeq(y, z)
  PROVE  IsPrefix(c, y)
<1> SUFFICES ASSUME ~ IsPrefix(c, y) PROVE FALSE
  OBVIOUS
<1>1. LexLeq(c, y) /\ c # y
  <2>1. LexLeq(c, x)
    BY PrefixLeq
  <2>2. IsPrefix(c, c)
    BY PrefixAt
  <2>3. QED
    BY <2>1, <2>2, LexLeqLess
<1>2. LexLess(z, y)
  <2>1. LexLess(c, y) /\ IsPrefix(y, y)
    BY <1>1, PrefixAt DEF LexLeq
  <2>2. QED
    BY <2>1, AfterCarries
<1>3. QED
  BY <1>2, LexTransitive, LexIrreflexive DEF LexLeq

(* What is printed, up to the first endOfMibView.                          *)
Ended(p) == \E j \in DOMAIN p : p[j].val = "endOfMibView"

FirstEnd(p) ==
  LET ends == { j \in DOMAIN p : p[j].val = "endOfMibView" }
  IN IF ends = {} THEN Len(p) + 1 ELSE CHOOSE j \in ends : \A k \in ends : j <= k

ValuesIn(p) == { j \in DOMAIN p : j < FirstEnd(p) /\ p[j].val = "value" }

LEMMA PrintedIs == Told = FirstEnd(printed) /\ Finds = ValuesIn(printed)
BY DEF Told, FirstEnd, Finds, ValuesIn

LEMMA FirstEndIs ==
  ASSUME NEW p \in Seq(Varbinds)
  PROVE  /\ ~ Ended(p) => FirstEnd(p) = Len(p) + 1
         /\ Ended(p) => /\ FirstEnd(p) \in DOMAIN p
                        /\ p[FirstEnd(p)].val = "endOfMibView"
                        /\ \A j \in DOMAIN p : p[j].val = "endOfMibView" => FirstEnd(p) <= j
<1> DEFINE ends == { j \in DOMAIN p : p[j].val = "endOfMibView" }
<1>1. Ended(p) <=> ends # {}
  BY DEF Ended
<1>2. FirstEnd(p) = IF ends = {} THEN Len(p) + 1
                    ELSE CHOOSE j \in ends : \A k \in ends : j <= k
  BY DEF FirstEnd
<1>3. ends \in SUBSET Nat
  OBVIOUS
<1>4. \A j : j \in ends <=> j \in DOMAIN p /\ p[j].val = "endOfMibView"
  OBVIOUS
<1> HIDE DEF ends
<1>5. CASE ends = {}
  BY <1>1, <1>2, <1>5
<1>6. CASE ends # {}
  <2>1. \E j \in ends : \A k \in ends : j <= k
    BY <1>3, <1>6, NatMin
  <2>2. FirstEnd(p) \in ends /\ \A k \in ends : FirstEnd(p) <= k
    BY <1>2, <1>6, <2>1
  <2>3. QED
    BY <1>1, <1>4, <1>6, <2>2
<1>7. QED
  BY <1>5, <1>6

(* One more varbind printed.                                               *)
LEMMA OneMorePrinted ==
  ASSUME NEW p \in Seq(Varbinds), NEW vb \in Varbinds
  PROVE  LET q == Append(p, vb)
             n == Len(p) + 1
         IN /\ q \in Seq(Varbinds) /\ Len(q) = n /\ q[n] = vb
            /\ \A j \in DOMAIN p : j \in DOMAIN q /\ q[j] = p[j]
            /\ \A j \in DOMAIN q : j \in DOMAIN p \/ j = n
            /\ Ended(p) => Ended(q) /\ FirstEnd(q) = FirstEnd(p) /\ ValuesIn(q) = ValuesIn(p)
            /\ ~ Ended(p) /\ vb.val = "endOfMibView" =>
                  Ended(q) /\ FirstEnd(q) = n /\ ValuesIn(q) = ValuesIn(p)
            /\ ~ Ended(p) /\ vb.val # "endOfMibView" =>
                  /\ ~ Ended(q) /\ FirstEnd(q) = n + 1
                  /\ ValuesIn(q) = ValuesIn(p) \cup (IF vb.val = "value" THEN {n} ELSE {})
<1> DEFINE q == Append(p, vb)
           n == Len(p) + 1
<1>1. /\ q \in Seq(Varbinds) /\ Len(q) = n /\ q[n] = vb /\ Len(p) \in Nat
      /\ DOMAIN p = 1..Len(p) /\ DOMAIN q = 1..n
      /\ \A j \in 1..Len(p) : q[j] = p[j]
  OBVIOUS
<1>2. /\ \A j \in DOMAIN p : j \in DOMAIN q /\ q[j] = p[j]
      /\ \A j \in DOMAIN q : j \in DOMAIN p \/ j = n
      /\ n \in DOMAIN q /\ n \notin DOMAIN p
  BY <1>1
<1> HIDE DEF q
<1>3. Ended(q) <=> Ended(p) \/ vb.val = "endOfMibView"
  BY <1>1, <1>2 DEF Ended
<1>4. /\ Ended(p) => FirstEnd(q) = FirstEnd(p)
      /\ ~ Ended(p) /\ vb.val = "endOfMibView" => FirstEnd(q) = n
      /\ ~ Ended(p) /\ vb.val # "endOfMibView" => FirstEnd(q) = n + 1
  <2>1. CASE Ended(p)
    <3>1. /\ FirstEnd(p) \in 1..Len(p) /\ p[FirstEnd(p)].val = "endOfMibView"
          /\ \A j \in 1..Len(p) : p[j].val = "endOfMibView" => FirstEnd(p) <= j
      BY <1>1, <2>1, FirstEndIs
    <3>2. /\ FirstEnd(q) \in 1..n /\ q[FirstEnd(q)].val = "endOfMibView"
          /\ \A j \in 1..n : q[j].val = "endOfMibView" => FirstEnd(q) <= j
      BY <1>1, <1>3, <2>1, FirstEndIs
    <3>3. QED
      BY <1>1, <2>1, <3>1, <3>2
  <2>2. CASE ~ Ended(p) /\ vb.val = "endOfMibView"
    <3>1. /\ FirstEnd(q) \in DOMAIN q /\ q[FirstEnd(q)].val = "endOfMibView"
      BY <1>1, <1>3, <2>2, FirstEndIs
    <3>2. QED
      BY <1>2, <2>2, <3>1 DEF Ended
  <2>3. CASE ~ Ended(p) /\ vb.val # "endOfMibView"
    BY <1>1, <1>3, <2>3, FirstEndIs
  <2>4. QED
    BY <2>1, <2>2, <2>3
<1>5. Ended(p) => FirstEnd(p) \in 1..Len(p)
  BY <1>1, FirstEndIs
<1>6. ~ Ended(p) => FirstEnd(p) = n
  BY FirstEndIs
<1>7. \A j : j \in ValuesIn(q) <=> j \in DOMAIN q /\ j < FirstEnd(q) /\ q[j].val = "value"
  BY DEF ValuesIn
<1>8. \A j : j \in ValuesIn(p) <=> j \in DOMAIN p /\ j < FirstEnd(p) /\ p[j].val = "value"
  BY DEF ValuesIn
<1>9. Ended(p) => ValuesIn(q) = ValuesIn(p)
  <2> SUFFICES ASSUME Ended(p) PROVE \A j : j \in ValuesIn(q) <=> j \in ValuesIn(p)
    OBVIOUS
  <2>1. QED
    BY <1>1, <1>4, <1>5, <1>7, <1>8
<1>10. ~ Ended(p) /\ vb.val = "endOfMibView" => ValuesIn(q) = ValuesIn(p)
  <2> SUFFICES ASSUME ~ Ended(p), vb.val = "endOfMibView"
               PROVE  \A j : j \in ValuesIn(q) <=> j \in ValuesIn(p)
    OBVIOUS
  <2>1. QED
    BY <1>1, <1>4, <1>6, <1>7, <1>8
<1>11. ~ Ended(p) /\ vb.val # "endOfMibView" =>
          ValuesIn(q) = ValuesIn(p) \cup (IF vb.val = "value" THEN {n} ELSE {})
  <2> SUFFICES ASSUME ~ Ended(p), vb.val # "endOfMibView"
               PROVE  \A j : j \in ValuesIn(q) <=> j \in ValuesIn(p) \/ (j = n /\ vb.val = "value")
    OBVIOUS
  <2>1. QED
    BY <1>1, <1>4, <1>6, <1>7, <1>8
<1>12. QED
  BY <1>1, <1>2, <1>3, <1>4, <1>9, <1>10, <1>11, Zenon DEF q

----------------------------------------------------------------------------
(***************************************************************************)
(* How far a walk from w is that printed p and asks for what follows f.    *)
(* Until it is told of the end it has printed all instances up to f; then  *)
(* it has printed them all, and f is at or after w or below the column     *)
(* that w is in.                                                           *)
(***************************************************************************)
StartedIn(w, f) == \E c \in Objects : IsStrictPrefix(c, w) /\ IsPrefix(c, f)

UpTo(w) ==
  { n \in Instances : /\ LexLeq(n, w)
                      /\ \E c \in Objects : IsStrictPrefix(c, w) /\ IsPrefix(c, n) }

Again(p, w) ==
  \A j \in DOMAIN p : j >= FirstEnd(p) /\ p[j].val = "value" =>
     (\E k \in ValuesIn(p) : p[k] = p[j]) \/ p[j].name \in UpTo(w)

Walked(p, w, f) ==
  /\ \A j \in ValuesIn(p) : p[j].name \in InstancesAfter(w)
  /\ \A j, k \in ValuesIn(p) : j < k => LexLess(p[j].name, p[k].name)
  /\ ~ Ended(p) =>
        /\ LexLeq(w, f)
        /\ \A j \in ValuesIn(p) : LexLeq(p[j].name, f)
        /\ \A n \in InstancesAfter(w) : LexLeq(n, f) => \E j \in ValuesIn(p) : p[j].name = n
  /\ Ended(p) =>
        /\ \A n \in InstancesAfter(w) : \E j \in ValuesIn(p) : p[j].name = n
        /\ LexLeq(w, f) \/ StartedIn(w, f)
        /\ Again(p, w)

(* The name under which the end of the view is told keeps to that.         *)
LEMMA EndKeepsStart ==
  ASSUME RegistryInv, NoNesting, NEW w \in OID, NEW f \in OID, NEW c \in OID,
         LexLeq(w, f) \/ StartedIn(w, f),
         c \in Objects, LexLess(f, c) \/ IsPrefix(c, f)
  PROVE  LexLeq(w, c) \/ StartedIn(w, c)
<1> SUFFICES ASSUME ~ LexLeq(w, c) PROVE StartedIn(w, c)
  OBVIOUS
<1>0. IsPrefix(c, c) /\ LexLeq(c, w) /\ c # w
  BY LexTotal, PrefixAt DEF LexLeq
<1>1. CASE LexLeq(w, f)
  <2>1. ~ LexLess(f, c)
    BY <1>1, LexLeqLess DEF LexLeq
  <2>2. IsPrefix(c, w)
    BY <1>0, <1>1, <2>1, BelowBetween
  <2>3. QED
    BY <1>0, <2>2 DEF StartedIn, IsStrictPrefix
<1>2. CASE StartedIn(w, f)
  <2>1. PICK d \in Objects : IsStrictPrefix(d, w) /\ IsPrefix(d, f)
    BY <1>2 DEF StartedIn
  <2>2. d \in OID /\ IsPrefix(d, w)
    BY <2>1 DEF RegistryInv, RegistryTypeOK, MibTypeOK, Objects, IsStrictPrefix
  <2>3. IsPrefix(d, c)
    <3>1. CASE LexLess(f, c)
      BY <1>0, <2>1, <2>2, <3>1, BelowBetween DEF LexLeq
    <3>2. CASE IsPrefix(c, f)
      <4>1. c = d
        BY <2>1, <2>2, <3>2, OneObject
      <4>2. QED
        BY <1>0, <4>1
    <3>3. QED
      BY <3>1, <3>2
  <2>4. QED
    BY <2>1, <2>3 DEF StartedIn
<1>3. QED
  BY <1>1, <1>2

(* The three kinds of answers to a GetNext for f.                          *)
LEMMA AnswerKinds ==
  ASSUME NEW f \in OID, NEW vb \in Varbinds, AnswerExact(f, vb), Named(f, vb)
  PROVE  \/ vb.val = "echo" /\ vb.name = f
         \/ vb.val = "value" /\ AnswerFirst(f, vb)
         \/ /\ vb.val = "endOfMibView" /\ InstancesAfter(f) = {}
            /\ \/ vb.name = f
               \/ vb.name \in Objects /\ (LexLess(f, vb.name) \/ IsPrefix(vb.name, f))
BY DEF AnswerExact, Named, Varbind

LEMMA WalkedOn ==
  ASSUME RegistryInv, NoNesting, NEW p \in Seq(Varbinds), NEW w \in OID, NEW f \in OID,
         ~ Ended(p), Walked(p, w, f),
         NEW vb \in Varbinds, AnswerExact(f, vb), Named(f, vb)
  PROVE  Walked(Append(p, vb), w, vb.name)
<1> DEFINE q == Append(p, vb)
           n == Len(p) + 1
<1>1. /\ q \in Seq(Varbinds) /\ Len(q) = n /\ q[n] = vb
      /\ \A j \in DOMAIN p : j \in DOMAIN q /\ q[j] = p[j]
      /\ \A j \in DOMAIN q : j \in DOMAIN p \/ j = n
      /\ vb.val = "endOfMibView" => Ended(q) /\ FirstEnd(q) = n /\ ValuesIn(q) = ValuesIn(p)
      /\ vb.val # "endOfMibView" =>
            /\ ~ Ended(q)
            /\ ValuesIn(q) = ValuesIn(p) \cup (IF vb.val = "value" THEN {n} ELSE {})
  BY OneMorePrinted
<1>2. /\ \A j \in ValuesIn(p) : j \in DOMAIN p /\ j \in Nat /\ j < n /\ q[j] = p[j]
      /\ \A j \in DOMAIN p : p[j].name \in OID
      /\ n \in Nat /\ vb.name \in OID
  <2>1. \A j \in DOMAIN p : j \in Nat /\ j < n /\ p[j] \in Varbinds
    OBVIOUS
  <2>2. n \in Nat
    OBVIOUS
  <2> HIDE DEF q, n
  <2>3. \A v \in Varbinds : v.name \in OID
    BY DEF Varbinds
  <2>4. QED
    BY <1>1, <2>1, <2>2, <2>3 DEF ValuesIn
<1>3. /\ \A j \in ValuesIn(p) : p[j].name \in InstancesAfter(w)
      /\ \A j, k \in ValuesIn(p) : j < k => LexLess(p[j].name, p[k].name)
      /\ LexLeq(w, f)
      /\ \A j \in ValuesIn(p) : LexLeq(p[j].name, f)
      /\ \A m \in InstancesAfter(w) : LexLeq(m, f) => \E j \in ValuesIn(p) : p[j].name = m
  BY DEF Walked
<1> HIDE DEF q, n
<1>4. CASE vb.val = "echo" /\ vb.name = f
  <2>1. ~ Ended(q) /\ ValuesIn(q) = ValuesIn(p)
    BY <1>1, <1>4
  <2>2. QED
    BY <1>2, <1>3, <1>4, <2>1 DEF Walked, q
<1>5. CASE vb.val = "value" /\ AnswerFirst(f, vb)
  <2> DEFINE x == vb.name
  <2>1. ~ Ended(q) /\ ValuesIn(q) = ValuesIn(p) \cup {n}
    BY <1>1, <1>5
  <2>2. /\ x \in Instances /\ LexLess(f, x) /\ x \in OID
        /\ \A m \in InstancesAfter(f) : LexLeq(x, m)
    BY <1>2, <1>5 DEF AnswerFirst, InstancesAfter
  <2>3. LexLess(w, x) /\ x \in InstancesAfter(w)
    BY <1>3, <2>2, LexLeqLess DEF InstancesAfter
  <2>4. \A j \in ValuesIn(p) : LexLess(p[j].name, x)
    BY <1>2, <1>3, <2>2, LexLeqLess
  <2>5. q[n].name = x
    BY <1>1
  <2>6. \A m \in InstancesAfter(w) : LexLeq(m, x) => \E j \in ValuesIn(q) : q[j].name = m
    <3> SUFFICES ASSUME NEW m \in InstancesAfter(w), LexLeq(m, x)
                 PROVE  \E j \in ValuesIn(q) : q[j].name = m
      OBVIOUS
    <3>1. m \in OID /\ m \in Instances
      BY InstanceOf DEF InstancesAfter
    <3>2. CASE LexLeq(m, f)
      BY <1>2, <1>3, <2>1, <3>2
    <3>3. CASE LexLess(f, m)
      <4>1. LexLeq(x, m)
        BY <2>2, <3>1, <3>3 DEF InstancesAfter
      <4>2. m = x
        BY <2>2, <3>1, <4>1, LexTransitive, LexIrreflexive DEF LexLeq
      <4>3. QED
        BY <2>1, <2>5, <4>2
    <3>4. QED
      BY <3>1, <3>2, <3>3, LexTotal DEF LexLeq
  <2> HIDE DEF x
  <2>7. \A j \in ValuesIn(q) : q[j].name \in InstancesAfter(w)
    BY <1>2, <1>3, <2>1, <2>3, <2>5
  <2>8. \A j, k \in ValuesIn(q) : j < k => LexLess(q[j].name, q[k].name)
    BY <1>2, <1>3, <2>1, <2>4, <2>5
  <2>9. \A j \in ValuesIn(q) : LexLeq(q[j].name, x)
    BY <1>2, <2>1, <2>4, <2>5 DEF LexLeq
  <2>10. Walked(q, w, x)
    BY <2>1, <2>3, <2>6, <2>7, <2>8, <2>9 DEF Walked, LexLeq
  <2>11. QED
    BY <2>10 DEF q, x
<1>6. CASE /\ vb.val = "endOfMibView" /\ InstancesAfter(f) = {}
           /\ \/ vb.name = f
              \/ vb.name \in Objects /\ (LexLess(f, vb.name) \/ IsPrefix(vb.name, f))
  <2>1. Ended(q) /\ FirstEnd(q) = n /\ ValuesIn(q) = ValuesIn(p)
    BY <1>1, <1>6
  <2>2. \A m \in InstancesAfter(w) : \E j \in ValuesIn(q) : q[j].name = m
    <3> SUFFICES ASSUME NEW m \in InstancesAfter(w)
                 PROVE  \E j \in ValuesIn(q) : q[j].name = m
      OBVIOUS
    <3>1. m \in OID /\ m \in Instances
      BY InstanceOf DEF InstancesAfter
    <3>2. LexLeq(m, f)
      BY <1>6, <3>1, LexTotal DEF LexLeq, InstancesAfter
    <3>3. QED
      BY <1>2, <1>3, <2>1, <3>2
  <2>3. LexLeq(w, vb.name) \/ StartedIn(w, vb.name)
    BY <1>2, <1>3, <1>6, EndKeepsStart
  <2>4. Again(q, w)
    <3>1. \A j \in DOMAIN q : j >= n => j = n
      <4>1. \A j \in DOMAIN p : ~ (j >= n)
        BY DEF n
      <4>2. QED
        BY <1>1, <4>1
    <3>2. q[n].val # "value"
      BY <1>1, <1>6
    <3>3. QED
      BY <2>1, <3>1, <3>2 DEF Again
  <2>5. Walked(q, w, vb.name)
    BY <1>2, <1>3, <2>1, <2>2, <2>3, <2>4 DEF Walked
  <2>6. QED
    BY <2>5 DEF q
<1>7. QED
  BY <1>4, <1>5, <1>6, AnswerKinds

LEMMA WalkedInVain ==
  ASSUME RegistryInv, NoNesting, NEW p \in Seq(Varbinds), NEW w \in OID, NEW f \in OID,
         Ended(p), Walked(p, w, f),
         NEW vb \in Varbinds, AnswerExact(f, vb), Named(f, vb)
  PROVE  Walked(Append(p, vb), w, vb.name)
<1> DEFINE q == Append(p, vb)
           n == Len(p) + 1
           x == vb.name
<1>1. /\ q \in Seq(Varbinds) /\ Len(q) = n /\ q[n] = vb
      /\ \A j \in DOMAIN p : j \in DOMAIN q /\ q[j] = p[j]
      /\ \A j \in DOMAIN q : j \in DOMAIN p \/ j = n
      /\ Ended(q) /\ FirstEnd(q) = FirstEnd(p) /\ ValuesIn(q) = ValuesIn(p)
  BY OneMorePrinted
<1>2. /\ \A j \in ValuesIn(p) : j \in DOMAIN p /\ q[j] = p[j] /\ p[j].val = "value"
      /\ \A j \in DOMAIN p : p[j] \in Varbinds
      /\ x \in OID
  <2>1. \A j \in DOMAIN p : p[j] \in Varbinds
    OBVIOUS
  <2> HIDE DEF q, n
  <2>2. x \in OID
    BY DEF Varbinds
  <2>3. QED
    BY <1>1, <2>1, <2>2 DEF ValuesIn
<1>3. /\ \A j \in ValuesIn(p) : p[j].name \in InstancesAfter(w)
      /\ \A j, k \in ValuesIn(p) : j < k => LexLess(p[j].name, p[k].name)
      /\ \A m \in InstancesAfter(w) : \E j \in ValuesIn(p) : p[j].name = m
      /\ LexLeq(w, f) \/ StartedIn(w, f)
      /\ Again(p, w)
  BY DEF Walked
<1> HIDE DEF q, n
<1>4. ASSUME LexLeq(w, x) \/ StartedIn(w, x),
             vb.val = "value" => (\E k \in ValuesIn(p) : p[k] = vb) \/ x \in UpTo(w)
      PROVE  Walked(q, w, x)
  <2>1. Again(q, w)
    <3> SUFFICES ASSUME NEW j \in DOMAIN q, j >= FirstEnd(q), q[j].val = "value"
                 PROVE  (\E k \in ValuesIn(q) : q[k] = q[j]) \/ q[j].name \in UpTo(w)
      BY DEF Again
    <3>1. CASE j \in DOMAIN p
      <4>1. (\E k \in ValuesIn(p) : p[k] = p[j]) \/ p[j].name \in UpTo(w)
        BY <1>1, <1>3, <3>1 DEF Again
      <4>2. QED
        BY <1>1, <1>2, <3>1, <4>1
    <3>2. CASE j = n
      BY <1>1, <1>2, <1>4, <3>2
    <3>3. QED
      BY <1>1, <3>1, <3>2
  <2>2. QED
    BY <1>1, <1>2, <1>3, <1>4, <2>1 DEF Walked
<1>5. CASE vb.val = "echo" /\ x = f
  BY <1>3, <1>4, <1>5 DEF q
<1>6. CASE /\ vb.val = "endOfMibView"
           /\ \/ x = f
              \/ x \in Objects /\ (LexLess(f, x) \/ IsPrefix(x, f))
  <2>1. LexLeq(w, x) \/ StartedIn(w, x)
    BY <1>2, <1>3, <1>6, EndKeepsStart
  <2>2. QED
    BY <1>4, <1>6, <2>1 DEF q
<1>7. CASE vb.val = "value" /\ AnswerFirst(f, vb)
  <2>1. x \in Instances /\ LexLess(f, x)
    BY <1>7 DEF AnswerFirst, InstancesAfter
  <2>2. CASE LexLess(w, x)
    <3>1. PICK k \in ValuesIn(p) : p[k].name = x
      BY <1>3, <2>1, <2>2 DEF InstancesAfter
    <3>2. p[k] = vb
      BY <1>2, <1>7, <3>1 DEF Varbinds
    <3>3. QED
      BY <1>4, <2>2, <3>2 DEF q, LexLeq
  <2>3. CASE LexLeq(x, w)
    <3>1. ~ LexLeq(w, f)
      <4>1. LexLess(f, w)
        BY <1>2, <2>1, <2>3, LexLeqLess
      <4>2. QED
        BY <4>1, LexTransitive, LexIrreflexive DEF LexLeq
    <3>2. PICK c \in Objects : IsStrictPrefix(c, w) /\ IsPrefix(c, f)
      BY <1>3, <3>1 DEF StartedIn
    <3>3. c \in OID /\ IsPrefix(c, w)
      BY <3>2 DEF RegistryInv, RegistryTypeOK, MibTypeOK, Objects, IsStrictPrefix
    <3>4. IsPrefix(c, x)
      BY <1>2, <2>1, <2>3, <3>2, <3>3, BelowBetween DEF LexLeq
    <3>5. StartedIn(w, x) /\ x \in UpTo(w)
      BY <2>1, <2>3, <3>2, <3>4 DEF StartedIn, UpTo
    <3>6. QED
      BY <1>4, <3>5 DEF q
  <2>4. QED
    BY <1>2, <2>2, <2>3, LexTotal DEF LexLeq
<1>8. \/ vb.val = "echo" /\ x = f
      \/ vb.val = "value" /\ AnswerFirst(f, vb)
      \/ /\ vb.val = "endOfMibView"
         /\ \/ x = f
            \/ x \in Objects /\ (LexLess(f, x) \/ IsPrefix(x, f))
  BY AnswerKinds
<1>9. QED
  BY <1>5, <1>6, <1>7, <1>8

----------------------------------------------------------------------------
(* Messages leaves out no question of the walk: the start, an object or an *)
(* instance may be asked for, as far as it is deep enough to be encoded.   *)
AnyNameMayBeAsked ==
  \A n \in Starts \cup Objects \cup Instances : Canonical(n) => Question(n) \in Messages

(* The name of the latest question: the start, or the last one printed.    *)
Latest == IF printed = << >> THEN WalkStart ELSE printed[Len(printed)].name

WalkInv ==
  /\ InvNamed
  /\ walking = TRUE
  /\ asks \in Nat /\ asks <= Len(Asks)
  /\ printed \in Seq(Varbinds)
  /\ asks = 0 => printed = << >>
  /\ asks > 0 => /\ Received(Asks[1])
                 /\ WalkStart \in OID /\ Latest \in OID
                 /\ msg[Asks[asks]] = Question(Latest)
                 /\ Walked(printed, WalkStart, Latest)

LEMMA AsksAre == Len(Asks) \in Nat /\ \A k \in Nat : k >= 1 /\ k <= Len(Asks) => Asks[k] \in Reqs
BY AsksAssumption, ElementOfSeq

LEMMA WalkInit0 ==
  ASSUME SlipsFail, MaxRepeats = 0, WalkInit
  PROVE  WalkInv
BY InvNamedInductive, AsksAre DEF WalkInit, WalkInv

(* The answer to the latest question.                                      *)
LEMMA AnswerToLatest ==
  ASSUME WalkInv, asks > 0, Answered(asks)
  PROVE  LET vb == Answer(asks).vbs[1]
         IN /\ Answer(asks).vbs = <<vb>> /\ vb \in Varbinds /\ vb.name \in OID
            /\ AnswerExact(Latest, vb) /\ Named(Latest, vb)
            /\ ~ ToldToStop(asks)
<1> DEFINE r == Asks[asks]
           vbs == sent[r][1].vbs
<1>1. r \in Reqs
  BY AsksAre DEF WalkInv
<1>2. msg[r].op = "GetNext" /\ msg[r].vbs = <<Latest>> /\ msg[r] # None
  BY DEF WalkInv, Question, None
<1>3. /\ AsksNext(r) /\ Size(r) = 1 /\ msg[r].vbs[1] = Latest
  BY <1>2 DEF AsksNext, Received, Size
<1>4. InvExact /\ MildInv /\ GoesExact(r) /\ GoesNamed(r) /\ TypeOK
  BY <1>1, <1>3 DEF WalkInv, InvNamed, InvExact, InvG, InvB, InvA
<1>5. /\ sent[r] \in Seq(Replies) /\ sent[r] # << >>
      /\ Len(vbs) = 1
  BY <1>1, <1>3, <1>4 DEF TypeOK, Answered, InvExact, FullReplies
<1>6. 1 \in DOMAIN sent[r] /\ sent[r][1] \in Replies
  BY <1>5
<1>7. vbs \in Seq(Varbinds)
  BY <1>6 DEF Replies
<1>8. 1 \in DOMAIN vbs /\ vbs = <<vbs[1]>> /\ vbs[1] \in Varbinds
  BY <1>5, <1>7
<1>9. vbs[1] \in ExactOf(r)[1] /\ vbs[1] \in NamedOf(r)[1]
  BY <1>4, <1>6, <1>8, Zenon DEF GoesExact, GoesNamed, Within
<1>10. AnswerExact(Latest, vbs[1]) /\ Named(Latest, vbs[1])
  BY <1>3, <1>9 DEF ExactOf, NamedOf
<1>11. sent[r][1].status # noSuchName
  BY <1>1, <1>2, <1>4, <1>6 DEF MildInv, Mild, noError, genErr, noSuchName
<1>12. vbs[1].name \in OID
  BY <1>8 DEF Varbinds
<1>13. QED
  BY <1>8, <1>10, <1>11, <1>12, Zenon DEF Answer, ToldToStop

(* A step of the walk asks the first question, or the next one under the   *)
(* name of the answer, or is another step of the agent.                    *)
LEMMA WalkSteps ==
  ASSUME AnyNameMayBeAsked, WalkInv, [WalkNext]_<<vars, wvars>>
  PROVE  /\ [Next]_vars
         /\ \/ /\ asks = 0 /\ asks' = 1 /\ UNCHANGED <<rvars, printed, walking>>
               /\ 1 <= Len(Asks)
               /\ \E start \in Starts : /\ Canonical(start) /\ start \in OID
                                        /\ msg' = [msg EXCEPT ![Asks[1]] = Question(start)]
            \/ /\ asks > 0 /\ asks' = asks + 1 /\ asks' <= Len(Asks)
               /\ UNCHANGED <<rvars, walking>>
               /\ ~ Received(Asks[asks'])
               /\ \E vb \in Varbinds :
                     /\ vb.name \in OID
                     /\ AnswerExact(Latest, vb) /\ Named(Latest, vb)
                     /\ printed' = Append(printed, vb)
                     /\ msg' = [msg EXCEPT ![Asks[asks']] = Question(vb.name)]
            \/ UNCHANGED wvars /\ \A k \in DOMAIN Asks : msg'[Asks[k]] = msg[Asks[k]]
<1>0. asks \in Nat /\ Len(Asks) \in Nat /\ walking = TRUE
  BY AsksAre DEF WalkInv
<1>1. CASE WalkBegins
  <2>1. PICK start \in Starts : AskNext(start)
    BY <1>1 DEF WalkBegins
  <2>2. start \in OID /\ Canonical(start)
    BY StartsAssumption, OidsAssumption
  <2>3. asks = 0 /\ asks' = 1 /\ 1 <= Len(Asks)
    BY <1>0, <1>1, <2>1 DEF WalkBegins, AskNext
  <2>4. Receive(Asks[1], Question(start)) /\ Asks[1] \in Reqs /\ Question(start) \in Messages
    BY <2>1, <2>2, <2>3, AsksAre DEF AskNext, AnyNameMayBeAsked
  <2>5. Next
    BY <2>4 DEF Next
  <2>6. msg' = [msg EXCEPT ![Asks[1]] = Question(start)] /\ UNCHANGED rvars
    BY <2>4 DEF Receive
  <2>7. QED
    BY <1>1, <2>2, <2>3, <2>5, <2>6 DEF WalkBegins
<1>2. CASE WalkOn
  <2> DEFINE vb == Answer(asks).vbs[1]
  <2>1. asks > 0 /\ Answered(asks)
    BY <1>2 DEF WalkOn
  <2>2. /\ Answer(asks).vbs = <<vb>> /\ vb \in Varbinds /\ vb.name \in OID
        /\ AnswerExact(Latest, vb) /\ Named(Latest, vb)
        /\ ~ ToldToStop(asks)
    BY <2>1, AnswerToLatest
  <2>3. /\ printed' = printed \o Answer(asks).vbs
        /\ AskNext(vb.name) /\ UNCHANGED walking
    BY <1>2, <2>2 DEF WalkOn, NextName
  <2> HIDE DEF vb
  <2>4. printed' = Append(printed, vb)
    BY <2>2, <2>3 DEF WalkInv
  <2>5. asks' = asks + 1 /\ asks' <= Len(Asks) /\ Receive(Asks[asks'], Question(vb.name))
    BY <1>0, <2>3 DEF AskNext
  <2>6. Asks[asks'] \in Reqs /\ Question(vb.name) \in Messages
    <3>1. Question(Latest) \in Messages /\ Latest \in OID
      <4>1. Asks[asks] \in Reqs /\ msg[Asks[asks]] = Question(Latest)
        BY <1>0, <2>1, AsksAre DEF WalkInv
      <4>2. msg[Asks[asks]] \in Messages \cup {None}
        BY <4>1 DEF WalkInv, InvNamed, InvExact, InvG, InvB, InvA, TypeOK
      <4>3. Question(Latest) # None
        BY DEF Question, None
      <4>4. Latest \in OID
        BY <2>1 DEF WalkInv
      <4>5. QED
        BY <4>1, <4>2, <4>3, <4>4
    <3>2. vb.name = Latest \/ vb.name \in Objects \/ vb.name \in Instances
      BY <2>2, <3>1, AnswerKinds DEF AnswerFirst, InstancesAfter
    <3>3. QED
      BY <1>0, <2>2, <2>5, <3>1, <3>2, AsksAre DEF Named, AnyNameMayBeAsked
  <2>7. Next
    BY <2>5, <2>6 DEF Next
  <2>8. /\ msg' = [msg EXCEPT ![Asks[asks']] = Question(vb.name)] /\ UNCHANGED rvars
        /\ ~ Received(Asks[asks'])
    BY <2>5 DEF Receive
  <2>9. QED
    BY <2>1, <2>2, <2>3, <2>4, <2>5, <2>7, <2>8
<1>3. CASE OthersAsk
  BY <1>3 DEF OthersAsk
<1>4. CASE UNCHANGED <<vars, wvars>>
  BY <1>4 DEF vars, avars
<1>5. QED
  BY <1>1, <1>2, <1>3, <1>4 DEF WalkNext

----------------------------------------------------------------------------
(* A walk that goes on asks, so the registry stays as it is.               *)
LEMMA WalkKeepsRegistry ==
  ASSUME WalkInv, asks > 0, [QuietRegistry]_vars
  PROVE  UNCHANGED rvars
<1>1. asks \in Nat /\ asks >= 1 /\ asks <= Len(Asks)
  BY DEF WalkInv
<1>2. Asks[asks] \in Reqs /\ msg[Asks[asks]] = Question(Latest)
  BY <1>1, AsksAre DEF WalkInv
<1>3. AsksNext(Asks[asks])
  BY <1>2 DEF AsksNext, Received, Question, None
<1>4. CASE QuietRegistry
  BY <1>2, <1>3, <1>4 DEF QuietRegistry, AsksNext
<1>5. CASE UNCHANGED vars
  BY <1>5 DEF vars
<1>6. QED
  BY <1>4, <1>5

LEMMA WalkedIsKept ==
  ASSUME UNCHANGED rvars
  PROVE  /\ \A n : InstancesAfter(n)' = InstancesAfter(n)
         /\ Objects' = Objects
         /\ \A w : UpTo(w)' = UpTo(w)
<1>1. \A n : InstancesAfter(n)' = InstancesAfter(n)
  BY SameInstances
<1>2. Objects' = Objects
  BY DEF Objects, InstancePossible, rvars
<1>3. Instances' = Instances
  BY DEF Instances, rvars
<1>4. QED
  BY <1>1, <1>2, <1>3 DEF UpTo

(* The start was the first question, and no question is ever replaced.     *)
LEMMA FirstQuestionStays ==
  ASSUME WalkInv, asks > 0, NEW a \in Nat, a >= 1, a <= Len(Asks), ~ Received(Asks[a]),
         NEW m, msg' = [msg EXCEPT ![Asks[a]] = m]
  PROVE  WalkStart' = WalkStart /\ Received(Asks[1])' /\ msg'[Asks[a]] = m
<1>1. Len(Asks) \in Nat /\ Asks[1] \in Reqs /\ Asks[a] \in Reqs /\ Received(Asks[1])
  BY AsksAre DEF WalkInv
<1>2. msg \in [Reqs -> Messages \cup {None}]
  BY DEF WalkInv, InvNamed, InvExact, InvG, InvB, InvA, TypeOK
<1>3. Asks[a] # Asks[1]
  BY <1>1
<1>4. msg'[Asks[1]] = msg[Asks[1]] /\ msg'[Asks[a]] = m
  BY <1>1, <1>2, <1>3
<1>5. QED
  BY <1>1, <1>4 DEF WalkStart, Received

LEMMA WalkInvInductive ==
  ASSUME SlipsFail, MaxRepeats = 0
  PROVE  WalkInv /\ NoNesting /\ AnyNameMayBeAsked
         /\ [QuietRegistry]_vars /\ [WalkNext]_<<vars, wvars>> => WalkInv'
<1> SUFFICES ASSUME WalkInv, NoNesting, AnyNameMayBeAsked,
                    [QuietRegistry]_vars, [WalkNext]_<<vars, wvars>>
             PROVE  WalkInv'
  OBVIOUS
<1>1. /\ asks \in Nat /\ asks <= Len(Asks) /\ Len(Asks) \in Nat
      /\ printed \in Seq(Varbinds) /\ walking = TRUE
      /\ asks = 0 => printed = << >>
  BY AsksAre DEF WalkInv
<1>2. InvNamed' /\ RegistryInv
  <2>1. [Next]_vars
    BY WalkSteps
  <2>2. QED
    BY <2>1, InvNamedInductive DEF WalkInv, InvNamed, InvExact, InvG, InvB, InvA
<1>3. msg \in [Reqs -> Messages \cup {None}]
  BY DEF WalkInv, InvNamed, InvExact, InvG, InvB, InvA, TypeOK
<1>4. CASE /\ asks = 0 /\ asks' = 1 /\ UNCHANGED <<rvars, printed, walking>>
           /\ 1 <= Len(Asks)
           /\ \E start \in Starts : /\ Canonical(start) /\ start \in OID
                                    /\ msg' = [msg EXCEPT ![Asks[1]] = Question(start)]
  <2>1. PICK start \in Starts : /\ Canonical(start) /\ start \in OID
                                /\ msg' = [msg EXCEPT ![Asks[1]] = Question(start)]
    BY <1>4
  <2>2. Asks[1] \in Reqs
    BY <1>4, AsksAre
  <2>3. msg'[Asks[1]] = Question(start)
    BY <1>3, <2>1, <2>2
  <2>4. WalkStart' = start /\ Received(Asks[1])'
    BY <2>3 DEF WalkStart, Received, Question, None
  <2>5. printed' = << >> /\ Latest' = start
    BY <1>1, <1>4, <2>4 DEF Latest
  <2>6. Walked(<< >>, start, start)'
    <3>1. << >> \in Seq(Varbinds) /\ DOMAIN << >> = {}
      OBVIOUS
    <3>2. ~ Ended(<< >>) /\ ValuesIn(<< >>) = {}
      BY <3>1 DEF Ended, ValuesIn
    <3>3. LexLeq(start, start)
      BY DEF LexLeq
    <3>4. \A n : InstancesAfter(n)' = InstancesAfter(n)
      BY <1>4, SameInstances
    <3>5. \A n \in InstancesAfter(start) : n \in OID /\ LexLess(start, n)
      BY <1>2, <2>1, InstanceOf
    <3>6. \A n \in InstancesAfter(start) : ~ LexLeq(n, start)
      BY <2>1, <3>5, LexTransitive, LexIrreflexive DEF LexLeq
    <3>7. QED
      BY <3>2, <3>3, <3>4, <3>6 DEF Walked
  <2>7. QED
    BY <1>1, <1>2, <1>4, <2>1, <2>3, <2>4, <2>5, <2>6 DEF WalkInv
<1>5. ASSUME asks > 0, asks' = asks + 1, asks' <= Len(Asks),
             UNCHANGED <<rvars, walking>>, ~ Received(Asks[asks']),
             NEW vb \in Varbinds, vb.name \in OID,
             AnswerExact(Latest, vb), Named(Latest, vb),
             printed' = Append(printed, vb),
             msg' = [msg EXCEPT ![Asks[asks']] = Question(vb.name)]
      PROVE  WalkInv'
  <2> DEFINE q == Append(printed, vb)
             w == WalkStart
             x == vb.name
  <2>1. asks' \in Nat /\ asks' >= 1
    BY <1>1, <1>5
  <2>2. WalkStart' = w /\ Received(Asks[1])' /\ msg'[Asks[asks']] = Question(x)
    BY <1>5, <2>1, FirstQuestionStays
  <2>3. w \in OID /\ Latest \in OID /\ Walked(printed, w, Latest)
    BY <1>5 DEF WalkInv
  <2>4. Walked(q, w, x)
    BY <1>1, <1>2, <1>5, <2>3, WalkedOn, WalkedInVain
  <2>5. q \in Seq(Varbinds) /\ q # << >> /\ q[Len(q)] = vb
    BY <1>1
  <2>6. Latest' = x
    BY <1>5, <2>5 DEF Latest
  <2> HIDE DEF q, w, x
  <2>7. printed' = q /\ x \in OID
    BY <1>5 DEF q, x
  <2>8. Walked(printed, WalkStart, Latest)'
    <3>1. /\ \A n : InstancesAfter(n)' = InstancesAfter(n)
          /\ Objects' = Objects
          /\ \A v : UpTo(v)' = UpTo(v)
      BY <1>5, WalkedIsKept
    <3>2. QED
      BY <2>2, <2>4, <2>6, <2>7, <3>1 DEF Walked, StartedIn, Again
  <2>9. QED
    BY <1>1, <1>2, <1>5, <2>1, <2>2, <2>3, <2>5, <2>6, <2>7, <2>8 DEF WalkInv
<1>6. CASE UNCHANGED wvars /\ \A k \in DOMAIN Asks : msg'[Asks[k]] = msg[Asks[k]]
  <2>1. UNCHANGED <<asks, printed, walking>>
    BY <1>6 DEF wvars
  <2>2. CASE asks = 0
    BY <1>1, <1>2, <2>1, <2>2 DEF WalkInv
  <2>3. CASE asks > 0
    <3>1. /\ Received(Asks[1]) /\ WalkStart \in OID /\ Latest \in OID
          /\ msg[Asks[asks]] = Question(Latest)
          /\ Walked(printed, WalkStart, Latest)
      BY <2>3 DEF WalkInv
    <3>2. msg'[Asks[1]] = msg[Asks[1]] /\ msg'[Asks[asks]] = msg[Asks[asks]]
      <4>1. DOMAIN Asks = 1..Len(Asks)
        BY AsksAssumption
      <4>2. QED
        BY <1>1, <1>6, <2>3, <4>1
    <3>3. WalkStart' = WalkStart /\ Received(Asks[1])'
      BY <3>1, <3>2 DEF WalkStart, Received
    <3>4. Latest' = Latest
      BY <2>1, <3>3 DEF Latest
    <3>5. UNCHANGED rvars
      BY <2>3, WalkKeepsRegistry
    <3>6. Walked(printed, WalkStart, Latest)'
      <4>1. /\ \A n : InstancesAfter(n)' = InstancesAfter(n)
            /\ Objects' = Objects
            /\ \A v : UpTo(v)' = UpTo(v)
        BY <3>5, WalkedIsKept
      <4>2. QED
        BY <2>1, <3>1, <3>3, <3>4, <4>1 DEF Walked, StartedIn, Again
    <3>7. QED
      BY <1>1, <1>2, <2>1, <2>3, <3>1, <3>2, <3>3, <3>4, <3>6 DEF WalkInv
  <2>4. QED
    BY <1>1, <2>2, <2>3
<1>7. QED
  BY <1>4, <1>5, <1>6, WalkSteps

----------------------------------------------------------------------------
LEMMA WalkInvMeans ==
  ASSUME WalkInv
  PROVE  WalkComplete /\ WalksOnForNothing
<1>1. asks \in Nat /\ printed \in Seq(Varbinds) /\ walking = TRUE
      /\ Len(printed) \in Nat /\ DOMAIN printed = 1..Len(printed)
  BY DEF WalkInv
<1>2. CASE asks = 0
  <2>1. printed = << >> /\ Len(printed) = 0 /\ DOMAIN printed = {}
    BY <1>2 DEF WalkInv
  <2>2. Told = 1
    BY <2>1 DEF Told
  <2>3. QED
    BY <1>1, <1>2, <2>1, <2>2 DEF WalkComplete, WalksOnForNothing
<1>3. CASE asks > 0
  <2> DEFINE p == printed
             w == WalkStart
  <2>1. Told = FirstEnd(p) /\ Finds = ValuesIn(p)
    BY PrintedIs
  <2>2. Walked(p, w, Latest) /\ w \in OID /\ Latest \in OID
    BY <1>3 DEF WalkInv
  <2>3. UpToStart = UpTo(w)
    BY DEF UpToStart, UpTo
  <2>4. /\ ~ Ended(p) => FirstEnd(p) \notin DOMAIN p
        /\ FirstEnd(p) \in Nat
    BY <1>1, FirstEndIs
  <2>5. \A j \in ValuesIn(p) : p[j].name \in OID
    <3>1. \A j \in DOMAIN p : p[j] \in Varbinds
      BY <1>1
    <3>2. \A vb \in Varbinds : vb.name \in OID
      BY DEF Varbinds
    <3>3. QED
      BY <3>1, <3>2 DEF ValuesIn
  <2>6. RegistryInv
    BY DEF WalkInv, InvNamed, InvExact, InvG, InvB, InvA
  <2>7. WalkComplete
    <3>1. CASE Ended(p)
      BY <2>1, <2>2, <3>1 DEF WalkComplete, Walked
    <3>2. CASE ~ Ended(p)
      <4>1. ASSUME NEW n \in InstancesAfter(w)
            PROVE  \/ \E j \in ValuesIn(p) : p[j].name = n
                   \/ \A j \in ValuesIn(p) : LexLess(p[j].name, n)
        <5>1. n \in OID
          BY <2>2, <2>6, <4>1, InstanceOf
        <5>2. CASE LexLeq(n, Latest)
          BY <2>2, <3>2, <4>1, <5>2 DEF Walked
        <5>3. CASE LexLess(Latest, n)
          BY <2>2, <2>5, <3>2, <5>1, <5>3, LexLeqLess DEF Walked
        <5>4. QED
          BY <2>2, <5>1, <5>2, <5>3, LexTotal DEF LexLeq
      <4>2. QED
        BY <2>1, <2>2, <2>4, <3>2, <4>1 DEF WalkComplete, Walked
    <3>3. QED
      BY <3>1, <3>2
  <2>8. WalksOnForNothing
    <3>1. Again(p, w) \/ ~ Ended(p)
      BY <2>2 DEF Walked
    <3>2. CASE Ended(p)
      <4>1. \A j \in FirstEnd(p)..Len(p) : j \in DOMAIN p /\ j >= FirstEnd(p)
        BY <1>1, <3>2, FirstEndIs
      <4>2. QED
        BY <1>1, <2>1, <2>3, <3>1, <3>2, <4>1 DEF WalksOnForNothing, Again
    <3>3. CASE ~ Ended(p)
      <4>1. FirstEnd(p)..Len(p) = {}
        BY <1>1, <3>3, FirstEndIs
      <4>2. QED
        BY <1>1, <2>1, <4>1 DEF WalksOnForNothing
    <3>4. QED
      BY <3>2, <3>3
  <2>9. QED
    BY <2>7, <2>8
<1>4. QED
  BY <1>1, <1>2, <1>3

(***************************************************************************)
(* snmpwalk prints every instance after its start, once and in order,      *)
(* before it is told of the end of the view: for any tree of providers     *)
(* registered before the first request and none inside another, whatever   *)
(* other managers ask, in any order of the answers and however many of     *)
(* them fail, with each done invoked once.                                 *)
(***************************************************************************)
THEOREM WalkPrintsEverything ==
  ASSUME SlipsFail, MaxRepeats = 0
  PROVE  WalkSpec /\ []NoNesting /\ []AnyNameMayBeAsked /\ [][QuietRegistry]_vars
            => []WalkComplete
<1>1. WalkInit => WalkInv
  BY WalkInit0
<1>2. WalkInv /\ NoNesting /\ AnyNameMayBeAsked
      /\ [QuietRegistry]_vars /\ [WalkNext]_<<vars, wvars>> => WalkInv'
  BY WalkInvInductive
<1>3. WalkInv => WalkComplete
  BY WalkInvMeans
<1>4. QED
  BY <1>1, <1>2, <1>3, PTL DEF WalkSpec

(***************************************************************************)
(* Nothing that the agent answers ends a walk: it is never told            *)
(* noSuchName, and once told of the end of the view it goes on, but only   *)
(* to find again what it has printed, or what lies before its start in the *)
(* column that it started in.                                              *)
(***************************************************************************)
THEOREM WalkIsNeverStopped ==
  ASSUME SlipsFail, MaxRepeats = 0
  PROVE  WalkSpec /\ []NoNesting /\ []AnyNameMayBeAsked /\ [][QuietRegistry]_vars
            => []WalksOnForNothing
<1>1. WalkInit => WalkInv
  BY WalkInit0
<1>2. WalkInv /\ NoNesting /\ AnyNameMayBeAsked
      /\ [QuietRegistry]_vars /\ [WalkNext]_<<vars, wvars>> => WalkInv'
  BY WalkInvInductive
<1>3. WalkInv => WalksOnForNothing
  BY WalkInvMeans
<1>4. QED
  BY <1>1, <1>2, <1>3, PTL DEF WalkSpec

(***************************************************************************)
(* An agent that is walked is still the agent: every behaviour of the two  *)
(* is one of the agent alone, and what is proved of the agent holds of it. *)
(* The names that the walk goes on from are deep enough to be encoded.     *)
(***************************************************************************)
THEOREM WalkedAgentIsAgent ==
  ASSUME SlipsFail, MaxRepeats = 0
  PROVE  WalkSpec /\ []NoNesting /\ []AnyNameMayBeAsked /\ [][QuietRegistry]_vars
            => Spec
<1>1. WalkInit => WalkInv /\ Init
  BY WalkInit0 DEF WalkInit
<1>2. WalkInv /\ NoNesting /\ AnyNameMayBeAsked
      /\ [QuietRegistry]_vars /\ [WalkNext]_<<vars, wvars>> => WalkInv'
  BY WalkInvInductive
<1>3. WalkInv /\ AnyNameMayBeAsked /\ [WalkNext]_<<vars, wvars>> => [Next]_vars
  BY WalkSteps
<1>4. QED
  BY <1>1, <1>2, <1>3, PTL DEF WalkSpec, Spec
=============================================================================

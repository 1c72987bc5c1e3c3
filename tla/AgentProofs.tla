---------------------------- MODULE AgentProofs ----------------------------
(***************************************************************************)
(* Theorems about the agent.  The invariants are built up in layers: the   *)
(* types together with where a request's dispatch stands (InvA), then the  *)
(* single response (InvB), then the account of every binding (InvC) and    *)
(* what the response holds (InvD).                                         *)
(***************************************************************************)
EXTENDS Agent, RegistryProofs, FiniteSetTheorems

----------------------------------------------------------------------------
(* Messages are well formed.                                               *)
LEMMA MessageProperties ==
  ASSUME NEW m \in Messages
  PROVE  /\ m # None
         /\ m.op \in Ops
         /\ Len(m.vbs) \in Nat /\ Len(m.vbs) <= MaxVarbinds
         /\ \A i \in 1..Len(m.vbs) : m.vbs[i] \in OID
<1>1. m.vbs \in Seq(Oids)
  BY MessagesAssumption
<1>2. \A i \in 1..Len(m.vbs) : m.vbs[i] \in Oids
  BY <1>1, ElementOfSeq
<1>3. QED
  BY <1>1, <1>2, MessagesAssumption, OidsAssumption

(* What providers answer is one of the results the agent distinguishes.    *)
LEMMA AnswersType ==
  ASSUME NEW op \in Handled, NEW oid \in OID, NEW node \in OID, NEW scalar \in BOOLEAN
  PROVE  Answers(op, oid, node, scalar) \subseteq Results
<1>1. \A n \in OID : \A v \in Vals : Varbind(n, v) \in Results
  BY DEF Varbind, Results, Varbinds
<1>2. \A c \in Errors : Code(c) \in Results
  BY DEF Code, Results
<1>3. genErr \in Errors /\ SetCodes \subseteq Errors
  BY ProviderAssumption DEF genErr, Errors
<1>4. Undefined \in Results
  BY DEF Results
<1>5. Append(node, 0) \in OID
  BY AppendProperties DEF OID
<1>6. "value" \in Vals /\ "noSuchInstance" \in Vals
  BY DEF Vals
<1>7. ScalarAnswers(op, node) \subseteq Results
  <2>1. CASE node \in ReadOnly
    <3>1. \A rsd \in {"data", "genErr"} : ReadOnlyScalar(op, node, rsd) \in Results
      BY <1>1, <1>2, <1>3, <1>4, <1>5, <1>6 DEF ReadOnlyScalar, CreateVarbind
    <3>2. QED
      BY <2>1, <3>1 DEF ScalarAnswers
  <2>2. CASE node \notin ReadOnly
    <3>1. Varbind(Append(node, 0), "value") \in Results
      BY <1>1, <1>5, <1>6
    <3>2. \A c \in IF op = "Set" THEN SetCodes ELSE {genErr} : Code(c) \in Results
      BY <1>2, <1>3
    <3>3. QED
      BY <2>2, <3>1, <3>2, Zenon DEF ScalarAnswers
  <2>3. QED
    BY <2>1, <2>2
<1>8. ColumnAnswers(op, oid, node) \subseteq Results
  <2>1. NextRow(oid, node) \subseteq OID
    <3>1. \A row \in Rows : node \o row \in OID
      BY ProviderAssumption, ConcatProperties DEF OID
    <3>2. QED
      BY <3>1 DEF NextRow, RowsAfter
  <2>2. \A n \in NextRow(oid, node) : Varbind(n, "value") \in Results
    BY <2>1, <1>1, <1>6
  <2>3. \A c \in SetCodes : Code(c) \in Results
    BY <1>2, <1>3
  <2>4. /\ Varbind(oid, "value") \in Results
        /\ Varbind(oid, "noSuchInstance") \in Results
        /\ Code(genErr) \in Results
    BY <1>1, <1>2, <1>3, <1>6
  <2>5. op = "Get" \/ op = "Set" \/ op = "GetNext"
    BY DEF Handled, Getset
  <2>6. CASE op = "GetNext"
    BY <2>6, <2>2, <2>4, <1>4 DEF ColumnAnswers
  <2>7. CASE op = "Get"
    BY <2>7, <2>4 DEF ColumnAnswers
  <2>8. CASE op = "Set"
    BY <2>8, <2>3, <2>4 DEF ColumnAnswers
  <2>9. QED
    BY <2>5, <2>6, <2>7, <2>8
<1>9. \A s \in Slips : s.res \in Results
  BY ProviderAssumption
<1>10. QED
  BY <1>7, <1>8, <1>9 DEF Answers

(***************************************************************************)
(* Providers that answer as documented: a Set is never answered with the   *)
(* code noError, and nothing the agent chokes on is answered at all.       *)
(***************************************************************************)
NoErrorUnused == noError \notin SetCodes /\ \A s \in Slips : s.res # Code(noError)
AllDocumented == Slips = {} /\ ReadOnly = {}

(* What Stuff is given, under either of these assumptions or neither.      *)
Plausible(op) ==
  { res \in Results : /\ NoErrorUnused => res # Code(noError)
                      /\ AllDocumented => SetSingleThrows(op, res) = "no" }

LEMMA VarbindsPlausible ==
  ASSUME NEW op, NEW oid \in OID, NEW val \in Vals
  PROVE  Varbind(oid, val) \in Plausible(op)
BY DEF Varbind, Plausible, Results, Varbinds, Code, SetSingleThrows

LEMMA AnswersPlausible ==
  ASSUME NEW op \in Handled, NEW oid \in OID, NEW node \in OID, NEW scalar \in BOOLEAN,
         NEW res \in Answers(op, oid, node, scalar),
         op # "GetNext" \/ res # Undefined
  PROVE  res \in Plausible(op)
<1>1. res \in Results
  BY AnswersType
<1>2. op = "Get" \/ op = "Set" \/ op = "GetNext"
  BY DEF Handled, Getset
<1>3. genErr # noError /\ notWritable # noError
  BY DEF genErr, noError, notWritable
<1>4. ASSUME NoErrorUnused PROVE res # Code(noError)
  <2>1. \A c \in SetCodes \cup {genErr} : Code(c) # Code(noError)
    BY <1>3, <1>4 DEF NoErrorUnused, Code
  <2>2. \A n, v : Varbind(n, v) # Code(noError)
    BY DEF Varbind, Code
  <2>3. Undefined # Code(noError)
    BY DEF Undefined, Code
  <2>4. \A s \in Slips : s.res # Code(noError)
    BY <1>4 DEF NoErrorUnused
  <2>5. CASE res \in ScalarAnswers(op, node)
    BY <2>1, <2>2, <2>3, <2>5 DEF ScalarAnswers, ReadOnlyScalar, CreateVarbind
  <2>6. CASE res \in ColumnAnswers(op, oid, node)
    BY <1>2, <2>1, <2>2, <2>3, <2>6 DEF ColumnAnswers
  <2>7. QED
    BY <2>4, <2>5, <2>6 DEF Answers
<1>5. ASSUME AllDocumented PROVE SetSingleThrows(op, res) = "no"
  <2>1. \A n, v : SetSingleThrows(op, Varbind(n, v)) = "no"
    BY DEF SetSingleThrows, Varbind
  <2>2. SetSingleThrows(op, Code(genErr)) = "no"
    BY DEF SetSingleThrows, Code
  <2>3. \A c : op = "Set" => SetSingleThrows(op, Code(c)) = "no"
    BY DEF SetSingleThrows, Code
  <2>4. CASE res \in ScalarAnswers(op, node)
    BY <1>5, <2>1, <2>2, <2>3, <2>4 DEF ScalarAnswers, AllDocumented
  <2>5. CASE res \in ColumnAnswers(op, oid, node)
    BY <1>2, <2>1, <2>2, <2>3, <2>5 DEF ColumnAnswers
  <2>6. QED
    BY <1>5, <2>4, <2>5 DEF Answers, AllDocumented
<1>6. QED
  BY <1>1, <1>4, <1>5 DEF Plausible

----------------------------------------------------------------------------
(* The length of a response under construction.                            *)
LEMMA LengthProperties ==
  ASSUME NEW response \in Responses
  PROVE  /\ Length(response) \in 0..MaxVarbinds
         /\ \A i \in Slots : response.vbs[i] # None => i <= Length(response)
         /\ Length(response) > 0 => response.vbs[Length(response)] # None
<1> DEFINE S == { i \in Slots : response.vbs[i] # None }
<1>1. MaxVarbinds \in Nat
  BY MessagesAssumption
<1>2. CASE S = {}
  BY <1>1, <1>2 DEF Length
<1>3. CASE S # {}
  <2>1. PICK m \in S : \A n \in S : n <= m
    <3>1. S \in SUBSET Nat /\ \A n \in S : n <= MaxVarbinds
      BY <1>1 DEF Slots
    <3> HIDE DEF S
    <3>2. QED
      BY <3>1, <1>1, <1>3, NatMax
  <2>2. Length(response) \in S /\ \A n \in S : n <= Length(response)
    BY <2>1, <1>3, Zenon DEF Length
  <2>3. QED
    BY <1>1, <2>2 DEF Slots
<1>4. QED
  BY <1>2, <1>3

(* What the wire carries of a response without gaps.                       *)
LEMMA EncodedType ==
  ASSUME NEW response \in Responses, Encodable(response)
  PROVE  Encoded(response) \in Replies
<1> DEFINE n == Length(response)
<1>1. n \in 0..MaxVarbinds /\ MaxVarbinds \in Nat
  BY LengthProperties, MessagesAssumption
<1>2. \A i \in 1..n : response.vbs[i] \in Varbinds
  BY <1>1 DEF Encodable, Responses, Slots
<1> HIDE DEF n
<1>3. SubSeq(response.vbs, 1, n) \in Seq(Varbinds)
  BY <1>1, <1>2, SubSeqProperties
<1>4. QED
  BY <1>3 DEF Encoded, Responses, Replies, n

(* _varbind_set_single keeps the response well formed.                     *)
LEMMA SetSingleType ==
  ASSUME NEW response \in Responses, NEW vbs, NEW i \in Slots, vbs[i] \in OID,
         NEW res \in Results, res.kind \in {"varbind", "code"}
  PROVE  SetSingle(response, vbs, i, res) \in Responses
<1>1. MaxVarbinds \in Nat
  BY MessagesAssumption
<1>2. CASE res.kind = "varbind"
  <2>1. res \in Varbinds
    BY <1>2 DEF Results, Undefined, Junk
  <2>2. QED
    BY <1>2, <2>1 DEF SetSingle, Responses
<1>3. CASE res.kind = "code"
  <2>1. res.code \in Errors
    BY <1>3 DEF Results, Undefined, Junk, Varbinds
  <2>2. Varbind(vbs[i], "echo") \in Varbinds
    BY DEF Varbind, Varbinds, Vals
  <2>3. i \in 0..MaxVarbinds
    BY <1>1 DEF Slots
  <2> DEFINE echoed == [response EXCEPT !.vbs[i] = Varbind(vbs[i], "echo")]
  <2>4. echoed \in Responses
    BY <2>2 DEF Responses
  <2>5. [echoed EXCEPT !.status = res.code, !.index = i] \in Responses
    <3> HIDE DEF echoed
    <3>1. QED
      BY <2>1, <2>3, <2>4 DEF Responses
  <2>6. SetSingle(response, vbs, i, res)
           = IF response.status = noError \/ i < response.index
             THEN [echoed EXCEPT !.status = res.code, !.index = i] ELSE echoed
    BY <1>3 DEF SetSingle
  <2>7. QED
    BY <2>4, <2>5, <2>6, Zenon
<1>4. QED
  BY <1>2, <1>3

----------------------------------------------------------------------------
(* Where dispatch stands: calls are made only for bindings it has reached, *)
(* and it reaches only bindings that the request has.                      *)
CallsInDispatch ==
  \A r \in Reqs :
     /\ ~ Received(r) => cursor[r] = 0
     /\ Received(r) => cursor[r] <= Size(r)
     /\ cursor[r] > 0 => msg[r].op \in Handled
     /\ \A i \in Slots : call[r][i] # None => i <= cursor[r]

InvA == TypeOK /\ CallsInDispatch

(* The part of the type invariant that Stuff is about.                     *)
AnswerTypes ==
  /\ rsp \in [Reqs -> Responses]
  /\ ndone \in [Reqs -> Nat]
  /\ sent \in [Reqs -> Seq(Replies)]
  /\ thrown \in Causes
  /\ given \in [Reqs -> [Slots -> Results \cup {None}]]

(* A received request's message is one of Messages.                        *)
LEMMA ReceivedProperties ==
  ASSUME TypeOK, NEW r \in Reqs, Received(r)
  PROVE  /\ msg[r] \in Messages
         /\ Size(r) \in Nat /\ Size(r) <= MaxVarbinds
         /\ \A i \in 1..Size(r) : msg[r].vbs[i] \in OID
         /\ msg[r].op \in Ops
<1>1. msg[r] \in Messages
  BY DEF TypeOK, Received
<1>2. QED
  BY <1>1, MessageProperties DEF Size

LEMMA StuffType ==
  ASSUME TypeOK, NEW r \in Reqs, Received(r), NEW i \in Slots, i <= Size(r),
         NEW res \in Results, Stuff(r, i, res)
  PROVE  AnswerTypes'
<1> DEFINE why  == StuffThrows(msg[r].op, msg[r].vbs[i], res)
           full == SetSingle(rsp[r], msg[r].vbs, i, res)
<1>1. res.kind \in {"varbind", "code", "undefined", "junk"}
  BY DEF Results, Varbinds, Undefined, Junk
<1>2. why \in Causes
  BY DEF StuffThrows, SetSingleThrows, Causes
<1>3. CASE why # "no"
  <2>1. thrown' = why /\ UNCHANGED <<rsp, ndone, sent, given>>
    BY <1>3 DEF Stuff
  <2> HIDE DEF why
  <2>2. QED
    BY <1>2, <2>1 DEF TypeOK, AnswerTypes
<1>4. CASE why = "no"
  <2>1. res.kind \in {"varbind", "code"}
    BY <1>1, <1>4 DEF StuffThrows, SetSingleThrows
  <2>2. msg[r].vbs[i] \in OID
    BY ReceivedProperties DEF Slots
  <2>3. rsp[r] \in Responses
    BY DEF TypeOK
  <2>4. full \in Responses
    BY <2>1, <2>2, <2>3, SetSingleType
  <2>5. Encodable(full) => Encoded(full) \in Replies
    BY <2>4, EncodedType
  <2>6. /\ rsp' = [rsp EXCEPT ![r] = full]
        /\ ndone' = [ndone EXCEPT ![r] = @ + 1]
        /\ given' = [given EXCEPT ![r][i] = IF @ = None THEN res ELSE @]
        /\ IF LastDone(r) /\ Encodable(full)
           THEN sent' = [sent EXCEPT ![r] = Append(@, Encoded(full))]
           ELSE UNCHANGED sent
        /\ thrown' = IF LastDone(r) /\ ~ Encodable(full)
                     THEN "unassigned varbind" ELSE "no"
    BY <1>4, Zenon DEF Stuff
  <2> HIDE DEF why, full
  <2>7. rsp' \in [Reqs -> Responses]
    BY <2>4, <2>6 DEF TypeOK
  <2>8. ndone' \in [Reqs -> Nat]
    <3>1. ndone \in [Reqs -> Nat] /\ ndone[r] + 1 \in Nat
      BY DEF TypeOK
    <3>2. ndone' = [ndone EXCEPT ![r] = @ + 1]
      BY <2>6
    <3>3. QED
      BY <3>1, <3>2
  <2>9. sent' \in [Reqs -> Seq(Replies)]
    <3>1. CASE LastDone(r) /\ Encodable(full)
      <4>1. Append(sent[r], Encoded(full)) \in Seq(Replies)
        BY <3>1, <2>5, AppendProperties DEF TypeOK
      <4>2. QED
        BY <3>1, <2>6, <4>1 DEF TypeOK
    <3>2. CASE ~ (LastDone(r) /\ Encodable(full))
      BY <3>2, <2>6 DEF TypeOK
    <3>3. QED
      BY <3>1, <3>2
  <2>10. thrown' \in Causes
    BY <2>6 DEF Causes
  <2>11. given' \in [Reqs -> [Slots -> Results \cup {None}]]
    BY <2>6 DEF TypeOK
  <2>12. QED
    BY <2>7, <2>8, <2>9, <2>10, <2>11 DEF AnswerTypes
<1>5. QED
  BY <1>3, <1>4

----------------------------------------------------------------------------
(* Asking a provider, for a Get, a Set or the next object, makes a call or *)
(* stuffs an answer.                                                       *)
Unanswered == UNCHANGED <<rsp, ndone, sent, given>>

LEMMA UnansweredType ==
  ASSUME TypeOK, Unanswered, thrown' \in Causes
  PROVE  AnswerTypes'
BY DEF TypeOK, AnswerTypes, Unanswered

LEMMA CallType ==
  ASSUME TypeOK, NEW r \in Reqs, NEW i \in Slots, NEW oid \in OID, NEW node \in OID
  PROVE  /\ [call EXCEPT ![r][i] = ProviderCall(oid, node)]
               \in [Reqs -> [Slots -> Calls \cup {None}]]
         /\ [call EXCEPT ![r][i] = Closed(@)] \in [Reqs -> [Slots -> Calls \cup {None}]]
<1>1. ProviderCall(oid, node) \in Calls
  BY DEF ProviderCall, Calls
<1>2. call[r][i] \in Calls \cup {None}
  BY DEF TypeOK
<1>3. Closed(call[r][i]) \in Calls \cup {None}
  BY <1>2 DEF Closed, Calls
<1>4. QED
  BY <1>1, <1>3 DEF TypeOK

(* What _do_getset and _do_getnext_one leave of one binding.               *)
OneResult(r, i, oid) ==
  \/ /\ thrown' = "short node"
     /\ UNCHANGED <<call, rsp, ndone, sent, given>>
  \/ /\ \E node \in OID : call' = [call EXCEPT ![r][i] = ProviderCall(oid, node)]
     /\ UNCHANGED <<rsp, ndone, sent, given, thrown>>
  \/ /\ call' = [call EXCEPT ![r][i] = Closed(@)]
     /\ \E val \in Vals : Stuff(r, i, Varbind(oid, val))

LEMMA GetSetOneResult ==
  ASSUME TypeOK, NEW r \in Reqs, NEW i \in Slots, NEW oid \in OID,
         call[r][i] = None, GetSetOne(r, i, oid, Lookup(oid))
  PROVE  OneResult(r, i, oid)
<1>1. Lookup(oid) \in OID
  BY LookupFinds DEF TypeOK, RegistryTypeOK, MibTypeOK
<1>2. Absence(oid, Lookup(oid)) # "no" => Absence(oid, Lookup(oid)) \in Vals
  BY DEF Absence, Vals
<1>3. call = [call EXCEPT ![r][i] = Closed(@)]
  BY DEF TypeOK, Closed
<1> HIDE DEF Absence
<1>4. QED
  BY <1>1, <1>2, <1>3, Zenon DEF GetSetOne, OneResult

LEMMA GetNextOneResult ==
  ASSUME TypeOK, NEW r \in Reqs, NEW i \in Slots, NEW oid \in OID, NEW node,
         GetNextOne(r, i, oid, node)
  PROVE  OneResult(r, i, oid)
<1>1. node \in nodes => node \in OID
  BY DEF TypeOK, RegistryTypeOK, MibTypeOK
<1>2. "endOfMibView" \in Vals
  BY DEF Vals
<1>3. QED
  BY <1>1, <1>2, Zenon DEF GetNextOne, OneResult

LEMMA OneResultType ==
  ASSUME TypeOK, NEW r \in Reqs, Received(r), NEW i \in Slots, i <= Size(r),
         NEW oid \in OID, OneResult(r, i, oid)
  PROVE  AnswerTypes' /\ call' \in [Reqs -> [Slots -> Calls \cup {None}]]
<1>1. \A val \in Vals : Varbind(oid, val) \in Results
  BY DEF Varbind, Results, Varbinds
<1>2. ASSUME thrown' = "short node", UNCHANGED <<call, rsp, ndone, sent, given>>
      PROVE  AnswerTypes' /\ call' \in [Reqs -> [Slots -> Calls \cup {None}]]
  BY <1>2, UnansweredType DEF Unanswered, TypeOK, Causes
<1>3. ASSUME NEW node \in OID, call' = [call EXCEPT ![r][i] = ProviderCall(oid, node)],
             UNCHANGED <<rsp, ndone, sent, given, thrown>>
      PROVE  AnswerTypes' /\ call' \in [Reqs -> [Slots -> Calls \cup {None}]]
  <2>1. thrown' \in Causes /\ Unanswered
    BY <1>3 DEF TypeOK, Unanswered
  <2>2. QED
    BY <1>3, <2>1, UnansweredType, CallType
<1>4. ASSUME call' = [call EXCEPT ![r][i] = Closed(@)],
             NEW val \in Vals, Stuff(r, i, Varbind(oid, val))
      PROVE  AnswerTypes' /\ call' \in [Reqs -> [Slots -> Calls \cup {None}]]
  <2>1. AnswerTypes'
    BY <1>1, <1>4, StuffType
  <2>2. call' \in [Reqs -> [Slots -> Calls \cup {None}]]
    <3>1. [call EXCEPT ![r][i] = Closed(@)] \in [Reqs -> [Slots -> Calls \cup {None}]]
      BY CallType
    <3>2. QED
      BY <1>4, <3>1 DEF TypeOK
  <2>3. QED
    BY <2>1, <2>2
<1>5. QED
  BY <1>2, <1>3, <1>4 DEF OneResult

(* One binding's step leaves every other binding's call as it is.          *)
LEMMA OneResultCalls ==
  ASSUME TypeOK, NEW r \in Reqs, NEW i \in Slots, NEW oid, OneResult(r, i, oid)
  PROVE  \A q \in Reqs, j \in Slots : call'[q][j] = call[q][j] \/ (q = r /\ j = i)
<1>1. call \in [Reqs -> [Slots -> Calls \cup {None}]]
  BY DEF TypeOK
<1>2. \/ call' = call
      \/ \E c : call' = [call EXCEPT ![r][i] = c]
  BY Zenon DEF OneResult
<1>3. QED
  BY <1>1, <1>2

----------------------------------------------------------------------------
(* InvA is inductive: one lemma for each kind of action.                   *)
LEMMA InitInvA == Init => InvA
<1> SUFFICES ASSUME Init PROVE InvA
  OBVIOUS
<1>1. RegistryTypeOK
  <2>1. MibTypeOK
    BY MibInitTypeOK DEF Init, RegistryInit
  <2>2. QED
    BY <2>1 DEF Init, RegistryInit, MibInit, RegistryTypeOK, Kinds
<1>2. MaxVarbinds \in Nat /\ MaxRepeats \in Nat
  BY MessagesAssumption, MaxRepeatsAssumption
<1>3. Blank \in [Slots -> Calls \cup {None}] /\ Blank \in [Slots -> Results \cup {None}]
  BY DEF Blank
<1>4. EmptyResponse \in Responses
  BY <1>2 DEF EmptyResponse, Responses, Blank, noError, Errors
<1>5. "no" \in Causes /\ << >> \in Seq(Replies)
  BY DEF Causes
<1>6. TypeOK
  BY <1>1, <1>2, <1>3, <1>4, <1>5 DEF Init, TypeOK
<1>7. CallsInDispatch
  BY DEF Init, CallsInDispatch, Received, Blank
<1>8. QED
  BY <1>6, <1>7 DEF InvA

LEMMA RegisterInvA ==
  ASSUME InvA, NEW batch \in Batches, Register(batch)
  PROVE  InvA'
<1>1. RegistryTypeOK'
  BY AddProvidersType DEF Register, InvA, TypeOK
<1>2. UNCHANGED avars
  BY DEF Register
<1>3. TypeOK'
  BY <1>1, <1>2 DEF InvA, TypeOK, avars
<1>4. CallsInDispatch'
  BY <1>2 DEF InvA, CallsInDispatch, avars, Received, Size
<1>5. QED
  BY <1>3, <1>4 DEF InvA

LEMMA UnchangedRegistryType ==
  ASSUME RegistryTypeOK, UNCHANGED rvars
  PROVE  RegistryTypeOK'
BY DEF RegistryTypeOK, MibTypeOK, rvars

LEMMA ReceiveInvA ==
  ASSUME InvA, NEW r \in Reqs, NEW m \in Messages, Receive(r, m)
  PROVE  InvA'
<1>1. RegistryTypeOK'
  BY UnchangedRegistryType DEF InvA, TypeOK, Receive
<1>2. TypeOK'
  <2>1. thrown' \in Causes
    BY DEF Receive, Causes
  <2>2. QED
    BY <1>1, <2>1 DEF InvA, TypeOK, Receive
<1>3. Len(m.vbs) \in Nat
  BY MessageProperties
<1>4. ASSUME NEW q \in Reqs
      PROVE  /\ ~ Received(q)' => cursor'[q] = 0
             /\ Received(q)' => cursor'[q] <= Size(q)'
             /\ cursor'[q] > 0 => msg'[q].op \in Handled
             /\ \A i \in Slots : call'[q][i] # None => i <= cursor'[q]
  <2>1. CASE q = r
    <3>1. msg'[q] = m /\ cursor'[q] = 0 /\ call'[q] = call[q] /\ cursor[q] = 0
      BY <2>1 DEF Receive, InvA, TypeOK, CallsInDispatch
    <3>2. QED
      BY <3>1, <1>3, MessageProperties DEF InvA, CallsInDispatch, Received, Size
  <2>2. CASE q # r
    <3>1. msg'[q] = msg[q] /\ cursor'[q] = cursor[q] /\ call'[q] = call[q]
      BY <2>2 DEF Receive, InvA, TypeOK
    <3>2. QED
      BY <3>1 DEF InvA, CallsInDispatch, Received, Size
  <2>3. QED
    BY <2>1, <2>2
<1>5. CallsInDispatch'
  BY <1>4 DEF CallsInDispatch
<1>6. QED
  BY <1>2, <1>5 DEF InvA

(* One binding dispatched.                                                 *)
LEMMA DispatchInvA ==
  ASSUME InvA, NEW r \in Reqs, Dispatching(r), UNCHANGED <<rvars, msg, repeats>>,
         cursor' = [cursor EXCEPT ![r] = @ + 1],
         OneResult(r, cursor[r] + 1, msg[r].vbs[cursor[r] + 1])
  PROVE  InvA'
<1> DEFINE i == cursor[r] + 1
<1>1. /\ Received(r) /\ msg[r].op \in Handled /\ cursor[r] \in Nat
      /\ Size(r) \in Nat /\ Size(r) <= MaxVarbinds /\ MaxVarbinds \in Nat
      /\ cursor[r] < Size(r)
  BY ReceivedProperties, MessagesAssumption DEF InvA, TypeOK, Dispatching
<1>2. i \in Slots /\ i <= Size(r) /\ msg[r].vbs[i] \in OID
  <2>1. i \in 1..Size(r) /\ i \in Slots
    BY <1>1 DEF Slots
  <2>2. QED
    BY <2>1, <1>1, ReceivedProperties DEF InvA
<1>3. AnswerTypes' /\ call' \in [Reqs -> [Slots -> Calls \cup {None}]]
  BY <1>1, <1>2, OneResultType DEF InvA
<1>4. RegistryTypeOK'
  BY UnchangedRegistryType DEF InvA, TypeOK
<1>5. cursor' \in [Reqs -> 0..MaxVarbinds]
  <2>1. cursor[r] + 1 \in 0..MaxVarbinds
    BY <1>1
  <2>2. QED
    BY <2>1 DEF InvA, TypeOK
<1>6. TypeOK'
  BY <1>3, <1>4, <1>5 DEF InvA, TypeOK, AnswerTypes
<1>7. \A q \in Reqs, j \in Slots :
         call'[q][j] # None => call[q][j] # None \/ (q = r /\ j = i)
  BY <1>2, OneResultCalls DEF InvA
<1>8. \A q \in Reqs : cursor'[q] = IF q = r THEN i ELSE cursor[q]
  BY DEF InvA, TypeOK
<1> HIDE DEF i
<1>9. ASSUME NEW q \in Reqs
      PROVE  /\ ~ Received(q)' => cursor'[q] = 0
             /\ Received(q)' => cursor'[q] <= Size(q)'
             /\ cursor'[q] > 0 => msg'[q].op \in Handled
             /\ \A j \in Slots : call'[q][j] # None => j <= cursor'[q]
  <2>1. msg' = msg /\ cursor[q] \in Nat /\ i \in Nat /\ cursor[r] < i
    BY <1>1 DEF InvA, TypeOK, i
  <2>2. \A j \in Slots : j \in Nat
    BY <1>1 DEF Slots
  <2>3. \A j \in Slots : call'[q][j] # None => j <= cursor'[q]
    BY <2>1, <2>2, <1>7, <1>8 DEF InvA, CallsInDispatch
  <2>4. QED
    BY <2>1, <2>3, <1>1, <1>2, <1>8 DEF InvA, CallsInDispatch, Received, Size
<1>10. CallsInDispatch'
  BY <1>9 DEF CallsInDispatch
<1>11. QED
  BY <1>6, <1>10 DEF InvA

(* A call that was made is for a binding that dispatch has reached.        *)
LEMMA CallReached ==
  ASSUME InvA, NEW r \in Reqs, NEW i \in Slots, call[r][i] # None
  PROVE  /\ Received(r) /\ msg[r].op \in Handled
         /\ i <= Size(r) /\ i <= cursor[r] /\ msg[r].vbs[i] \in OID
         /\ call[r][i] \in Calls
<1>1. i <= cursor[r] /\ cursor[r] \in Nat /\ i \in Nat /\ 1 <= i
  BY MessagesAssumption DEF InvA, CallsInDispatch, Slots, TypeOK
<1>2. Received(r) /\ msg[r].op \in Handled /\ cursor[r] <= Size(r)
  BY <1>1 DEF InvA, CallsInDispatch
<1>3. Size(r) \in Nat /\ \A k \in 1..Size(r) : msg[r].vbs[k] \in OID
  BY <1>2, ReceivedProperties DEF InvA
<1>4. call[r][i] \in Calls
  BY DEF InvA, TypeOK
<1>5. QED
  BY <1>1, <1>2, <1>3, <1>4

(* What the provider of a call may answer is a result, and a plausible one *)
(* if it is not the nothing that a GetNext goes on from.                   *)
LEMMA MayAnswerType ==
  ASSUME InvA, NEW r \in Reqs, NEW i \in Slots, call[r][i] # None
  PROVE  /\ MayAnswer(r, i) \subseteq Results
         /\ \A res \in MayAnswer(r, i) :
               msg[r].op # "GetNext" \/ res # Undefined => res \in Plausible(msg[r].op)
<1> DEFINE prq == call[r][i]
           op == msg[r].op
           scalar == prq.scalar
<1>1. op \in Handled /\ prq \in Calls
  BY CallReached
<1>2. prq.oid \in OID /\ prq.node \in OID
  BY <1>1 DEF Calls
<1>3. scalar \in BOOLEAN
  BY <1>1 DEF Calls
<1>4. MayAnswer(r, i) = Answers(op, prq.oid, prq.node, scalar)
  BY DEF MayAnswer
<1> HIDE DEF prq, op, scalar
<1>5. MayAnswer(r, i) \subseteq Results
  BY <1>1, <1>2, <1>3, <1>4, AnswersType
<1>6. \A res \in MayAnswer(r, i) : op # "GetNext" \/ res # Undefined => res \in Plausible(op)
  BY <1>1, <1>2, <1>3, <1>4, AnswersPlausible
<1>7. QED
  BY <1>5, <1>6 DEF op

(* A step that answers or asks again for a binding that has been reached.  *)
LEMMA AnswerInvA ==
  ASSUME InvA, NEW r \in Reqs, NEW i \in Slots, call[r][i] # None,
         UNCHANGED <<rvars, msg, cursor>>, repeats' \in 0..MaxRepeats,
         AnswerTypes', call' \in [Reqs -> [Slots -> Calls \cup {None}]],
         \A q \in Reqs, j \in Slots : call'[q][j] = call[q][j] \/ (q = r /\ j = i)
  PROVE  InvA'
<1>1. RegistryTypeOK'
  BY UnchangedRegistryType DEF InvA, TypeOK
<1>2. TypeOK'
  BY <1>1 DEF InvA, TypeOK, AnswerTypes
<1>3. CallsInDispatch'
  BY DEF InvA, CallsInDispatch, Received, Size
<1>4. QED
  BY <1>2, <1>3 DEF InvA

(* What a completion leaves: the next question, or the answer stuffed.     *)
LEMMA CompleteResult ==
  ASSUME InvA, NEW r \in Reqs, NEW i \in Slots, Complete(r, i)
  PROVE  /\ call[r][i] # None
         /\ \/ \E node \in OID : OneResult(r, i, node)
            \/ /\ \E res \in Plausible(msg[r].op) : Stuff(r, i, res)
               /\ call' = [call EXCEPT ![r][i] = Closed(@)]
<1>1. call[r][i] # None
  BY DEF Complete, Open
<1>2. call[r][i].node \in OID
  BY <1>1, CallReached DEF Calls
<1>3. \A res \in MayAnswer(r, i) :
        msg[r].op # "GetNext" \/ res # Undefined => res \in Plausible(msg[r].op)
  BY <1>1, MayAnswerType
<1>4. PICK res \in MayAnswer(r, i) :
        \/ /\ msg[r].op = "GetNext" /\ res = Undefined
           /\ LET node == call[r][i].node
              IN GetNextOne(r, i, node, GetnextLookup(node, FALSE))
        \/ /\ msg[r].op # "GetNext" \/ res # Undefined
           /\ Stuff(r, i, res)
           /\ call' = [call EXCEPT ![r][i] = Closed(@)]
  BY DEF Complete
<1>5. CASE GetNextOne(r, i, call[r][i].node, GetnextLookup(call[r][i].node, FALSE))
  BY <1>1, <1>2, <1>5, GetNextOneResult DEF InvA
<1>6. CASE /\ msg[r].op # "GetNext" \/ res # Undefined
           /\ Stuff(r, i, res) /\ call' = [call EXCEPT ![r][i] = Closed(@)]
  BY <1>1, <1>3, <1>6
<1>7. QED
  BY <1>4, <1>5, <1>6

LEMMA CompleteInvA ==
  ASSUME InvA, NEW r \in Reqs, NEW i \in Slots, Complete(r, i)
  PROVE  InvA'
<1>1. /\ call[r][i] # None
      /\ \/ \E node \in OID : OneResult(r, i, node)
         \/ /\ \E res \in Results : Stuff(r, i, res)
            /\ call' = [call EXCEPT ![r][i] = Closed(@)]
  BY CompleteResult DEF Plausible
<1>2. Received(r) /\ i <= Size(r) /\ call[r][i] \in Calls /\ TypeOK
  BY <1>1, CallReached DEF InvA
<1>3. UNCHANGED <<rvars, msg, cursor>> /\ repeats' \in 0..MaxRepeats
  BY DEF Complete, InvA, TypeOK
<1>4. CASE \E node \in OID : OneResult(r, i, node)
  <2>1. PICK node \in OID : OneResult(r, i, node)
    BY <1>4
  <2>2. AnswerTypes' /\ call' \in [Reqs -> [Slots -> Calls \cup {None}]]
    BY <1>2, <2>1, OneResultType
  <2>3. \A q \in Reqs, j \in Slots : call'[q][j] = call[q][j] \/ (q = r /\ j = i)
    BY <1>2, <2>1, OneResultCalls
  <2>4. QED
    BY <1>1, <1>3, <2>2, <2>3, AnswerInvA
<1>5. CASE /\ \E res \in Results : Stuff(r, i, res)
           /\ call' = [call EXCEPT ![r][i] = Closed(@)]
  <2>1. AnswerTypes'
    BY <1>2, <1>5, StuffType
  <2>2. call' \in [Reqs -> [Slots -> Calls \cup {None}]]
    BY <1>2, <1>5, CallType DEF Calls
  <2>3. \A q \in Reqs, j \in Slots : call'[q][j] = call[q][j] \/ (q = r /\ j = i)
    BY <1>2, <1>5 DEF TypeOK
  <2>4. QED
    BY <1>1, <1>3, <2>1, <2>2, <2>3, AnswerInvA
<1>6. QED
  BY <1>1, <1>4, <1>5

LEMMA CompleteAgainInvA ==
  ASSUME InvA, NEW r \in Reqs, NEW i \in Slots, CompleteAgain(r, i)
  PROVE  InvA'
<1>1. call[r][i] # None /\ call' = call /\ UNCHANGED <<rvars, msg, cursor>>
  BY DEF CompleteAgain
<1>2. Received(r) /\ i <= Size(r) /\ TypeOK
  BY <1>1, CallReached DEF InvA
<1>3. PICK res \in Results : Stuff(r, i, res)
  BY <1>1, MayAnswerType DEF CompleteAgain
<1>4. AnswerTypes'
  BY <1>2, <1>3, StuffType
<1>5. repeats' \in 0..MaxRepeats
  BY <1>2, MaxRepeatsAssumption DEF CompleteAgain, TypeOK
<1>6. QED
  BY <1>1, <1>2, <1>4, <1>5, AnswerInvA DEF TypeOK

(* What the two dispatchers have in common.                                *)
LEMMA DispatchResult ==
  ASSUME InvA, NEW r \in Reqs, DispatchGetSet(r) \/ DispatchGetNext(r)
  PROVE  /\ Alive /\ Dispatching(r) /\ UNCHANGED <<rvars, msg, repeats>>
         /\ cursor' = [cursor EXCEPT ![r] = @ + 1]
         /\ cursor[r] + 1 \in Slots /\ call[r][cursor[r] + 1] = None
         /\ OneResult(r, cursor[r] + 1, msg[r].vbs[cursor[r] + 1])
<1>1. /\ Alive /\ Dispatching(r) /\ UNCHANGED <<rvars, msg, repeats>>
      /\ cursor' = [cursor EXCEPT ![r] = @ + 1]
  BY DEF DispatchGetSet, DispatchGetNext
<1> DEFINE i == cursor[r] + 1
           oid == msg[r].vbs[i]
<1>2. i \in Slots /\ oid \in OID
  <2>1. /\ cursor[r] \in Nat /\ Size(r) \in Nat /\ cursor[r] < Size(r)
        /\ Size(r) <= MaxVarbinds /\ MaxVarbinds \in Nat
        /\ \A k \in 1..Size(r) : msg[r].vbs[k] \in OID
    BY <1>1, ReceivedProperties, MessagesAssumption DEF InvA, TypeOK, Dispatching
  <2>2. QED
    BY <2>1 DEF Slots
<1>3. call[r][i] = None
  BY <1>2 DEF InvA, TypeOK, CallsInDispatch, Slots
<1>4. CASE DispatchGetSet(r)
  <2>1. GetSetOne(r, i, oid, Lookup(oid))
    BY <1>4 DEF DispatchGetSet
  <2>2. QED
    BY <1>1, <1>2, <1>3, <2>1, GetSetOneResult DEF InvA
<1>5. CASE DispatchGetNext(r)
  <2>1. GetNextOne(r, i, oid, GetnextLookup(oid, TRUE))
    BY <1>5 DEF DispatchGetNext
  <2>2. QED
    BY <1>1, <1>2, <1>3, <2>1, GetNextOneResult DEF InvA
<1>6. QED
  BY <1>4, <1>5

LEMMA NextInvA == InvA /\ [Next]_vars => InvA'
<1> SUFFICES ASSUME InvA, [Next]_vars PROVE InvA'
  OBVIOUS
<1>1. ASSUME NEW batch \in Batches, Register(batch) PROVE InvA'
  BY <1>1, RegisterInvA
<1>2. ASSUME NEW r \in Reqs, NEW m \in Messages, Receive(r, m) PROVE InvA'
  BY <1>2, ReceiveInvA
<1>3. ASSUME NEW r \in Reqs, DispatchGetSet(r) \/ DispatchGetNext(r) PROVE InvA'
  BY <1>3, DispatchResult, DispatchInvA
<1>4. ASSUME NEW r \in Reqs, NEW i \in Slots, Complete(r, i) PROVE InvA'
  BY <1>4, CompleteInvA
<1>5. ASSUME NEW r \in Reqs, NEW i \in Slots, CompleteAgain(r, i) PROVE InvA'
  BY <1>5, CompleteAgainInvA
<1>6. CASE UNCHANGED vars
  <2>1. RegistryTypeOK'
    BY <1>6, UnchangedRegistryType DEF InvA, TypeOK, vars
  <2>2. QED
    BY <1>6, <2>1 DEF InvA, TypeOK, CallsInDispatch, Received, Size, vars, avars
<1>7. QED
  BY <1>1, <1>2, <1>3, <1>4, <1>5, <1>6 DEF Next

(***************************************************************************)
(* Every variable of the agent keeps its type, whatever is registered,     *)
(* received and answered.                                                  *)
(***************************************************************************)
THEOREM TypeCorrect == Spec => []TypeOK
<1>1. InvA => TypeOK
  BY DEF InvA
<1>2. QED
  BY <1>1, InitInvA, NextInvA, PTL DEF Spec

----------------------------------------------------------------------------
(* A step of the agent stuffs one answer of one request, or leaves the     *)
(* answers alone; what has been received does not change otherwise.        *)
StuffStep ==
  \E r \in Reqs, i \in Slots, res \in Results :
     /\ Received(r) /\ i <= Size(r)
     /\ UNCHANGED msg
     /\ Stuff(r, i, res)

QuietStep ==
  /\ UNCHANGED <<rsp, ndone, sent, given>>
  /\ \/ UNCHANGED msg
     \/ \E r \in Reqs, m \in Messages :
           msg[r] = None /\ m # None /\ msg' = [msg EXCEPT ![r] = m]

LEMMA OneResultStep ==
  ASSUME TypeOK, NEW r \in Reqs, NEW i \in Slots, NEW oid \in OID, Received(r),
         i <= Size(r), UNCHANGED msg, OneResult(r, i, oid)
  PROVE  StuffStep \/ QuietStep
<1>1. \A val \in Vals : Varbind(oid, val) \in Results
  BY DEF Varbind, Results, Varbinds
<1>2. CASE UNCHANGED <<rsp, ndone, sent, given>>
  BY <1>2 DEF QuietStep
<1>3. CASE \E val \in Vals : Stuff(r, i, Varbind(oid, val))
  BY <1>1, <1>3, Zenon DEF StuffStep
<1>4. QED
  BY <1>2, <1>3, Zenon DEF OneResult

LEMMA StepShape ==
  ASSUME InvA, [Next]_vars
  PROVE  StuffStep \/ QuietStep
<1>1. ASSUME NEW batch \in Batches, Register(batch) PROVE QuietStep
  BY <1>1 DEF Register, QuietStep, avars
<1>2. ASSUME NEW r \in Reqs, NEW m \in Messages, Receive(r, m) PROVE QuietStep
  BY <1>2, MessageProperties DEF Receive, QuietStep, Received
<1>3. ASSUME NEW r \in Reqs, DispatchGetSet(r) \/ DispatchGetNext(r)
      PROVE  StuffStep \/ QuietStep
  <2> DEFINE i == cursor[r] + 1
  <2>1. /\ Received(r) /\ UNCHANGED msg /\ i \in Slots
        /\ OneResult(r, i, msg[r].vbs[i]) /\ TypeOK /\ cursor[r] < Size(r)
    BY <1>3, DispatchResult DEF Dispatching, InvA
  <2>2. i <= Size(r) /\ msg[r].vbs[i] \in OID
    BY <2>1, ReceivedProperties, MessagesAssumption DEF Slots, TypeOK
  <2> HIDE DEF i
  <2>3. QED
    BY <2>1, <2>2, OneResultStep
<1>4. ASSUME NEW r \in Reqs, NEW i \in Slots, Complete(r, i)
      PROVE  StuffStep \/ QuietStep
  <2>1. /\ call[r][i] # None
        /\ \/ \E node \in OID : OneResult(r, i, node)
           \/ \E res \in Results : Stuff(r, i, res)
    BY <1>4, CompleteResult DEF Plausible
  <2>2. Received(r) /\ i <= Size(r) /\ TypeOK /\ UNCHANGED msg
    BY <1>4, <2>1, CallReached DEF InvA, Complete
  <2>3. CASE \E node \in OID : OneResult(r, i, node)
    BY <2>2, <2>3, OneResultStep
  <2>4. CASE \E res \in Results : Stuff(r, i, res)
    BY <2>2, <2>4 DEF StuffStep
  <2>5. QED
    BY <2>1, <2>3, <2>4
<1>5. ASSUME NEW r \in Reqs, NEW i \in Slots, CompleteAgain(r, i)
      PROVE  StuffStep
  <2>1. call[r][i] # None /\ UNCHANGED msg
    BY <1>5 DEF CompleteAgain
  <2>2. Received(r) /\ i <= Size(r)
    BY <2>1, CallReached
  <2>3. \E res \in Results : Stuff(r, i, res)
    BY <1>5, <2>1, MayAnswerType DEF CompleteAgain
  <2>4. QED
    BY <2>1, <2>2, <2>3 DEF StuffStep
<1>6. CASE UNCHANGED vars
  BY <1>6 DEF vars, avars, QuietStep
<1>7. QED
  BY <1>1, <1>2, <1>3, <1>4, <1>5, <1>6 DEF Next

----------------------------------------------------------------------------
(* Once a response is out, the count has reached the number of bindings    *)
(* and only grows, so that the next answer cannot be the last one again.   *)
CountPassed ==
  \A r \in Reqs : sent[r] # << >> => /\ Received(r)
                                    /\ Len(sent[r]) = 1
                                    /\ Size(r) <= ndone[r]

InvB == InvA /\ CountPassed

LEMMA StuffCountPassed ==
  ASSUME InvB, StuffStep
  PROVE  CountPassed'
<1>1. PICK r \in Reqs, i \in Slots, res \in Results :
        Received(r) /\ i <= Size(r) /\ UNCHANGED msg /\ Stuff(r, i, res)
  BY DEF StuffStep
<1>2. /\ \A q \in Reqs : ndone[q] \in Nat /\ sent[q] \in Seq(Replies)
      /\ Size(r) \in Nat /\ TypeOK
      /\ ndone \in [Reqs -> Nat] /\ sent \in [Reqs -> Seq(Replies)]
  BY <1>1, ReceivedProperties DEF InvB, InvA, TypeOK
<1>3. CASE UNCHANGED <<ndone, sent>>
  BY <1>1, <1>3 DEF InvB, CountPassed, Received, Size
<1>4. CASE /\ ndone' = [ndone EXCEPT ![r] = @ + 1]
           /\ UNCHANGED sent
  <2>1. \A q \in Reqs : ndone'[q] \in Nat /\ ndone[q] <= ndone'[q]
    BY <1>2, <1>4
  <2>2. ASSUME NEW q \in Reqs, sent'[q] # << >>
        PROVE  Received(q)' /\ Len(sent'[q]) = 1 /\ Size(q)' <= ndone'[q]
    <3>1. Received(q) /\ Len(sent[q]) = 1 /\ Size(q) <= ndone[q] /\ sent' = sent
      BY <1>4, <2>2 DEF InvB, CountPassed
    <3>2. Size(q) \in Nat
      BY <1>2, <3>1, ReceivedProperties
    <3>3. QED
      BY <1>1, <1>2, <2>1, <3>1, <3>2 DEF Received, Size
  <2>3. QED
    BY <2>2 DEF CountPassed
<1>5. ASSUME NEW x, /\ ndone' = [ndone EXCEPT ![r] = @ + 1]
                    /\ LastDone(r)
                    /\ sent' = [sent EXCEPT ![r] = Append(@, x)]
      PROVE  CountPassed'
  <2>1. ndone[r] + 1 = Size(r)
    BY <1>5 DEF LastDone
  <2>2. sent[r] = << >>
    BY <1>2, <2>1 DEF InvB, CountPassed
  <2>3. ndone'[r] = Size(r) /\ sent'[r] = << x >>
    BY <1>2, <1>5, <2>1, <2>2
  <2>4. \A q \in Reqs : q # r => ndone'[q] = ndone[q] /\ sent'[q] = sent[q]
    BY <1>2, <1>5
  <2>5. Len(sent'[r]) = 1 /\ Received(r)' /\ Size(r)' <= ndone'[r]
    BY <1>1, <1>2, <2>3 DEF Received, Size
  <2>6. ASSUME NEW q \in Reqs, q # r, sent'[q] # << >>
        PROVE  Received(q)' /\ Len(sent'[q]) = 1 /\ Size(q)' <= ndone'[q]
    BY <1>1, <2>4, <2>6 DEF InvB, CountPassed, Received, Size
  <2>7. QED
    BY <2>5, <2>6 DEF CountPassed
<1>6. QED
  BY <1>1, <1>3, <1>4, <1>5, Zenon DEF Stuff

LEMMA QuietCountPassed ==
  ASSUME InvB, QuietStep
  PROVE  CountPassed'
<1>1. msg \in [Reqs -> Messages \cup {None}]
  BY DEF InvB, InvA, TypeOK
<1>2. \A q \in Reqs : Received(q) => msg'[q] = msg[q]
  BY <1>1 DEF QuietStep, Received
<1>3. QED
  BY <1>2 DEF InvB, CountPassed, QuietStep, Received, Size

LEMMA InvBInductive == (Init => InvB) /\ (InvB /\ [Next]_vars => InvB')
<1>1. Init => InvB
  BY InitInvA DEF Init, InvB, CountPassed
<1>2. ASSUME InvB, [Next]_vars PROVE InvB'
  BY <1>2, NextInvA, StepShape, StuffCountPassed, QuietCountPassed DEF InvB
<1>3. QED
  BY <1>1, <1>2

(***************************************************************************)
(* No datagram is answered twice, for any number of requests, bindings and *)
(* completions invoked again, and whatever providers answer.               *)
(***************************************************************************)
THEOREM RespondsOnce == Spec => []OneResponse
<1>1. InvB => OneResponse
  <2> SUFFICES ASSUME InvB, NEW r \in Reqs PROVE Len(sent[r]) <= 1
    BY DEF OneResponse
  <2>2. CASE sent[r] = << >>
    BY <2>2
  <2>3. CASE sent[r] # << >>
    <3>1. Len(sent[r]) = 1
      BY <2>3 DEF InvB, CountPassed
    <3>2. QED
      BY <3>1
  <2>4. QED
    BY <2>2, <2>3
<1>2. QED
  BY <1>1, InvBInductive, PTL DEF Spec

----------------------------------------------------------------------------
(***************************************************************************)
(* The account the agent keeps of a request's bindings (InvC), and that    *)
(* what it sends is what RequestReply promises (InvD).  Both rest on one   *)
(* observation: as long as no done is invoked twice, every step takes one  *)
(* binding from unreached to waiting or answered, or from waiting to       *)
(* waiting or answered.                                                    *)
(***************************************************************************)
InvC == InvB /\ EveryBindingAccounted

(* The step: binding i of r, not yet answered, is put to a provider or     *)
(* answered, or the process dies of it.                                    *)
BindingStep(r, i) ==
  /\ Alive /\ repeats = 0 /\ repeats' = 0
  /\ Received(r) /\ i <= Size(r) /\ i \notin Assigned(r)
  /\ UNCHANGED msg
  /\ \A j \in Slots : j <= cursor'[r] <=> (j <= cursor[r] \/ j = i)
  /\ \A q \in Reqs : q # r => cursor'[q] = cursor[q]
  /\ \A q \in Reqs, j \in Slots : call'[q][j] = call[q][j] \/ (q = r /\ j = i)
  /\ \/ thrown' = "short node" /\ UNCHANGED <<rsp, ndone, sent, given>>
     \/ Open(r, i)' /\ UNCHANGED <<rsp, ndone, sent, given, thrown>>
     \/ ~ Open(r, i)' /\ \E res \in Plausible(msg[r].op) : Stuff(r, i, res)

(* The other steps, as far as the account goes.                            *)
OtherStep ==
  /\ UNCHANGED <<cursor, call, rsp, ndone, sent, repeats, given>>
  /\ thrown' \in {thrown, "no request id"}
  /\ \/ UNCHANGED msg
     \/ \E r \in Reqs, m \in Messages :
           msg[r] = None /\ m # None /\ msg' = [msg EXCEPT ![r] = m]

----------------------------------------------------------------------------
(* One binding's outcome, for a binding that is not answered yet.          *)
LEMMA OneResultOutcome ==
  ASSUME TypeOK, NEW r \in Reqs, NEW i \in Slots, NEW oid \in OID,
         OneResult(r, i, oid)
  PROVE  \/ thrown' = "short node" /\ UNCHANGED <<rsp, ndone, sent, given>>
         \/ Open(r, i)' /\ UNCHANGED <<rsp, ndone, sent, given, thrown>>
         \/ ~ Open(r, i)' /\ \E res \in Plausible(msg[r].op) : Stuff(r, i, res)
<1>1. call \in [Reqs -> [Slots -> Calls \cup {None}]]
  BY DEF TypeOK
<1>2. CASE thrown' = "short node" /\ UNCHANGED <<call, rsp, ndone, sent, given>>
  BY <1>2
<1>3. CASE /\ \E node \in OID : call' = [call EXCEPT ![r][i] = ProviderCall(oid, node)]
           /\ UNCHANGED <<rsp, ndone, sent, given, thrown>>
  <2>1. PICK node \in OID : call' = [call EXCEPT ![r][i] = ProviderCall(oid, node)]
    BY <1>3
  <2>2. call'[r][i] = ProviderCall(oid, node)
    BY <1>1, <2>1
  <2>3. Open(r, i)'
    BY <2>2 DEF Open, ProviderCall, None
  <2>4. QED
    BY <1>3, <2>3
<1>4. CASE /\ call' = [call EXCEPT ![r][i] = Closed(@)]
           /\ \E val \in Vals : Stuff(r, i, Varbind(oid, val))
  <2>1. \E res \in Plausible(msg[r].op) : Stuff(r, i, res)
    <3>1. \A val \in Vals : Varbind(oid, val) \in Plausible(msg[r].op)
      BY VarbindsPlausible
    <3>2. QED
      BY <1>4, <3>1, Zenon
  <2>2. call'[r][i] = Closed(call[r][i]) /\ call[r][i] \in Calls \cup {None}
    BY <1>1, <1>4
  <2>3. ~ Open(r, i)'
    BY <2>2 DEF Open, Closed, Calls
  <2>4. QED
    BY <2>1, <2>3
<1>5. QED
  BY <1>2, <1>3, <1>4, Zenon DEF OneResult

(* The steps of a living agent whose dones are invoked once.               *)
LEMMA DispatchBindingStep ==
  ASSUME InvC, repeats = 0, NEW r \in Reqs, DispatchGetSet(r) \/ DispatchGetNext(r)
  PROVE  \E i \in Slots : BindingStep(r, i)
<1>1. PICK i \in Slots :
        /\ i = cursor[r] + 1
        /\ Alive /\ Dispatching(r) /\ UNCHANGED <<rvars, msg, repeats>>
        /\ cursor' = [cursor EXCEPT ![r] = @ + 1]
        /\ call[r][i] = None
        /\ OneResult(r, i, msg[r].vbs[i])
  BY DispatchResult DEF InvC, InvB
<1>2. /\ TypeOK /\ cursor \in [Reqs -> 0..MaxVarbinds] /\ MaxVarbinds \in Nat
      /\ Received(r) /\ cursor[r] < Size(r)
  BY <1>1, MessagesAssumption DEF InvC, InvB, InvA, TypeOK, Dispatching
<1>3. i <= Size(r) /\ msg[r].vbs[i] \in OID /\ \A j \in Slots : j \in Nat
  BY <1>1, <1>2, ReceivedProperties DEF Slots
<1>4. Accounted(r)
  BY <1>1 DEF InvC, EveryBindingAccounted
<1>5. i \notin Assigned(r)
  BY <1>1, <1>2, <1>4 DEF Accounted
<1>6. \A j \in Slots : j <= cursor'[r] <=> (j <= cursor[r] \/ j = i)
  BY <1>1, <1>2, <1>3
<1>7. \A q \in Reqs : q # r => cursor'[q] = cursor[q]
  BY <1>1, <1>2
<1>8. \A q \in Reqs, j \in Slots : call'[q][j] = call[q][j] \/ (q = r /\ j = i)
  BY <1>1, <1>2, <1>3, OneResultCalls
<1>9. \/ thrown' = "short node" /\ UNCHANGED <<rsp, ndone, sent, given>>
      \/ Open(r, i)' /\ UNCHANGED <<rsp, ndone, sent, given, thrown>>
      \/ ~ Open(r, i)' /\ \E res \in Plausible(msg[r].op) : Stuff(r, i, res)
  BY <1>1, <1>2, <1>3, OneResultOutcome
<1>10. QED
  BY <1>1, <1>2, <1>3, <1>5, <1>6, <1>7, <1>8, <1>9, Zenon DEF BindingStep

LEMMA CompleteBindingStep ==
  ASSUME InvC, repeats = 0, NEW r \in Reqs, NEW i \in Slots, Complete(r, i)
  PROVE  BindingStep(r, i)
<1>1. /\ Alive /\ Open(r, i) /\ call[r][i] # None
      /\ UNCHANGED <<rvars, msg, cursor, repeats>>
  BY DEF Complete, Open
<1>2. TypeOK /\ Received(r) /\ i <= Size(r) /\ i <= cursor[r] /\ call[r][i] \in Calls
  BY <1>1, CallReached DEF InvC, InvB, InvA
<1>3. Accounted(r)
  BY <1>1 DEF InvC, EveryBindingAccounted
<1>4. i \notin Assigned(r)
  BY <1>1, <1>3 DEF Accounted
<1>5. \A j \in Slots : j <= cursor'[r] <=> (j <= cursor[r] \/ j = i)
  BY <1>1, <1>2
<1>6. \/ \E node \in OID : OneResult(r, i, node)
      \/ /\ \E res \in Plausible(msg[r].op) : Stuff(r, i, res)
         /\ call' = [call EXCEPT ![r][i] = Closed(@)]
  BY CompleteResult DEF InvC, InvB
<1>7. CASE \E node \in OID : OneResult(r, i, node)
  <2>1. PICK node \in OID : OneResult(r, i, node)
    BY <1>7
  <2>2. \A q \in Reqs, j \in Slots : call'[q][j] = call[q][j] \/ (q = r /\ j = i)
    BY <1>2, <2>1, OneResultCalls
  <2>3. \/ thrown' = "short node" /\ UNCHANGED <<rsp, ndone, sent, given>>
        \/ Open(r, i)' /\ UNCHANGED <<rsp, ndone, sent, given, thrown>>
        \/ ~ Open(r, i)' /\ \E res \in Plausible(msg[r].op) : Stuff(r, i, res)
    BY <1>2, <2>1, OneResultOutcome
  <2>4. QED
    BY <1>1, <1>2, <1>4, <1>5, <2>2, <2>3, Zenon DEF BindingStep
<1>8. CASE /\ \E res \in Plausible(msg[r].op) : Stuff(r, i, res)
           /\ call' = [call EXCEPT ![r][i] = Closed(@)]
  <2>1. call \in [Reqs -> [Slots -> Calls \cup {None}]]
    BY <1>2 DEF TypeOK
  <2>2. \A q \in Reqs, j \in Slots : call'[q][j] = call[q][j] \/ (q = r /\ j = i)
    BY <1>8, <2>1
  <2>3. call'[r][i] = Closed(call[r][i])
    BY <1>8, <2>1
  <2>4. ~ Open(r, i)'
    BY <1>2, <2>3 DEF Open, Closed, Calls
  <2>5. QED
    BY <1>1, <1>2, <1>4, <1>5, <1>8, <2>2, <2>4, Zenon DEF BindingStep
<1>9. QED
  BY <1>6, <1>7, <1>8

LEMMA StepIsBindingStep ==
  ASSUME InvC, [Next]_vars, repeats' = 0
  PROVE  /\ repeats = 0
         /\ (\E r \in Reqs, i \in Slots : BindingStep(r, i)) \/ OtherStep
<1>1. ASSUME NEW batch \in Batches, Register(batch) PROVE OtherStep
  BY <1>1 DEF Register, OtherStep, avars
<1>2. ASSUME NEW r \in Reqs, NEW m \in Messages, Receive(r, m) PROVE OtherStep
  BY <1>2, MessageProperties DEF Receive, OtherStep, Received, Alive
<1>3. ASSUME NEW r \in Reqs, DispatchGetSet(r) \/ DispatchGetNext(r)
      PROVE  repeats = 0 /\ \E i \in Slots : BindingStep(r, i)
  BY <1>3, DispatchBindingStep DEF DispatchGetSet, DispatchGetNext
<1>4. ASSUME NEW r \in Reqs, NEW i \in Slots, Complete(r, i)
      PROVE  repeats = 0 /\ BindingStep(r, i)
  BY <1>4, CompleteBindingStep DEF Complete
<1>5. ASSUME NEW r \in Reqs, NEW i \in Slots, CompleteAgain(r, i) PROVE FALSE
  <2>1. repeats' = repeats + 1 /\ repeats \in Nat
    BY <1>5, MaxRepeatsAssumption DEF CompleteAgain, InvC, InvB, InvA, TypeOK
  <2>2. QED
    BY <2>1
<1>6. CASE UNCHANGED vars
  BY <1>6 DEF vars, avars, OtherStep
<1>7. OtherStep => repeats = 0
  BY DEF OtherStep
<1>8. QED
  BY <1>1, <1>2, <1>3, <1>4, <1>5, <1>6, <1>7 DEF Next

----------------------------------------------------------------------------
(* A response is made of finitely many assigned elements, each below the   *)
(* dispatch's position.                                                    *)
LEMMA AssignedFinite ==
  ASSUME TypeOK, NEW r \in Reqs
  PROVE  IsFiniteSet(Assigned(r)) /\ Cardinality(Assigned(r)) \in Nat
<1>1. Assigned(r) \in SUBSET Slots
  BY DEF Assigned
<1>2. IsFiniteSet(Slots)
  BY MessagesAssumption, FS_Interval DEF Slots
<1>3. IsFiniteSet(Assigned(r))
  BY <1>1, <1>2, FS_Subset
<1>4. QED
  BY <1>3, FS_CardinalityType

LEMMA AssignedMissing ==
  ASSUME InvA, NEW r \in Reqs, Accounted(r), Received(r),
         NEW i \in Slots, i <= Size(r), i \notin Assigned(r)
  PROVE  Cardinality(Assigned(r)) < Size(r)
<1>1. Size(r) \in Nat /\ cursor[r] <= Size(r) /\ cursor[r] \in Nat
  BY ReceivedProperties, MessagesAssumption DEF InvA, CallsInDispatch, TypeOK
<1>2. Assigned(r) \in SUBSET (1..Size(r))
  BY <1>1, MessagesAssumption DEF Assigned, Slots, Accounted
<1>3. /\ IsFiniteSet(1..Size(r)) /\ Cardinality(1..Size(r)) = Size(r)
      /\ i \in 1..Size(r)
  BY <1>1, FS_Interval DEF Slots
<1>4. /\ Cardinality(Assigned(r)) <= Size(r)
      /\ Size(r) = Cardinality(Assigned(r)) => 1..Size(r) = Assigned(r)
  BY <1>2, <1>3, FS_Subset
<1>5. Cardinality(Assigned(r)) \in Nat
  BY AssignedFinite DEF InvA
<1>6. QED
  BY <1>1, <1>3, <1>4, <1>5

----------------------------------------------------------------------------
(* What stuffing an unanswered binding does to its response.               *)
LEMMA StuffAssigns ==
  ASSUME TypeOK, NEW r \in Reqs, Received(r), NEW i \in Slots, i <= Size(r),
         NEW res \in Results, Stuff(r, i, res), Alive'
  PROVE  /\ res.kind \in {"varbind", "code"}
         /\ rsp' = [rsp EXCEPT ![r] = SetSingle(rsp[r], msg[r].vbs, i, res)]
         /\ ndone' = [ndone EXCEPT ![r] = @ + 1]
         /\ given' = [given EXCEPT ![r][i] = IF @ = None THEN res ELSE @]
         /\ \/ LastDone(r) /\ sent' = [sent EXCEPT ![r] = Append(@, Encoded(rsp'[r]))]
               /\ Encodable(rsp'[r])
            \/ ~ LastDone(r) /\ UNCHANGED sent
         /\ \A q \in Reqs : Assigned(q)' = IF q = r THEN Assigned(q) \cup {i} ELSE Assigned(q)
<1> DEFINE full == SetSingle(rsp[r], msg[r].vbs, i, res)
<1>1. StuffThrows(msg[r].op, msg[r].vbs[i], res) = "no"
  BY Zenon DEF Stuff, Alive
<1>2. res.kind \in {"varbind", "code"}
  BY <1>1 DEF StuffThrows, SetSingleThrows, Results, Varbinds, Undefined, Junk
<1>3. /\ rsp' = [rsp EXCEPT ![r] = full]
      /\ ndone' = [ndone EXCEPT ![r] = @ + 1]
      /\ given' = [given EXCEPT ![r][i] = IF @ = None THEN res ELSE @]
      /\ IF LastDone(r) /\ Encodable(full)
         THEN sent' = [sent EXCEPT ![r] = Append(@, Encoded(full))]
         ELSE UNCHANGED sent
      /\ thrown' = IF LastDone(r) /\ ~ Encodable(full)
                   THEN "unassigned varbind" ELSE "no"
  BY <1>1, Zenon DEF Stuff
<1>4. rsp[r] \in Responses /\ rsp \in [Reqs -> Responses]
  BY DEF TypeOK
<1>5. full.vbs = [rsp[r].vbs EXCEPT ![i] = IF res.kind = "varbind" THEN res
                                          ELSE Varbind(msg[r].vbs[i], "echo")]
  BY <1>4, <1>2 DEF SetSingle, Responses
<1>6. res.kind = "varbind" => res # None
  BY DEF None
<1>7. Varbind(msg[r].vbs[i], "echo") # None
  BY DEF Varbind, None
<1> HIDE DEF full
<1>8. rsp'[r] = full /\ \A q \in Reqs : q # r => rsp'[q] = rsp[q]
  BY <1>3, <1>4
<1>9. \A j \in Slots : full.vbs[j] # None <=> (rsp[r].vbs[j] # None \/ j = i)
  BY <1>4, <1>5, <1>6, <1>7 DEF Responses
<1>10. \A q \in Reqs : Assigned(q)' = IF q = r THEN Assigned(q) \cup {i} ELSE Assigned(q)
  BY <1>8, <1>9 DEF Assigned
<1>11. LastDone(r) => Encodable(full)
  BY <1>3, Zenon DEF Alive
<1>12. QED
  BY <1>2, <1>3, <1>8, <1>10, <1>11 DEF full

LEMMA BindingStepAccounts ==
  ASSUME InvC, NEW r \in Reqs, NEW i \in Slots, BindingStep(r, i), Alive'
  PROVE  \A q \in Reqs : Accounted(q)'
<1>1. /\ \A q \in Reqs : Accounted(q)
      /\ TypeOK /\ InvA /\ CountPassed
  BY DEF BindingStep, InvC, InvB, InvA, EveryBindingAccounted
<1>2. /\ msg' = msg
      /\ Received(r) /\ i <= Size(r) /\ i \notin Assigned(r)
      /\ \A j \in Slots : j <= cursor'[r] <=> (j <= cursor[r] \/ j = i)
      /\ \A q \in Reqs : q # r => cursor'[q] = cursor[q]
      /\ \A q \in Reqs, j \in Slots : call'[q][j] = call[q][j] \/ (q = r /\ j = i)
  BY DEF BindingStep
<1>3. \A q \in Reqs, j \in Slots : q # r \/ j # i => (Open(q, j)' <=> Open(q, j))
  BY <1>2 DEF Open
<1>4. \A q \in Reqs : (Received(q)' <=> Received(q)) /\ Size(q)' = Size(q)
  BY <1>2 DEF Received, Size
<1>5. CASE Open(r, i)' /\ UNCHANGED <<rsp, ndone, sent, given, thrown>>
  <2>1. \A q \in Reqs : Assigned(q)' = Assigned(q) /\ ndone'[q] = ndone[q] /\ sent'[q] = sent[q]
    BY <1>5 DEF Assigned
  <2>2. QED
    BY <1>1, <1>2, <1>3, <1>4, <1>5, <2>1 DEF Accounted
<1>6. CASE ~ Open(r, i)' /\ \E res \in Plausible(msg[r].op) : Stuff(r, i, res)
  <2>1. PICK res \in Results : Stuff(r, i, res)
    BY <1>6 DEF Plausible
  <2>2. /\ ndone' = [ndone EXCEPT ![r] = @ + 1]
        /\ \/ LastDone(r) /\ sent' = [sent EXCEPT ![r] = Append(@, Encoded(rsp'[r]))]
           \/ ~ LastDone(r) /\ UNCHANGED sent
        /\ \A q \in Reqs : Assigned(q)' = IF q = r THEN Assigned(q) \cup {i} ELSE Assigned(q)
    BY <1>1, <1>2, <2>1, StuffAssigns
  <2>3. ndone \in [Reqs -> Nat] /\ sent \in [Reqs -> Seq(Replies)]
    BY <1>1 DEF TypeOK
  <2>4. ASSUME NEW q \in Reqs, q # r PROVE Accounted(q)'
    <3>1. Assigned(q)' = Assigned(q) /\ ndone'[q] = ndone[q] /\ sent'[q] = sent[q]
      BY <2>2, <2>3, <2>4
    <3>2. QED
      BY <1>1, <1>2, <1>3, <1>4, <2>4, <3>1 DEF Accounted
  <2>5. Accounted(r)'
    <3>1. /\ Cardinality(Assigned(r)) \in Nat /\ Size(r) \in Nat
          /\ Cardinality(Assigned(r)) < Size(r)
          /\ ndone[r] = Cardinality(Assigned(r))
      BY <1>1, <1>2, AssignedFinite, AssignedMissing, ReceivedProperties DEF Accounted
    <3>2. Cardinality(Assigned(r)') = Cardinality(Assigned(r)) + 1
      BY <1>1, <1>2, <2>2, AssignedFinite, FS_AddElement
    <3>3. sent[r] = << >>
      BY <1>1, <3>1 DEF Accounted
    <3>4. ndone'[r] = ndone[r] + 1
      BY <2>2, <2>3
    <3>5. LastDone(r) <=> Cardinality(Assigned(r)') = Size(r)
      BY <3>1, <3>2 DEF LastDone
    <3>6. LastDone(r) => sent'[r] = << Encoded(rsp'[r]) >>
      BY <2>2, <2>3, <3>3
    <3>7. ~ LastDone(r) => sent'[r] = << >>
      BY <2>2, <3>3
    <3>8. sent'[r] # << >> <=> /\ Received(r)' /\ Size(r)' > 0
                               /\ Cardinality(Assigned(r)') = Size(r)'
      <4>1. Received(r)' /\ Size(r)' = Size(r) /\ Size(r) > 0
        BY <1>2, <1>4, <3>1
      <4>2. CASE LastDone(r)
        <5>1. sent'[r] # << >>
          BY <4>2, <3>6
        <5>2. QED
          BY <4>1, <4>2, <5>1, <3>5
      <4>3. CASE ~ LastDone(r)
        BY <4>1, <4>3, <3>5, <3>7
      <4>4. QED
        BY <4>2, <4>3
    <3>9. \A j \in Slots : j <= cursor'[r] <=> (Open(r, j)' \/ j \in Assigned(r)')
      BY <1>1, <1>2, <1>3, <1>6, <2>2 DEF Accounted
    <3>10. \A j \in Slots : ~ (Open(r, j)' /\ j \in Assigned(r)')
      BY <1>1, <1>3, <1>6, <2>2 DEF Accounted
    <3>11. QED
      BY <3>1, <3>2, <3>4, <3>8, <3>9, <3>10 DEF Accounted
  <2>6. QED
    BY <2>4, <2>5
<1>7. QED
  BY <1>5, <1>6 DEF BindingStep, Alive

LEMMA OtherStepAccounts ==
  ASSUME InvC, Alive, repeats = 0, OtherStep
  PROVE  \A q \in Reqs : Accounted(q)'
<1>1. /\ \A q \in Reqs : Accounted(q)
      /\ TypeOK /\ InvA /\ CountPassed
  BY DEF InvC, InvB, InvA, EveryBindingAccounted
<1>2. msg \in [Reqs -> Messages \cup {None}]
  BY <1>1 DEF TypeOK
<1>3. /\ UNCHANGED <<cursor, call, rsp, ndone, sent>>
      /\ \/ UNCHANGED msg
         \/ \E r \in Reqs, m \in Messages :
               msg[r] = None /\ m # None /\ msg' = [msg EXCEPT ![r] = m]
  BY DEF OtherStep
<1>4. ASSUME NEW q \in Reqs PROVE Accounted(q)'
  <2>1. /\ \A j \in Slots : Open(q, j)' <=> Open(q, j)
        /\ Assigned(q)' = Assigned(q) /\ cursor'[q] = cursor[q]
        /\ ndone'[q] = ndone[q] /\ sent'[q] = sent[q]
    BY <1>3 DEF Open, Assigned
  <2>2. CASE msg'[q] = msg[q]
    BY <1>1, <2>1, <2>2 DEF Accounted, Received, Size
  <2>3. CASE msg'[q] # msg[q]
    <3>1. ~ Received(q) /\ Received(q)' /\ msg'[q] \in Messages
      BY <1>2, <1>3, <2>3 DEF Received
    <3>2. cursor[q] = 0 /\ sent[q] = << >>
      BY <1>1, <3>1 DEF InvA, CallsInDispatch, CountPassed
    <3>3. Assigned(q) = {}
      <4>1. \A j \in Slots : ~ (j <= 0)
        BY MessagesAssumption DEF Slots
      <4>2. QED
        BY <1>1, <3>2, <4>1 DEF Accounted, Assigned
    <3>4. Cardinality(Assigned(q)) = 0
      BY <3>3, FS_EmptySet
    <3>5. Size(q)' \in Nat
      BY <3>1, MessageProperties DEF Size
    <3>6. sent'[q] # << >> <=> /\ Received(q)' /\ Size(q)' > 0
                               /\ Cardinality(Assigned(q)') = Size(q)'
      BY <2>1, <3>2, <3>4, <3>5
    <3>7. QED
      BY <1>1, <2>1, <3>6 DEF Accounted
  <2>4. QED
    BY <2>2, <2>3
<1>5. QED
  BY <1>4

LEMMA InvCInductive == (Init => InvC) /\ (InvC /\ [Next]_vars => InvC')
<1>1. ASSUME Init PROVE InvC
  <2>1. InvB
    BY <1>1, InvBInductive
  <2>2. ASSUME NEW r \in Reqs PROVE Accounted(r)
    <3>1. \A j \in Slots : ~ (j <= 0)
      BY MessagesAssumption DEF Slots
    <3>2. Assigned(r) = {} /\ \A j \in Slots : ~ Open(r, j)
      BY <1>1 DEF Init, Assigned, EmptyResponse, Blank, Open
    <3>3. Cardinality(Assigned(r)) = 0
      BY <3>2, FS_EmptySet
    <3>4. QED
      BY <1>1, <3>1, <3>2, <3>3 DEF Init, Accounted, Received
  <2>3. QED
    BY <2>1, <2>2 DEF InvC, EveryBindingAccounted
<1>2. ASSUME InvC, [Next]_vars PROVE InvC'
  <2>1. InvB'
    BY <1>2, InvBInductive DEF InvC
  <2>2. ASSUME Alive', repeats' = 0 PROVE \A q \in Reqs : Accounted(q)'
    BY <1>2, <2>2, StepIsBindingStep, BindingStepAccounts, OtherStepAccounts
       DEF OtherStep, Alive
  <2>3. QED
    BY <2>1, <2>2 DEF InvC, EveryBindingAccounted
<1>3. QED
  BY <1>1, <1>2

(***************************************************************************)
(* For any number of requests and bindings, and whatever providers answer  *)
(* and in whatever order, as long as no done is invoked twice every        *)
(* binding is accounted for: it waits or it is answered, the count is      *)
(* right, and the response has gone out exactly when nothing is missing.   *)
(***************************************************************************)
THEOREM AccountKept == Spec => []EveryBindingAccounted
<1>1. InvC => EveryBindingAccounted
  BY DEF InvC
<1>2. QED
  BY <1>1, InvCInductive, PTL DEF Spec

----------------------------------------------------------------------------
(***************************************************************************)
(* What the response under construction holds, binding by binding: what    *)
(* the binding was first given, or its request's name if that was a code;  *)
(* and its error is the code of the first of these.                        *)
(***************************************************************************)
Coded(r) == { i \in Slots : given[r][i].kind = "code" }

HoldsGiven(r) ==
  \A i \in Slots :
     /\ given[r][i] # None <=> i \in Assigned(r)
     /\ i \in Assigned(r) =>
           \/ /\ given[r][i].kind = "varbind"
              /\ rsp[r].vbs[i] = given[r][i]
           \/ /\ given[r][i].kind = "code" /\ given[r][i].code # noError
              /\ rsp[r].vbs[i] = Varbind(msg[r].vbs[i], "echo")

HoldsFirstError(r) ==
  /\ Coded(r) = {} => rsp[r].status = noError /\ rsp[r].index = 0
  /\ Coded(r) # {} => /\ rsp[r].index \in Coded(r)
                      /\ \A j \in Coded(r) : rsp[r].index <= j
                      /\ rsp[r].status = given[r][rsp[r].index].code

Holds(r) == HoldsGiven(r) /\ HoldsFirstError(r)

InvD == InvC /\ (Alive /\ repeats = 0 => \A r \in Reqs : Holds(r))

(* The case for one binding more.                                          *)
LEMMA StuffHolds ==
  ASSUME NoErrorUnused, TypeOK, NEW r \in Reqs, Received(r), NEW i \in Slots,
         i <= Size(r), i \notin Assigned(r), \A q \in Reqs : Holds(q), UNCHANGED msg,
         NEW res \in Plausible(msg[r].op), Stuff(r, i, res), Alive'
  PROVE  \A q \in Reqs : Holds(q)'
<1>1. /\ res.kind \in {"varbind", "code"} /\ res \in Results
      /\ rsp' = [rsp EXCEPT ![r] = SetSingle(rsp[r], msg[r].vbs, i, res)]
      /\ given' = [given EXCEPT ![r][i] = IF @ = None THEN res ELSE @]
      /\ \A q \in Reqs : Assigned(q)' = IF q = r THEN Assigned(q) \cup {i} ELSE Assigned(q)
  BY StuffAssigns DEF Plausible
<1>2. /\ rsp \in [Reqs -> Responses]
      /\ given \in [Reqs -> [Slots -> Results \cup {None}]]
  BY DEF TypeOK
<1>3. given[r][i] = None
  BY DEF Holds, HoldsGiven
<1>4. res # None
  BY <1>1 DEF None
<1>5. res.kind = "code" => res.code # noError /\ res.code \in Errors
  BY <1>1 DEF Plausible, Results, Code, Varbinds, Undefined, Junk
<1>6. given' = [given EXCEPT ![r][i] = res]
  BY <1>1, <1>3
<1>7. \A j \in Slots : given'[r][j] = IF j = i THEN res ELSE given[r][j]
  BY <1>2, <1>6
<1>8. ASSUME NEW q \in Reqs, q # r PROVE Holds(q)'
  <2>1. /\ rsp'[q] = rsp[q] /\ given'[q] = given[q] /\ Assigned(q)' = Assigned(q)
        /\ msg'[q] = msg[q]
    BY <1>1, <1>2, <1>6, <1>8
  <2>2. QED
    BY <2>1 DEF Holds, HoldsGiven, HoldsFirstError, Coded
<1> DEFINE full == SetSingle(rsp[r], msg[r].vbs, i, res)
<1>9. /\ full.vbs = [rsp[r].vbs EXCEPT ![i] = IF res.kind = "varbind" THEN res
                                              ELSE Varbind(msg[r].vbs[i], "echo")]
      /\ full.status = IF res.kind = "code" /\ (rsp[r].status = noError \/ i < rsp[r].index)
                       THEN res.code ELSE rsp[r].status
      /\ full.index = IF res.kind = "code" /\ (rsp[r].status = noError \/ i < rsp[r].index)
                      THEN i ELSE rsp[r].index
  BY <1>1, <1>2 DEF SetSingle, Responses
<1> HIDE DEF full
<1>10. rsp'[r] = full
  BY <1>1, <1>2 DEF full
<1>11. HoldsGiven(r)'
  <2>1. \A j \in Slots : full.vbs[j] = IF j = i THEN (IF res.kind = "varbind" THEN res
                                                      ELSE Varbind(msg[r].vbs[i], "echo"))
                                        ELSE rsp[r].vbs[j]
    BY <1>2, <1>9 DEF Responses
  <2>2. Assigned(r)' = Assigned(r) \cup {i}
    BY <1>1
  <2>3. ASSUME NEW j \in Slots
        PROVE  /\ given'[r][j] # None <=> j \in Assigned(r)'
               /\ j \in Assigned(r)' =>
                     \/ /\ given'[r][j].kind = "varbind"
                        /\ rsp'[r].vbs[j] = given'[r][j]
                     \/ /\ given'[r][j].kind = "code" /\ given'[r][j].code # noError
                        /\ rsp'[r].vbs[j] = Varbind(msg'[r].vbs[j], "echo")
    <3>1. CASE j = i
      BY <1>1, <1>4, <1>5, <1>7, <1>10, <2>1, <2>2, <3>1
    <3>2. CASE j # i
      BY <1>7, <1>10, <2>1, <2>2, <3>2 DEF Holds, HoldsGiven
    <3>3. QED
      BY <3>1, <3>2
  <2>4. QED
    BY <2>3 DEF HoldsGiven
<1>12. HoldsFirstError(r)'
  <2>1. HoldsFirstError(r) /\ HoldsGiven(r)
    BY DEF Holds
  <2>2. Coded(r)' = IF res.kind = "code" THEN Coded(r) \cup {i} ELSE Coded(r)
    BY <1>3, <1>7 DEF Coded, None
  <2>3. i \notin Coded(r)
    BY <1>3 DEF Coded, None
  <2>4. \A j \in Slots : j \in Nat
    BY MessagesAssumption DEF Slots
  <2>5. Coded(r) \subseteq Slots
    BY DEF Coded
  <2>6. Coded(r) # {} => rsp[r].status # noError
    BY <2>1, <2>5 DEF HoldsFirstError, HoldsGiven, Coded, None
  <2>7. CASE res.kind # "code"
    <3>1. Coded(r)' = Coded(r) /\ rsp'[r].status = rsp[r].status /\ rsp'[r].index = rsp[r].index
      BY <1>9, <1>10, <2>2, <2>7
    <3>2. \A j \in Coded(r) : given'[r][j] = given[r][j]
      BY <1>7, <2>3, <2>5
    <3>3. QED
      BY <2>1, <3>1, <3>2 DEF HoldsFirstError
  <2>8. CASE res.kind = "code" /\ (rsp[r].status = noError \/ i < rsp[r].index)
    <3>1. rsp'[r].status = res.code /\ rsp'[r].index = i /\ Coded(r)' = Coded(r) \cup {i}
      BY <1>9, <1>10, <2>2, <2>8
    <3>2. \A j \in Coded(r) : i <= j
      BY <2>1, <2>4, <2>5, <2>6, <2>8 DEF HoldsFirstError
    <3>3. QED
      BY <1>7, <2>4, <3>1, <3>2 DEF HoldsFirstError
  <2>9. CASE res.kind = "code" /\ ~ (rsp[r].status = noError \/ i < rsp[r].index)
    <3>1. /\ rsp'[r].status = rsp[r].status /\ rsp'[r].index = rsp[r].index
          /\ Coded(r)' = Coded(r) \cup {i}
      BY <1>9, <1>10, <2>2, <2>9
    <3>2. Coded(r) # {}
      BY <2>1, <2>9 DEF HoldsFirstError
    <3>3. rsp[r].index \in Coded(r) /\ rsp[r].index <= i
      BY <2>1, <2>4, <2>5, <2>9, <3>2 DEF HoldsFirstError
    <3>4. given'[r][rsp[r].index] = given[r][rsp[r].index]
      BY <1>7, <2>3, <2>5, <3>3
    <3>5. QED
      BY <2>1, <3>1, <3>2, <3>3, <3>4 DEF HoldsFirstError
  <2>10. QED
    BY <2>7, <2>8, <2>9
<1>13. QED
  BY <1>8, <1>11, <1>12 DEF Holds

LEMMA OtherStepHolds ==
  ASSUME InvC, Alive, repeats = 0, \A q \in Reqs : Holds(q), OtherStep
  PROVE  \A q \in Reqs : Holds(q)'
<1>1. InvA /\ TypeOK /\ \A q \in Reqs : Accounted(q)
  BY DEF InvC, InvB, InvA, EveryBindingAccounted
<1>2. /\ UNCHANGED <<rsp, given>>
      /\ \A q \in Reqs : Received(q) => msg'[q] = msg[q]
  BY <1>1 DEF OtherStep, TypeOK, Received
<1>3. ASSUME NEW q \in Reqs, ~ Received(q) PROVE Assigned(q) = {}
  <2>1. cursor[q] = 0 /\ \A j \in Slots : ~ (j <= 0)
    BY <1>1, <1>3, MessagesAssumption DEF InvA, CallsInDispatch, Slots
  <2>2. QED
    BY <1>1, <2>1 DEF Accounted, Assigned
<1>4. \A q \in Reqs : Assigned(q)' = Assigned(q)
  BY <1>2 DEF Assigned
<1>5. ASSUME NEW q \in Reqs PROVE HoldsGiven(q)' /\ HoldsFirstError(q)'
  <2>1. HoldsFirstError(q)'
    BY <1>2 DEF Holds, HoldsFirstError, Coded
  <2>2. HoldsGiven(q)'
    BY <1>2, <1>3, <1>4 DEF Holds, HoldsGiven
  <2>3. QED
    BY <2>1, <2>2
<1>6. QED
  BY <1>5 DEF Holds

LEMMA CountTo ==
  ASSUME NEW n \in Nat
  PROVE  IsFiniteSet(1..n) /\ Cardinality(1..n) = n
BY FS_Interval

(* With the last answer in, the response has no gap, so that an answer     *)
(* kills the process only if _varbind_set_single chokes on it.             *)
LEMMA StuffOutcome ==
  ASSUME InvC, Alive, repeats = 0, NEW r \in Reqs, Received(r), NEW i \in Slots,
         i <= Size(r), i \notin Assigned(r), NEW res \in Results, Stuff(r, i, res)
  PROVE  LET why == StuffThrows(msg[r].op, msg[r].vbs[i], res)
         IN IF why = "no" THEN Alive'
            ELSE thrown' = why /\ UNCHANGED <<rsp, ndone, sent, given>>
<1> DEFINE full == SetSingle(rsp[r], msg[r].vbs, i, res)
<1>1. CASE StuffThrows(msg[r].op, msg[r].vbs[i], res) # "no"
  BY <1>1, Zenon DEF Stuff
<1>2. CASE StuffThrows(msg[r].op, msg[r].vbs[i], res) = "no"
  <2>1. thrown' = IF LastDone(r) /\ ~ Encodable(full) THEN "unassigned varbind" ELSE "no"
    BY <1>2, Zenon DEF Stuff
  <2>2. InvA /\ TypeOK /\ Accounted(r)
    BY DEF InvC, InvB, InvA, EveryBindingAccounted
  <2>3. ASSUME LastDone(r) PROVE Encodable(full)
    <3>1. /\ Size(r) \in Nat /\ Size(r) <= MaxVarbinds /\ MaxVarbinds \in Nat
          /\ cursor[r] <= Size(r) /\ cursor[r] \in Nat /\ msg[r].vbs[i] \in OID
      BY <2>2, ReceivedProperties, MessagesAssumption DEF InvA, CallsInDispatch, TypeOK, Slots
    <3>2. Assigned(r) \cup {i} \in SUBSET (1..Size(r))
      BY <2>2, <3>1 DEF Accounted, Assigned, Slots
    <3>3. Cardinality(Assigned(r) \cup {i}) = Size(r)
      <4>1. IsFiniteSet(Assigned(r))
        BY <2>2, AssignedFinite
      <4>2. Cardinality(Assigned(r) \cup {i}) = Cardinality(Assigned(r)) + 1
        BY <4>1, FS_AddElement
      <4>3. Cardinality(Assigned(r)) + 1 = Size(r)
        BY <2>2, <2>3 DEF Accounted, LastDone
      <4>4. QED
        BY <4>2, <4>3
    <3>4. Assigned(r) \cup {i} = 1..Size(r)
      <4>1. IsFiniteSet(1..Size(r)) /\ Cardinality(1..Size(r)) = Size(r)
        BY <3>1, CountTo
      <4>2. QED
        BY <3>2, <3>3, <4>1, FS_Subset
    <3>5. res.kind \in {"varbind", "code"}
      BY <1>2 DEF StuffThrows, SetSingleThrows, Results, Varbinds, Undefined, Junk
    <3>6. rsp[r] \in Responses
      BY <2>2 DEF TypeOK
    <3>7. full \in Responses
      BY <3>1, <3>5, <3>6, SetSingleType
    <3>8. full.vbs = [rsp[r].vbs EXCEPT ![i] = IF res.kind = "varbind" THEN res
                                              ELSE Varbind(msg[r].vbs[i], "echo")]
      BY <3>5, <3>6 DEF SetSingle, Responses
    <3>9. \A j \in Slots : full.vbs[j] # None <=> j \in Assigned(r) \cup {i}
      BY <3>5, <3>6, <3>8 DEF Assigned, Responses, Varbind, None
    <3> HIDE DEF full
    <3>10. \A j \in 1..Size(r) : j \in Slots /\ full.vbs[j] # None
      BY <3>1, <3>4, <3>9 DEF Slots
    <3>11. Length(full) <= Size(r) /\ Length(full) \in Nat
      <4>1. /\ Length(full) \in 0..MaxVarbinds
            /\ Length(full) > 0 => full.vbs[Length(full)] # None
        BY <3>7, LengthProperties
      <4>2. CASE Length(full) > 0
        BY <3>1, <3>4, <3>9, <4>1, <4>2 DEF Slots
      <4>3. QED
        BY <3>1, <4>1, <4>2
    <3>12. QED
      BY <3>1, <3>10, <3>11 DEF Encodable
  <2>4. QED
    BY <1>2, <2>1, <2>3, Zenon DEF Alive
<1>3. QED
  BY <1>1, <1>2, Zenon

LEMMA InvDInductive ==
  ASSUME NoErrorUnused
  PROVE  (Init => InvD) /\ (InvD /\ [Next]_vars => InvD')
<1>1. ASSUME Init PROVE InvD
  <2>1. InvC
    BY <1>1, InvCInductive
  <2>2. ASSUME NEW r \in Reqs PROVE Holds(r)
    BY <1>1 DEF Init, Holds, HoldsGiven, HoldsFirstError, Coded, Assigned, EmptyResponse,
                Blank, None
  <2>3. QED
    BY <2>1, <2>2 DEF InvD
<1>2. ASSUME InvD, [Next]_vars PROVE InvD'
  <2>1. InvC'
    BY <1>2, InvCInductive DEF InvD
  <2>2. ASSUME Alive', repeats' = 0 PROVE \A q \in Reqs : Holds(q)'
    <3>1. /\ repeats = 0
          /\ (\E r \in Reqs, i \in Slots : BindingStep(r, i)) \/ OtherStep
      BY <1>2, <2>2, StepIsBindingStep DEF InvD
    <3>2. CASE OtherStep
      BY <1>2, <2>2, <3>1, <3>2, OtherStepHolds DEF InvD, OtherStep, Alive
    <3>3. ASSUME NEW r \in Reqs, NEW i \in Slots, BindingStep(r, i)
          PROVE  \A q \in Reqs : Holds(q)'
      <4>1. /\ Received(r) /\ i <= Size(r) /\ i \notin Assigned(r) /\ UNCHANGED msg
            /\ TypeOK /\ \A q \in Reqs : Holds(q)
        BY <1>2, <3>3 DEF BindingStep, InvD, InvC, InvB, InvA
      <4>2. CASE UNCHANGED <<rsp, ndone, sent, given>>
        BY <4>1, <4>2 DEF Holds, HoldsGiven, HoldsFirstError, Coded, Assigned
      <4>3. CASE \E res \in Plausible(msg[r].op) : Stuff(r, i, res)
        BY <2>2, <4>1, <4>3, StuffHolds
      <4>4. QED
        BY <3>3, <4>2, <4>3 DEF BindingStep
    <3>4. QED
      BY <3>1, <3>2, <3>3
  <2>3. QED
    BY <2>1, <2>2 DEF InvD
<1>3. QED
  BY <1>1, <1>2

----------------------------------------------------------------------------
(* A complete response, once encoded, is the reply that was promised.      *)
LEMMA EncodedIsReply ==
  ASSUME NEW m \in Messages, NEW response \in Responses,
         NEW results \in [Slots -> Results \cup {None}],
         \A i \in Slots : response.vbs[i] # None <=> i <= Len(m.vbs),
         \A i \in 1..Len(m.vbs) :
            \/ results[i].kind = "varbind" /\ response.vbs[i] = results[i]
            \/ results[i].kind = "code" /\ response.vbs[i] = Varbind(m.vbs[i], "echo"),
         NEW C, C = { i \in 1..Len(m.vbs) : results[i].kind = "code" },
         C = {} => response.status = noError /\ response.index = 0,
         C # {} => /\ response.index \in C
                   /\ \A j \in C : response.index <= j
                   /\ response.status = results[response.index].code
  PROVE  Encoded(response) = RR!Reply(m, results)
<1> DEFINE n == Len(m.vbs)
           whole == [i \in 1..n |-> IF i \in C
                                    THEN [kind |-> "varbind", name |-> m.vbs[i], val |-> "echo"]
                                    ELSE results[i]]
<1>1. n \in Nat /\ n <= MaxVarbinds /\ MaxVarbinds \in Nat /\ \A i \in 1..n : i \in Slots
  BY MessageProperties, MessagesAssumption DEF Slots
<1>2. Length(response) = n
  <2>1. /\ Length(response) \in 0..MaxVarbinds
        /\ \A i \in Slots : response.vbs[i] # None => i <= Length(response)
        /\ Length(response) > 0 => response.vbs[Length(response)] # None
    BY LengthProperties
  <2>2. n > 0 => n <= Length(response)
    BY <1>1, <2>1 DEF Slots
  <2>3. Length(response) > 0 => Length(response) <= n
    BY <1>1, <2>1 DEF Slots
  <2>4. QED
    BY <1>1, <2>1, <2>2, <2>3
<1>3. \A i \in 1..n : response.vbs[i] = whole[i]
  BY DEF Varbind
<1>4. SubSeq(response.vbs, 1, n) = whole
  <2>1. SubSeq(response.vbs, 1, n) = [i \in 1..n |-> response.vbs[i]]
    BY <1>1
  <2>2. QED
    BY <1>3, <2>1
<1>5. RR!Failed(results, n) = C
  BY DEF RR!Failed
<1>6. C # {} => RR!First(C) = response.index
  <2>1. \A i \in C : i \in Nat
    BY <1>1
  <2> HIDE DEF whole
  <2>2. ASSUME C # {} PROVE RR!First(C) \in C /\ \A j \in C : RR!First(C) <= j
    BY <2>2, Zenon DEF RR!First
  <2>3. QED
    BY <2>1, <2>2
<1>7. Encoded(response) = [vbs |-> whole, status |-> response.status, index |-> response.index]
  <2> HIDE DEF n, whole
  <2>1. Encoded(response) = [response EXCEPT !.vbs = whole]
    BY <1>2, <1>4, Zenon DEF Encoded
  <2>2. [response EXCEPT !.vbs = whole]
          = [vbs |-> whole, status |-> response.status, index |-> response.index]
    BY DEF Responses
  <2>3. QED
    BY <2>1, <2>2
<1>8. RR!Reply(m, results) =
        [vbs |-> whole, status |-> IF C = {} THEN 0 ELSE results[RR!First(C)].code,
         index |-> IF C = {} THEN 0 ELSE RR!First(C)]
  BY <1>5, Zenon DEF RR!Reply
<1>9. QED
  BY <1>6, <1>7, <1>8 DEF noError

(* A binding answered is a binding given its result in RequestReply.       *)
LEMMA StuffGives ==
  ASSUME NoErrorUnused, InvD, Alive, repeats = 0, NEW r \in Reqs, Received(r),
         NEW i \in Slots, i <= Size(r), i \notin Assigned(r), UNCHANGED msg,
         NEW res \in Plausible(msg[r].op), Stuff(r, i, res), Alive',
         InvD', repeats' = 0, msg[r].op \in Handled
  PROVE  RR!Give(r, i, given'[r][i])
<1>1. /\ InvA /\ TypeOK /\ Accounted(r) /\ Holds(r)
      /\ InvA' /\ TypeOK' /\ Accounted(r)' /\ Holds(r)' /\ res \in Results
  BY DEF InvD, InvC, InvB, InvA, EveryBindingAccounted, Plausible
<1>2. /\ res.kind \in {"varbind", "code"}
      /\ given' = [given EXCEPT ![r][i] = IF @ = None THEN res ELSE @]
      /\ \/ LastDone(r) /\ sent' = [sent EXCEPT ![r] = Append(@, Encoded(rsp'[r]))]
         \/ ~ LastDone(r) /\ UNCHANGED sent
      /\ Assigned(r)' = Assigned(r) \cup {i}
  BY <1>1, StuffAssigns
<1>3. given[r][i] = None
  BY <1>1 DEF Holds, HoldsGiven
<1>4. /\ given \in [Reqs -> [Slots -> Results \cup {None}]]
      /\ given' \in [Reqs -> [Slots -> Results \cup {None}]]
      /\ sent \in [Reqs -> Seq(Replies)] /\ rsp'[r] \in Responses
  BY <1>1 DEF TypeOK
<1>5. given' = [given EXCEPT ![r][i] = given'[r][i]] /\ given'[r][i] = res
  BY <1>2, <1>3, <1>4
<1>6. /\ msg[r] \in Messages /\ Size(r) \in Nat /\ Size(r) <= MaxVarbinds
      /\ MaxVarbinds \in Nat /\ cursor'[r] <= Size(r) /\ cursor'[r] \in Nat
      /\ \A j \in 1..Size(r) : j \in Slots
  BY <1>1, ReceivedProperties, MessagesAssumption
     DEF InvA, CallsInDispatch, TypeOK, Received, Size, Slots
<1>7. Assigned(r)' \in SUBSET (1..Size(r))
  BY <1>1, <1>6 DEF Accounted, Assigned, Slots
<1>8. LastDone(r) <=> Assigned(r)' = 1..Size(r)
  <2>1. IsFiniteSet(1..Size(r)) /\ Cardinality(1..Size(r)) = Size(r)
    <3>1. Size(r) \in Nat
      BY <1>6
    <3>2. QED
      BY <3>1, FS_Interval
  <2>2. Cardinality(Assigned(r)') = Size(r) => Assigned(r)' = 1..Size(r)
    BY <1>7, <2>1, FS_Subset
  <2>3. Cardinality(Assigned(r) \cup {i}) = Cardinality(Assigned(r)) + 1
    BY <1>1, AssignedFinite, FS_AddElement
  <2>4. LastDone(r) <=> Cardinality(Assigned(r)) + 1 = Size(r)
    BY <1>1 DEF LastDone, Accounted
  <2>5. QED
    BY <1>2, <2>1, <2>2, <2>3, <2>4
<1>9. RR!Answered(msg[r], given'[r]) <=> LastDone(r)
  <2>1. \A j \in 1..Size(r) : given'[r][j] # None <=> j \in Assigned(r)'
    BY <1>1, <1>6 DEF Holds, HoldsGiven
  <2>2. QED
    BY <1>7, <1>8, <2>1 DEF RR!Answered, Size
<1>10. ASSUME LastDone(r) PROVE sent' = [sent EXCEPT ![r] = << RR!Reply(msg[r], given'[r]) >>]
  <2>1. Assigned(r)' = 1..Size(r)
    BY <1>8, <1>10
  <2>2. \A j \in Slots : rsp'[r].vbs[j] # None <=> j <= Len(msg[r].vbs)
    BY <1>6, <2>1 DEF Assigned, Size, Slots
  <2>3. \A j \in 1..Len(msg[r].vbs) :
           \/ given'[r][j].kind = "varbind" /\ rsp'[r].vbs[j] = given'[r][j]
           \/ given'[r][j].kind = "code" /\ rsp'[r].vbs[j] = Varbind(msg[r].vbs[j], "echo")
    BY <1>1, <1>6, <2>1 DEF Holds, HoldsGiven, Size
  <2>4. Coded(r)' = { j \in 1..Len(msg[r].vbs) : given'[r][j].kind = "code" }
    <3>1. \A j \in Slots : given'[r][j].kind = "code" => j \in 1..Size(r)
      BY <1>1, <2>1 DEF Holds, HoldsGiven, None
    <3>2. QED
      BY <1>6, <3>1 DEF Coded, Size
  <2>5. /\ Coded(r)' = {} => rsp'[r].status = noError /\ rsp'[r].index = 0
        /\ Coded(r)' # {} => /\ rsp'[r].index \in Coded(r)'
                             /\ \A j \in Coded(r)' : rsp'[r].index <= j
                             /\ rsp'[r].status = given'[r][rsp'[r].index].code
    BY <1>1 DEF Holds, HoldsFirstError
  <2>6. given'[r] \in [Slots -> Results \cup {None}]
    BY <1>4
  <2>7. Encoded(rsp'[r]) = RR!Reply(msg[r], given'[r])
    BY <1>4, <1>6, <2>2, <2>3, <2>4, <2>5, <2>6, EncodedIsReply
  <2>8. sent[r] = << >>
    <3>1. Cardinality(Assigned(r)) < Size(r) /\ Cardinality(Assigned(r)) \in Nat
      BY <1>1, AssignedMissing, AssignedFinite
    <3>2. QED
      BY <1>1, <1>6, <3>1 DEF Accounted
  <2>9. sent' = [sent EXCEPT ![r] = << Encoded(rsp'[r]) >>]
    BY <1>2, <1>4, <1>10, <2>8
  <2>10. QED
    BY <2>7, <2>9
<1>11. ~ LastDone(r) => sent' = sent
  BY <1>2
<1>12. QED
  BY <1>2, <1>3, <1>5, <1>9, <1>10, <1>11, Zenon
     DEF RR!Give, Answerable, Received, Size

LEMMA InitRefines == Init => RR!PromiseInit
BY DEF Init, RR!PromiseInit, Blank, Slots, RR!Slots

LEMMA StepRefines ==
  ASSUME NoErrorUnused, InvD, [Next]_vars, InvD', repeats' = 0
  PROVE  [RR!PromiseNext]_RR!pvars
<1>1. /\ repeats = 0
      /\ (\E r \in Reqs, i \in Slots : BindingStep(r, i)) \/ OtherStep
  BY StepIsBindingStep DEF InvD
<1>2. CASE OtherStep
  <2>1. CASE UNCHANGED msg
    BY <1>2, <2>1 DEF OtherStep, RR!pvars
  <2>2. ASSUME NEW r \in Reqs, NEW m \in Messages,
               msg[r] = None, m # None, msg' = [msg EXCEPT ![r] = m]
        PROVE  RR!Ask(r, msg'[r])
    <3>1. msg'[r] = m
      BY <2>2 DEF InvD, InvC, InvB, InvA, TypeOK
    <3>2. QED
      BY <1>2, <2>2, <3>1 DEF OtherStep, RR!Ask
  <2>3. QED
    BY <1>2, <2>1, <2>2 DEF OtherStep, RR!PromiseNext
<1>3. ASSUME NEW r \in Reqs, NEW i \in Slots, BindingStep(r, i)
      PROVE  RR!Give(r, i, given'[r][i]) \/ UNCHANGED RR!pvars
  <2>1. /\ Alive /\ Received(r) /\ i <= Size(r) /\ i \notin Assigned(r) /\ UNCHANGED msg
        /\ i <= cursor'[r]
    BY <1>3 DEF BindingStep
  <2>2. msg[r].op \in Handled
    <3>1. cursor'[r] > 0
      BY <2>1, MessagesAssumption DEF Slots, InvD, InvC, InvB, InvA, TypeOK
    <3>2. QED
      BY <2>1, <3>1 DEF InvD, InvC, InvB, InvA, CallsInDispatch
  <2>3. CASE UNCHANGED <<rsp, ndone, sent, given>>
    BY <2>1, <2>3 DEF RR!pvars
  <2>4. CASE \E res \in Plausible(msg[r].op) : Stuff(r, i, res)
    <3>1. PICK res \in Plausible(msg[r].op) : Stuff(r, i, res)
      BY <2>4
    <3>2. Alive' \/ UNCHANGED <<rsp, ndone, sent, given>>
      BY <1>1, <2>1, <3>1, StuffOutcome DEF InvD, Plausible
    <3>3. ASSUME Alive' PROVE RR!Give(r, i, given'[r][i])
      BY <1>1, <2>1, <2>2, <3>1, <3>3, StuffGives
    <3>4. QED
      BY <2>3, <3>2, <3>3
  <2>5. QED
    BY <1>3, <2>3, <2>4 DEF BindingStep
<1>4. QED
  BY <1>1, <1>2, <1>3 DEF RR!PromiseNext, Slots, RR!Slots

(***************************************************************************)
(* The agent implements RequestReply, for any number of requests and       *)
(* bindings, any tree of providers and any order of their answers, if no   *)
(* done is invoked twice and no provider answers a Set with the code       *)
(* noError: whatever else providers answer, each request has its one       *)
(* response when its last binding is answered, with every binding's result *)
(* in its place and the first failure in its error fields.                 *)
(***************************************************************************)
THEOREM PromiseKept ==
  ASSUME MaxRepeats = 0, NoErrorUnused
  PROVE  Spec => KeepsPromise
<1>1. InvD => InvA
  BY DEF InvD, InvC, InvB
<1>2. InvD /\ [Next]_vars /\ InvD' => [RR!PromiseNext]_RR!pvars
  <2>1. InvD' => InvA'
    BY DEF InvD, InvC, InvB
  <2>2. InvD' => repeats' = 0
    BY <2>1 DEF InvA, TypeOK
  <2>3. QED
    BY <2>2, StepRefines
<1>3. QED
  BY <1>2, InitRefines, InvDInductive, PTL DEF Spec, KeepsPromise, RR!Promise

(***************************************************************************)
(* With providers that answer as documented, and each done invoked once,   *)
(* the process outlives every answer, in whatever order they come.         *)
(***************************************************************************)
THEOREM Survives ==
  ASSUME MaxRepeats = 0, AllDocumented
  PROVE  Spec => []OutlivesAnswers
<1> DEFINE Inv == InvC /\ OutlivesAnswers
<1>1. Init => Inv
  BY InvCInductive DEF Init, OutlivesAnswers
<1>2. ASSUME Inv, [Next]_vars PROVE Inv'
  <2>1. InvC'
    BY <1>2, InvCInductive
  <2>2. repeats' = 0
    BY <2>1 DEF InvC, InvB, InvA, TypeOK
  <2>3. CASE OtherStep
    BY <1>2, <2>1, <2>3 DEF OtherStep, OutlivesAnswers
  <2>4. ASSUME NEW r \in Reqs, NEW i \in Slots, BindingStep(r, i)
        PROVE  OutlivesAnswers'
    <3>1. CASE thrown' = "short node"
      BY <3>1 DEF OutlivesAnswers
    <3>2. CASE UNCHANGED thrown
      BY <1>2, <3>2 DEF OutlivesAnswers
    <3>3. CASE \E res \in Plausible(msg[r].op) : Stuff(r, i, res)
      <4>1. PICK res \in Plausible(msg[r].op) : Stuff(r, i, res)
        BY <3>3
      <4>2. SetSingleThrows(msg[r].op, res) = "no" /\ res \in Results
        BY <4>1 DEF Plausible
      <4>3. Alive' \/ thrown' = "uncloneable"
        BY <1>2, <2>4, <4>1, <4>2, StuffOutcome DEF BindingStep, StuffThrows
      <4>4. QED
        BY <4>3 DEF Alive, OutlivesAnswers
    <3>4. QED
      BY <2>4, <3>1, <3>2, <3>3 DEF BindingStep
  <2>5. QED
    BY <1>2, <2>1, <2>2, <2>3, <2>4, StepIsBindingStep
<1>3. QED
  BY <1>1, <1>2, PTL DEF Spec
=============================================================================

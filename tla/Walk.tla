-------------------------------- MODULE Walk --------------------------------
(***************************************************************************)
(* snmpwalk.js against an agent: a manager that asks for what comes next,  *)
(* prints the answer and asks again from the name it came under, while     *)
(* other managers ask as well.  A question's way to the agent and the      *)
(* answer's way back are one step: what becomes of lost, duplicated or     *)
(* reordered datagrams is Manager's subject.                               *)
(***************************************************************************)
EXTENDS Agent

CONSTANTS Starts,  \* the identifiers that may be given on the command line
          Asks     \* the walk's requests, in order: a bound on its length

ASSUME AsksAssumption == Asks \in Seq(Reqs) /\ IsInjective(Asks)

ASSUME StartsAssumption == Starts \subseteq Oids

VARIABLES
  asks,     \* how many of them were made
  printed,  \* the varbinds printed
  walking   \* FALSE once donecb has been called

wvars == <<asks, printed, walking>>

noSuchName == 2

WalkInit == Init /\ asks = 0 /\ printed = << >> /\ walking = TRUE

Question(name) == [op |-> "GetNext", vbs |-> <<name>>]

Answered(k) == sent[Asks[k]] # << >>
Answer(k) == sent[Asks[k]][1]

(* client.getNext                                                          *)
AskNext(name) ==
  /\ asks < Len(Asks)
  /\ asks' = asks + 1
  /\ Receive(Asks[asks'], Question(name))

WalkBegins ==
  /\ asks = 0
  /\ \E start \in Starts : AskNext(start)
  /\ UNCHANGED <<printed, walking>>

(* Mutant of NextName: the walk goes on from the name it asked for.        *)
NextNameOld(k) == msg[Asks[k]].vbs[1]
NextName(k) == Answer(k).vbs[1].name

(* Mutant of ToldToStop: any failure ends the walk.                        *)
StopsAtFailure(k) == Answer(k).status # noError
ToldToStop(k) == Answer(k).status = noSuchName

(* The callback of getNext, when the latest question is answered.          *)
WalkOn ==
  /\ asks > 0 /\ walking /\ Answered(asks)
  /\ IF ToldToStop(asks)
     THEN /\ walking' = FALSE
          /\ UNCHANGED <<vars, asks, printed>>
     ELSE /\ printed' = printed \o Answer(asks).vbs
          /\ AskNext(NextName(asks))
          /\ UNCHANGED walking

(* Whatever else the agent does, for whomever.                             *)
OthersAsk ==
  /\ Next
  /\ \A k \in DOMAIN Asks : msg'[Asks[k]] = msg[Asks[k]]
  /\ UNCHANGED wvars

WalkNext == WalkBegins \/ WalkOn \/ OthersAsk

WalkSpec == WalkInit /\ [][WalkNext]_<<vars, wvars>>

----------------------------------------------------------------------------
(* The identifier that was given.                                          *)
WalkStart == msg[Asks[1]].vbs[1]

(* The first endOfMibView printed, or where it would be printed next.      *)
Told ==
  LET ends == { j \in DOMAIN printed : printed[j].val = "endOfMibView" }
  IN IF ends = {} THEN Len(printed) + 1 ELSE CHOOSE j \in ends : \A k \in ends : j <= k

(* The places of the instances printed before that.                        *)
Finds == { j \in DOMAIN printed : j < Told /\ printed[j].val = "value" }

(***************************************************************************)
(* Until it is first told of the end of the view, a walk has printed the   *)
(* instances after its start in order and each once, however many of its   *)
(* questions failed; and it is not told before it has printed them all.    *)
(***************************************************************************)
WalkComplete ==
  asks > 0 =>
    /\ \A j \in Finds : printed[j].name \in InstancesAfter(WalkStart)
    /\ \A j, k \in Finds : j < k => LexLess(printed[j].name, printed[k].name)
    /\ \A n \in InstancesAfter(WalkStart) :
          \/ \E j \in Finds : printed[j].name = n
          \/ Told \notin DOMAIN printed /\ \A j \in Finds : LexLess(printed[j].name, n)

(* The start and what precedes it in the column that it lies in.           *)
UpToStart ==
  { n \in Instances : /\ LexLeq(n, WalkStart)
                      /\ \E c \in Objects : IsStrictPrefix(c, WalkStart) /\ IsPrefix(c, n) }

(***************************************************************************)
(* No answer ever ends the walk.  Once told of the end it asks for the     *)
(* end, or for the last column, again, and finds nothing it has not        *)
(* printed, but for the first instances of that column when it started     *)
(* after them.                                                             *)
(***************************************************************************)
WalksOnForNothing ==
  /\ walking
  /\ \A j \in Told..Len(printed) :
        printed[j].val = "value" => \/ \E k \in Finds : printed[k] = printed[j]
                                   \/ printed[j].name \in UpToStart
=============================================================================

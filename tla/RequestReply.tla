---------------------------- MODULE RequestReply ----------------------------
(***************************************************************************)
(* What an agent promises a manager (docs/provider.restdown, "Request      *)
(* Processing Overview"; RFC 3416, section 4.2): each binding of a request *)
(* is given one result, in any order, and the one response goes out with   *)
(* the last of them.  It holds what each binding was given, in the place   *)
(* of that binding, and names the first binding that failed with the code  *)
(* of its failure.                                                         *)
(***************************************************************************)
EXTENDS Naturals, Sequences

CONSTANTS Reqs, MaxVarbinds, Answerable(_), None

Slots == 1..MaxVarbinds

VARIABLES asked,    \* the message of each request
          given,    \* the result of each of its bindings
          replies   \* the responses sent for it

pvars == <<asked, given, replies>>

PromiseInit ==
  /\ asked = [r \in Reqs |-> None]
  /\ given = [r \in Reqs |-> [i \in Slots |-> None]]
  /\ replies = [r \in Reqs |-> << >>]

Ask(r, m) ==
  /\ asked[r] = None /\ m # None
  /\ asked' = [asked EXCEPT ![r] = m]
  /\ UNCHANGED <<given, replies>>

Failed(results, n) == { i \in 1..n : results[i].kind = "code" }

First(indices) == CHOOSE i \in indices : \A j \in indices : i <= j

(* The response to a message whose bindings were given these results.      *)
Reply(m, results) ==
  LET n == Len(m.vbs)
      failed == Failed(results, n)
  IN [ vbs |-> [i \in 1..n |->
                  IF i \in failed
                  THEN [kind |-> "varbind", name |-> m.vbs[i], val |-> "echo"]
                  ELSE results[i]],
       status |-> IF failed = {} THEN 0 ELSE results[First(failed)].code,
       index  |-> IF failed = {} THEN 0 ELSE First(failed) ]

Answered(m, results) == \A i \in 1..Len(m.vbs) : results[i] # None

Give(r, i, res) ==
  /\ asked[r] # None /\ Answerable(asked[r]) /\ i <= Len(asked[r].vbs)
  /\ given[r][i] = None /\ res.kind \in {"varbind", "code"}
  /\ given' = [given EXCEPT ![r][i] = res]
  /\ replies' = IF Answered(asked[r], given'[r])
                THEN [replies EXCEPT ![r] = << Reply(asked[r], given'[r]) >>]
                ELSE replies
  /\ UNCHANGED asked

PromiseNext ==
  \E r \in Reqs : \/ Ask(r, asked'[r])
                  \/ \E i \in Slots : Give(r, i, given'[r][i])

Promise == PromiseInit /\ [][PromiseNext]_pvars
============================================================================

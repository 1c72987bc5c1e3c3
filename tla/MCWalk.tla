------------------------------- MODULE MCWalk -------------------------------
(* The scalars and the table of MCAgent; a walk of at most as many         *)
(* questions as there are instances and two more, and one request of       *)
(* another manager, of two bindings.                                       *)
EXTENDS Walk

ScalarA == <<1, 1, 1>>
Entry   == <<1, 1, 2>>
ScalarB == <<1, 1, 3>>
Col1    == <<1, 1, 2, 1>>
Col2    == <<1, 1, 2, 2>>

MCRows == { <<1>>, <<3>> }
MCBatches ==
  { << [oid |-> ScalarA, columns |-> << >>],
       [oid |-> Entry, columns |-> <<1, 2>>] >>,
    << [oid |-> ScalarB, columns |-> << >>] >> }

MCStart == <<1, 1, 0>>
MCStarts == { MCStart, Col2 \o <<1>> }
MCReqs == 0..8
MCAsks == [k \in 1..8 |-> k]

Ask(vbs) == [op |-> "GetNext", vbs |-> vbs]

Others ==
  { Ask(<< ScalarA, Col1 \o <<3>> >>), Ask(<< Col2 \o <<3>>, Entry >>),
    Ask(<< Col1 \o <<2>>, ScalarB \o <<0>> >>) }

WalkNames ==
  MCStarts \cup { ScalarA, ScalarB, Col1, Col2 }
    \cup { n \o row : n \in {Col1, Col2}, row \in MCRows }
    \cup { ScalarA \o <<0>>, ScalarB \o <<0>> }

MCMessages == Others \cup { Ask(<<n>>) : n \in WalkNames }
MCOids == UNION { Range(m.vbs) : m \in MCMessages }

(* Every provider is registered before the first request; the other        *)
(* manager comes before the walk's second question.                        *)
QuietNext ==
  /\ WalkNext
  /\ rvars' # rvars => \A r \in Reqs : ~ Received(r)
  /\ msg'[0] = msg[0] \/ (msg'[0] \in Others /\ asks <= 1)

QuietSpec == WalkInit /\ [][QuietNext]_<<vars, wvars>>
=============================================================================

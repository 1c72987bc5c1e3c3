----------------------------- MODULE MCManager -----------------------------
(* The calls an application makes, a few of each kind.                     *)
EXTENDS Manager

Base == [op |-> "Get", cb |-> TRUE, data |-> TRUE, uptime |-> "absent",
         generic |-> "absent", specific |-> "absent", enterprise |-> FALSE]

SetNothing == [Base EXCEPT !.op = "Set", !.data = FALSE]
SetOne == [Base EXCEPT !.op = "Set"]
Silent == [Base EXCEPT !.cb = FALSE]
Bulk == [Base EXCEPT !.op = "GetBulk"]
Inform == [Base EXCEPT !.op = "InformRequest"]
V2Trap == [Inform EXCEPT !.op = "SNMPv2_Trap", !.cb = FALSE, !.uptime = "zero"]

V1Trap(generic, specific, enterprise) ==
  [Base EXCEPT !.op = "Trap", !.cb = FALSE, !.uptime = "given",
               !.generic = generic, !.specific = specific,
               !.enterprise = enterprise]

Vendor == V1Trap("absent", "positive", TRUE)
NoEnterprise == V1Trap("absent", "positive", FALSE)
ColdStart == V1Trap("coldStart", "absent", FALSE)
LinkDown == V1Trap("linkDown", "absent", FALSE)
ColdNow == [ColdStart EXCEPT !.uptime = "zero"]

SomeCalls == { SetOne, Silent, SetNothing, Bulk, Inform, V2Trap, Vendor, NoEnterprise }
TrapCalls  == { Vendor, NoEnterprise, ColdStart, LinkDown, ColdNow }
============================================================================

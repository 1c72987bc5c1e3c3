------------------------------ MODULE MCSystem ------------------------------
(* Two endpoints, two requests of which one has two bindings, a datagram   *)
(* that does not parse, and a registry that is set up first.               *)
EXTENDS AgentSystem

Scalar == <<1, 1, 1>>
Column == <<1, 1, 2, 1>>

MCRows == { <<1>>, <<3>> }
MCSetCodes == { genErr }
MCBatches ==
  { << [oid |-> Scalar, columns |-> << >>], [oid |-> <<1, 1, 2>>, columns |-> <<1>>] >> }

Ask(op, vbs) == [op |-> op, vbs |-> vbs]
MCMessages ==
  { Ask("Get", << Scalar \o <<0>>, Column \o <<1>> >>),
    Ask("Set", << Column \o <<3>> >>),
    Ask("GetNext", << Column \o <<3>> >>),
    Ask("GetBulk", << Scalar >>) }
MCOids == UNION { Range(m.vbs) : m \in MCMessages }

(* The registry is set up before the first endpoint is.                    *)
QuietNext ==
  /\ SystemNext
  /\ rvars' # rvars => connections = << >>
  /\ connections' # << >> => nodes # {Root}

QuietSpec == SystemInit /\ [][QuietNext]_svars /\ SystemFairness
=============================================================================

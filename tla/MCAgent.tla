------------------------------ MODULE MCAgent ------------------------------
(* Two scalars, one of them read-only, and a table of two columns and two  *)
(* rows between them; requests of one or two bindings.                     *)
EXTENDS Agent

ScalarA == <<1, 1, 1>>
Entry   == <<1, 1, 2>>
ScalarB == <<1, 1, 3>>
Col1    == <<1, 1, 2, 1>>
Col2    == <<1, 1, 2, 2>>

MCRows == { <<1>>, <<3>> }
MCReadOnly == { ScalarB }
MCSetCodes == { genErr, notWritable }
NoSlips == {}
MCUncloneable == { Col1 \o <<1>> }

Slip(op, res) == [op |-> op, res |-> res]

MissingRow == { Slip("Get", Undefined) }
WrongCode  == { Slip("Get", Code(notWritable)) }
Documented == MissingRow \cup WrongCode
AllSlips == Documented \cup { Slip("Set", Undefined), Slip("Set", Junk),
                              Slip("GetNext", Code(notWritable)), Slip("GetNext", Junk) }

SetCodesWithNoError == MCSetCodes \cup {noError}

MCBatches ==
  { << [oid |-> ScalarA, columns |-> << >>],
       [oid |-> Entry, columns |-> <<1, 2>>] >>,
    << [oid |-> ScalarB, columns |-> << >>] >> }

Ask(op, vbs) == [op |-> op, vbs |-> vbs]

GetNextMessages ==
  { Ask("GetNext", << ScalarA, Col1 \o <<3>> >>),
    Ask("GetNext", << Col2 \o <<3>>, Col1 >>),
    Ask("GetNext", << Entry, ScalarB \o <<0>> >>),
    Ask("GetNext", << <<1, 1, 0>>, Col1 \o <<2>> >>),
    Ask("GetNext", << ScalarA \o <<0>> >>),
    Ask("GetNext", << >>) }

GetSetMessages ==
  { Ask("Get", << ScalarA \o <<0>>, Col1 \o <<2>> >>),
    Ask("Get", << Entry \o <<3, 1>>, ScalarB \o <<0>> >>),
    Ask("Get", << Col2 \o <<3>>, ScalarA \o <<1>> >>),
    Ask("Get", << Col2, Col1 \o <<1>> >>),
    Ask("Set", << ScalarA \o <<0>>, Col1 \o <<2>> >>),
    Ask("Set", << ScalarB \o <<0>>, ScalarA >>),
    Ask("Set", << Col1 \o <<1>>, ScalarA \o <<0>>, Col2 \o <<3>> >>),
    Ask("GetBulk", << ScalarA >>),
    Ask("Response", << ScalarA \o <<0>> >>),
    Ask("Trap", << ScalarA \o <<0>> >>) }

LateMessages ==
  { Ask("GetNext", << ScalarA, Col1 \o <<3>> >>),
    Ask("GetNext", << ScalarA \o <<0>> >>),
    Ask("Get", << Col2 \o <<3>>, ScalarA \o <<0>> >>),
    Ask("Set", << Col2 \o <<3>>, ScalarB \o <<0>> >>),
    Ask("Get", << >>),
    Ask("GetBulk", << ScalarA >>) }

MCOids ==
  UNION { Range(m.vbs) : m \in GetNextMessages \cup GetSetMessages \cup LateMessages }

(* Every provider is registered before the first request, as an            *)
(* application that binds last does.                                       *)
QuietNext ==
  /\ Next
  /\ rvars' # rvars => \A r \in Reqs : ~ Received(r)

QuietSpec == Init /\ [][QuietNext]_vars
============================================================================

------------------------------ MODULE Provider ------------------------------
(***************************************************************************)
(* lib/provider.js, and the providers behind it.  A provider is given a    *)
(* ProviderRequest and invokes its done callback with one result.  What a  *)
(* provider answers is not this library's code: it is what docs/           *)
(* provider.restdown asks of the providers applications write, and the     *)
(* slips from it that Slips names.                                         *)
(***************************************************************************)
EXTENDS Oid

CONSTANTS Rows,      \* instances present in every column
          SetCodes,  \* error codes a provider may answer a Set with
          ReadOnly,  \* scalars served by readOnlyScalar
          Slips      \* answers outside the documentation, as [op, res]

(* Operations; "Trap" is the version 1 trap, whose PDU has no request_id.  *)
Getset == {"Get", "Set"}
Handled == Getset \cup {"GetNext"}
Ignored == {"GetBulk", "Response", "SNMPv2_Trap", "InformRequest", "Report"}
Ops == Handled \cup Ignored \cup {"Trap"}

(* Error codes of protocol/pdu.js.                                         *)
noError == 0
genErr == 5
notWritable == 17
Errors == 0..18

(* What done may be called with: a varbind, an error code, nothing at all, *)
(* or a value that is none of these.                                       *)
Varbind(name, val) == [kind |-> "varbind", name |-> name, val |-> val]
Code(n) == [kind |-> "code", code |-> n]
Undefined == [kind |-> "undefined"]
Junk == [kind |-> "junk"]

(* What an array element or a variable holds before it is assigned.        *)
None == [kind |-> "none"]

Vals == {"value", "echo", "noSuchObject", "noSuchInstance", "endOfMibView"}
Varbinds == [kind : {"varbind"}, name : OID, val : Vals]
Results == Varbinds \cup [kind : {"code"}, code : Errors] \cup {Undefined, Junk}

ASSUME ProviderAssumption ==
  /\ Rows \subseteq OID \ {Root}
  /\ SetCodes \subseteq Errors
  /\ Slips \subseteq [op : Handled, res : Results]

----------------------------------------------------------------------------
(* ProviderRequest: the constructor throws for a node whose address, given *)
(* as an array, is not canonical; the instance is what follows the node's  *)
(* address, and is undefined (here empty) when nothing does.               *)
RequestThrows(node) == ~ Canonical(node)

Instance(oid, node) == SubSeq(oid, Len(node) + 1, Len(oid))

(* _createVarbind, for a value that is data, a code or undefined.          *)
CreateVarbind(oid, rsd) ==
  CASE rsd = "undefined" -> Undefined
    [] rsd = "genErr" -> Code(genErr)
    [] rsd = "data" -> Varbind(oid, "value")

(* readOnlyScalar: on a Set it passes the code as _createVarbind's first   *)
(* argument and nothing as its second.                                     *)
ReadOnlyScalar(op, node, rsd) ==
  IF op = "Set" THEN CreateVarbind(notWritable, "undefined")
  ELSE CreateVarbind(Append(node, 0), rsd)

----------------------------------------------------------------------------
(* The instances after oid in a column, and the first of them, if any.     *)
RowsAfter(oid, column) == { n \in { column \o row : row \in Rows } : LexLess(oid, n) }

NextRow(oid, column) ==
  { n \in RowsAfter(oid, column) : \A m \in RowsAfter(oid, column) : LexLeq(n, m) }

(* What a scalar's provider answers.                                       *)
ScalarAnswers(op, node) ==
  IF node \in ReadOnly
  THEN { ReadOnlyScalar(op, node, rsd) : rsd \in {"data", "genErr"} }
  ELSE { Varbind(Append(node, 0), "value") }
       \cup { Code(c) : c \in IF op = "Set" THEN SetCodes ELSE {genErr} }

(* What a table's provider answers: the documentation has it invoke done   *)
(* with nothing on a Get of a missing row, which is among the slips, since *)
(* the agent does not survive it.                                          *)
ColumnAnswers(op, oid, node) ==
  CASE op = "GetNext" /\ RowsAfter(oid, node) # {} ->
          { Varbind(n, "value") : n \in NextRow(oid, node) } \cup { Code(genErr) }
    [] op = "GetNext" /\ RowsAfter(oid, node) = {} -> { Undefined }
    [] op = "Get" /\ Instance(oid, node) \in Rows ->
          { Varbind(oid, "value"), Code(genErr) }
    [] op = "Get" /\ Instance(oid, node) \notin Rows ->
          { Varbind(oid, "noSuchInstance") }
    [] op = "Set" -> { Varbind(oid, "value") } \cup { Code(c) : c \in SetCodes }

Answers(op, oid, node, scalar) ==
  (IF scalar THEN ScalarAnswers(op, node) ELSE ColumnAnswers(op, oid, node))
  \cup { s.res : s \in { slip \in Slips : slip.op = op } }
============================================================================

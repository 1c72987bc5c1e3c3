------------------------------ MODULE Message ------------------------------
(***************************************************************************)
(* PDUs and messages: lib/protocol/pdu.js, message.js, varbind.js, and the *)
(* way back through lib/lexer.js and lib/snmp.jison.  One PDU is created,  *)
(* changed, cloned, put into messages, encoded and parsed again.           *)
(*                                                                         *)
(* An encoded message is the sequence of its ASN.1 strings.  The lexer     *)
(* gives a constructed string no length, so that what is inside follows it *)
(* as if it stood beside it: the grammar never sees where it ends.         *)
(***************************************************************************)
EXTENDS Data

CONSTANTS Bindings,   \* arrays of varbinds given to PDUs
          TrapFields, \* values given to the fields of a v1 trap
          Numbers,    \* numbers given as error status, error index and counts
          Opcodes,    \* operations given to createPDU and cloneAs
          Datagrams   \* messages from elsewhere, as sequences of ASN.1 strings

Trap == 4
GetBulkRequest == 5

(* ASN1.Sequence | ASN1.Constructor; ASN1.Context | ASN1.Constructor.      *)
Sequence == 48
Constructed == 160

(* enterprise, agent_addr, generic_trap, specific_trap and time_stamp.     *)
FieldType == <<"ObjectIdentifier", "IpAddress", "Integer", "Integer", "TimeTicks">>

Object(type, value) == [type |-> type, tag |-> StockTag[type], value |-> value]

(* No type is registered here: an object has the tag of its type, or that  *)
(* of an error.                                                            *)
Objects ==
  { d \in DataObjects : /\ DataObject(d)
                        /\ d.tag = StockTag[d.type] \/ (d.type = "Null" /\ d.tag \in ErrorTags) }

(* A binding may have no name or no data, and a v1 trap no field.          *)
Varbinds ==
  [oid : { d \in Objects : d.type = "ObjectIdentifier" } \cup {None}, data : Objects \cup {None}]
Fields ==
  { f \in [1..5 -> Objects \cup {None}] : \A i \in 1..5 : f[i] # None => f[i].type = FieldType[i] }

Numbers32 == MIN_INT32..MAX_INT32

PDUs ==
  [op : 0..31, std : {TRUE}, status : Numbers32, index : Numbers32, vbs : Seq(Varbinds)]
  \cup [op : {Trap}, std : {FALSE}, fields : Fields, vbs : Seq(Varbinds)]

(* The octets of an identifier are its arcs, the first two in one.         *)
AsnStrings ==
  { s \in [tag : 0..255, long : BOOLEAN, octets : Seq(Nat)] :
      s.tag # StockTag["ObjectIdentifier"] => s.octets \in Seq(Octet) }

ASSUME MessageAssumption ==
  /\ Bindings \subseteq Seq(Varbinds)
  /\ \A fields \in TrapFields, i \in 1..5 :
        fields[i] \in Values /\ Holds(FieldType[i], fields[i])
  /\ Numbers \subseteq Numbers32
  /\ Opcodes \subseteq 0..31
  /\ Datagrams \subseteq Seq(AsnStrings)
  /\ None \notin PDUs /\ Refused \notin PDUs

VARIABLES
  pdu,      \* the PDU; without a status and an index if it is a v1 trap's
  message,  \* a message around it: its version, and _raw
  loose     \* history: the error index was not compared with the bindings

gvars == <<pdu, message, loose>>

MessageInit == pdu = None /\ message = None /\ loose = FALSE

----------------------------------------------------------------------------
(* Mutant of StdPDU: no error status is set.                               *)
StdPDUUnset(op, vbs) ==
  [op |-> op, std |-> TRUE, status |-> None, index |-> 0, vbs |-> vbs]

(* createPDU for every operation but a v1 trap ...                         *)
StdPDU(op, vbs) ==
  [op |-> op, std |-> TRUE, status |-> 0, index |-> 0, vbs |-> vbs]

(* ... and for a v1 trap: a field that is 0 is taken for missing.          *)
TrapV1PDU(fields, vbs) ==
  [op |-> Trap, std |-> FALSE, vbs |-> vbs,
   fields |-> [i \in 1..5 |-> IF fields[i] = <<0>> THEN None
                               ELSE Object(FieldType[i], fields[i])]]

CreateStd(op, vbs) ==
  /\ pdu = None /\ op # Trap
  /\ pdu' = StdPDU(op, vbs)
  /\ UNCHANGED <<message, loose>>

CreateTrap(fields, vbs) ==
  /\ pdu = None
  /\ pdu' = TrapV1PDU(fields, vbs)
  /\ UNCHANGED <<message, loose>>

(* The setter of a field has no such test.                                 *)
SetField(i, value) ==
  /\ pdu # None /\ ~ pdu.std
  /\ pdu' = [pdu EXCEPT !.fields[i] = Object(FieldType[i], value)]
  /\ UNCHANGED <<message, loose>>

SetVarbinds(vbs) ==
  /\ pdu # None
  /\ pdu' = [pdu EXCEPT !.vbs = vbs]
  /\ loose' = TRUE
  /\ UNCHANGED message

(* error_status, which is non_repeaters in a GetBulk.                      *)
SetStatus(n) ==
  /\ pdu # None /\ pdu.std
  /\ pdu' = [pdu EXCEPT !.status = n]
  /\ UNCHANGED <<message, loose>>

(* Mutant of IndexAllowed: one more than there are bindings.               *)
IndexAllowedOneMore(n) == pdu.op # GetBulkRequest => n \in 0..(Len(pdu.vbs) + 1)
(* error_index, which is max_repetitions in a GetBulk and any number then. *)
IndexAllowed(n) == pdu.op # GetBulkRequest => n \in 0..Len(pdu.vbs)

SetIndex(n) ==
  /\ pdu # None /\ pdu.std /\ IndexAllowed(n)
  /\ pdu' = [pdu EXCEPT !.index = n]
  /\ loose' = (pdu.op = GetBulkRequest)
  /\ UNCHANGED message

(* A data object is neither less nor greater than a number.                *)
SetIndexObject(n) ==
  /\ pdu # None /\ pdu.std
  /\ pdu' = [pdu EXCEPT !.index = n]
  /\ loose' = TRUE
  /\ UNCHANGED message

(* SnmpVarbind.clone                                                       *)
CloneData(d) == IF d = None THEN None ELSE Clone(d)
CloneVarbind(vb) == [oid |-> CloneData(vb.oid), data |-> CloneData(vb.data)]

(* cloneAs keeps the two numbers, whatever they mean in the other          *)
(* operation.  Nothing keeps a standard PDU from being cloned as a trap:   *)
(* the test compares with SnmpPDU.Trap, which is undefined.                *)
CloneAs(op) ==
  /\ pdu # None /\ pdu.std
  /\ LET vbs == [i \in DOMAIN pdu.vbs |-> CloneVarbind(pdu.vbs[i])]
     IN /\ \A i \in DOMAIN vbs : Refused \notin {vbs[i].oid, vbs[i].data}
        /\ pdu' = [pdu EXCEPT !.op = op, !.vbs = vbs]
  /\ UNCHANGED <<message, loose>>

----------------------------------------------------------------------------
(* The strings of a binding, a PDU and a message, in the order they are    *)
(* written; constructed ones stand before what is in them.                 *)
Start(tag) == << [tag |-> tag, long |-> FALSE, octets |-> << >>] >>
Written(type, value) == << Encode(Object(type, value)) >>

VarbindEncodes(vb) == \A d \in {vb.oid, vb.data} : d # None /\ Encodes(d)
EncodeVarbind(vb) == Start(Sequence) \o << Encode(vb.oid), Encode(vb.data) >>

(* What encode throws of: bindings without a name or a value, a v1 trap    *)
(* that misses a field, more non-repeaters than bindings.                  *)
PDUEncodes(p) ==
  /\ \A i \in DOMAIN p.vbs : VarbindEncodes(p.vbs[i])
  /\ p.std /\ p.op = GetBulkRequest => p.status <= Len(p.vbs)
  /\ ~ p.std => \A i \in 1..5 : p.fields[i] # None /\ Encodes(p.fields[i])

EncodeHead(p) ==
  IF p.std
  THEN Written("Integer", <<1>>) \o Written("Integer", <<p.status>>) \o Written("Integer", <<p.index>>)
  ELSE [i \in 1..5 |-> Encode(p.fields[i])]

(* Three strings for each binding.                                         *)
EncodeVarbinds(vbs) ==
  [k \in 1..(3 * Len(vbs)) |-> EncodeVarbind(vbs[(k + 2) \div 3])[((k + 2) % 3) + 1]]

EncodePDU(p) ==
  Start(Constructed + p.op) \o EncodeHead(p) \o Start(Sequence) \o EncodeVarbinds(p.vbs)

EncodeMessage(version, p) ==
  Start(Sequence) \o Written("Integer", <<version>>)
    \o Written("OctetString", << >>) \o EncodePDU(p)

----------------------------------------------------------------------------
(* The token the lexer makes of a string: by its tag alone.                *)
Token(string) ==
  CASE string.tag = 2 -> "INTEGER"
    [] string.tag = 4 -> "OCTET_STRING"
    [] string.tag = 5 -> "NULL"
    [] string.tag = 6 -> "OBJECT_IDENTIFIER"
    [] string.tag = Sequence -> "SEQUENCE"
    [] string.tag = 64 -> "IP_ADDRESS"
    [] string.tag = 67 -> "TIME_TICKS"
    [] string.tag \in Constructed..(Constructed + 8) -> "CONTEXT_CONSTRUCTED"
    [] OTHER -> "DATA"

Lex(strings) == [i \in DOMAIN strings |-> Token(strings[i])]

(* The nonterminals of the grammar, as predicates on tokens.               *)
IsValue(token) == token \notin {"SEQUENCE", "CONTEXT_CONSTRUCTED"}

IsVarbinds(tokens) ==
  /\ Len(tokens) % 3 = 0
  /\ \A i \in DOMAIN tokens :
        CASE i % 3 = 1 -> tokens[i] = "SEQUENCE"
          [] i % 3 = 2 -> tokens[i] = "OBJECT_IDENTIFIER"
          [] i % 3 = 0 -> IsValue(tokens[i])

(* Mutant of IsVarbindList: a list may be empty in any PDU.                *)
IsVarbindListOrEmpty(tokens, v1) ==
  \/ tokens = << >>
  \/ tokens[1] = "SEQUENCE" /\ IsVarbinds(Tail(tokens))

(* varbind_list, and varbind_list_v1, which has the sequence without       *)
(* bindings as well.                                                       *)
IsVarbindList(tokens, v1) ==
  \/ tokens = << >>
  \/ tokens[1] = "SEQUENCE" /\ Len(tokens) > 1 /\ IsVarbinds(Tail(tokens))
  \/ v1 /\ tokens = <<"SEQUENCE">>

TrapHead == <<"OBJECT_IDENTIFIER", "IP_ADDRESS", "INTEGER", "INTEGER", "TIME_TICKS">>
StdHead == <<"INTEGER", "INTEGER", "INTEGER">>

(* A v3 header begins with a sequence where the community stands; it is    *)
(* refused as well.                                                        *)
IsMessage(tokens, v1) ==
  LET head == <<"SEQUENCE", "INTEGER", "OCTET_STRING", "CONTEXT_CONSTRUCTED">>
                 \o (IF v1 THEN TrapHead ELSE StdHead)
  IN IsPrefix(head, tokens)
     /\ IsVarbindList(SubSeq(tokens, Len(head) + 1, Len(tokens)), v1)

(* The objects a parsed message is made of.                                *)
Read(type, string) == [type |-> type, tag |-> string.tag, value |-> Decoded(type, string)]

ParsedVarbinds(strings, from) ==
  [i \in 1..((Len(strings) - from) \div 3) |->
     [oid  |-> Read("ObjectIdentifier", strings[from + 3 * i - 1]),
      data |-> Parse(strings[from + 3 * i])]]

(* Mutant of ParsedStd: the two numbers are swapped.                       *)
ParsedStdSwapped(strings) ==
  LET op == strings[4].tag - Constructed
      n(i) == Signed(strings[i].octets)
      p == StdPDU(op, ParsedVarbinds(strings, 8))
  IN IF op = GetBulkRequest THEN p
     ELSE [p EXCEPT !.status = n(7), !.index = n(6)]

(* The action of the rule pdu for a standard PDU assigns to error_status   *)
(* and error_index: in a GetBulk these are no setters, and the counts stay *)
(* as they were made.                                                      *)
ParsedStd(strings) ==
  LET op == strings[4].tag - Constructed
      n(i) == Signed(strings[i].octets)
      p == StdPDU(op, ParsedVarbinds(strings, 8))
  IN IF op = GetBulkRequest THEN p
     ELSE [p EXCEPT !.status = n(6), !.index = n(7)]

ParsedTrap(strings) ==
  [op |-> Trap, std |-> FALSE, vbs |-> ParsedVarbinds(strings, 10),
   fields |-> [i \in 1..5 |-> Read(FieldType[i], strings[4 + i])]]

Whole(p) ==
  /\ \A i \in DOMAIN p.vbs : p.vbs[i].oid.value # Refused /\ p.vbs[i].data # Refused
  /\ ~ p.std => \A i \in 1..5 : p.fields[i].value # Refused

(* The rule integer: an Integer that cannot be read refuses the message.   *)
AreIntegers(strings, positions) ==
  \A i \in positions : Decoded("Integer", strings[i]) # Refused

(* parseMessage; createMessage refuses versions other than 0 and 1.        *)
ParseMessage(strings) ==
  LET tokens == Lex(strings)
      v1 == Len(strings) > 3 /\ strings[4].tag = Constructed + Trap
      p  == IF v1 THEN ParsedTrap(strings) ELSE ParsedStd(strings)
  IN IF /\ IsMessage(tokens, v1)
        /\ AreIntegers(strings, IF v1 THEN {2} ELSE {2, 5, 6, 7})
        /\ Signed(strings[2].octets) \in {0, 1}
        /\ Whole(p)
     THEN p ELSE Refused

----------------------------------------------------------------------------
CreateMessage(version) ==
  /\ pdu # None /\ version \in {0, 1}
  /\ message' = [version |-> version, raw |-> None]
  /\ UNCHANGED <<pdu, loose>>

(* SnmpMessage.encode: nothing is left behind if it throws.                *)
EncodeIt ==
  /\ message # None /\ message.raw = None
  /\ PDUEncodes(pdu)
  /\ message' = [message EXCEPT !.raw = EncodeMessage(message.version, pdu)]
  /\ UNCHANGED <<pdu, loose>>

(* The message is parsed where it arrives, and its PDU used there: the     *)
(* index is assigned as an object.                                         *)
ParseIt ==
  /\ message # None /\ message.raw # None
  /\ ParseMessage(message.raw) # Refused
  /\ pdu' = ParseMessage(message.raw)
  /\ loose' = TRUE
  /\ UNCHANGED message

Arrive(raw) ==
  /\ pdu = None /\ ParseMessage(raw) # Refused
  /\ pdu' = ParseMessage(raw)
  /\ message' = [version |-> Signed(raw[2].octets), raw |-> raw]
  /\ loose' = TRUE

MessageNext ==
  \/ \E op \in Opcodes : CloneAs(op) \/ \E vbs \in Bindings : CreateStd(op, vbs)
  \/ \E fields \in TrapFields, vbs \in Bindings : CreateTrap(fields, vbs)
  \/ \E fields \in TrapFields, i \in 1..5 : SetField(i, fields[i])
  \/ \E vbs \in Bindings : SetVarbinds(vbs)
  \/ \E n \in Numbers : SetStatus(n) \/ SetIndex(n) \/ SetIndexObject(n)
  \/ \E version \in {0, 1} : CreateMessage(version)
  \/ EncodeIt
  \/ ParseIt
  \/ \E raw \in Datagrams : Arrive(raw)

MessageSpec == MessageInit /\ DataInit /\ [][MessageNext /\ UNCHANGED dvars]_<<gvars, dvars>>

----------------------------------------------------------------------------
(* Type invariant.                                                         *)
MessageTypeOK ==
  /\ pdu \in PDUs \cup {None}
  /\ message \in [version : {0, 1}, raw : Seq(AsnStrings) \cup {None}] \cup {None}
  /\ loose \in BOOLEAN

(***************************************************************************)
(* What the grammar has a rule for: a standard PDU has one for every       *)
(* operation but that of a v1 trap, and none for an empty list.            *)
(***************************************************************************)
HasRule(p) == p.std => p.op \in (0..8) \ {Trap} /\ p.vbs # << >>

(* What is read as it was written: an object that has a value, an address  *)
(* without empty components, a Null whose tag is its error's, and an       *)
(* identifier that needs no dot in front.                                  *)
KeepsForm(d) ==
  /\ d.value = Meaning(d)
  /\ d.tag = WrittenTag(d)
  /\ d.type = "ObjectIdentifier" => Plain(d.value)

AllKeepForm(p) ==
  /\ \A i \in DOMAIN p.vbs : KeepsForm(p.vbs[i].oid) /\ KeepsForm(p.vbs[i].data)
  /\ ~ p.std => \A i \in 1..5 : KeepsForm(p.fields[i])

Remembered(p) ==
  IF p.std /\ p.op = GetBulkRequest THEN [p EXCEPT !.status = 0, !.index = 0] ELSE p

(***************************************************************************)
(* A PDU that was created, changed and cloned in any order, and can be     *)
(* encoded at all, is parsed to the same PDU, in either version, if and    *)
(* only if the grammar has a rule for it and each of its objects is read   *)
(* as it was written; except that a GetBulk comes back without its counts. *)
(***************************************************************************)
ComesBack ==
  pdu # None /\ PDUEncodes(pdu) =>
    \A version \in {0, 1} :
       ParseMessage(EncodeMessage(version, pdu)) = Remembered(pdu)
         <=> HasRule(pdu) /\ AllKeepForm(pdu)

(***************************************************************************)
(* A PDU that arrived can be encoded again, and is parsed to the same PDU  *)
(* then, unless it is a standard PDU without bindings.                     *)
(***************************************************************************)
CanBeRelayed ==
  message # None /\ message.raw # None /\ ParseMessage(message.raw) = pdu =>
    /\ PDUEncodes(pdu)
    /\ ParseMessage(EncodeMessage(message.version, pdu)) = pdu
         <=> (pdu.std => pdu.vbs # << >>)

(***************************************************************************)
(* The error index names a binding, or none, from whenever it was set as a *)
(* number until the bindings are replaced; through clones as well.         *)
(***************************************************************************)
IndexNamesBinding ==
  pdu # None /\ pdu.std /\ pdu.op # GetBulkRequest /\ ~ loose =>
    pdu.index \in 0..Len(pdu.vbs)
=============================================================================

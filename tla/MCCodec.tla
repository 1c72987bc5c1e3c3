------------------------------ MODULE MCCodec ------------------------------
(* Numbers of four limbs of four bits, whose bytes have two; one number,   *)
(* one data object or one PDU in a behaviour, since they share nothing.    *)
EXTENDS Message, Arithmetic

(* Limbs that overflow or must borrow beside limbs that are empty, and one *)
(* bit next to a boundary.                                                 *)
MCOperands ==
  { OfLimbs(<<p, q, r, s>>) :
      p \in {0, Limb - 1}, q \in {0, Limb - 1}, r \in {0, Limb - 1}, s \in {0, Limb - 1} }
  \cup { OfLimbs(<<0, 0, 0, 1>>), OfLimbs(<<0, 1, 0, 0>>), OfLimbs(<<Half \div (2 * Limb), 0, 0, 10>>) }
MCCounts == {0, 1, LimbBits, WordBits - 1, WordBits, WordBits + 1, 2 * WordBits, 2 * WordBits + 1}

Numeral(base, digits) == [base |-> base, digits |-> digits]
MCNumerals ==
  { Numeral(10, <<6, 5, 5, 3, 5>>), Numeral(10, <<6, 5, 5, 3, 6>>), Numeral(10, <<2, 5, 6>>),
    Numeral(10, <<1, 0, 0, 0, 0, 9>>), Numeral(16, <<15, 15, 15, 15>>),
    Numeral(16, <<1, 0, 15>>), Numeral(16, <<10, 0>>), Numeral(16, <<1, 0, 0, 0, 0>>),
    Numeral(8, << >>), Numeral(8, <<7>>), Numeral(8, <<1, 0>>), Numeral(8, <<3, 7, 7>>),
    Numeral(8, <<1, 2, 3, 4, 5>>), Numeral(8, <<5, 2, 4, 0, 0>>) }

Registration(type, tag, f) == [type |-> type, tag |-> tag, f |-> f]
MCRegistrations ==
  { Registration("Gauge32", 71, "Unsigned32"),
    Registration("Counter32", 72, None),
    Registration("Null", 131, None),
    Registration("Integer", 65, None),
    Registration("Uint", 65, "Counter32"),
    Registration("Float", 73, None),
    Registration("Integer", None, "Counter32") }

Js(type, js, v) == [type |-> type, js |-> js, v |-> v]
NumberAssignments ==
  { Js("Integer", "number", <<n>>) :
       n \in {-Half, MIN_INT32 - 1, MIN_INT32, -3, -1, 0, 1, 2, MAX_INT32, MAX_INT32 + 1} }
  \cup { Js(t, "number", <<n>>) :
            t \in Unsigned, n \in {-1, 0, Byte, Half \div 2, MAX_UINT32, MAX_UINT32 + 1} }
  \cup { Js("Counter64", "number", <<n>>) : n \in {-1, 0, Byte, MAX_UINT32, MAX_UINT32 + 1} }
  \cup { Js("Counter64", "words", <<hi, lo>>) :
            hi \in {0, 1, MAX_UINT32, MAX_UINT32 + 1}, lo \in {-1, 0, 1, Byte^3, MAX_UINT32} }
  \cup { Js("Null", "number", <<n>>) : n \in {-1, 0, 1, 2, 3, 127, 128} }

DottedAssignments ==
  { Js("IpAddress", "dotted", v) :
       v \in { <<1, 0, 2, 3>>, <<1, Blank, 2, 3>>, <<1, 2, 3>>, <<1, 2, 3, 4>>, <<1, -1, 2, 3>> } }
  \cup { Js("ObjectIdentifier", "dotted", v) :
            v \in { <<1, 3, 6, 1>>, <<Blank, 1, 3, 6, 1>>, <<1, 3, Blank, 6, 0>>,
                    <<3, 1, 2, 4>>, <<1, 40, 2, 4>>, <<Blank, 5, 99, 1, 2>>,
                    <<Blank, 1, 45, 2, 3>>, <<Blank, 1, 3>>, <<1, 3>>,
                    <<2, 39, MAX_INT32, 0>>, <<1, 3, MAX_INT32 + 1, 2>>, <<1, 3, -1, 2>> } }
  \cup { Js("ObjectIdentifier", "array", <<1, 3, 6, 1>>) }

OtherAssignments ==
  { Js(t, "text", v) : t \in Texts, v \in { << >>, <<0, 1>>, <<3>> } }
  \cup { Js("Integer", "text", <<1>>), Js("OctetString", "number", <<1>>),
         Js("Null", "text", << >>), Js("Null", "null", << >>) }

MCAssignments == NumberAssignments \cup DottedAssignments \cup OtherAssignments

String(tag, octets) == [tag |-> tag, long |-> FALSE, octets |-> octets]
MCStrings ==
  { String(65, <<0, 2, 0, 0, 0>>), String(65, <<1, 2, 0, 0, 0>>), String(65, <<0, 0, 1>>),
    [tag |-> 72, long |-> TRUE, octets |-> <<1>>], String(71, <<1>>), String(72, <<2, 1>>),
    String(70, <<0, 3, 2, 1, 0, 3, 2, 1, 0>>), String(70, <<1, 3, 3, 3, 3, 3, 3, 3, 3>>),
    String(70, <<1, 0, 0, 0, 0>>), String(2, <<0, 1>>), String(2, <<2>>),
    String(2, <<0, 0, 0, 0, 1>>), String(4, <<1, 2>>), String(64, <<1, 2, 3, 0>>),
    String(64, <<1, 2, 3>>), String(5, << >>), String(5, <<1>>), String(129, << >>),
    String(131, << >>), String(200, <<1>>) }

Name == Object("ObjectIdentifier", <<1, 3, 6, 1>>)
Varbind(name, data) == [oid |-> name, data |-> data]
MCBindings ==
  { << >>,
    << Varbind(Name, Object("Integer", <<-3>>)) >>,
    << Varbind(Name, Object("Null", << >>)), Varbind(Name, Object("TimeTicks", <<9>>)) >>,
    << Varbind(Name, Object("Counter64", <<1, 0>>)) >>,
    << Varbind(Name, None) >>,
    << Varbind(Object("ObjectIdentifier", <<5, 99, 1>>), Object("Opaque", <<1>>)) >>,
    << Varbind(Name, Name), Varbind(Name, Object("IpAddress", <<1, 2, 3, 0>>)),
       Varbind(Name, [Object("Null", <<2>>) EXCEPT !.tag = 130]) >>,
    << Varbind(Name, [Object("Null", << >>) EXCEPT !.tag = 130]) >>,
    << Varbind(Name, [Object("Counter32", <<0>>) EXCEPT !.value = None]) >>,
    << Varbind(Name, Object("IpAddress", <<1, Blank, 2, 3>>)) >> }

MCNumbers == {-1, 0, 2}

MCTrapFields ==
  { << <<1, 3, 6, 1>>, <<1, 2, 3, 0>>, <<0>>, <<0>>, <<5>> >>,
    << <<5, 99, 1>>, <<1, 2, 3, 0>>, <<2>>, <<1>>, <<5>> >> }

Header(version) == Start(Sequence) \o Written("Integer", <<version>>) \o Written("OctetString", <<1>>)
IntegersOf(ns) == FlattenSeq([i \in DOMAIN ns |-> Written("Integer", <<ns[i]>>)])
TrapStart ==
  Start(Constructed + Trap) \o Written("ObjectIdentifier", <<1, 3, 6, 1>>)
    \o Written("IpAddress", <<1, 2, 3, 0>>) \o IntegersOf(<<6, 0>>) \o Written("TimeTicks", <<9>>)
OneBinding == Start(Sequence) \o EncodeVarbind(Varbind(Name, Object("Unsigned32", <<7>>)))

MCDatagrams ==
  { Header(1) \o Start(Constructed) \o IntegersOf(<<1, 0, 0>>),
    Header(1) \o Start(Constructed) \o IntegersOf(<<1, 0, 0>>) \o Start(Sequence),
    Header(1) \o Start(Constructed + 2) \o IntegersOf(<<1, 2, 9>>) \o Start(Sequence) \o OneBinding,
    Header(1) \o Start(Constructed + 5) \o IntegersOf(<<1, 3, 7>>) \o Start(Sequence) \o OneBinding,
    Header(1) \o Start(Constructed) \o IntegersOf(<<1>>) \o << String(2, <<1, 0, 0, 0, 0>>) >>
      \o IntegersOf(<<0>>),
    Header(3) \o Start(Constructed) \o IntegersOf(<<1, 0, 0>>) \o Start(Sequence) \o OneBinding,
    Header(0) \o TrapStart, Header(0) \o TrapStart \o Start(Sequence),
    Header(0) \o TrapStart \o Start(Sequence) \o OneBinding,
    Header(0) \o SubSeq(TrapStart, 1, 5) }

CodecInit == ArithmeticInit /\ DataInit /\ MessageInit

(* Once a message is encoded its octets no longer depend on the PDU, which *)
(* is then parsed again before it is changed.                              *)
CodecNext ==
  \/ /\ datum = None /\ pdu = None
     /\ ArithmeticNext
     /\ UNCHANGED <<dvars, gvars>>
  \/ /\ acc = NoNumber /\ pdu = None
     /\ DataNext
     /\ UNCHANGED <<mvars, gvars>>
  \/ /\ acc = NoNumber /\ datum = None /\ StockTables
     /\ MessageNext
     /\ message # None /\ message.raw # None => pdu' = pdu \/ ParseIt
     /\ UNCHANGED <<mvars, dvars>>

CodecSpec == CodecInit /\ [][CodecNext]_<<mvars, dvars, gvars>>
=============================================================================

-------------------------------- MODULE Data --------------------------------
(***************************************************************************)
(* lib/protocol/data.js: the types of SNMP data, the tables that find a    *)
(* type by its name or by an ASN.1 tag, and one data object that is        *)
(* created, assigned to, cloned, and sent to another process and back.     *)
(*                                                                         *)
(* A value is a sequence of integers: the number itself, the bytes of a    *)
(* string, the arcs of an identifier, the components of an address, the    *)
(* two words of a Counter64, the error a Null stands for.  Widths follow   *)
(* from LimbBits: a byte is less than Byte, a 32-bit number less than      *)
(* Half.  asn1 is external: it writes the shortest two's complement form   *)
(* of an Integer, and the first two arcs of an identifier as one number,   *)
(* 40 times the first and the second.                                      *)
(***************************************************************************)
EXTENDS Uint64, Integers

CONSTANTS None,           \* undefined; no object
          Refused,        \* an exception was thrown
          Blank,          \* an empty component of a dotted string
          Registrations,  \* arguments of registerType
          Assignments,    \* types and the JavaScript values given to them
          Strings         \* ASN.1 strings from elsewhere

(* What a data object may hold, and what a value is not.                   *)
Values == Seq(Int \cup {Blank})

ASSUME ValuesAssumption ==
  /\ Blank \notin Int
  /\ Refused \notin Values
  /\ None \notin Values \cup {Refused}

MIN_INT32 == -(Half \div 2)
MAX_INT32 == (Half \div 2) - 1
MAX_UINT32 == Half - 1

(* ASN1.Context, and the errors a Null stands for.                         *)
Context == 128
noSuchObject == 0
endOfMibView == 2
ErrorTags == { Context + e : e \in noSuchObject..endOfMibView }

Unsigned == {"Counter32", "Unsigned32", "TimeTicks"}
Texts == {"OctetString", "Opaque"}

(* The _tag of each constructor's prototype; a constructor is named by its *)
(* _typename.                                                              *)
StockTag ==
  [Integer |-> 2, OctetString |-> 4, Null |-> 5, ObjectIdentifier |-> 6,
   IpAddress |-> 64, Counter32 |-> 65, Unsigned32 |-> 66, TimeTicks |-> 67,
   Opaque |-> 68, Counter64 |-> 70]

Constructors == DOMAIN StockTag
StockTags == { StockTag[c] : c \in Constructors } \cup ErrorTags

Octet == 0..(Byte - 1)

(* A data object: its type, its _tag and its _value, if it has one.        *)
DataObjects == [type : Constructors, tag : 0..255, value : Values \cup {None}]

ASSUME ObjectsAssumption == None \notin DataObjects /\ Refused \notin DataObjects

(* Arguments that the code refuses for their JavaScript type alone are not *)
(* among the inputs.                                                       *)
ASSUME InputsAssumption ==
  /\ Registrations \subseteq [type : STRING, tag : {None} \cup 0..255, f : {None} \cup Constructors]
  /\ Assignments \subseteq [type : Constructors, v : Values,
                            js : {"number", "text", "dotted", "array", "words", "null"}]
  /\ \A a \in Assignments :
        /\ a.js = "number" => Len(a.v) = 1 /\ a.v[1] \in Int
        /\ a.js = "words" => Len(a.v) = 2
        /\ a.js = "text" => Range(a.v) \subseteq Octet
  /\ Strings \subseteq [tag : 0..255, long : BOOLEAN, octets : Seq(Octet)]

VARIABLES
  tagType,  \* tag_to_type
  typeObj,  \* type_to_obj
  datum     \* a data object: its type, _tag and _value

tables == <<tagType, typeObj>>
dvars == <<tables, datum>>

StockTables ==
  /\ tagType = [t \in StockTags |->
                  IF t \in ErrorTags THEN "Null"
                  ELSE CHOOSE c \in Constructors : StockTag[c] = t]
  /\ typeObj = [c \in Constructors |-> c]

DataInit == StockTables /\ datum = None

----------------------------------------------------------------------------
(* f extended, or overridden, at x.                                        *)
Put(f, x, y) == [z \in DOMAIN f \cup {x} |-> IF z = x THEN y ELSE f[z]]

(* Mutant of Registrable: a tag may be given to a type that nothing makes. *)
RegistrableUnmade(arg) ==
  /\ arg.tag # None \/ arg.f # None
  /\ arg.tag # None /\ arg.f # None /\ arg.tag \in DOMAIN tagType
        => tagType[arg.tag] = arg.type
  /\ arg.f # None /\ arg.type \in DOMAIN typeObj => typeObj[arg.type] = arg.f

(* What registerType does not refuse.  A tag given without a constructor   *)
(* is not compared with what it was given to before.                       *)
Registrable(arg) ==
  /\ arg.tag # None \/ arg.f # None
  /\ arg.tag # None /\ arg.f = None => arg.type \in DOMAIN typeObj
  /\ arg.tag # None /\ arg.f # None /\ arg.tag \in DOMAIN tagType
        => tagType[arg.tag] = arg.type
  /\ arg.f # None /\ arg.type \in DOMAIN typeObj => typeObj[arg.type] = arg.f

RegisterType(arg) ==
  /\ Registrable(arg)
  /\ tagType' = IF arg.tag = None THEN tagType ELSE Put(tagType, arg.tag, arg.type)
  /\ typeObj' = IF arg.f = None THEN typeObj ELSE Put(typeObj, arg.type, arg.f)
  /\ UNCHANGED datum

----------------------------------------------------------------------------
(* canonicalizeOID: the limits of the first two arcs are tested by the     *)
(* position a component has before the empty ones are skipped.             *)
ArcAllowed(oid, i) ==
  \/ oid[i] = Blank
  \/ /\ oid[i] \in 0..MAX_INT32
     /\ i = 1 => oid[i] <= 2
     /\ i = 2 => oid[i] <= 39

PushArc(canon, arc) == IF arc = Blank THEN canon ELSE Append(canon, arc)

canonicalizeOID(oid) ==
  IF Len(oid) >= 3 /\ \A i \in DOMAIN oid : ArcAllowed(oid, i)
  THEN FoldLeft(PushArc, << >>, oid)
  ELSE Refused

(* Number('') is 0.                                                        *)
ComponentAllowed(n) == n = Blank \/ n \in Octet
Number(n) == IF n = Blank THEN 0 ELSE n

(* What a Null stands for by its tag.                                      *)
NullValue(tag) == IF tag \in ErrorTags THEN <<tag - Context>> ELSE << >>

(* The value setters, given anything but a reader: _value afterwards.      *)
Checked(allowed, v) == IF allowed THEN v ELSE Refused

SetInteger(js, v) == Checked(js = "number" /\ v[1] \in MIN_INT32..MAX_INT32, v)
SetText(js, v) == Checked(js = "text", v)
SetOID(js, v) == IF js \in {"dotted", "array"} THEN canonicalizeOID(v) ELSE Refused
SetIpAddress(js, v) ==
  Checked(js = "dotted" /\ Len(v) = 4 /\ \A i \in 1..4 : ComponentAllowed(v[i]), v)

(* Mutant of SetUnsigned: the greatest number is one too great.            *)
SetUnsignedBeyond(js, v) == Checked(js = "number" /\ v[1] \in 0..(MAX_UINT32 + 1), v)
SetUnsigned(js, v) == Checked(js = "number" /\ v[1] \in 0..MAX_UINT32, v)

(* A number, or an object with its own hi and lo, which a uint64_t does    *)
(* not have.                                                               *)
SetCounter64(js, v) ==
  CASE js = "number" /\ v[1] \in 0..MAX_UINT32 -> <<0, v[1]>>
    [] js = "words" /\ Range(v) \subseteq 0..MAX_UINT32 -> v
    [] OTHER -> Refused

SetNull(js, v) ==
  CASE js = "null" -> << >>
    [] js = "number" /\ v[1] \in 0..127 -> NullValue(Context + v[1])
    [] OTHER -> Refused

Stored(type, js, v) ==
  CASE type = "Integer" -> SetInteger(js, v)
    [] type \in Texts -> SetText(js, v)
    [] type = "ObjectIdentifier" -> SetOID(js, v)
    [] type = "IpAddress" -> SetIpAddress(js, v)
    [] type \in Unsigned -> SetUnsigned(js, v)
    [] type = "Counter64" -> SetCounter64(js, v)
    [] type = "Null" -> SetNull(js, v)

(* Only a Null's setter changes _tag, and not when it is given null.       *)
TagAfter(type, tag, js, v) == IF type = "Null" /\ js = "number" THEN Context + v[1] ELSE tag

(* Big-endian bytes, read as the shifts of the code read them: what does   *)
(* not fit in a word is lost.                                              *)
ReadWord(octets) == FoldLeft(LAMBDA w, o : (w * Byte + o) % Half, 0, octets)
Signed(octets) ==
  LET w == ReadWord(octets)
  IN IF octets[1] >= Byte \div 2 THEN w - Byte^Len(octets) ELSE w

(* A leading zero in front of size bytes is passed over.                   *)
Trimmed(octets, size) ==
  IF Len(octets) = size + 1 /\ octets[1] = 0 THEN Tail(octets) ELSE octets

(* The value setters, given a reader at an ASN.1 string.                   *)
ReadUnsigned(string) ==
  LET t == Trimmed(string.octets, 4)
  IN Checked(~ string.long /\ Len(t) <= 4, <<ReadWord(t)>>)

(* Mutant of ReadCounter64: the words are split from the front.            *)
ReadCounter64Front(string) ==
  LET t == Trimmed(string.octets, 8)
      n == IF Len(t) < 4 THEN Len(t) ELSE 4
  IN Checked(~ string.long /\ Len(t) <= 8,
             <<ReadWord(SubSeq(t, n + 1, Len(t))), ReadWord(SubSeq(t, 1, n))>>)

ReadCounter64(string) ==
  LET t == Trimmed(string.octets, 8)
      n == IF Len(t) > 4 THEN Len(t) - 4 ELSE 0
  IN Checked(~ string.long /\ Len(t) <= 8,
             <<ReadWord(SubSeq(t, 1, n)), ReadWord(SubSeq(t, n + 1, Len(t)))>>)

ReadNull(string) == Checked(string.octets = << >>, NullValue(string.tag))

Decoded(type, string) ==
  LET o == string.octets
  IN CASE type = "Integer" /\ Len(o) \in 1..4 -> <<Signed(o)>>
       [] type \in Texts -> o
       [] type = "ObjectIdentifier" /\ Len(o) > 0 ->
            canonicalizeOID(<<o[1] \div 40, o[1] % 40>> \o Tail(o))
       [] type = "IpAddress" /\ Len(o) = 4 -> o
       [] type \in Unsigned -> ReadUnsigned(string)
       [] type = "Counter64" -> ReadCounter64(string)
       [] type = "Null" -> ReadNull(string)
       [] OTHER -> Refused

----------------------------------------------------------------------------
(* The shortest two's complement form of an Integer (asn1's writeInt).     *)
IntOctets(n) ==
  LET fits(k) == -(Byte^k) <= 2 * n /\ 2 * n < Byte^k
      size    == CHOOSE k \in 1..4 : fits(k) /\ \A j \in 1..(k - 1) : ~ fits(j)
      bits    == n % Byte^size
  IN [i \in 1..size |-> (bits \div Byte^(size - i)) % Byte]

(* Mutant of UnsignedOctets: as those of an Integer, never negative.       *)
UnsignedOctetsSigned(n) ==
  IF n = 0 THEN <<0>>
  ELSE IF WordBytes[n][1] >= Byte \div 2 THEN <<0>> \o WordBytes[n] ELSE WordBytes[n]

UnsignedOctets(n) == IF n = 0 THEN <<0>> ELSE WordBytes[n]

(* Mutant of Contents: an IpAddress writes the string it was given.        *)
ContentsRaw(type, value) ==
  CASE type = "Integer" -> IntOctets(value[1])
    [] type \in Texts \cup {"IpAddress"} -> value
    [] type = "ObjectIdentifier" -> <<40 * value[1] + value[2]>> \o SubSeq(value, 3, Len(value))
    [] type \in Unsigned -> UnsignedOctets(value[1])
    [] type = "Counter64" -> toOctets(uint64(value[1], value[2]))
    [] type = "Null" -> << >>

Contents(type, value) ==
  CASE type = "Integer" -> IntOctets(value[1])
    [] type \in Texts -> value
    [] type = "ObjectIdentifier" -> <<40 * value[1] + value[2]>> \o SubSeq(value, 3, Len(value))
    [] type = "IpAddress" -> [i \in 1..4 |-> Number(value[i])]
    [] type \in Unsigned -> UnsignedOctets(value[1])
    [] type = "Counter64" -> toOctets(uint64(value[1], value[2]))
    [] type = "Null" -> << >>

(* encode without a value: undefined & 0xff is 0, Context | undefined the  *)
(* tag of noSuchObject; the other types throw.                             *)
Effective(d) ==
  IF d.value # None THEN d.value
  ELSE IF d.type \in Unsigned THEN <<0>>
  ELSE IF d.type = "Null" THEN <<noSuchObject>>
  ELSE Refused

(* A Null writes the tag of its value, everything else its own.            *)
WrittenTag(d) ==
  IF d.type # "Null" THEN d.tag
  ELSE IF Effective(d) = << >> THEN StockTag["Null"]
  ELSE Context + Effective(d)[1]

(* asn1 writes no identifier that has not two arcs to begin with.          *)
Encodes(d) ==
  /\ Effective(d) # Refused
  /\ d.type = "ObjectIdentifier" => Len(Effective(d)) >= 2
Encode(d) == [tag |-> WrittenTag(d), long |-> FALSE, octets |-> Contents(d.type, Effective(d))]

(* createData given a reader: the type is found by the tag.                *)
Parse(string) ==
  IF string.tag \notin DOMAIN tagType THEN Refused
  ELSE LET type  == typeObj[tagType[string.tag]]
           value == Decoded(type, string)
       IN IF value = Refused THEN Refused
          ELSE [type |-> type, tag |-> string.tag, value |-> value]

(* Mutant of JsOf: a Null is made without its error.                       *)
JsOfNull(type) ==
  CASE type \in Unsigned \cup {"Integer"} -> "number"
    [] type \in Texts -> "text"
    [] type \in {"ObjectIdentifier", "IpAddress"} -> "dotted"
    [] type = "Counter64" -> "uint64_t"
    [] type = "Null" -> "null"

(* clone constructs anew from _value, which the setter may refuse.         *)
JsOf(type) ==
  CASE type \in Unsigned \cup {"Integer"} -> "number"
    [] type \in Texts -> "text"
    [] type \in {"ObjectIdentifier", "IpAddress"} -> "dotted"
    [] type = "Counter64" -> "uint64_t"
    [] type = "Null" -> "number"

Clone(d) ==
  LET js == IF d.type = "Null" /\ d.value = << >> THEN "null" ELSE JsOf(d.type)
      value == IF d.value = None THEN None ELSE Stored(d.type, js, d.value)
  IN IF value = Refused THEN Refused ELSE [type |-> d.type, tag |-> d.tag, value |-> value]

----------------------------------------------------------------------------
(* createData by a name, without or with a value ...                       *)
CreateEmpty(name) ==
  /\ datum = None /\ name \in DOMAIN typeObj
  /\ datum' = [type |-> typeObj[name], tag |-> StockTag[typeObj[name]], value |-> None]
  /\ UNCHANGED tables

(* The value setter, of the object or in its constructor.                  *)
Assign(js, v) ==
  /\ datum # None /\ Stored(datum.type, js, v) # Refused
  /\ datum' = [datum EXCEPT !.value = Stored(datum.type, js, v),
                            !.tag = TagAfter(datum.type, datum.tag, js, v)]
  /\ UNCHANGED tables

(* ... or by the tag of an ASN.1 string.                                   *)
CreateParsed(string) ==
  /\ datum = None /\ Parse(string) # Refused
  /\ datum' = Parse(string)
  /\ UNCHANGED tables

MeansType(tag, type) == tag \in DOMAIN tagType /\ typeObj[tagType[tag]] = type

(* A reader assigned to the value, at a string of its type, as the         *)
(* documentation asks: _tag is set before the rest is read.                *)
Reread(string) ==
  /\ datum # None /\ MeansType(string.tag, datum.type)
  /\ LET value == Decoded(datum.type, string)
     IN datum' = [datum EXCEPT !.tag = string.tag,
                               !.value = IF value = Refused THEN @ ELSE value]
  /\ UNCHANGED tables

CloneIt ==
  /\ datum # None /\ Clone(datum) # Refused
  /\ datum' = Clone(datum)
  /\ UNCHANGED tables

(* Encoded, and parsed elsewhere with the same tables.  The contents of an *)
(* identifier are kept as arcs, and not read as another type's octets.     *)
Resend ==
  /\ datum # None /\ Encodes(datum) /\ Parse(Encode(datum)) # Refused
  /\ datum.type = "ObjectIdentifier" => MeansType(datum.tag, datum.type)
  /\ datum' = Parse(Encode(datum))
  /\ UNCHANGED tables

DataNext ==
  \/ \E arg \in Registrations : RegisterType(arg)
  \/ \E name \in DOMAIN typeObj : CreateEmpty(name)
  \/ \E a \in Assignments : datum # None /\ datum.type = a.type /\ Assign(a.js, a.v)
  \/ \E string \in Strings : CreateParsed(string) \/ Reread(string)
  \/ CloneIt
  \/ Resend

DataSpec == DataInit /\ [][DataNext]_dvars
----------------------------------------------------------------------------
(* Type invariant: what each type holds, in canonical form.                *)
Number32 == 0..MAX_UINT32

Holds(type, v) ==
  /\ type = "Integer" => Len(v) = 1 /\ v[1] \in MIN_INT32..MAX_INT32
  /\ type \in Texts => Range(v) \subseteq Octet
  /\ type = "ObjectIdentifier" => Range(v) \subseteq 0..MAX_INT32
  /\ type = "IpAddress" => Len(v) = 4 /\ Range(v) \subseteq Octet \cup {Blank}
  /\ type \in Unsigned => Len(v) = 1 /\ v[1] \in Number32
  /\ type = "Counter64" => Len(v) = 2 /\ Range(v) \subseteq Number32
  /\ type = "Null" => v \in { << >> } \cup { <<e>> : e \in noSuchObject..endOfMibView }

(* What an object of the program holds, if anything.                       *)
DataObject(d) ==
  d # None => /\ d \in DataObjects
              /\ d.value # None => Holds(d.type, d.value)

DataTypeOK ==
  /\ StockTags \subseteq DOMAIN tagType
  /\ Constructors \subseteq DOMAIN typeObj
  /\ Range(typeObj) \subseteq Constructors
  /\ DataObject(datum)

(***************************************************************************)
(* Whatever is registered, in whatever order, and whatever is refused: a   *)
(* tag that is registered names a type that something makes, so createData *)
(* never fails on the tag of a message it could read before.               *)
(***************************************************************************)
TagsMakeObjects == \A t \in DOMAIN tagType : tagType[t] \in DOMAIN typeObj

(* An identifier that can be written without a dot in front.               *)
Plain(oid) == Len(oid) >= 3 /\ oid[1] <= 2 /\ oid[2] <= 39

(* What another process is to make of an object: an address's empty        *)
(* component is 0.                                                         *)
Meaning(d) ==
  IF d.type = "IpAddress" THEN [i \in 1..4 |-> Number(d.value[i])] ELSE Effective(d)

(***************************************************************************)
(* An object that is encoded and parsed is an object of the same type with *)
(* the same value and, but for a Null without error, the same tag, as long *)
(* as its tag means its type, and unless it is an identifier that only     *)
(* passed canonicalizeOID because of a dot in front: that one never comes  *)
(* back.  An object that has no value is encoded only as a zero or as      *)
(* noSuchObject.                                                           *)
(***************************************************************************)
SurvivesTheWire ==
  datum # None /\ Encodes(datum) /\ MeansType(WrittenTag(datum), datum.type) =>
    LET back == Parse(Encode(datum))
        same == /\ back # Refused
                /\ back.type = datum.type
                /\ back.value = Meaning(datum)
                /\ back.tag = datum.tag \/ datum.type = "Null"
    IN same <=> (datum.type = "ObjectIdentifier" => Plain(datum.value))

(***************************************************************************)
(* A clone equals its original, whatever the object went through, and      *)
(* clone throws only of a Counter64, always, and of an identifier that     *)
(* only passed because of a dot in front.                                  *)
(***************************************************************************)
Clonable(d) ==
  d.value # None => /\ d.type # "Counter64"
                    /\ d.type = "ObjectIdentifier" => Plain(d.value)

CloneIsCopy ==
  datum # None => Clone(datum) = IF Clonable(datum) THEN datum ELSE Refused

(***************************************************************************)
(* The octets written are the fewest that hold the number, never more than *)
(* the four or eight that encode asserts.                                  *)
(***************************************************************************)
ShortestForm ==
  datum # None /\ Encodes(datum) /\ datum.type \in Unsigned \cup {"Counter64"} =>
    LET octets == Encode(datum).octets
    IN /\ Len(octets) \in 1..(IF datum.type = "Counter64" THEN 8 ELSE 4)
       /\ Len(octets) > 1 => octets[1] # 0
=============================================================================

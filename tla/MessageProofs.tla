--------------------------- MODULE MessageProofs ----------------------------
(***************************************************************************)
(* Theorems about PDUs and messages.  What is encoded is known string by   *)
(* string, and so is what the parser makes of each of them; a message      *)
(* comes back because its objects do (CodecProofs) and because the grammar *)
(* has a rule for the tags they are written with.                          *)
(***************************************************************************)
EXTENDS Message, CodecProofs

----------------------------------------------------------------------------
(* The tables, without registrations.                                      *)
LEMMA Stock ==
  ASSUME StockTables
  PROVE  /\ TablesOK
         /\ \A c \in Constructors : StockTag[c] \in DOMAIN tagType /\ typeObj[tagType[StockTag[c]]] = c
         /\ \A t \in ErrorTags : t \in DOMAIN tagType /\ typeObj[tagType[t]] = "Null"
         /\ \A t \in DOMAIN tagType :
              t = StockTag[typeObj[tagType[t]]] \/ (t \in ErrorTags /\ typeObj[tagType[t]] = "Null")
<1>1. DOMAIN tagType = StockTags /\ DOMAIN typeObj = Constructors
      /\ \A c \in Constructors : typeObj[c] = c
  BY DEF StockTables
<1>2. \A t \in ErrorTags : t \in StockTags /\ tagType[t] = "Null"
  BY DEF StockTables, StockTags
<1>3. ASSUME NEW c \in Constructors PROVE StockTag[c] \in StockTags /\ tagType[StockTag[c]] = c
  <2> DEFINE t == StockTag[c]
  <2>1. t \in StockTags /\ t \notin ErrorTags
    <3>1. t \in StockTags
      BY DEF StockTags
    <3>2. \A x \in Constructors : StockTag[x] \notin ErrorTags
      BY Kinds DEF StockTag
    <3>3. QED
      BY <3>1, <3>2
  <2>2. tagType[t] = CHOOSE x \in Constructors : StockTag[x] = t
    BY <2>1, Zenon DEF StockTables
  <2>3. \A x, y \in Constructors : StockTag[x] = StockTag[y] => x = y
    BY Kinds DEF StockTag
  <2>4. QED
    BY <2>1, <2>2, <2>3
<1>4. "Null" \in Constructors
  BY Kinds
<1>5. ASSUME NEW t \in StockTags
      PROVE  /\ tagType[t] \in Constructors
             /\ t = StockTag[tagType[t]] \/ (t \in ErrorTags /\ tagType[t] = "Null")
  <2>1. CASE t \in ErrorTags
    BY <1>2, <1>4, <2>1
  <2>2. CASE t \notin ErrorTags
    <3>1. PICK c \in Constructors : t = StockTag[c]
      BY <1>5, <2>2 DEF StockTags
    <3>2. QED
      BY <1>3, <3>1
  <2>3. QED
    BY <2>1, <2>2
<1>6. StockTags \subseteq 0..255
  BY Kinds DEF StockTags
<1>7. TablesOK
  BY <1>1, <1>5, <1>6 DEF TablesOK, TagsMakeObjects
<1>8. \A t \in DOMAIN tagType : typeObj[tagType[t]] = tagType[t]
  BY <1>1, <1>5
<1>9. \A c \in Constructors : StockTag[c] \in DOMAIN tagType /\ typeObj[tagType[StockTag[c]]] = c
  BY <1>1, <1>3
<1>10. \A t \in ErrorTags : t \in DOMAIN tagType /\ typeObj[tagType[t]] = "Null"
  BY <1>1, <1>2, <1>4
<1>11. \A t \in DOMAIN tagType :
          t = StockTag[typeObj[tagType[t]]] \/ (t \in ErrorTags /\ typeObj[tagType[t]] = "Null")
  BY <1>1, <1>5, <1>8
<1>12. QED
  BY <1>7, <1>9, <1>10, <1>11

----------------------------------------------------------------------------
(* What an object of a message is.                                         *)
LEMMA ObjectForm ==
  ASSUME NEW d \in Objects
  PROVE  /\ d # None /\ DataObject(d) /\ d \in DataObjects
         /\ d.type \in Constructors
         /\ d.tag = StockTag[d.type] \/ (d.type = "Null" /\ d.tag \in ErrorTags)
<1>1. d \in DataObjects /\ d # None
  BY ObjectsAssumption DEF Objects
<1>2. QED
  BY <1>1 DEF Objects, DataObjects

LEMMA StockObject ==
  ASSUME NEW type \in Constructors, NEW v, Kept(type, v)
  PROVE  /\ Object(type, v) \in Objects
         /\ Object(type, v).type = type /\ Object(type, v).value = v
<1> DEFINE d == Object(type, v)
<1>1. d = [type |-> type, tag |-> StockTag[type], value |-> v]
  BY DEF Object
<1>2. StockTag[type] \in 0..255
  BY Kinds
<1>3. DataObject(d)
  BY <1>1, <1>2, Making
<1>4. v \in Values
  BY DEF Kept
<1>5. d \in DataObjects
  BY <1>1, <1>2, <1>4 DEF DataObjects
<1>6. QED
  BY <1>1, <1>3, <1>5 DEF Objects

LEMMA BindingForm ==
  ASSUME NEW vb \in Varbinds
  PROVE  /\ vb = [oid |-> vb.oid, data |-> vb.data]
         /\ vb.oid # None => vb.oid \in Objects /\ vb.oid.type = "ObjectIdentifier"
         /\ vb.data # None => vb.data \in Objects
BY DEF Varbinds

LEMMA StdForm ==
  ASSUME NEW p \in PDUs, p.std
  PROVE  /\ p = [op |-> p.op, std |-> TRUE, status |-> p.status, index |-> p.index, vbs |-> p.vbs]
         /\ p.op \in 0..31 /\ p.status \in Numbers32 /\ p.index \in Numbers32
         /\ p.vbs \in Seq(Varbinds)
BY DEF PDUs

LEMMA TrapForm ==
  ASSUME NEW p \in PDUs, ~ p.std
  PROVE  /\ p = [op |-> Trap, std |-> FALSE, fields |-> p.fields, vbs |-> p.vbs]
         /\ p.op = Trap /\ p.fields \in Fields /\ p.vbs \in Seq(Varbinds)
BY DEF PDUs

LEMMA PDUForms ==
  /\ \A op \in 0..31, status \in Numbers32, index \in Numbers32, vbs \in Seq(Varbinds) :
       [op |-> op, std |-> TRUE, status |-> status, index |-> index, vbs |-> vbs] \in PDUs
  /\ \A fields \in Fields, vbs \in Seq(Varbinds) :
       [op |-> Trap, std |-> FALSE, fields |-> fields, vbs |-> vbs] \in PDUs
BY DEF PDUs

(* clone gives a copy or throws.                                           *)
LEMMA CloneBinding ==
  ASSUME NEW vb \in Varbinds, Refused \notin {CloneVarbind(vb).oid, CloneVarbind(vb).data}
  PROVE  CloneVarbind(vb) = vb
<1>1. CloneVarbind(vb) = [oid |-> CloneData(vb.oid), data |-> CloneData(vb.data)]
  BY DEF CloneVarbind
<1>2. CloneData(vb.oid) # Refused /\ CloneData(vb.data) # Refused
  BY <1>1
<1>3. ASSUME NEW d \in Objects, Clone(d) # Refused PROVE Clone(d) = d
  BY <1>3, ObjectForm, CloneCopies
<1>4. CloneData(vb.oid) = vb.oid /\ CloneData(vb.data) = vb.data
  BY <1>2, <1>3, BindingForm DEF CloneData
<1>5. QED
  BY <1>1, <1>4, BindingForm

----------------------------------------------------------------------------
(* An object and the string it is written as.                              *)
LEMMA TagWritten ==
  ASSUME StockTables, NEW d \in Objects, Encodes(d)
  PROVE  /\ MeansType(WrittenTag(d), d.type)
         /\ d.type # "Null" => WrittenTag(d) = StockTag[d.type]
         /\ d.type = "Null" => WrittenTag(d) = 5 \/ WrittenTag(d) \in ErrorTags
         /\ Encode(d) \in AsnStrings
<1>1. DataObject(d) /\ d # None /\ d.type \in Constructors
      /\ (d.tag = StockTag[d.type] \/ (d.type = "Null" /\ d.tag \in ErrorTags))
  BY ObjectForm
<1>2. d.type # "Null" => WrittenTag(d) = StockTag[d.type]
  BY <1>1 DEF WrittenTag
<1>3. ASSUME d.type = "Null"
      PROVE  WrittenTag(d) = StockTag["Null"] \/ WrittenTag(d) \in ErrorTags
  <2>1. CASE Effective(d) = << >>
    BY <1>3, <2>1 DEF WrittenTag
  <2>2. CASE Effective(d) # << >>
    <3>1. Kept("Null", Effective(d))
      BY <1>1, <1>3, EffectiveKept DEF Encodes
    <3>2. PICK e \in noSuchObject..endOfMibView : Effective(d) = << e >>
      BY <2>2, <3>1, HoldsOf DEF Kept
    <3>3. WrittenTag(d) = Context + e
      BY <1>3, <2>2, <3>2 DEF WrittenTag
    <3>4. Context + e \in ErrorTags
      BY Kinds DEF Context, noSuchObject, endOfMibView
    <3>5. QED
      BY <3>3, <3>4
  <2>3. QED
    BY <2>1, <2>2
<1>4. MeansType(WrittenTag(d), d.type)
  BY <1>1, <1>2, <1>3, Stock DEF MeansType
<1>5. StockTag["Null"] = 5 /\ StockTag["ObjectIdentifier"] = 6
  BY DEF StockTag
<1>6. WrittenTag(d) \in 0..255
  BY <1>4, Stock DEF MeansType, TablesOK
<1> DEFINE c == Contents(d.type, Effective(d))
<1>7. c \in Seq(Nat) /\ (d.type # "ObjectIdentifier" => c \in Seq(Octet))
  BY <1>1, ContentsReadable DEF Readable
<1>8. WrittenTag(d) # StockTag["ObjectIdentifier"] => d.type # "ObjectIdentifier"
  BY <1>2
<1>9. Encode(d) = [tag |-> WrittenTag(d), long |-> FALSE, octets |-> c]
  BY WireForm
<1> HIDE DEF c
<1>10. Encode(d) \in AsnStrings
  BY <1>6, <1>7, <1>8, <1>9 DEF AsnStrings
<1>11. QED
  BY <1>2, <1>3, <1>4, <1>5, <1>10

(* What is read is the object, if and only if it keeps its form.           *)
LEMMA ReadBack ==
  ASSUME StockTables, NEW d \in Objects, Encodes(d)
  PROVE  /\ Parse(Encode(d)) = d <=> KeepsForm(d)
         /\ Read(d.type, Encode(d)) = d <=> KeepsForm(d)
<1> DEFINE value == Decoded(d.type, Encode(d))
           made == [type |-> d.type, tag |-> WrittenTag(d), value |-> value]
<1>1. DataObject(d) /\ d # None
  BY ObjectForm
<1>2. /\ d = [type |-> d.type, tag |-> d.tag, value |-> d.value] /\ d.value # Refused
      /\ d # Refused
  BY <1>1, ObjectOf, ObjectForm, ObjectsAssumption
<1>3. Encode(d).tag = WrittenTag(d)
  BY WireForm
<1>4. Read(d.type, Encode(d)) = made
  BY <1>3 DEF Read
<1>5. /\ value = Refused => Parse(Encode(d)) = Refused
      /\ value # Refused => Parse(Encode(d)) = made
  BY <1>3, TagWritten, Zenon DEF Parse, MeansType
<1>6. KeepsForm(d) <=> value = d.value /\ WrittenTag(d) = d.tag
  <2>1. CASE d.type = "ObjectIdentifier"
    BY <1>1, <2>1, IdentifierComesBack DEF KeepsForm
  <2>2. CASE d.type # "ObjectIdentifier"
    BY <1>1, <2>2, OthersComeBack DEF KeepsForm
  <2>3. QED
    BY <2>1, <2>2
<1> HIDE DEF value
<1>7. made = d <=> value = d.value /\ WrittenTag(d) = d.tag
  BY <1>2
<1>8. QED
  BY <1>2, <1>4, <1>5, <1>6, <1>7

(* What was read of a string keeps its form.                               *)
LEMMA ReadKeepsForm ==
  ASSUME StockTables, NEW string \in AsnStrings, NEW type \in Constructors,
         MeansType(string.tag, type), Decoded(type, string) # Refused
  PROVE  LET d == [type |-> type, tag |-> string.tag, value |-> Decoded(type, string)]
         IN d \in Objects /\ Encodes(d) /\ KeepsForm(d)
<1> DEFINE v == Decoded(type, string)
           d == [type |-> type, tag |-> string.tag, value |-> v]
<1>1. string.octets \in Seq(Nat) /\ string.tag \in 0..255
      /\ (string.tag # StockTag["ObjectIdentifier"] => string.octets \in Seq(Octet))
  BY DEF AsnStrings
<1>2. string.tag = StockTag[type] \/ (type = "Null" /\ string.tag \in ErrorTags)
  BY Stock DEF MeansType
<1>3. type # "ObjectIdentifier" => string.tag # StockTag["ObjectIdentifier"]
  <2>1. \A c \in Constructors : c # "ObjectIdentifier" => StockTag[c] # StockTag["ObjectIdentifier"]
    BY Kinds DEF StockTag
  <2>2. StockTag["ObjectIdentifier"] \notin ErrorTags
    BY Kinds DEF StockTag
  <2>3. QED
    BY <1>2, <2>1, <2>2
<1>4. Readable(type, string.octets)
  BY <1>1, <1>3 DEF Readable
<1>5. Kept(type, v)
  BY <1>4, DecodedKept
<1>6. v \in Values /\ v # None /\ v # Refused
  BY <1>5, ValuesAssumption DEF Kept
<1>7. type = "ObjectIdentifier" => Plain(v)
  <2> SUFFICES ASSUME type = "ObjectIdentifier" PROVE Plain(v)
    OBVIOUS
  <2> DEFINE o == string.octets
             oid == << o[1] \div 40, o[1] % 40 >> \o Tail(o)
  <2>1. Len(o) > 0 /\ v = canonicalizeOID(oid)
    BY <1>6, DecodedOf, Zenon
  <2>2. o \in Seq(Nat) /\ o[1] \in Nat /\ Tail(o) \in Seq(Nat)
    BY <1>1, <2>1
  <2>3. << o[1] \div 40, o[1] % 40 >> \in Seq(Nat)
    BY <2>2
  <2>4. oid \in Seq(Nat)
    BY <2>2, <2>3, ConcatProperties
  <2> HIDE DEF oid
  <2>5. QED
    BY <1>6, <2>1, <2>4, CanonPlain
<1>8. type = "IpAddress" => [i \in 1..4 |-> Number(v[i])] = v
  <2> SUFFICES ASSUME type = "IpAddress" PROVE [i \in 1..4 |-> Number(v[i])] = v
    OBVIOUS
  <2>1. Len(string.octets) = 4 /\ v = string.octets
    BY <1>6, DecodedOf, Zenon
  <2>2. v \in Seq(Nat)
    BY <1>1, <2>1
  <2>3. \A i \in 1..4 : Number(v[i]) = v[i]
    BY <2>1, <2>2, ValuesAssumption DEF Number
  <2>4. Len(v) = 4
    BY <2>1, Zenon
  <2> HIDE DEF v
  <2>5. v = [i \in 1..4 |-> v[i]]
    BY <2>2, <2>4
  <2>6. [i \in 1..4 |-> Number(v[i])] = [i \in 1..4 |-> v[i]]
    BY <2>3, Zenon
  <2>7. QED
    BY <2>5, <2>6, Zenon
<1>9. type = "Null" => v = NullValue(string.tag)
  <2> SUFFICES ASSUME type = "Null" PROVE v = NullValue(string.tag)
    OBVIOUS
  <2>1. v = ReadNull(string)
    BY DecodedOf, Zenon
  <2>2. QED
    BY <1>6, <2>1, Zenon DEF ReadNull, Checked
<1> HIDE DEF v
<1>10. d.type = type /\ d.tag = string.tag /\ d.value = v
  OBVIOUS
<1>11. d \in DataObjects /\ DataObject(d)
  <2>1. DataObject(d)
    BY <1>1, <1>5, Making
  <2>2. d \in DataObjects
    BY <1>1, <1>6 DEF DataObjects
  <2>3. QED
    BY <2>1, <2>2
<1>12. d \in Objects
  BY <1>2, <1>10, <1>11 DEF Objects
<1> HIDE DEF d
<1>13. Effective(d) = v
  BY <1>6, <1>10 DEF Effective
<1>14. Encodes(d)
  BY <1>6, <1>7, <1>10, <1>13 DEF Encodes, Plain
<1>15. d.value = Meaning(d)
  BY <1>8, <1>10, <1>13 DEF Meaning
<1>16. d.tag = WrittenTag(d)
  <2>1. CASE type # "Null"
    BY <1>10, <2>1 DEF WrittenTag
  <2>2. CASE type = "Null" /\ string.tag \in ErrorTags
    <3> DEFINE tag == string.tag
    <3>1. v = << tag - Context >>
      BY <1>9, <2>2, NullOf
    <3>2. WrittenTag(d) = Context + v[1]
      BY <1>10, <1>13, <2>2, <3>1 DEF WrittenTag
    <3>3. v[1] = tag - Context
      BY <3>1
    <3>4. tag \in Int
      <4>1. \A n \in 0..255 : n \in Int
        OBVIOUS
      <4>2. tag \in 0..255
        BY <1>1, Zenon
      <4>3. QED
        BY <4>1, <4>2, Zenon
    <3> HIDE DEF tag
    <3>5. Context + v[1] = tag
      BY <3>3, <3>4 DEF Context
    <3>6. QED
      BY <1>10, <3>2, <3>5 DEF tag
  <2>3. CASE type = "Null" /\ string.tag \notin ErrorTags
    <3>1. v = << >> /\ string.tag = StockTag["Null"]
      BY <1>2, <1>9, <2>3, NullOf
    <3>2. QED
      BY <1>10, <1>13, <2>3, <3>1 DEF WrittenTag
  <2>4. QED
    BY <2>1, <2>2, <2>3
<1>17. KeepsForm(d)
  BY <1>7, <1>10, <1>15, <1>16 DEF KeepsForm
<1>18. QED
  BY <1>12, <1>14, <1>17 DEF d, v

----------------------------------------------------------------------------
(* The strings of a message, one by one.                                   *)
Marker(tag) == [tag |-> tag, long |-> FALSE, octets |-> << >>]

LEMMA Concat ==
  ASSUME NEW S, NEW s \in Seq(S), NEW t \in Seq(S)
  PROVE  /\ s \o t \in Seq(S) /\ Len(s) \in Nat /\ Len(t) \in Nat /\ Len(s \o t) = Len(s) + Len(t)
         /\ \A i \in 1..Len(s) : (s \o t)[i] = s[i]
         /\ \A k \in 1..Len(t) : (s \o t)[Len(s) + k] = t[k]
OBVIOUS

Laid(S, s, a, b, c, d, h, e, r) ==
  /\ s \in Seq(S) /\ Len(s) = 5 + Len(h) + Len(r)
  /\ s[1] = a /\ s[2] = b /\ s[3] = c /\ s[4] = d /\ s[5 + Len(h)] = e
  /\ \A i \in 1..Len(h) : s[4 + i] = h[i]
  /\ \A k \in 1..Len(r) : s[5 + Len(h) + k] = r[k]

LEMMA Positions ==
  ASSUME NEW S, NEW a \in S, NEW b \in S, NEW c \in S, NEW d \in S, NEW e \in S,
         NEW h \in Seq(S), NEW r \in Seq(S)
  PROVE  Laid(S, << a >> \o << b >> \o << c >> \o (<< d >> \o h \o << e >> \o r), a, b, c, d, h, e, r)
<1> DEFINE front == << a >> \o << b >> \o << c >>
           p == << d >> \o h
           q == p \o << e >>
           back == q \o r
           s == front \o back
           m == Len(h)
           n == Len(r)
<1>0. m \in Nat /\ n \in Nat
  OBVIOUS
<1>1. front \in Seq(S) /\ Len(front) = 3 /\ front[1] = a /\ front[2] = b /\ front[3] = c
  OBVIOUS
<1>2. /\ p \in Seq(S) /\ Len(p) = 1 + m /\ p[1] = d
      /\ \A i \in 1..m : p[1 + i] = h[i]
  OBVIOUS
<1> HIDE DEF p
<1>3. /\ q \in Seq(S) /\ Len(q) = 2 + m /\ q[1] = d /\ q[2 + m] = e
      /\ \A i \in 1..m : q[1 + i] = h[i]
  BY <1>2
<1> HIDE DEF q
<1>4. /\ back \in Seq(S) /\ Len(back) = Len(q) + n
      /\ \A i \in 1..Len(q) : back[i] = q[i]
      /\ \A k \in 1..n : back[Len(q) + k] = r[k]
  <2>1. q \in Seq(S)
    BY <1>3
  <2>2. /\ q \o r \in Seq(S) /\ Len(q \o r) = Len(q) + Len(r)
        /\ \A i \in 1..Len(q) : (q \o r)[i] = q[i]
        /\ \A k \in 1..Len(r) : (q \o r)[Len(q) + k] = r[k]
    BY <2>1, Concat
  <2>3. QED
    BY <2>2
<1> HIDE DEF front, back
<1>5. /\ s \in Seq(S) /\ Len(s) = Len(front) + Len(back)
      /\ \A i \in 1..Len(front) : s[i] = front[i]
      /\ \A k \in 1..Len(back) : s[Len(front) + k] = back[k]
  <2>1. front \in Seq(S) /\ back \in Seq(S)
    BY <1>1, <1>4
  <2>2. QED
    BY <2>1, Concat
<1> HIDE DEF s, m, n
<1>6. Len(back) = 2 + m + n /\ Len(s) = 5 + m + n
  BY <1>0, <1>1, <1>3, <1>4, <1>5
<1>7. s[1] = a /\ s[2] = b /\ s[3] = c
  BY <1>1, <1>5
<1>8. \A k \in 1..(2 + m + n) : s[3 + k] = back[k]
  BY <1>0, <1>1, <1>5, <1>6
<1>9. s[3 + 1] = d /\ s[3 + (2 + m)] = e
  <2>1. 1 \in 1..(2 + m) /\ 2 + m \in 1..(2 + m) /\ 2 + m \in 1..(2 + m + n) /\ 1 \in 1..(2 + m + n)
    BY <1>0
  <2>2. back[1] = d /\ back[2 + m] = e
    BY <1>3, <1>4, <2>1
  <2>3. QED
    BY <1>8, <2>1, <2>2
<1>10. ASSUME NEW i \in 1..m PROVE s[4 + i] = h[i]
  <2>1. 1 + i \in 1..(2 + m) /\ 1 + i \in 1..(2 + m + n) /\ 3 + (1 + i) = 4 + i
    BY <1>0
  <2>2. back[1 + i] = h[i]
    BY <1>3, <1>4, <2>1
  <2>3. s[3 + (1 + i)] = back[1 + i]
    BY <1>8, <2>1
  <2>4. QED
    BY <2>1, <2>2, <2>3
<1>11. ASSUME NEW k \in 1..n PROVE s[5 + m + k] = r[k]
  <2>1. 2 + m + k \in 1..(2 + m + n) /\ 3 + (2 + m + k) = 5 + m + k
    BY <1>0
  <2>2. back[2 + m + k] = r[k]
    BY <1>3, <1>4
  <2>3. s[3 + (2 + m + k)] = back[2 + m + k]
    BY <1>8, <2>1
  <2>4. QED
    BY <2>1, <2>2, <2>3
<1>12. 3 + 1 = 4 /\ 3 + (2 + m) = 5 + m
  BY <1>0
<1>13. s = << a >> \o << b >> \o << c >> \o (<< d >> \o h \o << e >> \o r)
  BY DEF s, front, back, q, p
<1>14. Laid(S, s, a, b, c, d, h, e, r)
  BY <1>5, <1>6, <1>7, <1>9, <1>10, <1>11, <1>12 DEF m, n, Laid
<1>15. QED
  BY <1>13, <1>14, Zenon

(* How many strings the head of a PDU has.                                 *)
HeadLen(p) == IF p.std THEN 3 ELSE 5

(* A PDU that can be encoded: its objects, and its numbers as objects.     *)
LEMMA Encodable ==
  ASSUME NEW p \in PDUs, PDUEncodes(p)
  PROVE  /\ p.vbs \in Seq(Varbinds)
         /\ \A i \in 1..Len(p.vbs) :
              /\ p.vbs[i] = [oid |-> p.vbs[i].oid, data |-> p.vbs[i].data]
              /\ p.vbs[i].oid \in Objects /\ p.vbs[i].oid.type = "ObjectIdentifier" /\ Encodes(p.vbs[i].oid)
              /\ p.vbs[i].data \in Objects /\ Encodes(p.vbs[i].data)
         /\ ~ p.std => \A i \in 1..5 :
              p.fields[i] \in Objects /\ p.fields[i].type = FieldType[i] /\ Encodes(p.fields[i])
<1>1. p.vbs \in Seq(Varbinds)
  BY StdForm, TrapForm
<1>2. ASSUME NEW i \in 1..Len(p.vbs)
      PROVE  /\ p.vbs[i] = [oid |-> p.vbs[i].oid, data |-> p.vbs[i].data]
             /\ p.vbs[i].oid \in Objects /\ p.vbs[i].oid.type = "ObjectIdentifier" /\ Encodes(p.vbs[i].oid)
             /\ p.vbs[i].data \in Objects /\ Encodes(p.vbs[i].data)
  <2>1. p.vbs[i] \in Varbinds /\ i \in DOMAIN p.vbs
    BY <1>1
  <2>2. VarbindEncodes(p.vbs[i])
    BY <2>1 DEF PDUEncodes
  <2>3. QED
    BY <2>1, <2>2, BindingForm DEF VarbindEncodes
<1>3. ASSUME ~ p.std, NEW i \in 1..5
      PROVE  p.fields[i] \in Objects /\ p.fields[i].type = FieldType[i] /\ Encodes(p.fields[i])
  <2>1. p.fields \in Fields
    BY <1>3, TrapForm
  <2>2. p.fields[i] # None /\ Encodes(p.fields[i])
    BY <1>3 DEF PDUEncodes
  <2>3. QED
    BY <2>1, <2>2 DEF Fields
<1>4. QED
  BY <1>1, <1>2, <1>3

LEMMA NumberObject ==
  ASSUME StockTables, NEW n \in Numbers32
  PROVE  /\ Object("Integer", << n >>) \in Objects /\ Encodes(Object("Integer", << n >>))
         /\ Encode(Object("Integer", << n >>)) \in AsnStrings
         /\ Encode(Object("Integer", << n >>)).tag = 2
         /\ Len(Encode(Object("Integer", << n >>)).octets) \in 1..4
         /\ Signed(Encode(Object("Integer", << n >>)).octets) = n
<1> DEFINE d == Object("Integer", << n >>)
<1>1. n \in Int /\ n \in MIN_INT32..MAX_INT32
  BY Bounds DEF Numbers32
<1>2. Kept("Integer", << n >>)
  BY <1>1, KeptNumber
<1>3. d \in Objects /\ d.type = "Integer" /\ d.value = << n >>
  BY <1>2, StockObject, Kinds
<1>4. d.tag = 2
  BY DEF Object, StockTag
<1> HIDE DEF d
<1>5. << n >> # None /\ << n >> # Refused
  BY <1>2, ValuesAssumption DEF Kept
<1>6. Effective(d) = << n >> /\ Encodes(d)
  BY <1>3, <1>5 DEF Effective, Encodes
<1>7. Encode(d).octets = IntOctets(n)
  <2>1. Contents(d.type, << n >>) = IntOctets(<< n >>[1])
    BY <1>3, ContentsOf
  <2>2. << n >>[1] = n
    OBVIOUS
  <2>3. QED
    BY <1>6, <2>1, <2>2, WireForm
<1>8. Encode(d).tag = 2
  BY <1>3, <1>4, WireForm DEF WrittenTag
<1>9. Encode(d) \in AsnStrings
  BY <1>3, <1>6, TagWritten
<1>10. Len(Encode(d).octets) \in 1..4 /\ Signed(Encode(d).octets) = n
  BY <1>1, <1>7, IntegerRoundTrip, Zenon
<1>11. QED
  BY <1>3, <1>6, <1>8, <1>9, <1>10 DEF d

LEMMA Triples ==
  ASSUME NEW S, NEW a \in S, NEW b \in S, NEW c \in S
  PROVE  << a >> \o << b, c >> = << a, b, c >> /\ << a >> \o << b >> \o << c >> = << a, b, c >>
<1> DEFINE s == << a >> \o << b, c >>
           t == << a >> \o << b >> \o << c >>
           u == << a, b, c >>
<1>1. s \in Seq(S) /\ Len(s) = 3 /\ s[1] = a /\ s[2] = b /\ s[3] = c
  OBVIOUS
<1>2. t \in Seq(S) /\ Len(t) = 3 /\ t[1] = a /\ t[2] = b /\ t[3] = c
  OBVIOUS
<1>3. u \in Seq(S) /\ Len(u) = 3 /\ u[1] = a /\ u[2] = b /\ u[3] = c
  OBVIOUS
<1> HIDE DEF s, t, u
<1>4. s = u
  BY <1>1, <1>3, SeqEqual
<1>5. t = u
  BY <1>2, <1>3, SeqEqual
<1>6. QED
  BY <1>4, <1>5 DEF s, t, u

LEMMA MarkerString ==
  ASSUME NEW tag \in 0..255
  PROVE  Marker(tag) \in AsnStrings /\ Start(tag) = << Marker(tag) >> /\ Marker(tag).tag = tag
<1>1. << >> \in Seq(Nat) /\ << >> \in Seq(Octet)
  OBVIOUS
<1>2. Marker(tag) \in AsnStrings
  BY <1>1 DEF Marker, AsnStrings
<1>3. QED
  BY <1>2 DEF Marker, Start

LEMMA Community ==
  ASSUME StockTables
  PROVE  /\ Encode(Object("OctetString", << >>)) \in AsnStrings
         /\ Encode(Object("OctetString", << >>)).tag = 4
<1> DEFINE d == Object("OctetString", << >>)
<1>1. Kept("OctetString", << >>)
  <2>1. << >> \in Seq(Octet) /\ "OctetString" \in Texts
    BY Kinds
  <2>2. QED
    BY <2>1, KeptText
<1>2. d \in Objects /\ d.type = "OctetString" /\ d.value = << >> /\ d.tag = 4
  BY <1>1, StockObject, Kinds DEF Object, StockTag
<1>3. << >> # None /\ << >> # Refused
  BY <1>1, ValuesAssumption DEF Kept
<1> HIDE DEF d
<1>4. Encodes(d)
  BY <1>2, <1>3 DEF Effective, Encodes
<1>5. Encode(d).tag = 4
  BY <1>2, WireForm DEF WrittenTag
<1>6. QED
  BY <1>2, <1>4, <1>5, TagWritten DEF d

(* Three strings of each binding.                                          *)
LEMMA BindingStrings ==
  ASSUME StockTables, NEW p \in PDUs, PDUEncodes(p)
  PROVE  LET r == EncodeVarbinds(p.vbs)  n == Len(p.vbs)
         IN /\ n \in Nat /\ r \in Seq(AsnStrings) /\ Len(r) = 3 * n
            /\ \A i \in 1..n : /\ r[3 * i - 2] = Marker(Sequence)
                               /\ r[3 * i - 1] = Encode(p.vbs[i].oid)
                               /\ r[3 * i] = Encode(p.vbs[i].data)
<1> DEFINE r == EncodeVarbinds(p.vbs)
           n == Len(p.vbs)
           at(k) == EncodeVarbind(p.vbs[(k + 2) \div 3])[((k + 2) % 3) + 1]
<1>1. n \in Nat
  BY Encodable
<1>2. r = [k \in 1..(3 * n) |-> at(k)]
  BY DEF EncodeVarbinds
<1>3. ASSUME NEW i \in 1..n
      PROVE  /\ EncodeVarbind(p.vbs[i]) = << Marker(Sequence), Encode(p.vbs[i].oid), Encode(p.vbs[i].data) >>
             /\ Marker(Sequence) \in AsnStrings
             /\ Encode(p.vbs[i].oid) \in AsnStrings
             /\ Encode(p.vbs[i].data) \in AsnStrings
  <2>1. Start(Sequence) = << Marker(Sequence) >> /\ Marker(Sequence) \in AsnStrings
    BY MarkerString DEF Sequence
  <2>2. Encode(p.vbs[i].oid) \in AsnStrings /\ Encode(p.vbs[i].data) \in AsnStrings
    BY Encodable, TagWritten
  <2>3. EncodeVarbind(p.vbs[i]) = << Marker(Sequence) >> \o << Encode(p.vbs[i].oid), Encode(p.vbs[i].data) >>
    BY <2>1 DEF EncodeVarbind
  <2>4. EncodeVarbind(p.vbs[i]) = << Marker(Sequence), Encode(p.vbs[i].oid), Encode(p.vbs[i].data) >>
    BY <2>1, <2>2, <2>3, Triples
  <2>5. QED
    BY <2>1, <2>2, <2>4
<1>4. ASSUME NEW i \in 1..n
      PROVE  /\ 3 * i - 2 \in 1..(3 * n) /\ 3 * i - 1 \in 1..(3 * n) /\ 3 * i \in 1..(3 * n)
             /\ (3 * i - 2 + 2) \div 3 = i /\ ((3 * i - 2 + 2) % 3) + 1 = 1
             /\ (3 * i - 1 + 2) \div 3 = i /\ ((3 * i - 1 + 2) % 3) + 1 = 2
             /\ (3 * i + 2) \div 3 = i /\ ((3 * i + 2) % 3) + 1 = 3
  BY <1>1
<1>5. ASSUME NEW i \in 1..n
      PROVE  /\ r[3 * i - 2] = Marker(Sequence)
             /\ r[3 * i - 1] = Encode(p.vbs[i].oid)
             /\ r[3 * i] = Encode(p.vbs[i].data)
  <2> DEFINE e == EncodeVarbind(p.vbs[i])
  <2>1. e[1] = Marker(Sequence) /\ e[2] = Encode(p.vbs[i].oid) /\ e[3] = Encode(p.vbs[i].data)
    BY <1>3
  <2>2. at(3 * i - 2) = e[1] /\ at(3 * i - 1) = e[2] /\ at(3 * i) = e[3]
    BY <1>4, Zenon
  <2>3. r[3 * i - 2] = at(3 * i - 2) /\ r[3 * i - 1] = at(3 * i - 1) /\ r[3 * i] = at(3 * i)
    BY <1>2, <1>4, Zenon
  <2>4. QED
    BY <2>1, <2>2, <2>3, Zenon
<1>6. ASSUME NEW k \in 1..(3 * n) PROVE at(k) \in AsnStrings
  <2>1. PICK i \in 1..n : k = 3 * i - 2 \/ k = 3 * i - 1 \/ k = 3 * i
    <3>1. (k + 2) \div 3 \in 1..n
      BY <1>1
    <3>2. k = 3 * ((k + 2) \div 3) - 2 \/ k = 3 * ((k + 2) \div 3) - 1 \/ k = 3 * ((k + 2) \div 3)
      BY <1>1
    <3>3. QED
      BY <3>1, <3>2
  <2>2. r[k] \in AsnStrings
    BY <1>3, <1>5, <2>1
  <2>3. QED
    BY <1>2, <2>2
<1>7. r \in Seq(AsnStrings) /\ Len(r) = 3 * n
  <2>1. 3 * n \in Nat
    BY <1>1
  <2> DEFINE m == 3 * n
  <2> HIDE DEF m, at
  <2>2. r = [k \in 1..m |-> at(k)] /\ \A k \in 1..m : at(k) \in AsnStrings
    BY <1>2, <1>6 DEF m
  <2>3. QED
    BY <2>1, <2>2 DEF m
<1>8. QED
  BY <1>1, <1>5, <1>7

LEMMA HeadStrings ==
  ASSUME StockTables, NEW p \in PDUs, PDUEncodes(p)
  PROVE  LET h == EncodeHead(p)
         IN /\ h \in Seq(AsnStrings) /\ Len(h) = HeadLen(p)
            /\ p.std => /\ h[1] = Encode(Object("Integer", << 1 >>))
                        /\ h[2] = Encode(Object("Integer", << p.status >>))
                        /\ h[3] = Encode(Object("Integer", << p.index >>))
            /\ ~ p.std => \A i \in 1..5 : h[i] = Encode(p.fields[i])
<1>1. CASE p.std
  <2> DEFINE a == Encode(Object("Integer", << 1 >>))
             b == Encode(Object("Integer", << p.status >>))
             c == Encode(Object("Integer", << p.index >>))
  <2>1. 1 \in Numbers32
    BY WidthFacts DEF Numbers32, MIN_INT32, MAX_INT32
  <2>2. a \in AsnStrings /\ b \in AsnStrings /\ c \in AsnStrings
    BY <1>1, <2>1, NumberObject, StdForm
  <2>3. EncodeHead(p) = << a >> \o << b >> \o << c >>
    BY <1>1 DEF EncodeHead, Written
  <2> HIDE DEF a, b, c
  <2>4. EncodeHead(p) = << a, b, c >>
    BY <2>2, <2>3, Triples
  <2>5. QED
    BY <1>1, <2>2, <2>4 DEF HeadLen, a, b, c
<1>2. CASE ~ p.std
  <2>1. EncodeHead(p) = [i \in 1..5 |-> Encode(p.fields[i])]
    BY <1>2 DEF EncodeHead
  <2>2. \A i \in 1..5 : Encode(p.fields[i]) \in AsnStrings
    BY <1>2, Encodable, TagWritten
  <2>3. QED
    BY <1>2, <2>1, <2>2 DEF HeadLen
<1>3. QED
  BY <1>1, <1>2

LEMMA EncodedAt ==
  ASSUME StockTables, NEW p \in PDUs, PDUEncodes(p), NEW version \in {0, 1}
  PROVE  LET s == EncodeMessage(version, p)  h == HeadLen(p)  n == Len(p.vbs)
         IN /\ s \in Seq(AsnStrings) /\ Len(s) = 5 + h + 3 * n
            /\ s[1] = Marker(Sequence)
            /\ s[2] = Encode(Object("Integer", << version >>))
            /\ s[3] = Encode(Object("OctetString", << >>))
            /\ s[4] = Marker(Constructed + p.op)
            /\ \A i \in 1..h : s[4 + i] = EncodeHead(p)[i]
            /\ s[5 + h] = Marker(Sequence)
            /\ \A i \in 1..n : /\ s[5 + h + 3 * i - 2] = Marker(Sequence)
                               /\ s[5 + h + 3 * i - 1] = Encode(p.vbs[i].oid)
                               /\ s[5 + h + 3 * i] = Encode(p.vbs[i].data)
<1> DEFINE s == EncodeMessage(version, p)
           a == Marker(Sequence)
           b == Encode(Object("Integer", << version >>))
           c == Encode(Object("OctetString", << >>))
           d == Marker(Constructed + p.op)
           head == EncodeHead(p)
           r == EncodeVarbinds(p.vbs)
           h == HeadLen(p)
           n == Len(p.vbs)
<1>1. version \in Numbers32
  BY WidthFacts DEF Numbers32, MIN_INT32, MAX_INT32
<1>2. p.op \in 0..31
  <2>1. CASE p.std
    BY <2>1, StdForm, Zenon
  <2>2. CASE ~ p.std
    BY <2>2, TrapForm DEF Trap
  <2>3. QED
    BY <2>1, <2>2
<1>3. a \in AsnStrings /\ Start(Sequence) = << a >>
  BY MarkerString DEF Sequence
<1>4. d \in AsnStrings /\ Start(Constructed + p.op) = << d >>
  <2>1. Constructed + p.op \in 0..255
    BY <1>2 DEF Constructed
  <2>2. QED
    BY <2>1, MarkerString
<1>5. b \in AsnStrings /\ c \in AsnStrings
  BY <1>1, NumberObject, Community
<1>6. head \in Seq(AsnStrings) /\ Len(head) = h
  BY HeadStrings
<1>7. /\ n \in Nat /\ r \in Seq(AsnStrings) /\ Len(r) = 3 * n
      /\ \A i \in 1..n : /\ r[3 * i - 2] = Marker(Sequence)
                         /\ r[3 * i - 1] = Encode(p.vbs[i].oid)
                         /\ r[3 * i] = Encode(p.vbs[i].data)
  BY BindingStrings
<1>8. s = << a >> \o << b >> \o << c >> \o (<< d >> \o head \o << a >> \o r)
  BY <1>3, <1>4 DEF EncodeMessage, EncodePDU, Written
<1> HIDE DEF s, a, b, c, d, head, r
<1>9. /\ s \in Seq(AsnStrings) /\ Len(s) = 5 + Len(head) + Len(r)
      /\ s[1] = a /\ s[2] = b /\ s[3] = c /\ s[4] = d /\ s[5 + Len(head)] = a
      /\ \A i \in 1..Len(head) : s[4 + i] = head[i]
      /\ \A k \in 1..Len(r) : s[5 + Len(head) + k] = r[k]
  <2>1. /\ a \in AsnStrings /\ b \in AsnStrings /\ c \in AsnStrings /\ d \in AsnStrings
        /\ head \in Seq(AsnStrings) /\ r \in Seq(AsnStrings)
    BY <1>3, <1>4, <1>5, <1>6, <1>7
  <2>2. Laid(AsnStrings, << a >> \o << b >> \o << c >> \o (<< d >> \o head \o << a >> \o r),
             a, b, c, d, head, a, r)
    BY <2>1, Positions, Zenon
  <2>3. Laid(AsnStrings, s, a, b, c, d, head, a, r)
    BY <1>8, <2>2, Zenon
  <2>4. QED
    BY <2>3 DEF Laid
<1>10. h \in Nat
  BY DEF HeadLen
<1> HIDE DEF h, n
<1>11. ASSUME NEW i \in 1..n
       PROVE  /\ s[5 + h + 3 * i - 2] = Marker(Sequence)
              /\ s[5 + h + 3 * i - 1] = Encode(p.vbs[i].oid)
              /\ s[5 + h + 3 * i] = Encode(p.vbs[i].data)
  <2>1. /\ 3 * i - 2 \in 1..(3 * n) /\ 3 * i - 1 \in 1..(3 * n) /\ 3 * i \in 1..(3 * n)
        /\ 5 + h + 3 * i - 2 = 5 + h + (3 * i - 2) /\ 5 + h + 3 * i - 1 = 5 + h + (3 * i - 1)
    BY <1>7, <1>10
  <2>2. \A k \in 1..(3 * n) : s[5 + h + k] = r[k]
    BY <1>6, <1>7, <1>9
  <2>3. /\ s[5 + h + (3 * i - 2)] = r[3 * i - 2] /\ s[5 + h + (3 * i - 1)] = r[3 * i - 1]
        /\ s[5 + h + 3 * i] = r[3 * i]
    BY <2>1, <2>2
  <2>4. QED
    BY <1>7, <2>1, <2>3
<1>12. QED
  BY <1>6, <1>7, <1>9, <1>11 DEF s, a, b, c, d, head, h, n

----------------------------------------------------------------------------
(* The lexer and the grammar.                                              *)
LEMMA TokenOf ==
  ASSUME NEW s, s.tag \in 0..255
  PROVE  /\ s.tag = 2 <=> Token(s) = "INTEGER"
         /\ s.tag = 4 <=> Token(s) = "OCTET_STRING"
         /\ s.tag = 6 <=> Token(s) = "OBJECT_IDENTIFIER"
         /\ s.tag = Sequence <=> Token(s) = "SEQUENCE"
         /\ s.tag = 64 <=> Token(s) = "IP_ADDRESS"
         /\ s.tag = 67 <=> Token(s) = "TIME_TICKS"
         /\ s.tag \in Constructed..(Constructed + 8) <=> Token(s) = "CONTEXT_CONSTRUCTED"
BY DEF Token, Sequence, Constructed

Tokens ==
  {"INTEGER", "OCTET_STRING", "NULL", "OBJECT_IDENTIFIER", "SEQUENCE", "IP_ADDRESS",
   "TIME_TICKS", "CONTEXT_CONSTRUCTED", "DATA"}

LEMMA TokensAre == \A s : Token(s) \in Tokens
BY DEF Token, Tokens

(* What stands at the i-th place of a list of bindings.                    *)
Placed(i, token) ==
  CASE i % 3 = 1 -> token = "SEQUENCE"
    [] i % 3 = 2 -> token = "OBJECT_IDENTIFIER"
    [] i % 3 = 0 -> IsValue(token)

LEMMA PrefixForm ==
  ASSUME NEW S, NEW s \in Seq(S), NEW t \in Seq(S)
  PROVE  IsPrefix(s, t) <=> Len(s) <= Len(t) /\ \A i \in 1..Len(s) : s[i] = t[i]
<1> DEFINE n == Len(s)
<1>1. n \in Nat /\ Len(t) \in Nat /\ SubSeq(s, 1, n) = s
  OBVIOUS
<1>2. ASSUME n <= Len(t)
      PROVE  s = SubSeq(t, 1, n) <=> \A i \in 1..n : s[i] = t[i]
  <2> DEFINE u == SubSeq(t, 1, n)
  <2>1. u \in Seq(S) /\ Len(u) = n /\ \A i \in 1..n : u[i] = t[i]
    BY <1>1, <1>2
  <2> HIDE DEF u
  <2>2. s = u <=> \A i \in 1..n : s[i] = u[i]
    BY <2>1, SeqEqual
  <2>3. QED
    BY <2>1, <2>2 DEF u
<1>3. QED
  BY <1>1, <1>2 DEF IsPrefix

LEMMA VarbindsForm ==
  ASSUME NEW tokens \in Seq(Tokens)
  PROVE  IsVarbinds(tokens) <=>
           Len(tokens) % 3 = 0 /\ \A i \in 1..Len(tokens) : Placed(i, tokens[i])
<1>1. DOMAIN tokens = 1..Len(tokens)
  OBVIOUS
<1>2. QED
  BY <1>1, Zenon DEF IsVarbinds, Placed

(* The grammar, place by place: h tokens of a head from the fifth on, and  *)
(* the strings of a list after them.                                       *)
Grammar(tokens, v1, head, h) ==
  LET m == Len(tokens) - 5 - h
  IN /\ m >= -1
     /\ tokens[1] = "SEQUENCE" /\ tokens[2] = "INTEGER"
     /\ tokens[3] = "OCTET_STRING" /\ tokens[4] = "CONTEXT_CONSTRUCTED"
     /\ \A i \in 1..h : tokens[4 + i] = head[i]
     /\ m # -1 => /\ tokens[5 + h] = "SEQUENCE"
                  /\ m = 0 => v1
                  /\ m % 3 = 0
                  /\ \A i \in 1..m : Placed(i, tokens[5 + h + i])

LEMMA GrammarForm ==
  ASSUME NEW tokens \in Seq(Tokens), NEW v1 \in BOOLEAN
  PROVE  LET head == IF v1 THEN TrapHead ELSE StdHead
         IN IsMessage(tokens, v1) <=> Grammar(tokens, v1, head, Len(head))
<1> DEFINE start == << "SEQUENCE", "INTEGER", "OCTET_STRING", "CONTEXT_CONSTRUCTED" >>
           head == IF v1 THEN TrapHead ELSE StdHead
           full == start \o head
           h == Len(head)
           n == Len(tokens)
           m == n - 5 - h
           rest == SubSeq(tokens, Len(full) + 1, n)
<1>1. head \in Seq(Tokens) /\ h \in Nat
  <2>1. TrapHead \in Seq(Tokens) /\ StdHead \in Seq(Tokens)
    BY DEF TrapHead, StdHead, Tokens
  <2>2. head \in Seq(Tokens)
    BY <2>1
  <2> HIDE DEF head
  <2>3. QED
    BY <2>2
<1>2. /\ start \in Seq(Tokens) /\ Len(start) = 4
      /\ start[1] = "SEQUENCE" /\ start[2] = "INTEGER"
      /\ start[3] = "OCTET_STRING" /\ start[4] = "CONTEXT_CONSTRUCTED"
  BY DEF Tokens
<1>3. n \in Nat
  OBVIOUS
<1>4. IsMessage(tokens, v1) <=> IsPrefix(full, tokens) /\ IsVarbindList(rest, v1)
  BY DEF IsMessage
<1> HIDE DEF start, head
<1>5. /\ full \in Seq(Tokens) /\ Len(full) = 4 + h
      /\ \A i \in 1..4 : full[i] = start[i]
      /\ \A i \in 1..h : full[4 + i] = head[i]
  <2>1. /\ start \o head \in Seq(Tokens) /\ Len(start \o head) = Len(start) + Len(head)
        /\ \A i \in 1..Len(start) : (start \o head)[i] = start[i]
        /\ \A k \in 1..Len(head) : (start \o head)[Len(start) + k] = head[k]
    <3>1. start \in Seq(Tokens) /\ head \in Seq(Tokens)
      BY <1>1, <1>2
    <3>2. QED
      BY <3>1, Concat
  <2>2. QED
    BY <1>2, <2>1
<1> HIDE DEF full, h
<1>6. IsPrefix(full, tokens) <=> 4 + h <= n /\ \A i \in 1..(4 + h) : full[i] = tokens[i]
  BY <1>5, PrefixForm
<1>7. (\A i \in 1..(4 + h) : full[i] = tokens[i]) <=>
        /\ tokens[1] = "SEQUENCE" /\ tokens[2] = "INTEGER"
        /\ tokens[3] = "OCTET_STRING" /\ tokens[4] = "CONTEXT_CONSTRUCTED"
        /\ \A i \in 1..h : tokens[4 + i] = head[i]
  <2>1. \A i \in 1..(4 + h) : i \in {1, 2, 3, 4} \/ (i - 4 \in 1..h /\ i = 4 + (i - 4))
    BY <1>1
  <2>2. \A i \in 1..h : 4 + i \in 1..(4 + h)
    BY <1>1
  <2>3. 1 \in 1..(4 + h) /\ 2 \in 1..(4 + h) /\ 3 \in 1..(4 + h) /\ 4 \in 1..(4 + h)
    BY <1>1
  <2>4. full[1] = "SEQUENCE" /\ full[2] = "INTEGER" /\ full[3] = "OCTET_STRING" /\ full[4] = "CONTEXT_CONSTRUCTED"
    BY <1>2, <1>5
  <2>5. ASSUME \A i \in 1..(4 + h) : full[i] = tokens[i]
        PROVE  /\ tokens[1] = "SEQUENCE" /\ tokens[2] = "INTEGER"
               /\ tokens[3] = "OCTET_STRING" /\ tokens[4] = "CONTEXT_CONSTRUCTED"
               /\ \A i \in 1..h : tokens[4 + i] = head[i]
    BY <1>5, <2>2, <2>3, <2>4, <2>5
  <2>6. ASSUME /\ tokens[1] = "SEQUENCE" /\ tokens[2] = "INTEGER"
               /\ tokens[3] = "OCTET_STRING" /\ tokens[4] = "CONTEXT_CONSTRUCTED",
               \A i \in 1..h : tokens[4 + i] = head[i]
        PROVE  \A i \in 1..(4 + h) : full[i] = tokens[i]
    <3> SUFFICES ASSUME NEW i \in 1..(4 + h) PROVE full[i] = tokens[i]
      OBVIOUS
    <3>1. CASE i \in {1, 2, 3, 4}
      BY <2>4, <2>6, <3>1
    <3>2. CASE i - 4 \in 1..h /\ i = 4 + (i - 4)
      <4>1. full[4 + (i - 4)] = head[i - 4] /\ tokens[4 + (i - 4)] = head[i - 4]
        BY <1>5, <2>6, <3>2
      <4>2. QED
        BY <3>2, <4>1
    <3>3. QED
      BY <2>1, <3>1, <3>2
  <2>7. QED
    BY <2>5, <2>6
<1>8. ASSUME m >= -1
      PROVE  IsVarbindList(rest, v1) <=>
               (m # -1 => /\ tokens[5 + h] = "SEQUENCE"
                          /\ m = 0 => v1
                          /\ m % 3 = 0
                          /\ \A i \in 1..m : Placed(i, tokens[5 + h + i]))
  <2>1. /\ rest \in Seq(Tokens) /\ Len(rest) = m + 1
        /\ \A i \in 1..(m + 1) : rest[i] = tokens[4 + h + i]
    BY <1>1, <1>3, <1>5, <1>8
  <2> HIDE DEF rest
  <2>2. m \in Int
    BY <1>1, <1>3
  <2>3. CASE m = -1
    <3>1. rest = << >>
      BY <2>1, <2>3
    <3>2. QED
      BY <2>3, <3>1 DEF IsVarbindList
  <2>4. CASE m # -1
    <3>1. m \in Nat /\ rest # << >>
      BY <1>8, <2>1, <2>2, <2>4
    <3>2. rest[1] = tokens[5 + h] /\ (Len(rest) > 1 <=> m > 0)
      BY <1>1, <2>1, <3>1
    <3> DEFINE tail == Tail(rest)
    <3>3. /\ tail \in Seq(Tokens) /\ Len(tail) = m
          /\ \A i \in 1..m : tail[i] = rest[i + 1]
      BY <2>1, <3>1
    <3> HIDE DEF tail, m
    <3>4. \A i \in 1..m : tail[i] = tokens[5 + h + i]
      <4> SUFFICES ASSUME NEW i \in 1..m PROVE tail[i] = tokens[5 + h + i]
        OBVIOUS
      <4>1. i + 1 \in 1..(m + 1) /\ 4 + h + (i + 1) = 5 + h + i
        BY <1>1, <3>1
      <4>2. rest[i + 1] = tokens[4 + h + (i + 1)]
        BY <2>1, <4>1
      <4>3. QED
        BY <3>3, <4>1, <4>2
    <3>5. IsVarbinds(tail) <=> m % 3 = 0 /\ \A i \in 1..m : Placed(i, tokens[5 + h + i])
      <4>1. IsVarbinds(tail) <=> m % 3 = 0 /\ \A i \in 1..m : Placed(i, tail[i])
        BY <3>3, VarbindsForm, Zenon
      <4>2. QED
        BY <3>4, <4>1, Zenon
    <3>6. rest = << "SEQUENCE" >> <=> m = 0 /\ tokens[5 + h] = "SEQUENCE"
      <4>1. Len(<< "SEQUENCE" >>) = 1 /\ << "SEQUENCE" >>[1] = "SEQUENCE" /\ << "SEQUENCE" >> \in Seq(Tokens)
        BY DEF Tokens
      <4>2. rest = << "SEQUENCE" >> <=> Len(rest) = 1 /\ rest[1] = "SEQUENCE"
        BY <2>1, <4>1, SeqEqual
      <4>3. QED
        BY <2>1, <3>1, <3>2, <4>2
    <3>7. IsVarbindList(rest, v1) <=>
            \/ tokens[5 + h] = "SEQUENCE" /\ m > 0 /\ IsVarbinds(tail)
            \/ v1 /\ m = 0 /\ tokens[5 + h] = "SEQUENCE"
      BY <3>1, <3>2, <3>6, Zenon DEF IsVarbindList, tail
    <3>8. m = 0 => m % 3 = 0 /\ 1..m = {}
      OBVIOUS
    <3>9. m > 0 <=> m # 0
      BY <3>1
    <3>10. QED
      BY <2>4, <3>5, <3>7, <3>8, <3>9, Zenon
  <2>5. QED
    BY <2>3, <2>4
<1>9. m >= -1 <=> 4 + h <= n
  BY <1>1, <1>3
<1>10. QED
  BY <1>4, <1>6, <1>7, <1>8, <1>9 DEF head, h, Grammar

LEMMA ByThrees ==
  ASSUME NEW m \in Nat, m % 3 = 0, NEW f
  PROVE  (\A i \in 1..m : Placed(i, f[i])) <=>
           \A j \in 1..(m \div 3) : /\ f[3 * j - 2] = "SEQUENCE"
                                    /\ f[3 * j - 1] = "OBJECT_IDENTIFIER"
                                    /\ IsValue(f[3 * j])
<1> DEFINE n == m \div 3
<1>1. n \in Nat /\ m = 3 * n
  OBVIOUS
<1>2. ASSUME NEW j \in 1..n
      PROVE  /\ 3 * j - 2 \in 1..m /\ (3 * j - 2) % 3 = 1
             /\ 3 * j - 1 \in 1..m /\ (3 * j - 1) % 3 = 2
             /\ 3 * j \in 1..m /\ (3 * j) % 3 = 0
  BY <1>1
<1>3. ASSUME NEW i \in 1..m
      PROVE  \E j \in 1..n : i = 3 * j - 2 \/ i = 3 * j - 1 \/ i = 3 * j
  <2>1. (i + 2) \div 3 \in 1..n
    BY <1>1
  <2>2. \/ i = 3 * ((i + 2) \div 3) - 2 \/ i = 3 * ((i + 2) \div 3) - 1
        \/ i = 3 * ((i + 2) \div 3)
    BY <1>1
  <2>3. QED
    BY <2>1, <2>2
<1>4. \A i, token : /\ i % 3 = 1 => (Placed(i, token) <=> token = "SEQUENCE")
                    /\ i % 3 = 2 => (Placed(i, token) <=> token = "OBJECT_IDENTIFIER")
                    /\ i % 3 = 0 => (Placed(i, token) <=> IsValue(token))
  <2>0. 0 # 1 /\ 0 # 2 /\ 1 # 2
    OBVIOUS
  <2>1. ASSUME NEW i, NEW token, i % 3 = 1 PROVE Placed(i, token) <=> token = "SEQUENCE"
    BY <2>0, <2>1, Zenon DEF Placed
  <2>2. ASSUME NEW i, NEW token, i % 3 = 2 PROVE Placed(i, token) <=> token = "OBJECT_IDENTIFIER"
    BY <2>0, <2>2, Zenon DEF Placed
  <2>3. ASSUME NEW i, NEW token, i % 3 = 0 PROVE Placed(i, token) <=> IsValue(token)
    BY <2>0, <2>3, Zenon DEF Placed
  <2>4. QED
    BY <2>1, <2>2, <2>3
<1>5. ASSUME NEW j \in 1..n
      PROVE  /\ Placed(3 * j - 2, f[3 * j - 2]) <=> f[3 * j - 2] = "SEQUENCE"
             /\ Placed(3 * j - 1, f[3 * j - 1]) <=> f[3 * j - 1] = "OBJECT_IDENTIFIER"
             /\ Placed(3 * j, f[3 * j]) <=> IsValue(f[3 * j])
  BY <1>2, <1>4, Zenon
<1> HIDE DEF n
<1>6. ASSUME \A i \in 1..m : Placed(i, f[i]), NEW j \in 1..n
      PROVE  /\ f[3 * j - 2] = "SEQUENCE" /\ f[3 * j - 1] = "OBJECT_IDENTIFIER"
             /\ IsValue(f[3 * j])
  BY <1>2, <1>5, <1>6, Zenon
<1>7. ASSUME \A j \in 1..n : /\ f[3 * j - 2] = "SEQUENCE"
                             /\ f[3 * j - 1] = "OBJECT_IDENTIFIER"
                             /\ IsValue(f[3 * j]),
             NEW i \in 1..m
      PROVE  Placed(i, f[i])
  <2>1. PICK j \in 1..n : i = 3 * j - 2 \/ i = 3 * j - 1 \/ i = 3 * j
    BY <1>3
  <2>2. Placed(3 * j - 2, f[3 * j - 2]) /\ Placed(3 * j - 1, f[3 * j - 1]) /\ Placed(3 * j, f[3 * j])
    BY <1>5, <1>7, Zenon
  <2>3. QED
    BY <2>1, <2>2, Zenon
<1>8. QED
  BY <1>6, <1>7 DEF n

LEMMA Lexed ==
  ASSUME NEW s \in Seq(AsnStrings)
  PROVE  /\ Lex(s) \in Seq(Tokens) /\ Len(Lex(s)) = Len(s) /\ Len(s) \in Nat
         /\ \A i \in 1..Len(s) : Lex(s)[i] = Token(s[i]) /\ s[i].tag \in 0..255 /\ s[i] \in AsnStrings
<1>1. DOMAIN s = 1..Len(s) /\ Len(s) \in Nat
  OBVIOUS
<1>2. Lex(s) = [i \in 1..Len(s) |-> Token(s[i])]
  BY <1>1 DEF Lex
<1>3. \A i \in 1..Len(s) : Token(s[i]) \in Tokens
  BY TokensAre
<1>4. \A i \in 1..Len(s) : s[i] \in AsnStrings
  OBVIOUS
<1>5. \A i \in 1..Len(s) : s[i].tag \in 0..255
  BY <1>4 DEF AsnStrings
<1>6. QED
  BY <1>1, <1>2, <1>3, <1>4, <1>5

(* The tags of a message that the grammar accepts.                         *)
HeadTags(v1) == IF v1 THEN << 6, 64, 2, 2, 67 >> ELSE << 2, 2, 2 >>
HeadTagLen(v1) == IF v1 THEN 5 ELSE 3

Framed(s, v1, h) ==
  /\ Len(s) >= 4 + h
  /\ s[1].tag = Sequence /\ s[2].tag = 2 /\ s[3].tag = 4
  /\ s[4].tag \in Constructed..(Constructed + 8)
  /\ \A i \in 1..h : s[4 + i].tag = HeadTags(v1)[i]
  /\ Len(s) # 4 + h =>
       /\ s[5 + h].tag = Sequence
       /\ Len(s) = 5 + h => v1
       /\ (Len(s) - 5 - h) % 3 = 0
       /\ \A j \in 1..((Len(s) - 5 - h) \div 3) :
            /\ s[5 + h + (3 * j - 2)].tag = Sequence
            /\ s[5 + h + (3 * j - 1)].tag = 6
            /\ IsValue(Token(s[5 + h + 3 * j]))

LEMMA MessageForm ==
  ASSUME NEW s \in Seq(AsnStrings), NEW v1 \in BOOLEAN
  PROVE  IsMessage(Lex(s), v1) <=> Framed(s, v1, HeadTagLen(v1))
<1> DEFINE tokens == Lex(s)
           head == IF v1 THEN TrapHead ELSE StdHead
           h == HeadTagLen(v1)
           n == Len(s)
           m == n - 5 - h
<1>1. h \in {3, 5} /\ Len(head) = h
  BY DEF TrapHead, StdHead, HeadTagLen
<1>2. /\ tokens \in Seq(Tokens) /\ Len(tokens) = n /\ n \in Nat
      /\ \A i \in 1..n : tokens[i] = Token(s[i]) /\ s[i].tag \in 0..255
  BY Lexed
<1> HIDE DEF tokens, n
<1>3. IsMessage(tokens, v1) <=>
        /\ m >= -1
        /\ tokens[1] = "SEQUENCE" /\ tokens[2] = "INTEGER"
        /\ tokens[3] = "OCTET_STRING" /\ tokens[4] = "CONTEXT_CONSTRUCTED"
        /\ \A i \in 1..h : tokens[4 + i] = head[i]
        /\ m # -1 => /\ tokens[5 + h] = "SEQUENCE"
                     /\ m = 0 => v1
                     /\ m % 3 = 0
                     /\ \A i \in 1..m : Placed(i, tokens[5 + h + i])
  <2>1. IsMessage(tokens, v1) <=> Grammar(tokens, v1, head, Len(head))
    BY <1>2, GrammarForm, Zenon
  <2>2. IsMessage(tokens, v1) <=> Grammar(tokens, v1, head, h)
    BY <1>1, <2>1, Zenon
  <2>3. Len(tokens) - 5 - h = m
    BY <1>2
  <2>4. QED
    BY <2>2, <2>3, Zenon DEF Grammar
<1>4. ASSUME m >= -1, NEW i \in 1..h
      PROVE  tokens[4 + i] = head[i] <=> s[4 + i].tag = HeadTags(v1)[i]
  <2>1. 4 + i \in 1..n
    BY <1>1, <1>2, <1>4
  <2>2. tokens[4 + i] = Token(s[4 + i]) /\ s[4 + i].tag \in 0..255
    BY <1>2, <2>1
  <2>3. i \in {1, 2, 3, 4, 5} /\ (~ v1 => i \in {1, 2, 3})
    BY DEF HeadTagLen
  <2> DEFINE a == s[4 + i]
  <2> HIDE DEF a
  <2>4. Token(a) = head[i] <=> a.tag = HeadTags(v1)[i]
    <3>1. /\ a.tag = 2 <=> Token(a) = "INTEGER"
          /\ a.tag = 6 <=> Token(a) = "OBJECT_IDENTIFIER"
          /\ a.tag = 64 <=> Token(a) = "IP_ADDRESS"
          /\ a.tag = 67 <=> Token(a) = "TIME_TICKS"
      BY <2>2, TokenOf DEF a
    <3>2. CASE v1
      BY <2>3, <3>1, <3>2 DEF TrapHead, HeadTags
    <3>3. CASE ~ v1
      BY <2>3, <3>1, <3>3 DEF StdHead, HeadTags
    <3>4. QED
      BY <3>2, <3>3
  <2>5. QED
    BY <2>2, <2>4 DEF a
<1>5. ASSUME m >= -1
      PROVE  /\ tokens[1] = "SEQUENCE" <=> s[1].tag = Sequence
             /\ tokens[2] = "INTEGER" <=> s[2].tag = 2
             /\ tokens[3] = "OCTET_STRING" <=> s[3].tag = 4
             /\ tokens[4] = "CONTEXT_CONSTRUCTED" <=> s[4].tag \in Constructed..(Constructed + 8)
  <2>1. 1 \in 1..n /\ 2 \in 1..n /\ 3 \in 1..n /\ 4 \in 1..n
    BY <1>1, <1>2, <1>5
  <2>2. /\ tokens[1] = Token(s[1]) /\ s[1].tag \in 0..255
        /\ tokens[2] = Token(s[2]) /\ s[2].tag \in 0..255
        /\ tokens[3] = Token(s[3]) /\ s[3].tag \in 0..255
        /\ tokens[4] = Token(s[4]) /\ s[4].tag \in 0..255
    BY <1>2, <2>1, Zenon
  <2>3. s[1].tag = Sequence <=> tokens[1] = "SEQUENCE"
    BY <2>2, TokenOf, Zenon
  <2>4. s[2].tag = 2 <=> tokens[2] = "INTEGER"
    BY <2>2, TokenOf, Zenon
  <2>5. s[3].tag = 4 <=> tokens[3] = "OCTET_STRING"
    BY <2>2, TokenOf, Zenon
  <2>6. s[4].tag \in Constructed..(Constructed + 8) <=> tokens[4] = "CONTEXT_CONSTRUCTED"
    BY <2>2, TokenOf, Zenon
  <2>7. QED
    BY <2>3, <2>4, <2>5, <2>6, Zenon
<1>6. ASSUME m >= -1, m # -1
      PROVE  tokens[5 + h] = "SEQUENCE" <=> s[5 + h].tag = Sequence
  <2>1. 5 + h \in 1..n
    BY <1>1, <1>2, <1>6
  <2>2. tokens[5 + h] = Token(s[5 + h]) /\ s[5 + h].tag \in 0..255
    BY <1>2, <2>1
  <2>3. QED
    BY <2>2, TokenOf, Zenon
<1>7. ASSUME m >= -1, m # -1, m % 3 = 0
      PROVE  (\A i \in 1..m : Placed(i, tokens[5 + h + i])) <=>
               \A j \in 1..(m \div 3) : /\ s[5 + h + (3 * j - 2)].tag = Sequence
                                        /\ s[5 + h + (3 * j - 1)].tag = 6
                                        /\ IsValue(Token(s[5 + h + 3 * j]))
  <2> DEFINE f == [i \in 1..m |-> tokens[5 + h + i]]
  <2>1. m \in Nat
    BY <1>1, <1>2, <1>7
  <2>2. ASSUME NEW i \in 1..m
        PROVE  f[i] = Token(s[5 + h + i]) /\ s[5 + h + i].tag \in 0..255 /\ f[i] = tokens[5 + h + i]
    <3>1. 5 + h + i \in 1..n
      BY <1>1, <1>2, <2>1
    <3>2. QED
      BY <1>2, <3>1
  <2>3. ASSUME NEW j \in 1..(m \div 3)
        PROVE 3 * j - 2 \in 1..m /\ 3 * j - 1 \in 1..m /\ 3 * j \in 1..m
    BY <1>7, <2>1
  <2> HIDE DEF f, m, h
  <2>4. (\A i \in 1..m : Placed(i, f[i])) <=>
           \A j \in 1..(m \div 3) : /\ f[3 * j - 2] = "SEQUENCE"
                                    /\ f[3 * j - 1] = "OBJECT_IDENTIFIER"
                                    /\ IsValue(f[3 * j])
    BY <1>7, <2>1, ByThrees
  <2>5. ASSUME NEW j \in 1..(m \div 3)
        PROVE  /\ f[3 * j - 2] = "SEQUENCE" <=> s[5 + h + (3 * j - 2)].tag = Sequence
               /\ f[3 * j - 1] = "OBJECT_IDENTIFIER" <=> s[5 + h + (3 * j - 1)].tag = 6
               /\ IsValue(f[3 * j]) <=> IsValue(Token(s[5 + h + 3 * j]))
    <3>1. /\ f[3 * j - 2] = Token(s[5 + h + (3 * j - 2)]) /\ s[5 + h + (3 * j - 2)].tag \in 0..255
          /\ f[3 * j - 1] = Token(s[5 + h + (3 * j - 1)]) /\ s[5 + h + (3 * j - 1)].tag \in 0..255
          /\ f[3 * j] = Token(s[5 + h + 3 * j])
      BY <2>2, <2>3
    <3> DEFINE a == s[5 + h + (3 * j - 2)]
               b == s[5 + h + (3 * j - 1)]
    <3> HIDE DEF a, b
    <3>2. f[3 * j - 2] = Token(a) /\ a.tag \in 0..255 /\ f[3 * j - 1] = Token(b) /\ b.tag \in 0..255
      BY <3>1 DEF a, b
    <3>3. (Token(a) = "SEQUENCE" <=> a.tag = Sequence) /\ (Token(b) = "OBJECT_IDENTIFIER" <=> b.tag = 6)
      BY <3>2, TokenOf
    <3>4. QED
      BY <3>1, <3>2, <3>3 DEF a, b
  <2>6. (\A i \in 1..m : Placed(i, f[i])) <=> \A i \in 1..m : Placed(i, tokens[5 + h + i])
    BY <2>2, Zenon
  <2>7. QED
    BY <2>4, <2>5, <2>6, Zenon
<1>8. m >= -1 <=> n >= 4 + h
  BY <1>1, <1>2
<1>9. (m # -1 <=> n # 4 + h) /\ (m = 0 <=> n = 5 + h)
  BY <1>1, <1>2
<1>10. CASE m >= -1
  <2>1. (\A i \in 1..h : tokens[4 + i] = head[i]) <=> \A i \in 1..h : s[4 + i].tag = HeadTags(v1)[i]
    BY <1>4, <1>10
  <2> HIDE DEF h, m
  <2>2. IsMessage(tokens, v1) <=>
        /\ m >= -1
        /\ s[1].tag = Sequence /\ s[2].tag = 2
        /\ s[3].tag = 4 /\ s[4].tag \in Constructed..(Constructed + 8)
        /\ \A i \in 1..h : s[4 + i].tag = HeadTags(v1)[i]
        /\ m # -1 => /\ s[5 + h].tag = Sequence
                     /\ m = 0 => v1
                     /\ m % 3 = 0
                     /\ \A j \in 1..(m \div 3) : /\ s[5 + h + (3 * j - 2)].tag = Sequence
                                                 /\ s[5 + h + (3 * j - 1)].tag = 6
                                                 /\ IsValue(Token(s[5 + h + 3 * j]))
    BY <1>3, <1>5, <1>6, <1>7, <1>10, <2>1, Zenon
  <2>3. QED
    BY <1>8, <1>9, <2>2, Zenon DEF Framed, h, m, n, tokens
<1>11. CASE ~ m >= -1
  <2>1. ~ n >= 4 + h
    BY <1>8, <1>11
  <2> HIDE DEF h, m
  <2>2. ~ IsMessage(tokens, v1)
    BY <1>3, <1>11, Zenon
  <2>3. QED
    BY <2>1, <2>2, Zenon DEF Framed, h, n, tokens
<1>12. QED
  BY <1>10, <1>11

----------------------------------------------------------------------------
(* What the parser makes of a message it accepts.                          *)
Accepted(s, v1, positions, p) ==
  /\ Framed(s, v1, HeadTagLen(v1))
  /\ AreIntegers(s, positions)
  /\ Signed(s[2].octets) \in {0, 1}
  /\ Whole(p)

LEMMA ParsedAs ==
  ASSUME NEW s \in Seq(AsnStrings)
  PROVE  /\ Len(s) > 3 /\ s[4].tag = Constructed + Trap =>
              /\ Accepted(s, TRUE, {2}, ParsedTrap(s)) => ParseMessage(s) = ParsedTrap(s)
              /\ ~ Accepted(s, TRUE, {2}, ParsedTrap(s)) => ParseMessage(s) = Refused
         /\ ~ (Len(s) > 3 /\ s[4].tag = Constructed + Trap) =>
              /\ Accepted(s, FALSE, {2, 5, 6, 7}, ParsedStd(s)) => ParseMessage(s) = ParsedStd(s)
              /\ ~ Accepted(s, FALSE, {2, 5, 6, 7}, ParsedStd(s)) => ParseMessage(s) = Refused
<1>1. /\ IsMessage(Lex(s), TRUE) <=> Framed(s, TRUE, HeadTagLen(TRUE))
      /\ IsMessage(Lex(s), FALSE) <=> Framed(s, FALSE, HeadTagLen(FALSE))
  BY MessageForm, Zenon
<1>2. CASE Len(s) > 3 /\ s[4].tag = Constructed + Trap
  <2>1. (Len(s) > 3 /\ s[4].tag = Constructed + Trap) = TRUE
    BY <1>2, Zenon
  <2>2. ParseMessage(s) = IF /\ IsMessage(Lex(s), TRUE)
                             /\ AreIntegers(s, {2})
                             /\ Signed(s[2].octets) \in {0, 1}
                             /\ Whole(ParsedTrap(s))
                          THEN ParsedTrap(s) ELSE Refused
    BY <2>1, Zenon DEF ParseMessage
  <2>3. QED
    BY <1>1, <1>2, <2>2, Zenon DEF Accepted
<1>3. CASE ~ (Len(s) > 3 /\ s[4].tag = Constructed + Trap)
  <2>1. (Len(s) > 3 /\ s[4].tag = Constructed + Trap) = FALSE
    BY <1>3, Zenon
  <2>2. ParseMessage(s) = IF /\ IsMessage(Lex(s), FALSE)
                             /\ AreIntegers(s, {2, 5, 6, 7})
                             /\ Signed(s[2].octets) \in {0, 1}
                             /\ Whole(ParsedStd(s))
                          THEN ParsedStd(s) ELSE Refused
    BY <2>1, Zenon DEF ParseMessage
  <2>3. QED
    BY <1>1, <1>3, <2>2, Zenon DEF Accepted
<1>4. QED
  BY <1>2, <1>3, Zenon

LEMMA ValueToken ==
  ASSUME NEW s, s.tag \in 0..255
  PROVE  /\ s.tag < Constructed /\ s.tag # Sequence => IsValue(Token(s))
         /\ IsValue(Token(s)) => s.tag # Sequence
<1>1. s.tag < Constructed => s.tag \notin Constructed..(Constructed + 8)
  BY DEF Constructed
<1>2. QED
  BY <1>1, TokenOf DEF IsValue

LEMMA ObjectTags ==
  ASSUME StockTables, NEW d \in Objects, Encodes(d)
  PROVE  /\ Encode(d).tag = WrittenTag(d) /\ Encode(d).tag \in 0..255
         /\ IsValue(Token(Encode(d)))
         /\ d.type = "ObjectIdentifier" => Encode(d).tag = 6
         /\ d.type = "IpAddress" => Encode(d).tag = 64
         /\ d.type = "Integer" => Encode(d).tag = 2
         /\ d.type = "TimeTicks" => Encode(d).tag = 67
<1>1. d.type \in Constructors
  BY ObjectForm
<1>2. Encode(d).tag = WrittenTag(d)
  BY WireForm
<1>3. Encode(d) \in AsnStrings
  BY TagWritten
<1>4. Encode(d).tag \in 0..255
  BY <1>3 DEF AsnStrings
<1>5. \A c \in Constructors : StockTag[c] \in 0..127 /\ StockTag[c] # 48
  <2>1. \A c \in Constructors : StockTag[c] # 48
    BY Kinds DEF StockTag
  <2>2. QED
    BY <2>1, Kinds
<1>6. WrittenTag(d) < 160 /\ WrittenTag(d) # 48
  <2>1. CASE d.type = "Null"
    <3>1. WrittenTag(d) = 5 \/ WrittenTag(d) \in ErrorTags
      BY <2>1, TagWritten
    <3>2. QED
      BY <3>1, Kinds
  <2>2. CASE d.type # "Null"
    <3>1. WrittenTag(d) = StockTag[d.type]
      BY <2>2, TagWritten
    <3>2. QED
      BY <1>1, <1>5, <3>1
  <2>3. QED
    BY <2>1, <2>2
<1>7. IsValue(Token(Encode(d)))
  BY <1>2, <1>4, <1>6, ValueToken DEF Sequence, Constructed
<1>8. d.type # "Null" => Encode(d).tag = StockTag[d.type]
  BY <1>2, TagWritten
<1>9. /\ StockTag["ObjectIdentifier"] = 6 /\ StockTag["IpAddress"] = 64
      /\ StockTag["Integer"] = 2 /\ StockTag["TimeTicks"] = 67
  BY DEF StockTag
<1>10. QED
  BY <1>2, <1>4, <1>7, <1>8, <1>9

(* The bindings that are read of an encoded PDU.                           *)
LEMMA BindingsRead ==
  ASSUME StockTables, NEW p \in PDUs, PDUEncodes(p), NEW version \in {0, 1}
  PROVE  LET q == ParsedVarbinds(EncodeMessage(version, p), 5 + HeadLen(p))
         IN q = p.vbs <=>
              \A i \in DOMAIN p.vbs : KeepsForm(p.vbs[i].oid) /\ KeepsForm(p.vbs[i].data)
<1> DEFINE s == EncodeMessage(version, p)
           h == HeadLen(p)
           n == Len(p.vbs)
           q == ParsedVarbinds(s, 5 + h)
<1>1. h \in Nat /\ n \in Nat /\ DOMAIN p.vbs = 1..n
  BY Encodable DEF HeadLen
<1>2. /\ Len(s) = 5 + h + 3 * n
      /\ \A i \in 1..n : /\ s[5 + h + 3 * i - 1] = Encode(p.vbs[i].oid)
                         /\ s[5 + h + 3 * i] = Encode(p.vbs[i].data)
  BY EncodedAt
<1> HIDE DEF s, h, n
<1>3. (Len(s) - (5 + h)) \div 3 = n
  BY <1>1, <1>2
<1>4. q = [i \in 1..n |-> [oid  |-> Read("ObjectIdentifier", s[5 + h + 3 * i - 1]),
                            data |-> Parse(s[5 + h + 3 * i])]]
  BY <1>3, Zenon DEF ParsedVarbinds
<1>5. ASSUME NEW i \in 1..n
      PROVE  q[i] = p.vbs[i] <=> KeepsForm(p.vbs[i].oid) /\ KeepsForm(p.vbs[i].data)
  <2> DEFINE vb == p.vbs[i]
  <2>1. /\ vb = [oid |-> vb.oid, data |-> vb.data]
        /\ vb.oid \in Objects /\ vb.oid.type = "ObjectIdentifier" /\ Encodes(vb.oid)
        /\ vb.data \in Objects /\ Encodes(vb.data)
    BY Encodable DEF n
  <2>2. q[i] = [oid |-> Read("ObjectIdentifier", Encode(vb.oid)), data |-> Parse(Encode(vb.data))]
    BY <1>2, <1>4
  <2> HIDE DEF vb, q
  <2>3. Read(vb.oid.type, Encode(vb.oid)) = vb.oid <=> KeepsForm(vb.oid)
    BY <2>1, ReadBack
  <2>4. Parse(Encode(vb.data)) = vb.data <=> KeepsForm(vb.data)
    BY <2>1, ReadBack
  <2> DEFINE a == Read("ObjectIdentifier", Encode(vb.oid))
             b == Parse(Encode(vb.data))
  <2>5. q[i] = [oid |-> a, data |-> b] /\ (a = vb.oid <=> KeepsForm(vb.oid))
    BY <2>1, <2>2, <2>3
  <2> HIDE DEF a, b
  <2>6. [oid |-> a, data |-> b] = vb <=> a = vb.oid /\ b = vb.data
    BY <2>1
  <2>7. QED
    BY <2>4, <2>5, <2>6, Zenon DEF b, vb
<1>6. q = p.vbs <=> \A i \in 1..n : q[i] = p.vbs[i]
  <2>1. p.vbs = [i \in 1..n |-> p.vbs[i]]
    <3>1. p.vbs \in Seq(Varbinds)
      BY Encodable
    <3>2. QED
      BY <3>1 DEF n
  <2>2. q = [i \in 1..n |-> q[i]]
    BY <1>4
  <2> HIDE DEF q
  <2>3. QED
    BY <2>1, <2>2, Zenon
<1> HIDE DEF q
<1>7. QED
  BY <1>1, <1>5, <1>6, Zenon DEF q, s, h

(* The frame of an encoded PDU.                                            *)
LEMMA NumberTags ==
  ASSUME StockTables, NEW n \in Numbers32
  PROVE  LET s == Encode(Object("Integer", << n >>))
         IN s.tag = 2 /\ Signed(s.octets) = n /\ Decoded("Integer", s) # Refused
<1> DEFINE s == Encode(Object("Integer", << n >>))
<1>1. s.tag = 2 /\ Len(s.octets) \in 1..4 /\ Signed(s.octets) = n
  BY NumberObject
<1>2. << n >> # Refused
  <2>1. n \in Int /\ n \in MIN_INT32..MAX_INT32
    BY Bounds DEF Numbers32
  <2>2. Kept("Integer", << n >>)
    BY <2>1, KeptNumber
  <2>3. QED
    BY <2>2, ValuesAssumption DEF Kept
<1> HIDE DEF s
<1>3. Decoded("Integer", s) = << n >>
  <2>1. Decoded("Integer", s) = << Signed(s.octets) >>
    BY <1>1, DecodedOf, Zenon
  <2>2. QED
    BY <1>1, <2>1
<1>4. QED
  BY <1>1, <1>2, <1>3 DEF s

LEMMA BindingTags ==
  ASSUME StockTables, NEW p \in PDUs, PDUEncodes(p), NEW version \in {0, 1}
  PROVE  LET s == EncodeMessage(version, p)  h == HeadLen(p)  n == Len(p.vbs)
         IN /\ n \in Nat /\ h \in Nat /\ Len(s) = 5 + h + 3 * n
            /\ s[1].tag = Sequence /\ s[2].tag = 2 /\ s[3].tag = 4
            /\ s[4].tag = Constructed + p.op /\ s[5 + h].tag = Sequence
            /\ \A j \in 1..n : /\ s[5 + h + (3 * j - 2)].tag = Sequence
                               /\ s[5 + h + (3 * j - 1)].tag = 6
                               /\ IsValue(Token(s[5 + h + 3 * j]))
<1> DEFINE s == EncodeMessage(version, p)
           h == HeadLen(p)
           n == Len(p.vbs)
<1>1. n \in Nat /\ h \in Nat
  BY Encodable DEF HeadLen
<1>2. version \in Numbers32
  BY WidthFacts DEF Numbers32, MIN_INT32, MAX_INT32
<1>3. \A tag : Marker(tag).tag = tag
  BY DEF Marker
<1>4. Encode(Object("Integer", << version >>)).tag = 2 /\ Encode(Object("OctetString", << >>)).tag = 4
  BY <1>2, NumberTags, Community
<1>5. /\ Len(s) = 5 + h + 3 * n
      /\ s[1] = Marker(Sequence)
      /\ s[2] = Encode(Object("Integer", << version >>))
      /\ s[3] = Encode(Object("OctetString", << >>))
      /\ s[4] = Marker(Constructed + p.op)
      /\ s[5 + h] = Marker(Sequence)
      /\ \A j \in 1..n : /\ s[5 + h + 3 * j - 2] = Marker(Sequence)
                         /\ s[5 + h + 3 * j - 1] = Encode(p.vbs[j].oid)
                         /\ s[5 + h + 3 * j] = Encode(p.vbs[j].data)
  BY EncodedAt
<1> HIDE DEF s, h
<1>6. ASSUME NEW j \in 1..n
      PROVE  /\ s[5 + h + (3 * j - 2)].tag = Sequence
             /\ s[5 + h + (3 * j - 1)].tag = 6
             /\ IsValue(Token(s[5 + h + 3 * j]))
  <2>1. 5 + h + 3 * j - 2 = 5 + h + (3 * j - 2) /\ 5 + h + 3 * j - 1 = 5 + h + (3 * j - 1)
    BY <1>1
  <2>2. /\ p.vbs[j].oid \in Objects /\ p.vbs[j].oid.type = "ObjectIdentifier" /\ Encodes(p.vbs[j].oid)
        /\ p.vbs[j].data \in Objects /\ Encodes(p.vbs[j].data)
    BY Encodable
  <2>3. Encode(p.vbs[j].oid).tag = 6 /\ IsValue(Token(Encode(p.vbs[j].data)))
    BY <2>2, ObjectTags
  <2>4. /\ s[5 + h + (3 * j - 2)] = Marker(Sequence)
        /\ s[5 + h + (3 * j - 1)] = Encode(p.vbs[j].oid)
        /\ s[5 + h + 3 * j] = Encode(p.vbs[j].data)
    BY <1>5, <2>1
  <2>5. QED
    BY <1>3, <2>3, <2>4
<1>7. /\ s[1].tag = Sequence /\ s[2].tag = 2 /\ s[3].tag = 4
      /\ s[4].tag = Constructed + p.op /\ s[5 + h].tag = Sequence
  BY <1>3, <1>4, <1>5
<1>8. QED
  BY <1>1, <1>5, <1>6, <1>7 DEF s, h

LEMMA TrapFramed ==
  ASSUME StockTables, NEW p \in PDUs, PDUEncodes(p), ~ p.std, NEW version \in {0, 1}
  PROVE  Framed(EncodeMessage(version, p), TRUE, HeadTagLen(TRUE))
<1> DEFINE s == EncodeMessage(version, p)
           n == Len(p.vbs)
<1>1. HeadLen(p) = 5 /\ HeadTagLen(TRUE) = 5 /\ p.op = 4
  BY TrapForm DEF HeadLen, HeadTagLen, Trap
<1>2. /\ n \in Nat /\ Len(s) = 10 + 3 * n
      /\ s[1].tag = Sequence /\ s[2].tag = 2 /\ s[3].tag = 4
      /\ s[4].tag = Constructed + 4 /\ s[10].tag = Sequence
      /\ \A j \in 1..n : /\ s[10 + (3 * j - 2)].tag = Sequence
                         /\ s[10 + (3 * j - 1)].tag = 6
                         /\ IsValue(Token(s[10 + 3 * j]))
  <2> DEFINE k == HeadLen(p)
  <2>1. /\ n \in Nat /\ Len(s) = 5 + k + 3 * n
        /\ s[1].tag = Sequence /\ s[2].tag = 2 /\ s[3].tag = 4
        /\ s[4].tag = Constructed + p.op /\ s[5 + k].tag = Sequence
        /\ \A j \in 1..n : /\ s[5 + k + (3 * j - 2)].tag = Sequence
                           /\ s[5 + k + (3 * j - 1)].tag = 6
                           /\ IsValue(Token(s[5 + k + 3 * j]))
    BY BindingTags
  <2>2. k = 5 /\ 5 + k = 10
    BY <1>1
  <2> HIDE DEF s, n, k
  <2>3. /\ Len(s) = 10 + 3 * n /\ s[10].tag = Sequence
        /\ \A j \in 1..n : /\ s[10 + (3 * j - 2)].tag = Sequence
                           /\ s[10 + (3 * j - 1)].tag = 6
                           /\ IsValue(Token(s[10 + 3 * j]))
    BY <2>1, <2>2, Zenon
  <2>4. QED
    BY <1>1, <2>1, <2>3
<1>3. ASSUME NEW i \in 1..5 PROVE s[4 + i].tag = HeadTags(TRUE)[i]
  <2>1. p.fields[i] \in Objects /\ p.fields[i].type = FieldType[i] /\ Encodes(p.fields[i])
    BY Encodable
  <2>2. s[4 + i] = Encode(p.fields[i])
    <3>1. s[4 + i] = EncodeHead(p)[i]
      BY <1>1, EncodedAt
    <3>2. QED
      BY <3>1, HeadStrings
  <2> HIDE DEF s
  <2>3. i \in {1, 2, 3, 4, 5}
    OBVIOUS
  <2>4. /\ i = 1 => FieldType[i] = "ObjectIdentifier"
        /\ i = 2 => FieldType[i] = "IpAddress"
        /\ i \in {3, 4} => FieldType[i] = "Integer"
        /\ i = 5 => FieldType[i] = "TimeTicks"
    BY <2>3 DEF FieldType
  <2>5. /\ i = 1 => Encode(p.fields[i]).tag = 6
        /\ i = 2 => Encode(p.fields[i]).tag = 64
        /\ i \in {3, 4} => Encode(p.fields[i]).tag = 2
        /\ i = 5 => Encode(p.fields[i]).tag = 67
    BY <2>1, <2>4, ObjectTags
  <2>6. QED
    BY <2>2, <2>3, <2>5 DEF HeadTags
<1> HIDE DEF s, n
<1>4. /\ Len(s) >= 9 /\ Len(s) # 9 /\ (Len(s) - 5 - 5) % 3 = 0 /\ (Len(s) - 5 - 5) \div 3 = n
      /\ 5 + 5 = 10 /\ 4 + 5 = 9 /\ Constructed + 4 \in Constructed..(Constructed + 8)
  BY <1>2 DEF Constructed
<1>5. QED
  BY <1>1, <1>2, <1>3, <1>4 DEF Framed, s

LEMMA StdFramed ==
  ASSUME StockTables, NEW p \in PDUs, PDUEncodes(p), p.std, NEW version \in {0, 1}
  PROVE  LET s == EncodeMessage(version, p)
         IN /\ ~ Framed(s, TRUE, HeadTagLen(TRUE))
            /\ Framed(s, FALSE, HeadTagLen(FALSE)) <=> p.op \in 0..8 /\ p.vbs # << >>
<1> DEFINE s == EncodeMessage(version, p)
           n == Len(p.vbs)
<1>1. HeadLen(p) = 3 /\ HeadTagLen(TRUE) = 5 /\ HeadTagLen(FALSE) = 3 /\ p.op \in 0..31
  <2>1. HeadLen(p) = 3 /\ HeadTagLen(TRUE) = 5 /\ HeadTagLen(FALSE) = 3
    BY DEF HeadLen, HeadTagLen
  <2>2. p.op \in 0..31
    BY StdForm, Zenon
  <2>3. QED
    BY <2>1, <2>2
<1>2. /\ n \in Nat /\ Len(s) = 8 + 3 * n
      /\ s[1].tag = Sequence /\ s[2].tag = 2 /\ s[3].tag = 4
      /\ s[4].tag = Constructed + p.op /\ s[8].tag = Sequence
      /\ \A j \in 1..n : /\ s[8 + (3 * j - 2)].tag = Sequence
                         /\ s[8 + (3 * j - 1)].tag = 6
                         /\ IsValue(Token(s[8 + 3 * j]))
  <2> DEFINE k == HeadLen(p)
  <2>1. /\ n \in Nat /\ Len(s) = 5 + k + 3 * n
        /\ s[1].tag = Sequence /\ s[2].tag = 2 /\ s[3].tag = 4
        /\ s[4].tag = Constructed + p.op /\ s[5 + k].tag = Sequence
        /\ \A j \in 1..n : /\ s[5 + k + (3 * j - 2)].tag = Sequence
                           /\ s[5 + k + (3 * j - 1)].tag = 6
                           /\ IsValue(Token(s[5 + k + 3 * j]))
    BY BindingTags, Zenon
  <2>2. k = 3 /\ 5 + k = 8
    BY <1>1
  <2> HIDE DEF s, n, k
  <2>3. /\ Len(s) = 8 + 3 * n /\ s[8].tag = Sequence
        /\ \A j \in 1..n : /\ s[8 + (3 * j - 2)].tag = Sequence
                           /\ s[8 + (3 * j - 1)].tag = 6
                           /\ IsValue(Token(s[8 + 3 * j]))
    BY <2>1, <2>2, Zenon
  <2>4. QED
    BY <1>1, <2>1, <2>3
<1>3. s[5].tag = 2 /\ s[6].tag = 2 /\ s[7].tag = 2
  <2>1. \A i \in 1..3 : s[4 + i] = EncodeHead(p)[i]
    <3> DEFINE k == HeadLen(p)
    <3>1. \A i \in 1..k : s[4 + i] = EncodeHead(p)[i]
      BY EncodedAt
    <3>2. k = 3
      BY <1>1
    <3> HIDE DEF k, s
    <3>3. QED
      BY <3>1, <3>2, Zenon
  <2>2. 1 \in Numbers32 /\ p.status \in Numbers32 /\ p.index \in Numbers32
    <3>1. p.status \in Numbers32 /\ p.index \in Numbers32
      BY StdForm, Zenon
    <3>2. 1 \in Numbers32
      BY WidthFacts DEF Numbers32, MIN_INT32, MAX_INT32
    <3>3. QED
      BY <3>1, <3>2
  <2>3. \A i \in 1..3 : EncodeHead(p)[i].tag = 2
    <3>1. /\ EncodeHead(p)[1] = Encode(Object("Integer", << 1 >>))
          /\ EncodeHead(p)[2] = Encode(Object("Integer", << p.status >>))
          /\ EncodeHead(p)[3] = Encode(Object("Integer", << p.index >>))
      BY HeadStrings
    <3>2. \A i \in 1..3 : i = 1 \/ i = 2 \/ i = 3
      OBVIOUS
    <3>3. \A m \in Numbers32 : Encode(Object("Integer", << m >>)).tag = 2
      BY NumberTags
    <3>4. QED
      BY <2>2, <3>1, <3>2, <3>3, Zenon
  <2>4. 5 = 4 + 1 /\ 6 = 4 + 2 /\ 7 = 4 + 3
    OBVIOUS
  <2> HIDE DEF s
  <2>5. QED
    BY <2>1, <2>3, <2>4
<1>4. n = 0 <=> p.vbs = << >>
  BY StdForm
<1> HIDE DEF s, n
<1>5. ~ Framed(s, TRUE, HeadTagLen(TRUE))
  <2>1. HeadTags(TRUE)[1] # s[4 + 1].tag /\ 1 \in 1..5
    BY <1>3 DEF HeadTags
  <2>2. QED
    BY <1>1, <2>1 DEF Framed
<1>6. \A i \in 1..3 : s[4 + i].tag = HeadTags(FALSE)[i]
  BY <1>3 DEF HeadTags
<1>7. /\ Len(s) >= 7 /\ Len(s) # 7 /\ (Len(s) - 5 - 3) % 3 = 0 /\ (Len(s) - 5 - 3) \div 3 = n
      /\ 5 + 3 = 8 /\ 4 + 3 = 7 /\ (Len(s) = 8 <=> n = 0)
  BY <1>2
<1>8. Constructed + p.op \in Constructed..(Constructed + 8) <=> p.op \in 0..8
  BY <1>1 DEF Constructed
<1>9. Framed(s, FALSE, HeadTagLen(FALSE)) <=> p.op \in 0..8 /\ n # 0
  <2>1. Framed(s, FALSE, 3) <=>
          /\ Len(s) >= 4 + 3
          /\ s[1].tag = Sequence /\ s[2].tag = 2 /\ s[3].tag = 4
          /\ s[4].tag \in Constructed..(Constructed + 8)
          /\ \A i \in 1..3 : s[4 + i].tag = HeadTags(FALSE)[i]
          /\ Len(s) # 4 + 3 =>
               /\ s[5 + 3].tag = Sequence
               /\ Len(s) # 5 + 3
               /\ (Len(s) - 5 - 3) % 3 = 0
               /\ \A j \in 1..((Len(s) - 5 - 3) \div 3) :
                    /\ s[5 + 3 + (3 * j - 2)].tag = Sequence
                    /\ s[5 + 3 + (3 * j - 1)].tag = 6
                    /\ IsValue(Token(s[5 + 3 + 3 * j]))
    BY Zenon DEF Framed
  <2>2. \A j \in 1..((Len(s) - 5 - 3) \div 3) :
           /\ s[5 + 3 + (3 * j - 2)].tag = Sequence
           /\ s[5 + 3 + (3 * j - 1)].tag = 6
           /\ IsValue(Token(s[5 + 3 + 3 * j]))
    BY <1>2, <1>7, Zenon
  <2>3. Len(s) >= 4 + 3 /\ Len(s) # 4 + 3 /\ s[5 + 3].tag = Sequence
    BY <1>2, <1>7, Zenon
  <2>4. Len(s) # 5 + 3 <=> n # 0
    BY <1>7, Zenon
  <2>5. s[4].tag \in Constructed..(Constructed + 8) <=> p.op \in 0..8
    BY <1>2, <1>8, Zenon
  <2>6. Framed(s, FALSE, 3) <=> p.op \in 0..8 /\ n # 0
    BY <1>2, <1>6, <1>7, <2>1, <2>2, <2>3, <2>4, <2>5, Zenon
  <2>7. QED
    BY <1>1, <2>6, Zenon
<1>10. QED
  BY <1>4, <1>5, <1>9 DEF s

----------------------------------------------------------------------------
(* A PDU comes back if and only if its objects keep their forms.           *)
LEMMA WholeObjects ==
  ASSUME NEW p \in PDUs, PDUEncodes(p)
  PROVE  Whole(p) /\ \A q : q.vbs = p.vbs /\ q.std => Whole(q)
<1>1. \A d \in Objects : d # Refused /\ d.value # Refused
  BY ObjectForm, ObjectOf, ObjectsAssumption
<1>2. \A i \in DOMAIN p.vbs : p.vbs[i].oid.value # Refused /\ p.vbs[i].data # Refused
  <2>1. DOMAIN p.vbs = 1..Len(p.vbs)
    BY Encodable
  <2>2. \A i \in 1..Len(p.vbs) : p.vbs[i].oid \in Objects /\ p.vbs[i].data \in Objects
    BY Encodable
  <2>3. QED
    BY <1>1, <2>1, <2>2, Zenon
<1>3. ~ p.std => \A i \in 1..5 : p.fields[i].value # Refused
  BY <1>1, Encodable
<1>4. QED
  BY <1>2, <1>3 DEF Whole

LEMMA VersionRead ==
  ASSUME StockTables, NEW p \in PDUs, PDUEncodes(p), NEW version \in {0, 1}
  PROVE  LET s == EncodeMessage(version, p)
         IN Signed(s[2].octets) \in {0, 1} /\ Decoded("Integer", s[2]) # Refused
<1> DEFINE s == EncodeMessage(version, p)
<1>1. s[2] = Encode(Object("Integer", << version >>))
  BY EncodedAt
<1>2. version \in Numbers32
  BY WidthFacts DEF Numbers32, MIN_INT32, MAX_INT32
<1> HIDE DEF s
<1>3. Signed(s[2].octets) = version /\ Decoded("Integer", s[2]) # Refused
  BY <1>1, <1>2, NumberTags
<1>4. QED
  BY <1>3 DEF s

LEMMA TrapComesBack ==
  ASSUME StockTables, NEW p \in PDUs, PDUEncodes(p), ~ p.std, NEW version \in {0, 1}
  PROVE  ParseMessage(EncodeMessage(version, p)) = p <=> AllKeepForm(p)
<1> DEFINE s == EncodeMessage(version, p)
           q == ParsedTrap(s)
           fields == [i \in 1..5 |-> Read(FieldType[i], s[4 + i])]
           vbs == ParsedVarbinds(s, 10)
<1>1. HeadLen(p) = 5 /\ 5 + HeadLen(p) = 10
  BY DEF HeadLen
<1>2. s \in Seq(AsnStrings) /\ Framed(s, TRUE, HeadTagLen(TRUE))
  BY EncodedAt, TrapFramed
<1>3. Len(s) > 3 /\ s[4].tag = Constructed + Trap
  <2>1. Len(s) >= 9
    BY <1>2 DEF Framed, HeadTagLen
  <2>2. s[4].tag = Constructed + p.op
    BY BindingTags
  <2>3. p.op = Trap /\ Len(s) \in Nat
    BY <1>2, TrapForm
  <2> HIDE DEF s
  <2>4. QED
    BY <2>1, <2>2, <2>3
<1>4. vbs = p.vbs <=> \A i \in DOMAIN p.vbs : KeepsForm(p.vbs[i].oid) /\ KeepsForm(p.vbs[i].data)
  <2>1. ParsedVarbinds(s, 5 + HeadLen(p)) = p.vbs <=>
          \A i \in DOMAIN p.vbs : KeepsForm(p.vbs[i].oid) /\ KeepsForm(p.vbs[i].data)
    BY BindingsRead
  <2>2. QED
    BY <1>1, <2>1, Zenon
<1>5. fields = p.fields <=> \A i \in 1..5 : KeepsForm(p.fields[i])
  <2>1. ASSUME NEW i \in 1..5
        PROVE  Read(FieldType[i], s[4 + i]) = p.fields[i] <=> KeepsForm(p.fields[i])
    <3>1. s[4 + i] = Encode(p.fields[i])
      <4>1. s[4 + i] = EncodeHead(p)[i]
        BY <1>1, EncodedAt
      <4>2. QED
        BY <4>1, HeadStrings
    <3>2. p.fields[i] \in Objects /\ p.fields[i].type = FieldType[i] /\ Encodes(p.fields[i])
      BY Encodable
    <3> DEFINE d == p.fields[i]
    <3>3. Read(d.type, Encode(d)) = d <=> KeepsForm(d)
      BY <3>2, ReadBack
    <3>4. QED
      BY <3>1, <3>2, <3>3, Zenon
  <2>2. p.fields = [i \in 1..5 |-> p.fields[i]]
    BY TrapForm DEF Fields
  <2>3. \A i \in 1..5 : fields[i] = Read(FieldType[i], s[4 + i])
    OBVIOUS
  <2>4. fields = [i \in 1..5 |-> fields[i]]
    OBVIOUS
  <2>5. fields = p.fields <=> \A i \in 1..5 : fields[i] = p.fields[i]
    <3> HIDE DEF fields
    <3>1. QED
      BY <2>2, <2>4, Zenon
  <2>6. QED
    BY <2>1, <2>3, <2>5, Zenon
<1>6. q = [op |-> Trap, std |-> FALSE, vbs |-> vbs, fields |-> fields]
  BY DEF ParsedTrap
<1>7. q = p <=> vbs = p.vbs /\ fields = p.fields
  <2>1. p = [op |-> Trap, std |-> FALSE, fields |-> p.fields, vbs |-> p.vbs]
    BY TrapForm
  <2> HIDE DEF vbs, fields, q
  <2>2. QED
    BY <1>6, <2>1
<1>8. q = p <=> AllKeepForm(p)
  BY <1>4, <1>5, <1>7, Zenon DEF AllKeepForm
<1>9. AreIntegers(s, {2}) /\ Signed(s[2].octets) \in {0, 1}
  BY VersionRead DEF AreIntegers
<1>10. /\ Accepted(s, TRUE, {2}, q) => ParseMessage(s) = q
       /\ ~ Accepted(s, TRUE, {2}, q) => ParseMessage(s) = Refused
  BY <1>2, <1>3, ParsedAs, Zenon
<1> HIDE DEF s, q
<1>11. q = p => Accepted(s, TRUE, {2}, q)
  BY <1>2, <1>9, WholeObjects, Zenon DEF Accepted
<1>12. p # Refused
  BY MessageAssumption
<1>13. ParseMessage(s) = p <=> q = p
  BY <1>10, <1>11, <1>12, Zenon
<1>14. QED
  BY <1>8, <1>13, Zenon DEF s

LEMMA StdRefused ==
  ASSUME StockTables, NEW p \in PDUs, PDUEncodes(p), p.std, ~ HasRule(p), NEW version \in {0, 1}
  PROVE  ParseMessage(EncodeMessage(version, p)) = Refused
<1> DEFINE s == EncodeMessage(version, p)
<1>1. s \in Seq(AsnStrings) /\ s[4].tag = Constructed + p.op /\ p.op \in 0..31
  BY EncodedAt, BindingTags, StdForm
<1>2. /\ ~ Framed(s, TRUE, HeadTagLen(TRUE))
      /\ Framed(s, FALSE, HeadTagLen(FALSE)) <=> p.op \in 0..8 /\ p.vbs # << >>
  BY StdFramed
<1> HIDE DEF s
<1>3. CASE Len(s) > 3 /\ s[4].tag = Constructed + Trap
  <2>1. ~ Accepted(s, TRUE, {2}, ParsedTrap(s))
    BY <1>2, Zenon DEF Accepted
  <2>2. QED
    BY <1>1, <1>3, <2>1, ParsedAs, Zenon DEF s
<1>4. CASE ~ (Len(s) > 3 /\ s[4].tag = Constructed + Trap)
  <2>1. p.op # Trap
    <3>1. Len(s) > 3
      <4>1. Len(EncodeMessage(version, p)) = 5 + HeadLen(p) + 3 * Len(p.vbs) /\ Len(p.vbs) \in Nat
        BY BindingTags
      <4>2. QED
        BY <4>1 DEF s, HeadLen
    <3>2. QED
      BY <1>1, <1>4, <3>1
  <2>2. ~ Framed(s, FALSE, HeadTagLen(FALSE))
    BY <1>2, <2>1 DEF HasRule
  <2>3. ~ Accepted(s, FALSE, {2, 5, 6, 7}, ParsedStd(s))
    BY <2>2, Zenon DEF Accepted
  <2>4. QED
    BY <1>1, <1>4, <2>3, ParsedAs, Zenon DEF s
<1>5. QED
  BY <1>3, <1>4, Zenon

LEMMA RememberedForm ==
  ASSUME NEW p \in PDUs
  PROVE  /\ Remembered(p) \in PDUs /\ Remembered(p) # Refused /\ Remembered(p).vbs = p.vbs
         /\ ~ p.std => Remembered(p) = p
         /\ p.std => Remembered(p) =
              [op |-> p.op, std |-> TRUE, status |-> IF p.op = GetBulkRequest THEN 0 ELSE p.status,
               index |-> IF p.op = GetBulkRequest THEN 0 ELSE p.index, vbs |-> p.vbs]
<1>1. 0 \in Numbers32
  BY WidthFacts DEF Numbers32, MIN_INT32, MAX_INT32
<1>2. CASE p.std /\ p.op = GetBulkRequest
  <2>1. Remembered(p) = [p EXCEPT !.status = 0, !.index = 0]
    BY <1>2 DEF Remembered
  <2>2. p = [op |-> p.op, std |-> TRUE, status |-> p.status, index |-> p.index, vbs |-> p.vbs]
    BY <1>2, StdForm
  <2>3. Remembered(p) = [op |-> p.op, std |-> TRUE, status |-> 0, index |-> 0, vbs |-> p.vbs]
    <3>1. p \in [op : 0..31, std : {TRUE}, status : Numbers32, index : Numbers32, vbs : Seq(Varbinds)]
      BY <1>2 DEF PDUs
    <3>2. [p EXCEPT !.status = 0, !.index = 0] =
            [op |-> p.op, std |-> p.std, status |-> 0, index |-> 0, vbs |-> p.vbs]
      <4> DEFINE q == [p EXCEPT !.status = 0, !.index = 0]
      <4>1. q \in [op : 0..31, std : {TRUE}, status : Numbers32, index : Numbers32, vbs : Seq(Varbinds)]
        BY <1>1, <3>1
      <4>2. q.op = p.op /\ q.std = p.std /\ q.status = 0 /\ q.index = 0 /\ q.vbs = p.vbs
        BY <3>1
      <4> HIDE DEF q
      <4>3. q = [op |-> q.op, std |-> q.std, status |-> q.status, index |-> q.index, vbs |-> q.vbs]
        BY <4>1
      <4>4. QED
        BY <4>2, <4>3, Zenon DEF q
    <3>3. p.std = TRUE
      BY <3>1
    <3>4. QED
      BY <2>1, <3>2, <3>3, Zenon
  <2>4. Remembered(p) \in PDUs
    BY <1>1, <1>2, <2>3, PDUForms, StdForm
  <2>5. Remembered(p).vbs = p.vbs /\ Remembered(p) # Refused
    <3> DEFINE q == Remembered(p)  a == p.op  v == p.vbs
    <3>1. q = [op |-> a, std |-> TRUE, status |-> 0, index |-> 0, vbs |-> v] /\ q \in PDUs
      BY <2>3, <2>4
    <3> HIDE DEF q, a, v
    <3>2. q.vbs = v /\ q # Refused
      BY <3>1, MessageAssumption
    <3>3. QED
      BY <3>2 DEF q, v
  <2>6. QED
    BY <1>2, <2>3, <2>4, <2>5, Zenon
<1>3. CASE p.std /\ p.op # GetBulkRequest
  <2>1. Remembered(p) = p
    BY <1>3 DEF Remembered
  <2>2. p = [op |-> p.op, std |-> TRUE, status |-> p.status, index |-> p.index, vbs |-> p.vbs]
    BY <1>3, StdForm
  <2>3. QED
    BY <1>3, <2>1, <2>2, MessageAssumption
<1>4. CASE ~ p.std
  BY <1>4, MessageAssumption DEF Remembered
<1>5. QED
  BY <1>2, <1>3, <1>4

LEMMA StdComesBack ==
  ASSUME StockTables, NEW p \in PDUs, PDUEncodes(p), p.std, HasRule(p), NEW version \in {0, 1}
  PROVE  ParseMessage(EncodeMessage(version, p)) = Remembered(p) <=> AllKeepForm(p)
<1> DEFINE s == EncodeMessage(version, p)
           q == ParsedStd(s)
           vbs == ParsedVarbinds(s, 8)
           bulk == p.op = GetBulkRequest
<1>1. HeadLen(p) = 3 /\ 5 + HeadLen(p) = 8
  BY DEF HeadLen
<1>2. s \in Seq(AsnStrings) /\ Framed(s, FALSE, HeadTagLen(FALSE))
  BY EncodedAt, StdFramed DEF HasRule
<1>3. p.op \in 0..31 /\ p.op # Trap /\ s[4].tag = Constructed + p.op
  BY StdForm, BindingTags DEF HasRule
<1>4. vbs = p.vbs <=> \A i \in DOMAIN p.vbs : KeepsForm(p.vbs[i].oid) /\ KeepsForm(p.vbs[i].data)
  <2>1. ParsedVarbinds(s, 5 + HeadLen(p)) = p.vbs <=>
          \A i \in DOMAIN p.vbs : KeepsForm(p.vbs[i].oid) /\ KeepsForm(p.vbs[i].data)
    BY BindingsRead
  <2>2. QED
    BY <1>1, <2>1, Zenon
<1>5. /\ s[5] = Encode(Object("Integer", << 1 >>))
      /\ s[6] = Encode(Object("Integer", << p.status >>))
      /\ s[7] = Encode(Object("Integer", << p.index >>))
  <2> DEFINE k == HeadLen(p)
  <2>1. \A i \in 1..k : s[4 + i] = EncodeHead(p)[i]
    BY EncodedAt
  <2>2. k = 3
    BY <1>1
  <2> HIDE DEF k, s
  <2>3. s[5] = EncodeHead(p)[1] /\ s[6] = EncodeHead(p)[2] /\ s[7] = EncodeHead(p)[3]
    <3>1. 4 + 1 = 5 /\ 4 + 2 = 6 /\ 4 + 3 = 7 /\ 1 \in 1..3 /\ 2 \in 1..3 /\ 3 \in 1..3
      OBVIOUS
    <3>2. QED
      BY <2>1, <2>2, <3>1, Zenon
  <2>4. QED
    BY <2>3, HeadStrings
<1> HIDE DEF s
<1>6. /\ \A i \in {5, 6, 7} : Decoded("Integer", s[i]) # Refused
      /\ Signed(s[6].octets) = p.status /\ Signed(s[7].octets) = p.index
  <2>1. 1 \in Numbers32 /\ p.status \in Numbers32 /\ p.index \in Numbers32
    BY StdForm, WidthFacts DEF Numbers32, MIN_INT32, MAX_INT32
  <2>2. QED
    BY <1>5, <2>1, NumberTags
<1>7. Signed(s[2].octets) \in {0, 1} /\ Decoded("Integer", s[2]) # Refused
  BY VersionRead DEF s
<1>8. AreIntegers(s, {2, 5, 6, 7})
  BY <1>6, <1>7 DEF AreIntegers
<1>9. q = [op |-> p.op, std |-> TRUE, status |-> IF bulk THEN 0 ELSE p.status,
           index |-> IF bulk THEN 0 ELSE p.index, vbs |-> vbs]
  <2>1. s[4].tag - Constructed = p.op
    BY <1>3 DEF Constructed
  <2> DEFINE made == StdPDU(p.op, vbs)
  <2>2. q = IF bulk THEN made ELSE [made EXCEPT !.status = p.status, !.index = p.index]
    BY <1>6, <2>1, Zenon DEF ParsedStd
  <2>3. made = [op |-> p.op, std |-> TRUE, status |-> 0, index |-> 0, vbs |-> vbs]
    BY DEF StdPDU
  <2> HIDE DEF made, q, vbs
  <2>4. QED
    BY <2>2, <2>3
<1>10. Remembered(p) = [op |-> p.op, std |-> TRUE, status |-> IF bulk THEN 0 ELSE p.status,
                        index |-> IF bulk THEN 0 ELSE p.index, vbs |-> p.vbs]
  BY RememberedForm
<1> HIDE DEF q, vbs
<1>11. q = Remembered(p) <=> vbs = p.vbs
  <2>1. q.vbs = vbs /\ Remembered(p).vbs = p.vbs
    BY <1>9, RememberedForm
  <2> DEFINE status == IF bulk THEN 0 ELSE p.status
             index == IF bulk THEN 0 ELSE p.index
  <2>2. /\ q = [op |-> p.op, std |-> TRUE, status |-> status, index |-> index, vbs |-> vbs]
        /\ Remembered(p) = [op |-> p.op, std |-> TRUE, status |-> status, index |-> index, vbs |-> p.vbs]
    BY <1>9, <1>10
  <2> HIDE DEF status, index
  <2>3. vbs = p.vbs => q = Remembered(p)
    BY <2>2
  <2>4. QED
    BY <2>1, <2>3
<1>12. q.std
  BY <1>9
<1>13. vbs = p.vbs <=> AllKeepForm(p)
  BY <1>4, Zenon DEF AllKeepForm
<1>14. /\ Accepted(s, FALSE, {2, 5, 6, 7}, q) => ParseMessage(s) = q
       /\ ~ Accepted(s, FALSE, {2, 5, 6, 7}, q) => ParseMessage(s) = Refused
  <2>1. ~ (Len(s) > 3 /\ s[4].tag = Constructed + Trap)
    <3> DEFINE tag == s[4].tag
               op == p.op
    <3>1. op \in 0..31 /\ op # Trap /\ tag = Constructed + op
      BY <1>3
    <3> HIDE DEF tag, op
    <3>2. tag # Constructed + Trap
      BY <3>1 DEF Constructed, Trap
    <3>3. QED
      BY <3>2 DEF tag
  <2>2. QED
    BY <1>2, <2>1, ParsedAs, Zenon DEF q, s
<1>15. q = Remembered(p) => Accepted(s, FALSE, {2, 5, 6, 7}, q)
  <2>1. q.vbs = vbs
    BY <1>9
  <2>2. q = Remembered(p) => Whole(q)
    BY <1>11, <1>12, <2>1, WholeObjects, Zenon
  <2>3. QED
    BY <1>2, <1>7, <1>8, <2>2, Zenon DEF Accepted, s
<1>16. Remembered(p) # Refused
  BY RememberedForm
<1>17. ParseMessage(s) = Remembered(p) <=> q = Remembered(p)
  BY <1>14, <1>15, <1>16, Zenon
<1>18. QED
  BY <1>11, <1>13, <1>17, Zenon DEF s

LEMMA EncodedParse ==
  ASSUME StockTables, NEW p \in PDUs, PDUEncodes(p), NEW version \in {0, 1}
  PROVE  ParseMessage(EncodeMessage(version, p)) = Remembered(p) <=> HasRule(p) /\ AllKeepForm(p)
<1>1. CASE ~ p.std
  <2>1. Remembered(p) = p /\ HasRule(p)
    BY <1>1 DEF Remembered, HasRule
  <2>2. QED
    BY <1>1, <2>1, TrapComesBack, Zenon
<1>2. CASE p.std /\ HasRule(p)
  BY <1>2, StdComesBack, Zenon
<1>3. CASE p.std /\ ~ HasRule(p)
  <2>2. Remembered(p) # Refused
    BY RememberedForm
  <2>3. ParseMessage(EncodeMessage(version, p)) = Refused
    BY <1>3, StdRefused
  <2>4. QED
    BY <1>3, <2>2, <2>3, Zenon
<1>4. QED
  BY <1>1, <1>2, <1>3, Zenon

----------------------------------------------------------------------------
(* What is parsed can be encoded, and keeps its form.                      *)
LEMMA ObjectRead ==
  ASSUME StockTables, NEW string \in AsnStrings
  PROVE  /\ Parse(string) # Refused =>
              Parse(string) \in Objects /\ Encodes(Parse(string)) /\ KeepsForm(Parse(string))
         /\ \A type \in Constructors :
              string.tag = StockTag[type] /\ Read(type, string).value # Refused =>
                /\ Read(type, string) \in Objects /\ Read(type, string).type = type
                /\ Encodes(Read(type, string)) /\ KeepsForm(Read(type, string))
<1>1. ASSUME Parse(string) # Refused
      PROVE  Parse(string) \in Objects /\ Encodes(Parse(string)) /\ KeepsForm(Parse(string))
  <2> DEFINE type == typeObj[tagType[string.tag]]
  <2>1. /\ string.tag \in DOMAIN tagType /\ Decoded(type, string) # Refused
        /\ Parse(string) = [type |-> type, tag |-> string.tag, value |-> Decoded(type, string)]
    BY <1>1, Zenon DEF Parse
  <2>2. MeansType(string.tag, type) /\ type \in Constructors
    <3>1. TablesOK
      BY Stock
    <3>2. QED
      BY <2>1, <3>1 DEF MeansType, TablesOK, TagsMakeObjects
  <2> HIDE DEF type
  <2>3. QED
    BY <2>1, <2>2, ReadKeepsForm
<1>2. ASSUME NEW type \in Constructors, string.tag = StockTag[type], Read(type, string).value # Refused
      PROVE  /\ Read(type, string) \in Objects /\ Read(type, string).type = type
             /\ Encodes(Read(type, string)) /\ KeepsForm(Read(type, string))
  <2> DEFINE v == Decoded(type, string)
             d == [type |-> type, tag |-> string.tag, value |-> v]
  <2>1. Read(type, string) = d
    BY DEF Read
  <2> HIDE DEF v
  <2>2. d.value = v /\ d.type = type
    OBVIOUS
  <2> HIDE DEF d
  <2>3. v # Refused
    BY <1>2, <2>1, <2>2
  <2>4. MeansType(string.tag, type)
    BY <1>2, Stock DEF MeansType
  <2>5. d \in Objects /\ Encodes(d) /\ KeepsForm(d)
    BY <2>3, <2>4, ReadKeepsForm DEF d, v
  <2>6. QED
    BY <2>1, <2>2, <2>5
<1>3. QED
  BY <1>1, <1>2

LEMMA Room ==
  ASSUME NEW len \in Nat, len >= 1, NEW h \in Nat, NEW i \in 1..((len - (5 + h)) \div 3)
  PROVE  /\ len # 4 + h /\ i \in 1..((len - 5 - h) \div 3)
         /\ 5 + h + (3 * i - 1) \in 1..len /\ 5 + h + 3 * i \in 1..len
         /\ 5 + h + 3 * i - 1 = 5 + h + (3 * i - 1)
<1> DEFINE m == len - (5 + h)
<1>1. m \in Int /\ len = m + 5 + h /\ m = len - 5 - h
  OBVIOUS
<1> HIDE DEF m
<1>2. i \in 1..(m \div 3)
  BY DEF m
<1>3. i \in Int /\ i >= 1 /\ 3 * i <= m
  BY <1>1, <1>2
<1>4. /\ len # 4 + h /\ 5 + h + (3 * i - 1) \in 1..len /\ 5 + h + 3 * i \in 1..len
      /\ 5 + h + 3 * i - 1 = 5 + h + (3 * i - 1)
  BY <1>1, <1>3
<1>5. QED
  BY <1>1, <1>2, <1>4

LEMMA BindingsFound ==
  ASSUME StockTables, NEW s \in Seq(AsnStrings), NEW v1 \in BOOLEAN, NEW h \in {3, 5},
         h = HeadTagLen(v1), Framed(s, v1, h), NEW vbs, vbs = ParsedVarbinds(s, 5 + h),
         \A i \in DOMAIN vbs : vbs[i].oid.value # Refused /\ vbs[i].data # Refused
  PROVE  /\ vbs \in Seq(Varbinds)
         /\ \A i \in DOMAIN vbs :
              VarbindEncodes(vbs[i]) /\ KeepsForm(vbs[i].oid) /\ KeepsForm(vbs[i].data)
<1> DEFINE n == (Len(s) - (5 + h)) \div 3
<1>0. Len(s) \in Nat /\ \A i \in 1..Len(s) : s[i] \in AsnStrings
  BY Lexed
<1>1. n \in Int /\ Len(s) >= 4 + h
  BY <1>0 DEF Framed
<1>2. vbs = [i \in 1..n |-> [oid  |-> Read("ObjectIdentifier", s[5 + h + 3 * i - 1]),
                             data |-> Parse(s[5 + h + 3 * i])]]
  BY Zenon DEF ParsedVarbinds
<1>3. ASSUME NEW i \in 1..n
      PROVE  /\ s[5 + h + 3 * i - 1] \in AsnStrings /\ s[5 + h + 3 * i - 1].tag = 6
             /\ s[5 + h + 3 * i] \in AsnStrings
  <2> DEFINE a == 5 + h + (3 * i - 1)
             b == 5 + h + 3 * i
  <2>1. /\ Len(s) # 4 + h /\ i \in 1..((Len(s) - 5 - h) \div 3)
        /\ a \in 1..Len(s) /\ b \in 1..Len(s) /\ 5 + h + 3 * i - 1 = a
    <3>1. Len(s) >= 1 /\ h \in Nat
      BY <1>0, <1>1
    <3>2. QED
      BY <1>0, <3>1, Room
  <2>2. s[a].tag = 6
    <3> HIDE DEF n
    <3>1. QED
      BY <2>1, Zenon DEF Framed
  <2> HIDE DEF a, b
  <2>3. s[a] \in AsnStrings /\ s[b] \in AsnStrings
    BY <1>0, <2>1
  <2>4. QED
    BY <2>1, <2>2, <2>3 DEF b
<1> HIDE DEF n
<1>4. DOMAIN vbs = 1..n
  BY <1>2
<1>5. "ObjectIdentifier" \in Constructors /\ StockTag["ObjectIdentifier"] = 6
  BY Kinds DEF StockTag
<1>6. ASSUME NEW i \in 1..n
      PROVE  /\ vbs[i] \in Varbinds
             /\ VarbindEncodes(vbs[i]) /\ KeepsForm(vbs[i].oid) /\ KeepsForm(vbs[i].data)
  <2> DEFINE a == Read("ObjectIdentifier", s[5 + h + 3 * i - 1])
             b == Parse(s[5 + h + 3 * i])
  <2>1. vbs[i] = [oid |-> a, data |-> b]
    BY <1>2
  <2>2. a.value # Refused /\ b # Refused
    <3>1. vbs[i].oid.value # Refused /\ vbs[i].data # Refused
      BY <1>4
    <3> HIDE DEF a, b
    <3>2. QED
      BY <2>1, <3>1
  <2>3. a \in Objects /\ a.type = "ObjectIdentifier" /\ Encodes(a) /\ KeepsForm(a)
    BY <1>3, <1>5, <2>2, ObjectRead
  <2>4. b \in Objects /\ Encodes(b) /\ KeepsForm(b)
    BY <1>3, <2>2, ObjectRead
  <2> HIDE DEF a, b
  <2>5. a # None /\ b # None
    BY <2>3, <2>4, ObjectForm
  <2>6. vbs[i].oid = a /\ vbs[i].data = b
    BY <2>1
  <2>7. vbs[i] \in Varbinds
    BY <2>1, <2>3, <2>4 DEF Varbinds
  <2>8. VarbindEncodes(vbs[i])
    BY <2>3, <2>4, <2>5, <2>6 DEF VarbindEncodes
  <2>9. QED
    BY <2>3, <2>4, <2>6, <2>7, <2>8
<1>7. vbs \in Seq(Varbinds)
  <2> DEFINE k == IF n >= 0 THEN n ELSE 0
             at(i) == [oid |-> Read("ObjectIdentifier", s[5 + h + 3 * i - 1]),
                       data |-> Parse(s[5 + h + 3 * i])]
  <2>1. k \in Nat /\ 1..k = 1..n
    BY <1>1
  <2> HIDE DEF k, at
  <2>2. vbs = [i \in 1..n |-> at(i)]
    BY <1>2, Zenon DEF at
  <2>3. \A i \in 1..k : vbs[i] = at(i)
    BY <2>1, <2>2
  <2>4. \A i \in 1..k : at(i) \in Varbinds
    BY <1>6, <2>1, <2>3
  <2>5. [i \in 1..k |-> at(i)] \in Seq(Varbinds)
    BY <2>1, <2>4
  <2>6. QED
    BY <2>1, <2>2, <2>5, Zenon
<1>8. QED
  BY <1>4, <1>6, <1>7

(* What a parser leaves of a PDU.                                          *)
Sound(p) ==
  /\ p \in PDUs /\ PDUEncodes(p) /\ AllKeepForm(p) /\ Remembered(p) = p
  /\ p.std => p.op \in (0..8) \ {Trap}

LEMMA TrapFound ==
  ASSUME StockTables, NEW s \in Seq(AsnStrings), Accepted(s, TRUE, {2}, ParsedTrap(s))
  PROVE  Sound(ParsedTrap(s))
<1> DEFINE p == ParsedTrap(s)
           vbs == ParsedVarbinds(s, 10)
           fields == [i \in 1..5 |-> Read(FieldType[i], s[4 + i])]
<1>1. HeadTagLen(TRUE) = 5 /\ 5 + 5 = 10
  BY DEF HeadTagLen
<1>2. Framed(s, TRUE, 5) /\ Whole(p)
  BY <1>1 DEF Accepted
<1>3. p = [op |-> Trap, std |-> FALSE, vbs |-> vbs, fields |-> fields]
  BY DEF ParsedTrap
<1> HIDE DEF p, vbs, fields
<1>4. p.op = Trap /\ p.std = FALSE /\ p.vbs = vbs /\ p.fields = fields
  BY <1>3
<1>5. /\ \A i \in DOMAIN vbs : vbs[i].oid.value # Refused /\ vbs[i].data # Refused
      /\ \A i \in 1..5 : fields[i].value # Refused
  BY <1>2, <1>4 DEF Whole
<1>6. /\ vbs \in Seq(Varbinds)
      /\ \A i \in DOMAIN vbs :
           VarbindEncodes(vbs[i]) /\ KeepsForm(vbs[i].oid) /\ KeepsForm(vbs[i].data)
  <2>1. vbs = ParsedVarbinds(s, 5 + 5)
    BY <1>1 DEF vbs
  <2>2. 5 \in {3, 5} /\ TRUE \in BOOLEAN
    OBVIOUS
  <2>3. QED
    BY <1>1, <1>2, <1>5, <2>1, <2>2, BindingsFound, Zenon
<1>7. ASSUME NEW i \in 1..5
      PROVE  /\ fields[i] \in Objects /\ fields[i].type = FieldType[i]
             /\ Encodes(fields[i]) /\ KeepsForm(fields[i])
  <2>1. fields[i] = Read(FieldType[i], s[4 + i])
    BY DEF fields
  <2>2. s[4 + i] \in AsnStrings
    <3>1. Len(s) >= 9
      BY <1>2 DEF Framed
    <3>2. 4 + i \in 1..Len(s)
      BY <3>1, Lexed
    <3>3. QED
      BY <3>2, Lexed
  <2>3. s[4 + i].tag = HeadTags(TRUE)[i]
    BY <1>2 DEF Framed
  <2>4. FieldType[i] \in Constructors /\ HeadTags(TRUE)[i] = StockTag[FieldType[i]]
    <3>1. i \in {1, 2, 3, 4, 5}
      OBVIOUS
    <3>2. QED
      BY <3>1, Kinds DEF FieldType, HeadTags, StockTag
  <2>5. Read(FieldType[i], s[4 + i]).value # Refused
    BY <1>5, <2>1
  <2>6. QED
    BY <2>1, <2>2, <2>3, <2>4, <2>5, ObjectRead, Zenon
<1>8. fields \in Fields
  <2>1. fields = [i \in 1..5 |-> fields[i]]
    BY DEF fields
  <2>2. \A i \in 1..5 : fields[i] \in Objects \cup {None}
    BY <1>7
  <2>3. fields \in [1..5 -> Objects \cup {None}]
    BY <2>1, <2>2, Zenon
  <2>4. QED
    BY <1>7, <2>3 DEF Fields
<1>9. p \in PDUs
  <2>1. p = [op |-> Trap, std |-> FALSE, fields |-> fields, vbs |-> vbs]
    BY <1>3
  <2>2. QED
    BY <1>6, <1>8, <2>1, PDUForms
<1>10. PDUEncodes(p)
  <2>1. \A i \in DOMAIN p.vbs : VarbindEncodes(p.vbs[i])
    BY <1>4, <1>6
  <2>2. \A i \in 1..5 : p.fields[i] # None /\ Encodes(p.fields[i])
    BY <1>4, <1>7, ObjectForm
  <2>3. QED
    BY <1>4, <2>1, <2>2 DEF PDUEncodes
<1>11. AllKeepForm(p)
  <2>1. \A i \in DOMAIN p.vbs : KeepsForm(p.vbs[i].oid) /\ KeepsForm(p.vbs[i].data)
    BY <1>4, <1>6
  <2>2. \A i \in 1..5 : KeepsForm(p.fields[i])
    BY <1>4, <1>7
  <2>3. QED
    BY <2>1, <2>2 DEF AllKeepForm
<1>12. Remembered(p) = p
  BY <1>4, <1>9, RememberedForm
<1>13. QED
  BY <1>4, <1>9, <1>10, <1>11, <1>12 DEF Sound, p

LEMMA StdFound ==
  ASSUME StockTables, NEW s \in Seq(AsnStrings), Accepted(s, FALSE, {2, 5, 6, 7}, ParsedStd(s)),
         ~ (Len(s) > 3 /\ s[4].tag = Constructed + Trap)
  PROVE  Sound(ParsedStd(s))
<1> DEFINE p == ParsedStd(s)
           vbs == ParsedVarbinds(s, 8)
           op == s[4].tag - Constructed
           status == IF op = GetBulkRequest THEN 0 ELSE Signed(s[6].octets)
           index == IF op = GetBulkRequest THEN 0 ELSE Signed(s[7].octets)
<1>1. HeadTagLen(FALSE) = 3 /\ 5 + 3 = 8
  BY DEF HeadTagLen
<1>2. Framed(s, FALSE, 3) /\ Whole(p) /\ AreIntegers(s, {2, 5, 6, 7})
  BY <1>1 DEF Accepted
<1>3. p = [op |-> op, std |-> TRUE, status |-> status, index |-> index, vbs |-> vbs]
  <2> DEFINE made == StdPDU(op, vbs)
             n == Signed(s[6].octets)
             m == Signed(s[7].octets)
  <2>1. p = IF op = GetBulkRequest THEN made ELSE [made EXCEPT !.status = n, !.index = m]
    BY Zenon DEF ParsedStd
  <2>2. made = [op |-> op, std |-> TRUE, status |-> 0, index |-> 0, vbs |-> vbs]
    BY DEF StdPDU
  <2> HIDE DEF made, p, vbs, op, n, m
  <2>3. [made EXCEPT !.status = n, !.index = m] =
          [op |-> op, std |-> TRUE, status |-> n, index |-> m, vbs |-> vbs]
    <3> DEFINE q == [made EXCEPT !.status = n, !.index = m]
               R == [op : {op}, std : {TRUE}, status : {0, n}, index : {0, m}, vbs : {vbs}]
    <3>1. made \in R
      BY <2>2
    <3>2. q \in R /\ q.op = op /\ q.std = TRUE /\ q.status = n /\ q.index = m /\ q.vbs = vbs
      BY <3>1
    <3> HIDE DEF q
    <3>3. q = [op |-> q.op, std |-> q.std, status |-> q.status, index |-> q.index, vbs |-> q.vbs]
      BY <3>2
    <3>4. QED
      BY <3>2, <3>3, Zenon DEF q
  <2>4. CASE op = GetBulkRequest
    BY <2>1, <2>2, <2>4, Zenon DEF n, m
  <2>5. CASE op # GetBulkRequest
    BY <2>1, <2>3, <2>5, Zenon DEF n, m
  <2>6. QED
    BY <2>4, <2>5
<1>4. op \in (0..8) \ {Trap}
  <2>1. s[4].tag \in Constructed..(Constructed + 8) /\ Len(s) >= 7
    BY <1>2 DEF Framed
  <2>2. Len(s) > 3
    BY <2>1, Lexed
  <2>3. s[4].tag # Constructed + Trap
    BY <2>2
  <2> DEFINE tag == s[4].tag
  <2>4. tag \in Constructed..(Constructed + 8) /\ tag # Constructed + Trap
    BY <2>1, <2>3
  <2> HIDE DEF tag
  <2>5. tag - Constructed \in (0..8) \ {Trap}
    BY <2>4 DEF Constructed, Trap
  <2>6. QED
    BY <2>5 DEF tag
<1>5. ASSUME NEW i \in {6, 7} PROVE Signed(s[i].octets) \in Numbers32
  <2>1. Decoded("Integer", s[i]) # Refused
    BY <1>2 DEF AreIntegers
  <2>2. s[i] \in AsnStrings /\ s[i].tag = 2
    <3>1. Len(s) >= 7
      BY <1>2 DEF Framed
    <3>2. i \in 1..Len(s) /\ i - 4 \in 1..3 /\ 4 + (i - 4) = i
      BY <3>1, Lexed
    <3>3. HeadTags(FALSE)[i - 4] = 2
      BY <3>2 DEF HeadTags
    <3>4. s[4 + (i - 4)].tag = HeadTags(FALSE)[i - 4]
      BY <1>2, <3>2, Zenon DEF Framed
    <3>5. QED
      BY <3>2, <3>3, <3>4, Lexed
  <2> DEFINE o == s[i].octets
  <2>3. Decoded("Integer", s[i]) = << Signed(o) >>
    BY <2>1, DecodedOf, Zenon
  <2>4. Kept("Integer", Decoded("Integer", s[i]))
    <3>1. Readable("Integer", o)
      BY <2>2 DEF AsnStrings, Readable, StockTag
    <3>2. QED
      BY <2>1, <3>1, DecodedKept, Kinds
  <2> DEFINE n == Signed(o)
  <2> HIDE DEF n, o
  <2>5. Holds("Integer", << n >>)
    BY <2>3, <2>4 DEF Kept, n
  <2>6. n \in MIN_INT32..MAX_INT32
    <3>1. << n >>[1] \in MIN_INT32..MAX_INT32
      BY <2>5, HoldsOf
    <3>2. << n >>[1] = n
      OBVIOUS
    <3>3. QED
      BY <3>1, <3>2, Zenon
  <2>7. QED
    BY <2>6 DEF Numbers32, n, o
<1>6. status \in Numbers32 /\ index \in Numbers32
  <2>1. 0 \in Numbers32
    BY WidthFacts DEF Numbers32, MIN_INT32, MAX_INT32
  <2>2. Signed(s[6].octets) \in Numbers32 /\ Signed(s[7].octets) \in Numbers32
    BY <1>5
  <2>3. QED
    BY <2>1, <2>2, Zenon
<1>7. op = GetBulkRequest => status = 0 /\ index = 0
  OBVIOUS
<1> HIDE DEF p, vbs, op, status, index
<1>8. p.op = op /\ p.std /\ p.vbs = vbs /\ p.status = status /\ p.index = index
  BY <1>3
<1>9. \A i \in DOMAIN vbs : vbs[i].oid.value # Refused /\ vbs[i].data # Refused
  BY <1>2, <1>8 DEF Whole
<1>10. /\ vbs \in Seq(Varbinds)
       /\ \A i \in DOMAIN vbs :
            VarbindEncodes(vbs[i]) /\ KeepsForm(vbs[i].oid) /\ KeepsForm(vbs[i].data)
  <2>1. vbs = ParsedVarbinds(s, 5 + 3)
    BY <1>1 DEF vbs
  <2>2. 3 \in {3, 5} /\ FALSE \in BOOLEAN
    OBVIOUS
  <2>3. QED
    BY <1>1, <1>2, <1>9, <2>1, <2>2, BindingsFound, Zenon
<1>11. op \in 0..31
  BY <1>4
<1>12. p \in PDUs
  BY <1>3, <1>6, <1>10, <1>11, PDUForms
<1>13. PDUEncodes(p)
  <2>1. \A i \in DOMAIN p.vbs : VarbindEncodes(p.vbs[i])
    BY <1>8, <1>10
  <2>2. p.op = GetBulkRequest => p.status <= Len(p.vbs)
    <3>1. Len(vbs) \in Nat
      BY <1>10
    <3>2. QED
      BY <1>7, <1>8, <3>1
  <2>3. QED
    BY <1>8, <2>1, <2>2 DEF PDUEncodes
<1>14. AllKeepForm(p)
  <2>1. \A i \in DOMAIN p.vbs : KeepsForm(p.vbs[i].oid) /\ KeepsForm(p.vbs[i].data)
    BY <1>8, <1>10
  <2>2. QED
    BY <1>8, <2>1 DEF AllKeepForm
<1>15. Remembered(p) = p
  <2>1. CASE op = GetBulkRequest
    <3>1. Remembered(p) = [op |-> op, std |-> TRUE, status |-> 0, index |-> 0, vbs |-> vbs]
      BY <1>8, <1>12, <2>1, RememberedForm, Zenon
    <3>2. p = [op |-> op, std |-> TRUE, status |-> 0, index |-> 0, vbs |-> vbs]
      BY <1>3, <1>7, <2>1, Zenon
    <3>3. QED
      BY <3>1, <3>2, Zenon
  <2>2. CASE op # GetBulkRequest
    BY <1>8, <2>2, Zenon DEF Remembered
  <2>3. QED
    BY <2>1, <2>2
<1>16. QED
  BY <1>4, <1>8, <1>12, <1>13, <1>14, <1>15 DEF Sound, p

LEMMA ParsedForm ==
  ASSUME StockTables, NEW s \in Seq(AsnStrings), ParseMessage(s) # Refused
  PROVE  Sound(ParseMessage(s)) /\ Signed(s[2].octets) \in {0, 1}
<1>1. CASE Len(s) > 3 /\ s[4].tag = Constructed + Trap
  <2>1. ParseMessage(s) = ParsedTrap(s) /\ Accepted(s, TRUE, {2}, ParsedTrap(s))
    BY <1>1, ParsedAs, Zenon
  <2>2. Signed(s[2].octets) \in {0, 1}
    BY <2>1, Zenon DEF Accepted
  <2>3. QED
    BY <2>1, <2>2, TrapFound, Zenon
<1>2. CASE ~ (Len(s) > 3 /\ s[4].tag = Constructed + Trap)
  <2>1. ParseMessage(s) = ParsedStd(s) /\ Accepted(s, FALSE, {2, 5, 6, 7}, ParsedStd(s))
    BY <1>2, ParsedAs, Zenon
  <2>2. Signed(s[2].octets) \in {0, 1}
    BY <2>1, Zenon DEF Accepted
  <2>3. QED
    BY <1>2, <2>1, <2>2, StdFound, Zenon
<1>3. QED
  BY <1>1, <1>2, Zenon

----------------------------------------------------------------------------
(* One PDU, its message and its history.                                   *)
IndexInRange ==
  pdu # None /\ pdu.std /\ ~ loose => 0 <= pdu.index /\ pdu.index <= Len(pdu.vbs)

MessageInv ==
  /\ StockTables
  /\ MessageTypeOK
  /\ message # None => pdu # None
  /\ IndexInRange

LEMMA MessageStarts == MessageInit /\ DataInit => MessageInv
BY DEF MessageInit, DataInit, MessageInv, MessageTypeOK, IndexInRange

(* A step is described by what it makes of the PDU and of the message.     *)
PDUMade ==
  /\ pdu' \in PDUs
  /\ loose' \in BOOLEAN
  /\ pdu'.std /\ ~ loose' => 0 <= pdu'.index /\ pdu'.index <= Len(pdu'.vbs)

MessageMade == message' \in [version : {0, 1}, raw : Seq(AsnStrings) \cup {None}]

LEMMA StockKept == StockTables /\ UNCHANGED dvars => StockTables'
BY DEF StockTables, dvars, tables

LEMMA MadeKeeps ==
  ASSUME MessageInv, UNCHANGED dvars, PDUMade, MessageMade \/ message' = message
  PROVE  MessageInv'
<1>1. StockTables'
  BY StockKept DEF MessageInv
<1>2. message' \in [version : {0, 1}, raw : Seq(AsnStrings) \cup {None}] \cup {None}
  BY DEF MessageInv, MessageTypeOK, MessageMade
<1>3. MessageTypeOK'
  BY <1>2 DEF MessageTypeOK, PDUMade
<1>4. pdu' # None
  BY MessageAssumption DEF PDUMade
<1>5. IndexInRange'
  BY DEF IndexInRange, PDUMade
<1>6. QED
  BY <1>1, <1>3, <1>4, <1>5 DEF MessageInv

LEMMA CreateStdMade ==
  ASSUME NEW op \in Opcodes, NEW vbs \in Bindings, MessageTypeOK, CreateStd(op, vbs)
  PROVE  PDUMade /\ message' = message
<1>1. pdu' = [op |-> op, std |-> TRUE, status |-> 0, index |-> 0, vbs |-> vbs]
      /\ loose' = loose /\ message' = message
  BY DEF CreateStd, StdPDU
<1>2. op \in 0..31 /\ vbs \in Seq(Varbinds) /\ 0 \in Numbers32
  BY MessageAssumption, WidthFacts DEF Numbers32, MIN_INT32, MAX_INT32
<1>3. pdu' \in PDUs
  BY <1>1, <1>2, PDUForms
<1>4. Len(vbs) \in Nat
  BY <1>2
<1>5. pdu'.index = 0 /\ pdu'.vbs = vbs
  BY <1>1
<1>6. QED
  BY <1>1, <1>3, <1>4, <1>5 DEF PDUMade, MessageTypeOK

LEMMA FieldMade ==
  ASSUME NEW fields \in TrapFields, NEW i \in 1..5
  PROVE  /\ Object(FieldType[i], fields[i]) \in Objects
         /\ Object(FieldType[i], fields[i]).type = FieldType[i]
<1>1. FieldType[i] \in Constructors
  BY Kinds DEF FieldType
<1>2. Kept(FieldType[i], fields[i])
  BY MessageAssumption DEF Kept
<1>3. QED
  BY <1>1, <1>2, StockObject

LEMMA CreateTrapMade ==
  ASSUME NEW fields \in TrapFields, NEW vbs \in Bindings, MessageTypeOK, CreateTrap(fields, vbs)
  PROVE  PDUMade /\ message' = message
<1> DEFINE made == [i \in 1..5 |-> IF fields[i] = << 0 >> THEN None ELSE Object(FieldType[i], fields[i])]
<1>1. pdu' = [op |-> Trap, std |-> FALSE, fields |-> made, vbs |-> vbs]
      /\ loose' = loose /\ message' = message
  BY DEF CreateTrap, TrapV1PDU
<1>2. vbs \in Seq(Varbinds)
  BY MessageAssumption
<1>3. made \in Fields
  <2>1. ASSUME NEW i \in 1..5
        PROVE  /\ made[i] \in Objects \cup {None}
               /\ made[i] # None => made[i].type = FieldType[i]
    <3> DEFINE d == Object(FieldType[i], fields[i])
    <3>1. d \in Objects /\ d.type = FieldType[i]
      BY FieldMade
    <3>2. made[i] = IF fields[i] = << 0 >> THEN None ELSE d
      OBVIOUS
    <3> HIDE DEF made, d
    <3>3. QED
      BY <3>1, <3>2
  <2>2. made = [i \in 1..5 |-> made[i]]
    OBVIOUS
  <2> HIDE DEF made
  <2>3. made \in [1..5 -> Objects \cup {None}]
    BY <2>1, <2>2, Zenon
  <2>4. QED
    BY <2>1, <2>3 DEF Fields
<1> HIDE DEF made
<1>4. pdu' \in PDUs /\ ~ pdu'.std
  BY <1>1, <1>2, <1>3, PDUForms
<1>5. QED
  BY <1>1, <1>4 DEF PDUMade, MessageTypeOK

LEMMA SetFieldMade ==
  ASSUME NEW fields \in TrapFields, NEW i \in 1..5, MessageTypeOK, SetField(i, fields[i])
  PROVE  PDUMade /\ message' = message
<1> DEFINE d == Object(FieldType[i], fields[i])
<1>1. d \in Objects /\ d.type = FieldType[i]
  BY FieldMade
<1>2. /\ pdu \in PDUs /\ ~ pdu.std /\ loose' = loose /\ message' = message
      /\ pdu' = [pdu EXCEPT !.fields[i] = d]
  BY DEF SetField, MessageTypeOK
<1> HIDE DEF d
<1>3. /\ pdu \in [op : {Trap}, std : {FALSE}, fields : Fields, vbs : Seq(Varbinds)]
      /\ pdu.fields \in Fields
  BY <1>2 DEF PDUs
<1> DEFINE made == [pdu.fields EXCEPT ![i] = d]
<1>4. made \in Fields
  <2>1. pdu.fields \in [1..5 -> Objects \cup {None}]
        /\ \A j \in 1..5 : pdu.fields[j] # None => pdu.fields[j].type = FieldType[j]
    BY <1>3 DEF Fields
  <2>2. made \in [1..5 -> Objects \cup {None}]
        /\ \A j \in 1..5 : made[j] = IF j = i THEN d ELSE pdu.fields[j]
    BY <1>1, <2>1
  <2> HIDE DEF made
  <2>3. \A j \in 1..5 : made[j] # None => made[j].type = FieldType[j]
    BY <1>1, <2>1, <2>2
  <2>4. QED
    BY <2>2, <2>3 DEF Fields
<1>5. pdu' = [pdu EXCEPT !.fields = made]
  BY <1>2
<1> HIDE DEF made
<1>6. pdu' \in [op : {Trap}, std : {FALSE}, fields : Fields, vbs : Seq(Varbinds)]
  BY <1>3, <1>4, <1>5
<1>7. pdu' \in PDUs /\ ~ pdu'.std
  BY <1>6 DEF PDUs
<1>8. QED
  BY <1>2, <1>7 DEF PDUMade, MessageTypeOK

LEMMA SetVarbindsMade ==
  ASSUME NEW vbs \in Bindings, MessageTypeOK, SetVarbinds(vbs)
  PROVE  PDUMade /\ message' = message
<1>1. pdu \in PDUs /\ loose' = TRUE /\ message' = message /\ pdu' = [pdu EXCEPT !.vbs = vbs]
  BY DEF SetVarbinds, MessageTypeOK
<1>2. vbs \in Seq(Varbinds)
  BY MessageAssumption
<1>3. pdu' \in PDUs
  BY <1>1, <1>2 DEF PDUs
<1>4. QED
  BY <1>1, <1>3 DEF PDUMade

(* The numbers of a standard PDU.                                          *)
LEMMA NumbersMade ==
  ASSUME NEW n \in Numbers, MessageInv,
         SetStatus(n) \/ SetIndex(n) \/ SetIndexObject(n)
  PROVE  PDUMade /\ message' = message
<1> DEFINE R == [op : 0..31, std : {TRUE}, status : Numbers32, index : Numbers32, vbs : Seq(Varbinds)]
<1>1. pdu \in R /\ pdu \in PDUs
  <2>1. pdu # None /\ pdu.std
    BY DEF SetStatus, SetIndex, SetIndexObject
  <2>2. QED
    BY <2>1 DEF MessageInv, MessageTypeOK, PDUs
<1>2. n \in Numbers32 /\ n \in Int
  BY MessageAssumption, Bounds DEF Numbers32
<1>3. Len(pdu.vbs) \in Nat
  BY <1>1
<1>4. CASE SetStatus(n)
  <2>1. pdu' = [pdu EXCEPT !.status = n] /\ loose' = loose /\ message' = message
    BY <1>4 DEF SetStatus
  <2>2. pdu' \in R /\ pdu'.index = pdu.index /\ pdu'.vbs = pdu.vbs /\ pdu'.std
    BY <1>1, <1>2, <2>1
  <2>3. pdu' \in PDUs
    BY <2>2 DEF PDUs
  <2>4. ~ loose => 0 <= pdu.index /\ pdu.index <= Len(pdu.vbs)
    BY <1>1, MessageAssumption DEF MessageInv, IndexInRange
  <2>5. loose \in BOOLEAN
    BY DEF MessageInv, MessageTypeOK
  <2> HIDE DEF R
  <2>6. QED
    BY <2>1, <2>2, <2>3, <2>4, <2>5 DEF PDUMade
<1>5. CASE SetIndex(n)
  <2>1. /\ pdu' = [pdu EXCEPT !.index = n] /\ loose' = (pdu.op = GetBulkRequest) /\ message' = message
        /\ IndexAllowed(n)
    BY <1>5 DEF SetIndex
  <2>2. pdu' \in R /\ pdu'.index = n /\ pdu'.vbs = pdu.vbs /\ pdu'.std
    BY <1>1, <1>2, <2>1
  <2>3. pdu' \in PDUs
    BY <2>2 DEF PDUs
  <2>4. pdu.op # GetBulkRequest => 0 <= n /\ n <= Len(pdu.vbs)
    <3> DEFINE len == Len(pdu.vbs)
    <3>1. pdu.op # GetBulkRequest => n \in 0..len
      BY <2>1 DEF IndexAllowed
    <3> HIDE DEF len
    <3>2. pdu.op # GetBulkRequest => 0 <= n /\ n <= len
      BY <3>1
    <3>3. QED
      BY <3>2 DEF len
  <2> HIDE DEF R
  <2>5. loose' \in BOOLEAN /\ (~ loose' => pdu.op # GetBulkRequest)
    BY <2>1
  <2>6. QED
    BY <2>1, <2>2, <2>3, <2>4, <2>5 DEF PDUMade
<1>6. CASE SetIndexObject(n)
  <2>1. pdu' = [pdu EXCEPT !.index = n] /\ loose' = TRUE /\ message' = message
    BY <1>6 DEF SetIndexObject
  <2>2. pdu' \in R
    BY <1>1, <1>2, <2>1
  <2>3. pdu' \in PDUs
    BY <2>2 DEF PDUs
  <2>4. QED
    BY <2>1, <2>3 DEF PDUMade
<1>7. QED
  BY <1>4, <1>5, <1>6

LEMMA CloneAsMade ==
  ASSUME NEW op \in Opcodes, MessageInv, CloneAs(op)
  PROVE  PDUMade /\ message' = message
<1> DEFINE R == [op : 0..31, std : {TRUE}, status : Numbers32, index : Numbers32, vbs : Seq(Varbinds)]
           vbs == [i \in DOMAIN pdu.vbs |-> CloneVarbind(pdu.vbs[i])]
<1>1. /\ pdu # None /\ pdu.std /\ loose' = loose /\ message' = message
      /\ \A i \in DOMAIN vbs : Refused \notin {vbs[i].oid, vbs[i].data}
      /\ pdu' = [pdu EXCEPT !.op = op, !.vbs = vbs]
  BY DEF CloneAs
<1>2. pdu \in R /\ pdu \in PDUs
  BY <1>1 DEF MessageInv, MessageTypeOK, PDUs
<1>3. vbs = pdu.vbs
  <2>1. pdu.vbs \in Seq(Varbinds)
    BY <1>2
  <2>2. ASSUME NEW i \in DOMAIN pdu.vbs PROVE CloneVarbind(pdu.vbs[i]) = pdu.vbs[i]
    <3>1. pdu.vbs[i] \in Varbinds
      BY <2>1
    <3>2. vbs[i] = CloneVarbind(pdu.vbs[i]) /\ i \in DOMAIN vbs
      OBVIOUS
    <3> HIDE DEF vbs
    <3>3. Refused \notin {CloneVarbind(pdu.vbs[i]).oid, CloneVarbind(pdu.vbs[i]).data}
      BY <1>1, <3>2
    <3>4. QED
      BY <3>1, <3>3, CloneBinding
  <2>3. pdu.vbs = [i \in DOMAIN pdu.vbs |-> pdu.vbs[i]]
    BY <2>1
  <2>4. QED
    BY <2>2, <2>3, Zenon
<1>4. op \in 0..31 /\ pdu.vbs \in Seq(Varbinds) /\ Len(pdu.vbs) \in Nat
  BY <1>2, MessageAssumption
<1> HIDE DEF vbs
<1>5. pdu' = [pdu EXCEPT !.op = op, !.vbs = pdu.vbs]
  BY <1>1, <1>3
<1>6. pdu' \in R /\ pdu'.index = pdu.index /\ pdu'.vbs = pdu.vbs /\ pdu'.std
  BY <1>2, <1>4, <1>5
<1>7. pdu' \in PDUs
  BY <1>6 DEF PDUs
<1>8. ~ loose => 0 <= pdu.index /\ pdu.index <= Len(pdu.vbs)
  BY <1>1 DEF MessageInv, IndexInRange
<1>9. loose \in BOOLEAN
  BY DEF MessageInv, MessageTypeOK
<1> HIDE DEF R
<1>10. QED
  BY <1>1, <1>6, <1>7, <1>8, <1>9 DEF PDUMade

LEMMA ParsedMade ==
  ASSUME StockTables, NEW s \in Seq(AsnStrings), ParseMessage(s) # Refused,
         pdu' = ParseMessage(s), loose' = TRUE
  PROVE  PDUMade /\ Signed(s[2].octets) \in {0, 1}
BY ParsedForm DEF Sound, PDUMade

LEMMA MessageSteps ==
  ASSUME MessageInv, MessageNext, UNCHANGED dvars
  PROVE  MessageInv'
<1>0. StockTables /\ MessageTypeOK /\ (message # None => pdu # None)
  BY DEF MessageInv
<1>1. CASE \E op \in Opcodes : CloneAs(op)
  BY <1>1, CloneAsMade, MadeKeeps
<1>2. CASE \E op \in Opcodes, vbs \in Bindings : CreateStd(op, vbs)
  BY <1>0, <1>2, CreateStdMade, MadeKeeps
<1>3. CASE \E fields \in TrapFields, vbs \in Bindings : CreateTrap(fields, vbs)
  BY <1>0, <1>3, CreateTrapMade, MadeKeeps
<1>4. CASE \E fields \in TrapFields, i \in 1..5 : SetField(i, fields[i])
  BY <1>0, <1>4, SetFieldMade, MadeKeeps
<1>5. CASE \E vbs \in Bindings : SetVarbinds(vbs)
  BY <1>0, <1>5, SetVarbindsMade, MadeKeeps
<1>6. CASE \E n \in Numbers : SetStatus(n) \/ SetIndex(n) \/ SetIndexObject(n)
  BY <1>6, NumbersMade, MadeKeeps
<1> DEFINE M == [version : {0, 1}, raw : Seq(AsnStrings) \cup {None}]
<1>7. CASE \E version \in {0, 1} : CreateMessage(version)
  <2>1. PICK version \in {0, 1} : CreateMessage(version)
    BY <1>7
  <2>2. message' = [version |-> version, raw |-> None] /\ UNCHANGED << pdu, loose >> /\ pdu # None
    BY <2>1 DEF CreateMessage
  <2>3. message' \in M
    BY <2>2
  <2>4. QED
    BY <1>0, <2>2, <2>3, StockKept DEF MessageInv, MessageTypeOK, IndexInRange
<1>8. CASE EncodeIt
  <2>1. /\ message \in M /\ pdu \in PDUs /\ PDUEncodes(pdu) /\ UNCHANGED << pdu, loose >>
        /\ message' = [message EXCEPT !.raw = EncodeMessage(message.version, pdu)]
        /\ pdu # None
    BY <1>0, <1>8 DEF EncodeIt, MessageTypeOK
  <2>2. message.version \in {0, 1}
    BY <2>1
  <2> DEFINE raw == EncodeMessage(message.version, pdu)
  <2>3. raw \in Seq(AsnStrings)
    BY <1>0, <2>1, <2>2, EncodedAt
  <2> HIDE DEF raw
  <2>4. message' = [message EXCEPT !.raw = raw]
    BY <2>1 DEF raw
  <2>5. message' \in M
    BY <2>1, <2>3, <2>4
  <2>6. QED
    BY <1>0, <2>1, <2>5, StockKept DEF MessageInv, MessageTypeOK, IndexInRange
<1>9. CASE ParseIt
  <2>1. /\ message # None /\ message.raw # None /\ ParseMessage(message.raw) # Refused
        /\ pdu' = ParseMessage(message.raw) /\ loose' = TRUE /\ message' = message
    BY <1>9 DEF ParseIt
  <2>2. message.raw \in Seq(AsnStrings)
    BY <1>0, <2>1 DEF MessageTypeOK
  <2>3. PDUMade
    BY <1>0, <2>1, <2>2, ParsedMade
  <2>4. QED
    BY <2>1, <2>3, MadeKeeps
<1>10. CASE \E raw \in Datagrams : Arrive(raw)
  <2>1. PICK raw \in Datagrams : Arrive(raw)
    BY <1>10
  <2>2. /\ ParseMessage(raw) # Refused /\ pdu' = ParseMessage(raw) /\ loose' = TRUE
        /\ message' = [version |-> Signed(raw[2].octets), raw |-> raw]
    BY <2>1 DEF Arrive
  <2>3. raw \in Seq(AsnStrings)
    BY MessageAssumption
  <2>4. PDUMade /\ Signed(raw[2].octets) \in {0, 1}
    BY <1>0, <2>2, <2>3, ParsedMade
  <2>5. MessageMade
    BY <2>2, <2>3, <2>4 DEF MessageMade
  <2>6. QED
    BY <2>4, <2>5, MadeKeeps
<1>11. QED
  BY <1>1, <1>2, <1>3, <1>4, <1>5, <1>6, <1>7, <1>8, <1>9, <1>10 DEF MessageNext

LEMMA MessageStutters == MessageInv /\ UNCHANGED << gvars, dvars >> => MessageInv'
BY DEF MessageInv, MessageTypeOK, IndexInRange, StockTables, gvars, dvars, tables

----------------------------------------------------------------------------
(* The tables stay those of the library, PDUs and messages stay of their   *)
(* form, and the error index of a PDU names a binding while it has been    *)
(* set as a number and the bindings have not been replaced.                *)
THEOREM MessageInvariant == MessageSpec => []MessageInv
<1>1. MessageInv /\ [MessageNext /\ UNCHANGED dvars]_<< gvars, dvars >> => MessageInv'
  BY MessageSteps, MessageStutters
<1>2. QED
  BY <1>1, MessageStarts, PTL DEF MessageSpec

(* A PDU has the shape of its operation and objects of the types of their  *)
(* places; a message has a version and is a sequence of ASN.1 strings.     *)
THEOREM MessageTyped == MessageSpec => []MessageTypeOK
<1>1. MessageInv => MessageTypeOK
  BY DEF MessageInv
<1>2. QED
  BY <1>1, MessageInvariant, PTL

(* However many bindings there are, the error index of a PDU names one of  *)
(* them or none, through every change and clone, until it is assigned as   *)
(* an object or the bindings are replaced.                                 *)
THEOREM IndexNamesABinding == MessageSpec => []IndexNamesBinding
<1>1. ASSUME MessageInv PROVE IndexNamesBinding
  <2> SUFFICES ASSUME pdu # None, pdu.std, ~ loose PROVE pdu.index \in 0..Len(pdu.vbs)
    BY DEF IndexNamesBinding
  <2> DEFINE n == pdu.index  len == Len(pdu.vbs)
  <2>1. 0 <= n /\ n <= len
    BY <1>1 DEF MessageInv, IndexInRange
  <2>2. n \in Int /\ len \in Nat
    <3>1. pdu \in PDUs
      BY <1>1 DEF MessageInv, MessageTypeOK
    <3>2. QED
      BY <3>1, StdForm, Bounds DEF Numbers32
  <2> HIDE DEF n, len
  <2>3. n \in 0..len
    BY <2>1, <2>2
  <2>4. QED
    BY <2>3, Zenon DEF n, len
<1>2. QED
  BY <1>1, MessageInvariant, PTL

(* Every PDU that can be encoded comes back from the parser if and only if *)
(* the grammar has a rule for it and its objects are read as they were     *)
(* written, whatever its bindings are and however many.                    *)
THEOREM PDUsComeBack == MessageSpec => []ComesBack
<1>1. ASSUME MessageInv PROVE ComesBack
  <2> SUFFICES ASSUME pdu # None, PDUEncodes(pdu), NEW version \in {0, 1}
               PROVE  ParseMessage(EncodeMessage(version, pdu)) = Remembered(pdu)
                        <=> HasRule(pdu) /\ AllKeepForm(pdu)
    BY Zenon DEF ComesBack
  <2>1. pdu \in PDUs /\ StockTables
    BY <1>1 DEF MessageInv, MessageTypeOK
  <2>2. QED
    BY <2>1, EncodedParse, Zenon
<1>2. QED
  BY <1>1, MessageInvariant, PTL

(* Whatever the parser accepts can be encoded again, and comes back then,  *)
(* unless it is a standard PDU that had no bindings.                       *)
THEOREM ArrivalsCanBeRelayed == MessageSpec => []CanBeRelayed
<1>1. ASSUME MessageInv PROVE CanBeRelayed
  <2> SUFFICES ASSUME message # None, message.raw # None, ParseMessage(message.raw) = pdu
               PROVE  /\ PDUEncodes(pdu)
                      /\ ParseMessage(EncodeMessage(message.version, pdu)) = pdu
                           <=> (pdu.std => pdu.vbs # << >>)
    BY Zenon DEF CanBeRelayed
  <2>1. pdu \in PDUs /\ StockTables
    BY <1>1 DEF MessageInv, MessageTypeOK
  <2>2. message.raw \in Seq(AsnStrings) /\ message.version \in {0, 1}
    BY <1>1 DEF MessageInv, MessageTypeOK
  <2>3. Sound(pdu)
    <3>1. ParseMessage(message.raw) # Refused
      BY <2>1, MessageAssumption
    <3>2. QED
      BY <2>1, <2>2, <3>1, ParsedForm, Zenon
  <2>4. ParseMessage(EncodeMessage(message.version, pdu)) = Remembered(pdu)
          <=> HasRule(pdu) /\ AllKeepForm(pdu)
    BY <2>1, <2>2, <2>3, EncodedParse, Zenon DEF Sound
  <2>5. HasRule(pdu) <=> (pdu.std => pdu.vbs # << >>)
    BY <2>3, Zenon DEF HasRule, Sound
  <2>6. QED
    BY <2>3, <2>4, <2>5, Zenon DEF Sound
<1>2. QED
  BY <1>1, MessageInvariant, PTL
=============================================================================

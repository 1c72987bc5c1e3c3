-------------------------------- MODULE Oid --------------------------------
(***************************************************************************)
(* Object identifiers as node-snmpjs handles them: sequences of arcs.  The *)
(* library keeps them as arrays of numbers and compares them component by  *)
(* component (lib/protocol/data.js, lib/mib.js).                           *)
(***************************************************************************)
EXTENDS Integers, Sequences, SequencesExt

OID == Seq(Nat)

(* The address of the root MIB node: an empty array.                       *)
Root == << >>

(***************************************************************************)
(* canonicalizeOID throws a RangeError when it is given fewer than three   *)
(* components.  The count is taken before empty components are skipped, so *)
(* a dotted string such as '.1.3' passes with two of them: descriptors are *)
(* written in the dotted form, everything else is an array or a string     *)
(* with no leading dot.  A negative or non-numeric component throws too;   *)
(* it is represented by -1.                                                *)
(***************************************************************************)
MinOidLen == 3

Canonical(addr) == Len(addr) >= MinOidLen /\ \A i \in 1..Len(addr) : addr[i] >= 0

CanonicalDotted(addr) ==
  Len(addr) + 1 >= MinOidLen /\ \A i \in 1..Len(addr) : addr[i] >= 0

(* oid_is_descended: oid lies strictly below ancestor.                     *)
IsDescended(oid, ancestor) == IsStrictPrefix(ancestor, oid)

(***************************************************************************)
(* The lexicographical order of RFC 3416, which the code never computes:   *)
(* the tree walks are meant to follow it.                                  *)
(***************************************************************************)
LexLess(a, b) ==
  \/ IsStrictPrefix(a, b)
  \/ \E k \in 1..Len(a) :
        /\ k <= Len(b)
        /\ \A j \in 1..(k - 1) : a[j] = b[j]
        /\ a[k] < b[k]

LexLeq(a, b) == a = b \/ LexLess(a, b)

(* The first of a set of identifiers in that order, or none if it is empty.*)
LexFirst(S, none) ==
  IF S = {} THEN none ELSE CHOOSE a \in S : \A b \in S : LexLeq(a, b)
============================================================================

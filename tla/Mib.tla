-------------------------------- MODULE Mib --------------------------------
(***************************************************************************)
(* lib/mib.js: the tree of MIB nodes.  A node is identified by its address *)
(* and the tree by the set of addresses present in it, so that a node's    *)
(* _parent and _children need no variables: they are Front and the         *)
(* one-arc extensions.  Decorations belong to the tree's user (Registry).  *)
(***************************************************************************)
EXTENDS Oid

CONSTANTS Oids,     \* the object identifiers that may be added or looked up
          NoNode    \* the null returned when a search finds nothing

ASSUME OidsAssumption == /\ Oids \subseteq OID
                         /\ \A oid \in Oids : Canonical(oid)
ASSUME NoNodeAssumption == NoNode \notin OID

VARIABLE nodes      \* addresses of the nodes of the tree

MibInit == nodes = {Root}

(* Mutant of Added: the nodes above a new one are not created.             *)
AddLeafOnly(addrs) == nodes \cup addrs

(* MIB.prototype.add, for each of some addresses: every missing node on    *)
(* the path to it is created.                                              *)
Added(addrs) == nodes \cup UNION { Prefixes(a) : a \in addrs }

----------------------------------------------------------------------------
(* MIB.prototype.lookup: walk down while the next arc has a child.         *)
Lookup(oid) ==
  CHOOSE n \in nodes \cap Prefixes(oid) :
     \A m \in nodes \cap Prefixes(oid) : Len(m) <= Len(n)

(* Mutant of ListChildren: the starting arc itself is left out.            *)
ChildrenAfter(n, lowest) ==
  { m[Len(m)] : m \in { c \in nodes : /\ c # Root
                                      /\ Front(c) = n
                                      /\ Last(c) > lowest } }

(* MIBNode.prototype.listChildren, and its smallest element.               *)
ListChildren(n, lowest) ==
  { m[Len(m)] : m \in { c \in nodes : /\ c # Root
                                      /\ Front(c) = n
                                      /\ Last(c) >= lowest } }

Lowest(arcs) == CHOOSE a \in arcs : \A b \in arcs : a <= b

(***************************************************************************)
(* MIB.prototype.next_match, for a match function that accepts exactly the *)
(* nodes of M.  The node itself is tested whatever start says; then its    *)
(* children from start on, each searched by a recursive call that may      *)
(* itself climb out of the child; then the parent, from the arc after this *)
(* node's own.  A start below every arc stands for no start.  SearchStep   *)
(* is one call, search what the calls it makes return.                     *)
(***************************************************************************)
SearchStep(M, search, node, start) ==
  IF node \in M THEN node
  ELSE LET found == { a \in ListChildren(node, start) :
                        search[<<Append(node, a), 0>>] # NoNode }
       IN IF found # {} THEN search[<<Append(node, Lowest(found)), 0>>]
          ELSE IF node = Root THEN NoNode
          ELSE search[<<Front(node), Last(node) + 1>>]

NextMatch(M, node, start) ==
  LET search[at \in nodes \X Nat] == SearchStep(M, search, at[1], at[2])
  IN search[<<node, start>>]

(***************************************************************************)
(* What the search is for: the first match, in lexicographical order,      *)
(* among the node itself and everything at or after its start-th child.    *)
(***************************************************************************)
FirstMatch(M, node, start) ==
  LexFirst({ m \in M : m = node \/ LexLeq(Append(node, start), m) }, NoNode)

SmallSubsets(S) == { {a, b} : a, b \in S }

(***************************************************************************)
(* next_match finds what it is for, from every node, every start and for   *)
(* every choice of one or two matching nodes, as long as no ancestor of    *)
(* the starting node matches.                                              *)
(***************************************************************************)
SearchFindsFirst ==
  \A node \in nodes, M \in SmallSubsets(nodes) :
     (\A m \in M : ~ IsStrictPrefix(m, node)) =>
        \A start \in {0} \cup { a + 1 : a \in ListChildren(node, 0) } :
           NextMatch(M, node, start) = FirstMatch(M, node, start)

----------------------------------------------------------------------------
(* Type invariant: the tree is a prefix-closed set of addresses.           *)
MibTypeOK ==
  /\ nodes \subseteq OID
  /\ Root \in nodes
  /\ \A n \in nodes : Prefixes(n) \subseteq nodes
============================================================================

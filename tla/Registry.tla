------------------------------ MODULE Registry ------------------------------
(***************************************************************************)
(* The agent's MIB of providers (lib/agent.js): what registration leaves   *)
(* on the nodes of the tree and how a GetNext finds the node to ask.  A    *)
(* provider descriptor names a scalar object, or a table entry with its    *)
(* columns.  Handlers are not represented: a node stands for the provider  *)
(* whose decoration it holds.                                              *)
(***************************************************************************)
EXTENDS Mib

CONSTANT Batches    \* the arguments addProviders may be called with

(***************************************************************************)
(* A batch is the array of descriptors passed to addProviders; a single    *)
(* descriptor is a batch of one.  columns is << >> for a scalar: the code  *)
(* tests the member's presence, and a table registered without columns is  *)
(* not among the batches.                                                  *)
(***************************************************************************)
ASSUME BatchesAssumption ==
  Batches \subseteq Seq([oid : Seq(Int), columns : Seq(Int)])

VARIABLE decor      \* what the '_agent' decoration of each node says

rvars == <<nodes, decor>>

Kinds == {"none", "scalar", "entry", "column"}

RegistryInit == MibInit /\ decor = [n \in {Root} |-> "none"]

----------------------------------------------------------------------------
(***************************************************************************)
(* _add_provider decorates the object's own node, then one node for each   *)
(* column, in the order of the array; addProviders takes the descriptors   *)
(* in order.  A mark <<p, c>> stands for the decoration of descriptor p's  *)
(* own node if c is 0 and of its c-th column otherwise.                    *)
(***************************************************************************)
Marks(batch) ==
  UNION { {p} \X (0..Len(batch[p].columns)) : p \in 1..Len(batch) }

Before(k, m) == k[1] < m[1] \/ (k[1] = m[1] /\ k[2] < m[2])

Addr(batch, m) ==
  LET prov == batch[m[1]]
  IN IF m[2] = 0 THEN prov.oid ELSE Append(prov.oid, prov.columns[m[2]])

(* AgentMIBDecor.                                                          *)
Kind(batch, m) ==
  IF m[2] > 0 THEN "column"
  ELSE IF batch[m[1]].columns = << >> THEN "scalar" ELSE "entry"

(* The marks made before an address that canonicalizeOID rejects: the      *)
(* exception leaves them in place.                                         *)
Made(batch) ==
  { m \in Marks(batch) :
      \A k \in Marks(batch) : k = m \/ Before(k, m) => CanonicalDotted(Addr(batch, k)) }

(* The marks made on a node, and the last of them.                         *)
MadeOn(batch, n) == { m \in Made(batch) : Addr(batch, m) = n }

LastMade(batch, n) ==
  CHOOSE m \in MadeOn(batch, n) : \A k \in MadeOn(batch, n) : ~ Before(m, k)

(* addProviders: nodes are added as needed, and a mark on a node replaces  *)
(* whatever mark it had.                                                   *)
AddProviders(batch) ==
  /\ nodes' = Added({ Addr(batch, m) : m \in Made(batch) })
  /\ decor' = [n \in nodes' |->
                  IF MadeOn(batch, n) # {} THEN Kind(batch, LastMade(batch, n))
                  ELSE IF n \in nodes THEN decor[n] ELSE "none"]

RegistryNext == \E batch \in Batches : AddProviders(batch)

RegistrySpec == RegistryInit /\ [][RegistryNext]_rvars

----------------------------------------------------------------------------
(* AgentMIBDecor.instancePossible, and the match function of a GetNext.    *)
InstancePossible(n) == decor[n] \in {"scalar", "column"}

Objects == { n \in nodes : InstancePossible(n) }

NextObject(node, start) == NextMatch(Objects, node, start)

(* Mutants of AfterSubtree: the walk starts one sibling too far, or at the *)
(* node it is to leave.                                                    *)
SkipSibling(node) == NextObject(Front(node), Last(node) + 2)
SameSubtree(node) == NextObject(Front(node), Last(node))

(* The walk that leaves node's subtree for its next sibling.               *)
AfterSubtree(node) == NextObject(Front(node), Last(node) + 1)

(* _getnext_lookup, with its tests in the order of the code.               *)
GetnextLookup(oid, exactok) ==
  LET node  == Lookup(oid)
      exact == node = oid
  IN CASE exact /\ decor[node] = "column" /\ exactok -> node
       [] exact /\ decor[node] = "column" /\ ~ exactok -> AfterSubtree(node)
       [] exact /\ decor[node] = "scalar" -> node
       [] exact /\ ~ InstancePossible(node) -> NextObject(node, 0)
       [] ~ exact /\ ~ InstancePossible(node) ->
             NextObject(node, oid[Len(node) + 1] + 1)
       [] ~ exact /\ decor[node] = "scalar" -> AfterSubtree(node)
       [] ~ exact /\ decor[node] = "column" /\ exactok -> node
       [] ~ exact /\ decor[node] = "column" /\ ~ exactok -> AfterSubtree(node)

----------------------------------------------------------------------------
(***************************************************************************)
(* The object a GetNext for oid must be put to: the first, in the order of *)
(* the tree, that may hold an instance after oid.  A scalar's only         *)
(* instance is 0; a column may have rows after any instance of it, unless  *)
(* its provider has already said that it has none.                         *)
(***************************************************************************)
Follows(n, oid, first) ==
  \/ decor[n] = "scalar" /\ LexLess(oid, Append(n, 0))
  \/ decor[n] = "column" /\ (LexLess(oid, n) \/ (first /\ IsPrefix(n, oid)))

FirstToAsk(oid, first) ==
  LexFirst({ n \in Objects : Follows(n, oid, first) }, NoNode)

(* Descriptors keep everything they register, an entry whose columns were  *)
(* never made included, out of every object.                               *)
NoNesting == \A m \in Objects, n \in nodes : ~ IsStrictPrefix(m, n)

(***************************************************************************)
(* _getnext_lookup's own claim: that it is "covering all possible cases,   *)
(* and doing the right thing for each".  Whatever was registered, in       *)
(* whatever order and with whatever registrations cut short, a GetNext is  *)
(* put to the first object that can hold the instance asked for, for the   *)
(* first question (any identifier) and for the following ones (the node of *)
(* a column whose provider had nothing more).                              *)
(***************************************************************************)
GetNextAsksTheFirst ==
  NoNesting =>
     /\ \A oid \in Oids : GetnextLookup(oid, TRUE) = FirstToAsk(oid, TRUE)
     /\ \A n \in Objects : decor[n] = "column" =>
           GetnextLookup(n, FALSE) = FirstToAsk(n, FALSE)

(***************************************************************************)
(* Asking again from the column just exhausted ends, even with objects     *)
(* registered inside other objects, where the search may climb back to an  *)
(* enclosing one: each object asked comes after the one before it in the   *)
(* order that puts a node after everything below it.                       *)
(***************************************************************************)
GetNextChainEnds ==
  \A n \in Objects : decor[n] = "column" =>
     LET m == GetnextLookup(n, FALSE)
     IN m # NoNode => \/ IsStrictPrefix(m, n)
                      \/ ~ IsPrefix(n, m) /\ LexLess(n, m)

(* Type invariant: every node of the tree has a kind and only those do.    *)
RegistryTypeOK ==
  /\ MibTypeOK
  /\ decor \in [nodes -> Kinds]
============================================================================

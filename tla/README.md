# A TLA+ verification of node-snmpjs

node-snmpjs is a toolkit for SNMP agents and managers in Node.js: a message
codec, an agent that puts the variable bindings of a request to providers, a
client that sends requests and traps, and a listener for traps. This directory
models its control (what is called in which order, what is counted, what is
kept between turns of the event loop, what throws) and, in modules of their
own, its codec: 64-bit arithmetic, data types, PDUs, and the way of a message
through encoder, lexer and grammar.

To repeat the work, with TLC, TLAPS 1.4.5 and the TLA+ community modules:

    tlc -config MCAgent_getset.cfg MCAgent     # any MC module with one of its .cfg
    tlapm AgentProofs.tla                      # any module whose name ends in Proofs

`PROJECT.json` holds the same facts for machines: components, runs, mutants,
the source lines behind every definition, hazards, findings, theorems.

## 1. Inventory

| Component | State it keeps | Operations | What makes it correct |
|---|---|---|---|
| MIB tree, `lib/mib.js` | nodes with parent, children, address, decorations | `add`, `lookup`, `listChildren`, `next_match` | it stays a tree; the search finds the first match in lexicographical order although it climbs out of where it began |
| Object identifiers, `lib/protocol/data.js` (`canonicalizeOID`, `ObjectIdentifier`) | none | canonicalize, `isAncestor`, `getAddress` | only identifiers of three or more arcs exist |
| Provider registry, `lib/agent.js` 31-107, 244-314 | decorations `_agent`, `_providers` | `addProviders`, `_getnext_lookup` | a GetNext is put to the first object that can hold what follows the name asked; asking on ends |
| Request processing, `lib/agent.js` 109-418 | per request: the response, `ndone`, the open `ProviderRequest`s | `_process_req`, `_do_getset`, `_do_getnext`, their `done` callbacks, `_transmit_response` | one response, with every binding's own result in its own place, error index naming the first failure; no answer lost; the process survives the answers of providers |
| Provider interface, `lib/provider.js` | one handler's request | `ProviderRequest`, `readOnlyScalar`, `writableScalar` | a provider is asked only what falls to it |
| Endpoints, `lib/listener.js`, `lib/receiver.js` | `_connections`, `_malformed_messages` | `bind`, `close`, `_recv` | nothing is received after `close`; malformed input is counted and dropped |
| Manager client, `lib/client.js` | the process-wide request id, each client's callback table, `startuptime` | `get` ... `trap`, `close`, `_process_msg` | a callback runs once, with the answer to its own request |
| Trap listener, `lib/trap_listener.js` | none of its own | `_process_msg` | each notice is emitted |
| PDUs and messages, `lib/protocol/{pdu,message,varbind}.js` | fields of a PDU, varbinds, `_raw` | setters, `cloneAs`, `encode`, `parseMessage` | what is encoded can be parsed to the same; what cannot be encoded is refused early |
| Lexer and grammar, `lib/lexer.js`, `lib/snmp.jison` | position in the buffer | `parseMessage` | it accepts what the codec produces |
| Data types, `lib/protocol/{data,uint64_t}.js` | one value and its tag; the tables of types and tags | setters, `clone`, `encode`, `registerType`, `createData`, 64-bit arithmetic | value in, same value out; every carry and borrow arrives; a registered tag makes an object |
| System group, `lib/mib/` | none | seven read-only scalars | (data) |
| Programs, `snmpget.js`, `snmpwalk.js`, ... | snmpwalk: the last name | one API call each; a loop of them in snmpwalk | the walk ends |
| Errors, logging, probes | none | none | none |

**How they interact.** A datagram reaches a `Receiver`'s socket, is parsed, and
becomes a message with its source address and its socket. The agent's listener
makes a request of it and processes it in the same turn; each binding is looked
up in the MIB and put to the provider whose decoration the node holds, with a
`done` callback. Providers are application code: they call `done` at once, in a
later turn, in any order. The last `done` encodes the response and sends it on
the socket the request came by. A client registers a callback under a request
id and sends; a response is matched by that id alone. A trap goes from a client
to a trap listener, which emits an event and answers nothing, informs included.

**What is hard here.** All concurrency is that of one event loop, so hazards are
not data races but what happens *between* turns: completions of several
bindings and several requests in any order, done called twice, providers
registered while a GetNext is being answered, `bind` that completes after a
`close`, answers that come after one, datagrams lost, duplicated and reordered. Nothing catches an exception:
whatever throws in a callback ends the process, with every other request in it.
The tree search is recursive in two directions. There is no timeout or retry
anywhere. In the codec it is the edges: limits tested at one position and not at
another, setters whose meaning depends on the operation, what is encoded and
does not parse. The hazards are listed line by line in `PROJECT.json`, with the
properties that guard against each, or why none does.

## 2. The modules

| Module | Models | Notes |
|---|---|---|
| `Oid` | identifiers as sequences of arcs, `canonicalizeOID`'s tests, lexicographical order | the order is the reference, the code never computes it |
| `Mib` | `lib/mib.js` | a node is its address; `_parent` and `_children` are `Front` and one-arc extensions, so the tree is a set, `nodes` |
| `Registry` | `addProviders`, `_add_provider`, `AgentMIBDecor`, `_getnext_lookup` | extends `Mib` with `decor`, what the `_agent` decoration of each node says |
| `Provider` | `lib/provider.js` and what providers may answer | providers themselves are external: the answers are those of `docs/provider.restdown`, plus the deviations the constant `Slips` names |
| `Agent` | `lib/agent.js` from a parsed datagram to the transmitted response | extends `Registry` and `Provider` |
| `RequestReply` | the abstract promise of an agent: each binding is given one result, the response goes out with the last | `Agent` implements it under `asked <- msg, replies <- sent, given <- given` |
| `Listener` | `lib/listener.js`, `lib/receiver.js` | `dgram` is external |
| `AgentSystem` | an agent on its endpoints: which socket a request came by and what becomes of its response there | extends `Agent` and `Listener`; each of its steps is one of either or of both |
| `Walk` | `snmpwalk.js` against an agent that others ask too | extends `Agent`; a question and its answer are one step each, what the network does to them is `Manager`'s subject |
| `Manager` | `lib/client.js`, `lib/trap_listener.js`, a network | the agent of `Manager` is one step per request; `Agent` is its detail |
| `Uint64` | `lib/protocol/uint64_t.js`: every operation limb by limb, `toString`, `toOctets`, the constructor | pure operators; the width of a limb is a constant |
| `Arithmetic` | a program that makes a number of a string and computes with it | the exact integer goes beside it as a history |
| `Data` | `lib/protocol/data.js`: types, tags, one object that is created, assigned to, cloned, encoded and parsed | `asn1` is external; a value is a sequence of integers |
| `Message` | `pdu.js`, `message.js`, `varbind.js`, `lexer.js`, `snmp.jison`: one PDU and the message around it | a message on the wire is the sequence of its ASN.1 strings |
| `MCRegistry`, `MCAgent`, `MCWalk`, `MCSystem`, `MCListener`, `MCManager`, `MCCodec` | instances for TLC | `MCCodec` runs `Arithmetic`, `Data` and `Message` side by side |
| `OidProofs` | lemmas: the order of identifiers, least and greatest members of finite sets | section 5 |
| `RegistryProofs`, `AgentProofs`, `GetNextProofs`, `SystemProofs` | theorems about the agent and what it is composed of | section 5; each extends the one before it |
| `ManagerProofs` | theorems about clients and trap listeners | stands by itself |
| `CodecProofs`, `MessageProofs` | theorems about data objects and arithmetic, and about PDUs and messages | lemmas on folds, words and octets first; `MessageProofs` extends `CodecProofs` |

### State and actions of Agent

`msg[r]` is the message of datagram `r`, `cursor[r]` the index of the `forEach`
over its bindings, `call[r][i]` the latest `ProviderRequest` of binding `i` and
whether its `done` has been invoked, `rsp[r]` the response PDU under
construction (an array with gaps, an error status, an error index), `ndone[r]`
the closure's counter, `sent[r]` what was transmitted, `thrown` the exception
that ended the process. `given` is a history variable for the refinement and
`repeats` counts the second invocations of `done`.

| Action | Code |
|---|---|
| `Register(batch)` | `addProviders`, in a turn of its own |
| `Receive(r, m)` | `_recv`, `_process_req` to the first binding |
| `DispatchGetSet(r)` | one iteration of `_do_getset`'s `forEach` |
| `DispatchGetNext(r)` | one iteration of `_do_getnext`'s, with `_do_getnext_one` |
| `Complete(r, i)` | `_getset_done`, `_getnext_done`, from whatever turn |
| `CompleteAgain(r, i)` | the same, invoked once more |

The dispatch of one message is several steps, because a provider may answer
inside its handler, before the next binding is dispatched. `Idle` keeps new
turns out until the dispatch is over; `Complete` needs no such guard, since a
provider given one request may, in its handler, answer another that it holds.
`Stuff` is everything that happens when a result arrives: `_varbind_set_single`
with its throws, `++ndone == nvb`, and `_transmit_response`, whose `encode`
throws on a gap. A code on a Set has the request's binding cloned, and the clone
of a Counter64 throws: `Uncloneable` names the instances whose bindings carry one,
and `Data` shows why (`CloneIsCopy`).

A registration is one step: it is synchronous, and `Made` gives what is left in
the tree when a column's address is rejected in the middle of it. `NextMatch`
is a recursive function over pairs of a node and a start, not a `RECURSIVE`
operator, so that it and the modules above it can be proved about;
`SearchStep` is the body of one call.

### State and actions of Listener and Manager

`connections` is `_connections` with the state of each socket: `binding` until
a later turn, `listening`, `closed`. `Close` is the `forEach` of
`Listener.close`: it asks each socket for its address before closing it, and
so throws at the first that is not open. `closing` remembers how the latest
close ended.

In `Manager`, `request_id` is the module-level counter and `callbacks[c]` a
client's table from ids to calls. `Send` is any API call: which test refuses it,
whether the callback is registered before `encode` throws, what is put on the
wire. The wire is a bag: taking any member reorders, `Lose` and `Duplicate` do
the rest. `calls`, `ran` and `lost` are histories the properties speak of.

### State and actions of AgentSystem and Walk

`via[r]` is `_conn_recv`, the socket request `r` came by; `outbox[r]` says
whether its response went out or the `send` threw, because that socket had been
closed. `Accept` is `Recv` and `Receive` in one turn, `Dispatch` and
`ProviderDone` are the agent's steps with `Transmit`, which sends what the step
added to `sent`. `bind` and `close` are the application's: in a turn of their
own, or from a provider, in the middle of a request. `Pending(r)` says that a
request is to be answered and has not been.

`Walk` asks its k-th question as request `Asks[k]`, prints the answer
(`printed`), and asks from the name the answer came under, unless the answer's
status is noSuchName (`walking` is then false). Where it starts is one of `Starts`;
`WalkStart` reads it back from the first question. Every other step is the agent's,
for any manager (`OthersAsk`).

### State and actions of the codec

In `Uint64` a number is two words of two limbs, as in the code, and every
operation goes limb by limb. `LimbBits` is 16 there; the widths 8, 32 and 64
follow from it. `Arithmetic` has an accumulator and the integer it should be.

In `Data`, `tagType` and `typeObj` are the two tables, `datum` an object: its
type (constructor), its own `_tag`, its `_value`. `Stored` is the value setters
given a JavaScript value, `Decoded` the same given a reader, `Contents` and
`WrittenTag` are `encode`, `Clone` the constructor applied to `_value`. A setter
that throws leaves the object alone, except that a reader's tag is taken first
(`Reread`).

In `Message`, `pdu` is a PDU with its objects, `message` a message's version and
`_raw`. `EncodeMessage` gives the strings, constructed ones before what is in
them, as the lexer sees them: it gives a constructed string no length. `Token`
is the lexer's switch, `IsMessage` and the predicates before it are the grammar's
rules, `ParsedStd` and `ParsedTrap` their actions.

## 3. The runs

| Run | Instance | What it shows |
|---|---|---|
| `registry` | 10 batches: scalars, tables, two tables with one entry, objects within objects, one batch cut short by a negative column; every combination and order, 320 states, and about 35 identifiers | the tree stays a tree; `next_match` finds the first match from every node, start, and every choice of one or two matches; a GetNext is put to the right object; asking on ends |
| `getset` | 2 scalars, a table of 2 columns and 2 rows; 2 requests at a time of 10 (Get, Set, ignored kinds, a v1 trap; 1 to 3 bindings), registered before, between or during | the accounting of answers, survival, and the refinement of `RequestReply` |
| `getnext` | the same registry, complete before the first request; a walk of up to 8 questions, from before the first object or from within the second column, while another manager asks one of 3 GetNext of two bindings, and any question may fail | every binding gets the first instance after the one named, or endOfMibView; `RequestReply` again; the walk prints every instance after its start once and in order whatever failed on the way, and once told of the end goes on for ever, finding nothing new but what lies before its start in that column |
| `late` | 2 requests of 6 of all kinds while providers are being registered, one second `done`, answers outside the documentation, an error code 0 | at most one response even so, answers that never go backwards, and a response in the end while the process lives |
| `system` | 2 binds, 2 requests of 4 shapes (Get of two bindings, Set, GetNext, GetBulk), a malformed datagram | nothing is received after a `close` that returned; if nothing was pending then, the agent is at rest; if something was, the process comes down |
| `manager` | 2 clients, 2 calls of 8 shapes, 1 loss, 1 duplicate, any order of delivery | a callback runs once and with its own answer; who waits, waits for something; what arrives is called back; what ends the process |
| `codec` | limbs of 4 bits; 19 operands, 8 shifts, 14 numerals; 7 registrations, 90 assignments, 20 ASN.1 strings; 10 lists of bindings, 4 operations, 10 messages from elsewhere | arithmetic and conversions are exact, an octal string alone makes another number than it denotes, and when; what each type holds; which objects survive the wire, which can be cloned; that numbers take the fewest octets; which PDUs, made and changed in any order, come back when encoded and parsed, and which of those that arrive can be sent on; that the error index names a binding |

Every one of these passes. Each property has a mutant: a small change to a
modelled definition (a dropped case, an off-by-one, a table not cleared) under
which the same run finds it violated. Mutants stand before the definition they
change, and `PROJECT.json` pairs them with their property.

Where the code does not do what one would wish, a property states exactly when
(`ComesBack` has an "if and only if", `CloneIsCopy` says of which values `clone`
throws): it fails if the code breaks in a new case, and if a case is mended.

Five more runs each show the code doing something other than what the repository
says of it. All five counterexamples are a few steps long.

| Run | What happens |
|---|---|
| `stuffed` | `done()` with nothing on a Get or Set, which `docs/provider.restdown` prescribes for a missing row and which `readOnlyScalar` itself does on every Set, throws out of `_varbind_set_single` and ends the process; so does a code other than genErr on a Get |
| `short_node` | a request whose deepest node has fewer than three arcs throws in `ProviderRequest`: an agent with no providers dies of any Get |
| `end_of_view` | once a column's provider had nothing more, endOfMibView goes out under the column's name and not the requested one |
| `close_ceases` | bind, close, bind, close: the second close throws at the first socket and leaves the second open |
| `v1_trap` | a v1 trap with a field that is 0, which every generic trap has, cannot be encoded |

Other divergences met while modelling, which have no run:

- A version 1 trap sent to an agent is not ignored, as the switch at
  `lib/agent.js` 409-419 intends: the response is made first, it needs a request
  id, and making it throws (`OutlivesAnswers` names the cause).
- `docs/protocol.restdown` says that `clone` creates a copy. Of a Counter64 it
  throws, because the setter wants `hi` and `lo` where a `uint64_t` has `_hi` and
  `_lo` (`CloneIsCopy`). A Set of a Counter64 that its provider refuses ends the
  agent that way (`OutlivesAnswers`).
- A response to a request that was pending at a `close` is sent on a closed
  socket; `send` throws in the provider's call of `done` (`CloseStrandsRequests`).
- `snmpwalk` waits for noSuchName, which no answer has: at the end it asks for
  ever (`WalksOnForNothing`). Told of the end under a column's name, it asks from that
  column on: started within the column, it then prints what it had begun after.
- The grammar assigns `error_status` and `error_index` of a GetBulk, which has
  setters by other names: a parsed GetBulk has neither count (`ComesBack`).
- `lib/protocol/pdu.js` 143 compares with `SnmpPDU.Trap`, which is undefined. A
  standard PDU can be cloned as a version 1 trap, encodes, and does not parse
  (`ComesBack`).
- A standard PDU without bindings encodes and does not parse, although one that
  misses the list altogether does parse (`CanBeRelayed`).
- A dot in front of an identifier moves its components one place on for the
  limits of the first two arcs: `.5.99.1` is accepted, encodes to something else
  and cannot be cloned (`SurvivesTheWire`, `CloneIsCopy`).
- `new uint64_t` of an octal string puts the bits from the tenth on into the high
  word (`StringsDenote`): a number that needs them but fits in a word never comes out
  right, a greater one may.
- A tag given to `registerType` without a constructor is not compared with the
  type it has, so a stock tag can be given to another type; `SurvivesTheWire`
  speaks of objects whose tag means their type.
- A Null without a value encodes as noSuchObject, an unsigned number without one
  as 0; other types without a value throw (`SurvivesTheWire`). A Null parsed
  under a tag of one's own is written with the tag of Null.
- `lib/agent.js` 117-118 says that scalar providers are never passed GetNext
  requests. They are, for every name before their instance. One that answers
  such a request with nothing is found again by its own name, and asked for
  ever within the turn; the model's scalars always have an answer.
- A provider that answers a Set with code 0 (noError) is treated as failing: the
  binding is echoed, and the index is set beside a status of 0 until a later
  failure replaces both. `late` includes it; the refinement is stated without it.
- `docs/mib.restdown` 44-46 describes the search as going on in lexicographical
  order. It does so when no ancestor of the starting node matches
  (`SearchFindsFirst` has that premise); otherwise it climbs back to the
  ancestor, which precedes. Descriptors whose objects lie inside one another
  bring this about; `GetNextChainEnds` holds even then.
- Informs are never acknowledged by `TrapListener`; a client's callback for one
  is kept for ever (`WaitsForSomething` names the case).

## 4. Bounds and fairness

- **Two requests, up to three bindings.** Requests share nothing but the
  registry, `thrown` and the loop: two are enough for any interference between
  them, three bindings for a first, a middle and a last answer in any order
  (one Set has three). The theorems of section 5 lift both bounds.
- **A table of two columns and two rows, a scalar on either side.** Each case of
  `_getnext_lookup` is reached: before, at, inside and after a column, from one
  column to the next, out of the table, off the end. `MCRegistry` has the
  shapes that do not occur in a sane MIB.
- **`MaxRepeats`** is the number of second invocations of `done`: 0 where the
  property is about providers that keep to the documentation, 1 in `late`.
- **`MaxBinds`** is 2 in `system` and 3 in `close_ceases`: an endpoint before and
  one after a close, or two at once. **`MaxCalls` 2,
  `MaxLosses` 1, `MaxDups` 1**: two calls are the least for which an answer
  could reach the wrong callback, by one client or by two sharing the counter.
- **Eight questions** of a walk (`Asks`): six instances, and two more from beyond
  the end. **Two starts**: from before everything, and from within a column, which is
  the only place where the end of the view can bring a walk back. The other manager asks before the walk's second question; its answers
  then overlap with any of the walk's.
- **`LimbBits` 4**, so that TLC's integers hold the square of a word: a byte has 2
  bits, a word 8, a number 16, and `OctalLowBits` is 3 where the code has 9 of 32.
  The algorithms do not depend on the width but for the four shifts of the
  division by ten, of which those wider than a word are left out. The operands
  have every limb empty or full, so that every chain of carries and borrows
  occurs. An operation starts from an operand (`Compute`'s first conjunct), which
  bounds what is reached.
- **One number, one data object or one PDU** in a behaviour of `codec`: they share
  no state, but for the tables of types, which registrations change and the
  messages of the run do without. Once a message is encoded its PDU is parsed
  before it is changed again. The values assigned lie on both sides of every
  limit.
- Arcs, rows and codes elsewhere are the smallest that keep the cases apart.
- Symmetry is not used: no constant is large enough to need it.
- Deadlock is checked in the registry run only, since the registry never stops.
  In the others a dead process, or one with every request answered, may stop,
  and so does a walk out of questions or a number once computed.

**Fairness.** In `Agent`, weak fairness of each request's dispatch says that a
turn of the loop runs to its end; weak fairness of each `Complete(r, i)` says
that every provider invokes each `done` it was given, which
`docs/provider.restdown` demands of exactly one handler. Nothing is assumed of
`Register`, `Receive` or `CompleteAgain`. In `Manager`, a datagram that is not
lost arrives, and the process at its end takes it; nothing is assumed of calls,
closes or losses. `AgentSystem` assumes the agent's fairness and nothing of its
endpoints: no bind need complete, no close be called (`SystemFairness`).
`Listener`, `Walk` and the codec have no fairness and no liveness property.

## 5. What is proved

Every theorem is for all values of the constants that satisfy the modules'
assumptions, and each names what it assumes beyond them.

| Theorem | Module | States | Assumes |
|---|---|---|---|
| `RegistryTypeCorrect` | `RegistryProofs` | `RegistrySpec => []RegistryTypeOK` | |
| `SearchCorrect` | `RegistryProofs` | `RegistrySpec => []SearchFindsFirst` | |
| `GetNextCorrect` | `RegistryProofs` | `RegistrySpec => []GetNextAsksTheFirst` | |
| `ChainEnds` | `RegistryProofs` | `RegistrySpec => []GetNextChainEnds` | |
| `TypeCorrect` | `AgentProofs` | `Spec => []TypeOK` | |
| `RespondsOnce` | `AgentProofs` | `Spec => []OneResponse` | |
| `AccountKept` | `AgentProofs` | `Spec => []EveryBindingAccounted` | |
| `PromiseKept` | `AgentProofs` | `Spec => KeepsPromise` | no second done (`MaxRepeats = 0`), no answer is code 0 (`NoErrorUnused`) |
| `Survives` | `AgentProofs` | `Spec => []OutlivesAnswers` | no second done, answers the agent has a case for (`AllDocumented`) |
| `AskedWithinScope` | `GetNextProofs` | `Spec => AskedInScope` | no object inside another (`[]NoNesting`) |
| `GetNextGoesAhead` | `GetNextProofs` | `Spec => []GetNextAdvances` | no object inside or in place of another (`[]NoNesting`, `NothingReplaced`), no answer outside the documentation that is a value (`SlipsAreNoVarbinds`) |
| `GetNextIsExact` | `GetNextProofs` | `Spec => []GetNextExact` | no object inside another, all registered before the first request (`QuietRegistry`), no second done, answers outside the documentation are failures (`SlipsFail`) |
| `WalkPrintsEverything` | `GetNextProofs` | `WalkSpec => []WalkComplete` | as `GetNextIsExact`, and every start, object and instance is a name that may be asked for (`AnyNameMayBeAsked`) |
| `WalkIsNeverStopped` | `GetNextProofs` | `WalkSpec => []WalksOnForNothing` | the same |
| `WalkedAgentIsAgent` | `GetNextProofs` | `WalkSpec => Spec` | the same |
| `ListenerTypeCorrect` | `SystemProofs` | `ListenerSpec => []ListenerTypeOK` | |
| `QuietAfterClose` | `SystemProofs` | `ListenerSpec => NothingAfterClose` | |
| `SystemImplementsBoth` | `SystemProofs` | `SystemSpec => Spec /\ ListenerSpec` | |
| `SystemKeepsBoth` | `SystemProofs` | `SystemSpec => []OneResponse /\ NothingAfterClose` | |
| `RestAfterClose` | `SystemProofs` | `SystemSpec => AtRestAfterClose` | no second done (`MaxRepeats = 0`) |
| `ManagerTypeCorrect` | `ManagerProofs` | `Spec => []ManagerTypeOK` | |
| `AnswersMatched` | `ManagerProofs` | `Spec => []OwnAnswer` | |
| `RunsOnce` | `ManagerProofs` | `Spec => []CallbackRunsOnce` | |
| `WaitsExplained` | `ManagerProofs` | `Spec => []WaitsForSomething` | |
| `DeathExplained` | `ManagerProofs` | `Spec => []DiesOfStrayResponse` | |
| `DataTyped` | `CodecProofs` | `DataSpec => []DataTypeOK` | |
| `TagsAlwaysMakeObjects` | `CodecProofs` | `DataSpec => []TagsMakeObjects` | |
| `ClonesEqual` | `CodecProofs` | `DataSpec => []CloneIsCopy` | |
| `WritesShortest` | `CodecProofs` | `DataSpec => []ShortestForm` | |
| `DataSurvives` | `CodecProofs` | `DataSpec => []SurvivesTheWire` | |
| `ComputesExactly` | `CodecProofs` | `ArithmeticSpec => []ArithmeticExact` | |
| `ConvertsNumbersExactly` | `CodecProofs` | `ArithmeticSpec => []ConvertsExactly` | |
| `StringsMakeTheirNumbers` | `CodecProofs` | `ArithmeticSpec => StringsDenote` | |
| `MessageTyped` | `MessageProofs` | `MessageSpec => []MessageTypeOK` | |
| `IndexNamesABinding` | `MessageProofs` | `MessageSpec => []IndexNamesBinding` | |
| `PDUsComeBack` | `MessageProofs` | `MessageSpec => []ComesBack` | |
| `ArrivalsCanBeRelayed` | `MessageProofs` | `MessageSpec => []CanBeRelayed` | |

**The argument for the search.** `next_match` climbs and descends by recursion,
and an induction principle cannot be used here. `RegistryProofs` does without one. `Found(M, n, s)` says in closed form what a call returns: the first match
at or below the highest node it gets to in its climb, where each level `k` is the
part of the tree it still has to see under the ancestor of length `k`
(`Level`). `FoundEquation`: this satisfies the equation of the recursion,
`SearchStep`, at every node and start. So a function that satisfies it exists, which is
all that a recursive definition, a `CHOOSE`, needs. It is the only one: where two differed, take a call with the fewest
nodes left to see (`Left`); every call that it makes and whose result matters has fewer
(`LeftShrinks`), so those agree, and so does it (`SearchReturnsFound`). That
is the termination of the search, proved as well. `NextMatchFinds` then turns the closed form
into `FirstMatch` when no ancestor of the start matches, and
`RegistryInv`, that the tree is a finite one with a decoration on every node,
makes this a theorem about whatever is registered: a batch adds finitely many
nodes, and what the search needs is a least element of finite sets.

`GetNextAsksTheFirst` goes through the eight cases of `_getnext_lookup`
(`AskExact`, `AskInside`, `AskAfterColumn`). Its premise, `NoNesting`, is about everything a
registration leaves in the tree: an entry whose columns were all rejected, inside
a scalar, is enough to send a GetNext wrong, although it is no object itself. The registry run has such a batch.

**The argument for the agent.** None of these invariants is inductive alone. The
proofs build a strengthening in layers, each proved inductive with the help of
those below:

- `InvA`: types, and where a request's dispatch stands (`CallsInDispatch`):
  nothing is dispatched before the message is there or beyond its bindings, only
  Get, Set and GetNext are dispatched, and only dispatched bindings have a
  `ProviderRequest`. Without it a completion might be for a binding no message
  has, and `TypeOK` could not be preserved.
- `InvB`: a request has a response only when its count has reached the number of
  its bindings. The count only grows and passes that number once; this is all
  `RespondsOnce` needs, so it holds however often `done` is invoked.
- `InvC`, while `repeats = 0` and the process lives: the account of
  `EveryBindingAccounted` (a dispatched binding waits or has its element, never
  both, and the count is the number of elements). At the last `done` the
  elements then number `Size(r)` and lie within `1..Size(r)`, so there is no gap:
  `Encodable` holds and `thrown` is not `unassigned varbind`. That is
  the heart of `Survives`.
- `InvD`: the response under construction is what `RequestReply!Reply` makes of
  the results given so far, with the status and index of the least failing
  binding. It turns the last step of a request into `Give` with its reply; every
  other step is an `Ask`, a `Give` without reply, or a stutter.

`OidProofs` has the lemmas on which these rest: a finite nonempty set of naturals
has a least and a greatest member, and `n` distinct members of `1..n` are all of
it.

**The argument for GetNext.** `GetNextProofs` joins the two. A step changes a
binding's `ProviderRequest` only by asking the object that
`_getnext_lookup` gives for the name in hand (`CallsChange`), which
`RegistryProofs` describes; `InvG` is `InvB` with `RegistryInv` and the fact that
every provider asked has its node in the tree.
- `AskedWithinScope` needs no more: either the
  object asked lies after the name, or the name is in the column, or the two are equal.
- `InvAhead` (`GetNextGoesAhead`): the name a provider is asked for, whichever it is in the chain, is
  such that every answer it may give lies after the name the manager sent
  (`QuestionAhead`), and so do the values in the response so far (`AnswerAhead`). It has to
  know what kind of object the request was made for, hence `NothingReplaced`: registering a scalar in place of a column that is
  being asked makes the agent go on from it as from a scalar, and its instance may precede. `NoNesting`
  and `NothingReplaced` hold of descriptors for objects apart from one another, each
  registered once: `docs/provider.restdown` 48-90 asks for a scalar's own name or
  a table's entry, and objects of a MIB do not contain one another.
- `InvExact` (`GetNextIsExact`): in addition no instance lies between the name the manager
  sent and the object now asked (`QuestionExact`); so the first row that object
  has is the answer, and if it has none the next object is the first that can hold one. `FullReplies`, that a response has all its
  bindings, is why a second `done` is excluded.

**The argument for the walk.** The rest of `GetNextProofs` follows `snmpwalk` over that
agent, in three layers:

- `MildInv`: no answer to a Get or GetNext has the status noSuchName, since a failure is
  genErr. This alone is why `walking` never becomes false.
- `InvNamed`: what an answer is called. A value has the name of the first instance, a
  failure the name that was asked, the end of the view that name or the name of an object
  at or after it (`GoesNamed`); each can be asked for in turn (`AskedIsCanonical`). `InvExact`
  says what an answer holds but not under which name the end is told, and the walk goes on
  from there.
- `WalkInv`: the latest question is for the latest name, and `Walked` relates what is printed
  to it. Until the end is told, the instances printed are exactly those after the start and
  up to that name, in order; afterwards they are all, and the name is after the start or
  below the column the start lies in (`EndKeepsStart`). `WalkedOn` and `WalkedInVain` add one
  answer to either.

The second alternative of `EndKeepsStart` is one that the property at first did not allow
for: `WalksOnForNothing` said that nothing new is ever found, no invariant could
be made of that, and TLC, given a start within a column, showed it false.
The premises can be met together: the instance of `getnext` meets all of
them, and there any question of the walk may be answered with a failure.

**The argument for the endpoints.** `LInv` adds to the type invariant that after
a close that returned every socket is closed, until the next bind. A close that
returns has reached every socket, and each was listening; so none is left
binding, to listen later.

**The argument for the composition.** A step of `AgentSystem` is a step of the agent
or leaves it alone, and so for the endpoints (`StepOfBoth`); hence the whole
implements both, and every theorem about either holds of it, refinement included.
`SInv` adds that an answer in the outbox was made by the agent (`OutboxOfSent`).
Then, while no done is invoked twice, a binding not yet answered keeps its request
pending (`UnansweredIsPending`, from the account of `InvC`); a step of the agent
needs such a binding, and a datagram needs a socket that is open, which after a
close that returned (`LInv`) there is none.

**The argument for the manager.** `MInv` ties the parts together: calls that take
an id have different ones, all below the counter (`CallsOK`); a table's entry is
filed under its call's client and id, and its callback did not run (`TablesOK`);
a datagram carries its call's client, id and operation (`WireOK`). Then a
response that finds an entry finds its own call's (`FindsOwn`), which gives
`OwnAnswer`, and `CallbackRunsOnce` since the entry goes with it. For
`DiesOfStrayResponse` a second layer, `SingleFile`: while nothing was duplicated,
a call has at most one datagram under way, and its callback, if it has one, is
still in the table.

**The argument for data types.** `DataInv` is `DataTypeOK` with what the tables
must keep: the stock types and tags stay in them, and a registered tag leads to
a constructor (`TablesOK`). It is inductive once it is known that every setter
and reader leaves what its type holds (`StoredKept`, `DecodedKept`), and every
reader reads what its writer wrote. Those are facts about loops over octets, and an
induction principle cannot be used here; a least counterexample can:

- A fold of the community modules is a recursive function over sets of positions.
  One that satisfies its equation exists (`FoldExists`), so its values after 0, 1,
  2 ... elements form a chain (`FoldSteps`), and a chain that leaves a set
  leaves it at a first element. This bounds what is read of any number of octets
  (`ReadWordChain`) and of any identifier (`PushArcChain`).
- What is written has at most four octets a word. `WordBytesForm` and
  `SignedForm` are closed forms of them, `ReadWordForm` and `BigEndian` of what is read
  of up to four, and with the limb at each of its four widths
  what is left is linear arithmetic: `IntegerRoundTrip`, `WordRoundTrip`,
  `PaddedRoundTrip`, `Counter64RoundTrip`.

`OthersComeBack`, `NullComesBack` and `IdentifierComesBack` put these together,
type by type; the last says why a leading dot changes an identifier
on its way and no other thing does. `ClonesEqual` needs of a value only that
canonicalizing it twice is canonicalizing it once (`CanonKeeps`).

**The argument for arithmetic.** `ArithmeticInv` is that the number is what it
should be, and it is inductive as it stands; the work is in each operation, for all
operands and all four widths.

- `AddExact`: limbs, words and numbers are each two digits to a base, and two digits
  added with the carry of the first make a sum with the carry of the second
  (`TwoDigits`, used for limbs and again for words). `SubExact` reads the same fact
  backwards: what the branches of `subq` borrow (`SubLimbs`) are the carries of
  difference plus subtrahend.
- `LeftExact`, `RightExact`: the two parts of a word at the place where it is cut
  (`Moved`), in a shift within a word and by a word or more. They need that `2^c` and
  `2^(WordBits - c)` make a word (`WordPowers`). The provers compute powers up
  to 2^32 only, which is why `Power` gives greater ones as a product.
- `MulExact`: congruence modulo 2^64 (`Same`) goes through sums, products and shifts, so
  `mulq` is congruent to the sum of the weighted partial products (`LongMultiplication`),
  and so is the product (`ProductSame`, after one identity of polynomials,
  `LongForm`).
- `CompareExact` for `cmpq`; `NewWord`: whatever string it is given, the constructor
  makes two words.
- Conversions to strings. `EightTenths` is eight tenths from below: each of its
  four refinements loses less than one in the place where it is cut, and altogether the
  tenth is at most one too low (`Nearly`: `10 t <= v <= 10 t + 19`, and 15 for what is
  small), which the remainder shows and `Tenth` mends (`TenthExact`). So the
  recursion of `toString` descends and is well defined (`Descends`), and its digits are those of
  the number: a least number for which they are not would have a smaller tenth
  (`SpelledOutAll`). The same for the bytes of a word (`BytesMake`); `OctetsMake` puts two words
  together.
- Conversions from strings. A fold hands a value from element to element (`Handed`), so that
  one digit more is one step more (`NumberOn`, `DecimalOn`); `OneByOne` is induction over
  sequences for a set in place of a predicate. `DecimalMakes` is then one step,
  by `MulExact` and `AddModulo`. Two strings of digits together make
  a sum (`Joined`): `HexMakes` cuts a string at the words. An octal string is taken bit by
  bit: its bits make the same number (`OctalNumber`), a set of bits is a word whatever order
  it is added up in (`BitsWordMakes`), and the cut at `OctalLowBits` says when anything reaches
  the high word (`OctalMakes`).

**The argument for messages.** A message is a sequence of strings, three for each
binding and eight or ten around them. `EncodedAt` says which string stands at every
place of what a PDU encodes to, `GrammarForm` and `MessageForm` which tokens stand at every place
of what the grammar accepts, however long; a list of
bindings is a list when its length is a multiple of three and each third string
starts one (`ByThrees`). So what is encoded is accepted (`TrapFramed`,
`StdFramed`), or, of an operation without a rule, refused (`StdRefused`). Each
object read back is the object encoded, as data (`ReadBack`), and
the PDU made of them differs from the first exactly where `ComesBack` says
(`StdComesBack`, `TrapComesBack`). For `CanBeRelayed` the same goes the
other way: whatever was accepted, from whomever, was made of objects that can be
encoded and keep their form (`ReadKeepsForm`, `ParsedForm`), which leaves the
one case of a list without bindings. `MessageInv` adds to the type
invariant what a step needs to know: the tables are the stock ones, there is a
message only with its PDU, and the index is within the list unless someone
set it at will (`loose`). That holds of a GetBulk too, where the number means
something else: a clone of one may be of an operation where it is an index.

**What is assumed of constants.** Each module's assumptions, which TLC evaluates
in the runs. Most say that an input is one the code does not refuse for its
JavaScript type alone. `ValuesAssumption`, `ObjectsAssumption` and
`MessageAssumption` also say that `None` and `Refused`, which stand for no value
and an exception, are not themselves values, objects or PDUs.

**Only model-checked.** Liveness (`EventuallyAnswered`, `CloseStrandsRequests`,
`EveryRequestCalledBack`, `EveryNoticeEmitted`) is outside what the prover does.
So are the five runs that end in a counterexample. Every invariant and every action
property of the other runs is the subject of a theorem above. What a theorem does not reach is
said in its premises: `GetNextIsExact` and the theorems on walks are about a registry that is
complete before the first request, `PromiseKept` is about providers that invoke each `done`
once; `late` checks what is left of these without the premises.

## 6. What is not modelled

- **Buffers.** Lengths and offsets in an encoded message: a string has a tag,
  octets and whether its length took more than one octet. What the lexer does
  with a datagram cut short in the middle of a string is not modelled, nor what
  `asn1` reads of an identifier's arcs above 127.
- **The generated parser**: the grammar's rules are, its tables are not.
- **Arguments of the wrong JavaScript type**, which every setter and constructor
  refuses before it changes anything.
- **Values in the agent**: a binding's value is there one of `value`, `echo` and
  the three exceptions, since the agent passes on what providers give it.
- **Cost.** `next_match` searches later siblings repeatedly; the model gives the
  result of the search, not its time.
- **Several handlers on one object**, an array of providers for one descriptor.
- **Sets are not atomic**, which `docs/index.restdown` states; there are no
  stored values to compare.
- **Programs other than `snmpwalk`, logging, probes, errors, system group
  values**: no state of their own beyond what the library keeps.

## 7. Plan

Done, in this order: `Oid`, `Mib`, `Registry`; `Provider`, `Agent`,
`RequestReply`; `Listener`; `Manager`; `AgentSystem` and `Walk`; `Uint64`,
`Arithmetic`, `Data`, `Message`; and the proofs of section 5, which cover every
safety property.

What could be added: `GetNextExact` while providers are being registered, which would have
to say with which of several registries an answer agrees; and the lengths of encoded
strings, on which nothing here depends.

No further component is worth a model of its own: what is left (section 6) is
buffers, argument checks, wording and operating-system data.

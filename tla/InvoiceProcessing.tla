-------------------------- MODULE InvoiceProcessing --------------------------
(***************************************************************************)
(* handleRequest of src/processor.js over the collections of               *)
(* src/storage.js: an operation reads the stored requests and the          *)
(* invoices, and then either pays an invoice that is not among them, or    *)
(* has LND make one, stores it, links it to the stored request, and tells  *)
(* the client.                                                             *)
(*                                                                         *)
(* Operations run in any number of processes that share one database. The  *)
(* import of the JSON collections precedes the first access of each; it    *)
(* reads its marker outside the transaction that writes it. An operation   *)
(* may be lost in a crash between any two of its steps. LND is external.   *)
(***************************************************************************)
EXTENDS Naturals, Sequences, SequencesExt

CONSTANTS
    Ops,             \* runs of handleRequest
    Requests,        \* the stored requests
    Bolts,           \* payment requests of the invoices LND makes here
    Foreign,         \* payment requests of other nodes
    ClockIds,        \* ids made of the time, when LND returns no hash
    LegacyInvoices,  \* data/invoices.json
    LegacyNodes,     \* data/nodes.json
    Nodes,           \* node ids
    DefaultNode,     \* networkConfig.defaultNode
    None             \* no request, no invoice, no payment request, no node

\* An invoice that this service made: its hash is named by its payment request.
Ids == Bolts \cup ClockIds
Invoices == [id : Ids, bolt : Bolts \cup {None}, request : Requests \cup {None}, node : Nodes]

ASSUME LegacyAssumption ==
    /\ LegacyInvoices \in Seq(Invoices)
    /\ LegacyNodes \in Seq([id : Nodes, status : {"active", "inactive"}])
    /\ \A i \in ToSet(LegacyInvoices) :
           i.bolt # None /\ \E n \in ToSet(LegacyNodes) : n.id = i.node
ASSUME DistinctAssumption ==
    /\ Bolts \cap Foreign = {}
    /\ Bolts \cap ClockIds = {}
    /\ None \notin Requests \cup Bolts \cup Foreign \cup ClockIds \cup Nodes

VARIABLES
    imported,  \* the marker legacy_json_imported is in schema_metadata
    invoices,  \* the collection of invoices, in the order of their positions
    link,      \* per stored request: the id of its invoice (None: not created)
    nodes,     \* the collection of nodes
    chosen,    \* history: the node that was activated last
    made,      \* external: payment requests of the invoices LND made
    told,      \* payment requests of the invoices that clients were told of
    op         \* where each operation is, and what it holds

Registry == INSTANCE NodeRegistry WITH NoNode <- None

stored == <<imported, invoices, link, nodes, chosen>>
vars   == <<stored, made, told, op>>

-----------------------------------------------------------------------------
Stages == {"new", "import", "requests", "invoices", "checking", "selecting",
           "creating", "storing", "answering", "answered", "paid", "failed", "lost"}

\* request is the one the input names; seen are the invoices that were read;
\* knew: whether a client had been told of the invoice the input pays.
Operations ==
    [stage : Stages, pays : Bolts \cup Foreign \cup {None},
     request : Requests \cup {None}, found : BOOLEAN, seen : Seq(Invoices),
     node : Nodes \cup {None}, invoice : Invoices \cup {None}, knew : BOOLEAN]

Fresh == [stage |-> "new", pays |-> None, request |-> None, found |-> FALSE,
          seen |-> <<>>, node |-> None, invoice |-> None, knew |-> FALSE]

\* The invoice of a stored request is the last that was made for it. In the
\* JSON collections it is, too.
PlacesOf(r, s) == {i \in DOMAIN s : s[i].request = r}
Latest(s) ==
    [r \in Requests |-> IF PlacesOf(r, s) = {} THEN None ELSE s[Max(PlacesOf(r, s))].id]

Init ==
    /\ imported \in BOOLEAN
    /\ invoices = IF imported THEN LegacyInvoices ELSE <<>>
    /\ nodes = IF imported THEN LegacyNodes ELSE <<>>
    /\ chosen = None
    /\ link = Latest(invoices)
    /\ made = {i.bolt : i \in ToSet(LegacyInvoices)}
    /\ told = made
    /\ op = [o \in Ops |-> Fresh]

Becomes(o, s) == op' = [op EXCEPT ![o] = s]
Goto(o, stage) == op' = [op EXCEPT ![o].stage = stage]

\* Nothing changes but the operation.
Moves(o, from, s) == op[o].stage = from /\ Becomes(o, s) /\ UNCHANGED <<stored, made, told>>
Passes(o, from, to) == Moves(o, from, [op[o] EXCEPT !.stage = to])

-----------------------------------------------------------------------------
(* databaseWithImportedData, once for each operation that begins: the      *)
(* later accesses find the marker.                                         *)

Begins(o) ==
    \E b \in Bolts \cup Foreign \cup {None}, r \in Requests \cup {None} :
        Moves(o, "new", [op[o] EXCEPT !.pays = b, !.request = r, !.knew = b \in told,
                             !.stage = IF imported THEN "requests" ELSE "import"])

\* Mutant: the marker is inserted OR REPLACEd.
MarkerReplaced == imported \in BOOLEAN

MarkerInserted == ~ imported

\* importLegacyCollections replaces the collections.
Import ==
    /\ MarkerInserted
    /\ imported' = TRUE
    /\ invoices' = LegacyInvoices
    /\ nodes' = LegacyNodes
    /\ chosen' = None
    /\ link' = Latest(LegacyInvoices)
    /\ UNCHANGED <<made, told>>

Imports(o) == op[o].stage = "import" /\ Import /\ Goto(o, "requests")

\* The marker is there now: a primary key, so everything is rolled back.
ImportCollides(o) == imported /\ Passes(o, "import", "failed")

-----------------------------------------------------------------------------
(* The administrator's requests. One that begins before the import makes   *)
(* it, in a transaction of its own.                                        *)

AdminImports == Import /\ UNCHANGED op

Administers ==
    /\ imported
    /\ \E n \in Nodes :
           \/ \E status \in {"active", "inactive"} : Registry!Registers(n, status)
           \/ Registry!Activates(n)
    /\ UNCHANGED <<imported, invoices, link, made, told, op>>

-----------------------------------------------------------------------------
(* handleRequest: the two collections are read one after the other, in no  *)
(* transaction.                                                            *)

ReadsRequests(o) ==
    Moves(o, "requests", [op[o] EXCEPT !.stage = "invoices", !.found = op[o].request # None])

ReadsInvoices(o) ==
    Moves(o, "invoices", [op[o] EXCEPT
        !.seen = invoices, !.stage = IF op[o].pays # None THEN "checking" ELSE "selecting"])

-----------------------------------------------------------------------------
(* handlePayment *)

\* Mutant: only the last invoice is looked at.
OwnsLast(o) == op[o].seen # <<>> /\ Last(op[o].seen).bolt = op[o].pays

Owns(o) == \E i \in ToSet(op[o].seen) : i.bolt = op[o].pays

RefusesOwn(o) == Passes(o, "checking", "failed") /\ Owns(o)
Pays(o)       == Passes(o, "checking", "paid") /\ ~ Owns(o)

-----------------------------------------------------------------------------
(* handleInvoiceCreation *)

\* The node that the input names, or the active one.
Selected(wanted) ==
    IF wanted = None THEN Registry!ActiveNode
    ELSE IF wanted \in Registry!Known THEN wanted ELSE None

\* The payload has a destination, and there is a node.
SelectsNode(o) ==
    \E wanted \in Nodes \cup {None} :
        /\ Selected(wanted) # None
        /\ Moves(o, "selecting", [op[o] EXCEPT !.stage = "creating", !.node = Selected(wanted)])

\* NO_ACTIVE_NODE.
FindsNoNode(o) ==
    /\ \E wanted \in Nodes \cup {None} : Selected(wanted) = None
    /\ Passes(o, "selecting", "failed")

\* invoice.create: LND makes an invoice. Its reply may lack the hash, and
\* then the id is made of the time, or the payment request, or both.
Creates(o) ==
    /\ op[o].stage = "creating"
    /\ \E b \in Bolts \ made, id \in Ids, known \in Bolts \cup {None} :
        /\ id \in {b} \cup ClockIds /\ known \in {b, None}
        /\ made' = made \cup {b}
        /\ Becomes(o, [op[o] EXCEPT !.stage = "storing", !.invoice =
               [id |-> id, bolt |-> known, request |-> op[o].request, node |-> op[o].node]])
    /\ UNCHANGED <<stored, told>>

\* The reply is lost, late or garbled: LND has made the invoice all the same.
CreatesUnheard(o) ==
    /\ op[o].stage = "creating"
    /\ \E b \in Bolts \ made : made' = made \cup {b}
    /\ Goto(o, "failed")
    /\ UNCHANGED <<stored, told>>

IsNew(i) == \A j \in ToSet(invoices) : j.id # i.id

\* Mutants: the collection that was read first is written back; a request
\* that has an invoice is left alone.
AddedToSeen(o) == Append(op[o].seen, op[o].invoice)
LinkedFirst(o) ==
    [r \in Requests |-> IF op[o].found /\ r = op[o].request /\ link[r] = None
                        THEN op[o].invoice.id ELSE link[r]]

Added(o) == Append(invoices, op[o].invoice)
Linked(o) ==
    [r \in Requests |-> IF op[o].found /\ r = op[o].request THEN op[o].invoice.id ELSE link[r]]

\* updateCollections: both collections, in one transaction that reads them
\* again. Ids are primary keys.
Stores(o) ==
    /\ op[o].stage = "storing"
    /\ IsNew(op[o].invoice)
    /\ invoices' = Added(o)
    /\ link' = Linked(o)
    /\ Goto(o, "answering")
    /\ UNCHANGED <<imported, nodes, chosen, made, told>>

StoreCollides(o) == Passes(o, "storing", "failed") /\ ~ IsNew(op[o].invoice)

Tells(o) == {op[o].invoice.bolt} \ {None}

\* The client is told of the invoice.
Answers(o) ==
    /\ op[o].stage = "answering"
    /\ told' = told \cup Tells(o)
    /\ Goto(o, "answered")
    /\ UNCHANGED <<stored, made>>

-----------------------------------------------------------------------------
Ended(o) == op[o].stage \in {"answered", "paid", "failed", "lost"}

\* An error: a transaction or a read that fails, a payload that does not
\* decrypt or has no destination, or LND refuses the invoice.
Fails(o) ==
    \E from \in {"import", "requests", "invoices", "selecting", "creating", "storing"} :
        Passes(o, from, "failed")

Crashes(o) ==
    \E from \in Stages \ {"new", "answered", "paid", "failed", "lost"} : Passes(o, from, "lost")

AllEnded == (\A o \in Ops : Ended(o)) /\ UNCHANGED vars

ImportEnds(o) == Imports(o) \/ ImportCollides(o)
Reads(o)    == ReadsRequests(o) \/ ReadsInvoices(o)
Payment(o)  == RefusesOwn(o) \/ Pays(o)
Invoicing(o) ==
    SelectsNode(o) \/ FindsNoNode(o) \/ Creates(o) \/ CreatesUnheard(o)
    \/ Stores(o) \/ StoreCollides(o) \/ Answers(o)

Next ==
    \/ \E o \in Ops : Begins(o) \/ ImportEnds(o) \/ Reads(o) \/ Payment(o)
                        \/ Invoicing(o) \/ Fails(o) \/ Crashes(o)
    \/ AdminImports
    \/ Administers
    \/ AllEnded

Spec == Init /\ [][Next]_vars

-----------------------------------------------------------------------------
(* Properties *)

TypeOK ==
    /\ imported \in BOOLEAN
    /\ invoices \in Seq(Invoices)
    /\ nodes \in Seq(Registry!Entries)
    /\ chosen \in Nodes \cup {None}
    /\ link \in [Requests -> Ids \cup {None}]
    /\ told \subseteq made /\ made \subseteq Bolts
    /\ op \in [Ops -> Operations]

\* Whoever was told of an invoice finds it stored, whatever other processes
\* import or store, and so does the operation itself.
ToldIsStored ==
    /\ \A o \in Ops : op[o].stage \in {"answering", "answered"} =>
           op[o].invoice \in ToSet(invoices)
    /\ imported => \A b \in told : \E i \in ToSet(invoices) : i.bolt = b

\* A stored invoice is never lost.
InvoicesAreKept == [][ToSet(invoices) \subseteq ToSet(invoices')]_vars

\* The two collections agree: a stored request is linked with the last invoice
\* that was stored for it.
LinkIsLatest == link = Latest(invoices)

\* No payment is sent for an invoice of this node that a client had been told
\* of when it asked for the payment, whichever process created it.
ToldInvoicesAreNotPaid == \A o \in Ops : op[o].stage = "paid" => ~ op[o].knew

\* The node of a stored invoice is in the registry, whatever was imported,
\* registered or activated between its choice and the storing.
InvoiceNodeIsKnown == \A i \in ToSet(invoices) : i.node \in Registry!Known

\* An activation decides the node of invoices and the node the page shows.
ActivationTakesEffect == Registry!ActivationTakesEffect
=============================================================================

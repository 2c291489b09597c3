---------------------------- MODULE NodeRegistry ----------------------------
(***************************************************************************)
(* The registry of Lightning nodes: registerNode, activateNode and         *)
(* getActiveNode of src/node.js over the collection of nodes, which each   *)
(* of them reads and replaces in one transaction.                          *)
(***************************************************************************)
EXTENDS Naturals, Sequences, SequencesExt

CONSTANTS
    Nodes,        \* node ids
    DefaultNode,  \* networkConfig.defaultNode
    NoNode        \* no node

VARIABLES
    nodes,   \* the collection of nodes, in the order of their positions
    chosen   \* history: the node the administrator activated last, unless an
             \* active one was registered since; or NoNode

nodeVars == <<nodes, chosen>>

Entries  == [id : Nodes, status : {"active", "inactive"}]
Known    == {e.id : e \in ToSet(nodes)}
Active   == {i \in DOMAIN nodes : nodes[i].status = "active"}

FirstOf(I) == IF I = {} THEN NoNode ELSE nodes[Min(I)].id

\* The node that the landing page shows as active (src/app.js): the first
\* active one, or the first.
ShownNode == IF Active # {} THEN FirstOf(Active) ELSE FirstOf(DOMAIN nodes)

\* getActiveNode: the default node goes before the others, if it is active.
ActiveNode ==
    IF [id |-> DefaultNode, status |-> "active"] \in ToSet(nodes) THEN DefaultNode
    ELSE ShownNode

\* NODE_EXISTS otherwise.
Registers(n, status) ==
    /\ n \notin Known
    /\ nodes' = Append(nodes, [id |-> n, status |-> status])
    /\ chosen' = IF status = "active" THEN NoNode ELSE chosen

\* Mutant: the others stay as they are.
ActivatedToo(n) ==
    [i \in DOMAIN nodes |-> IF nodes[i].id = n THEN [nodes[i] EXCEPT !.status = "active"]
                                               ELSE nodes[i]]

Activated(n) ==
    [i \in DOMAIN nodes |-> [nodes[i] EXCEPT !.status = IF nodes[i].id = n THEN "active"
                                                                   ELSE "inactive"]]

\* NODE_NOT_FOUND otherwise.
Activates(n) ==
    /\ n \in Known
    /\ nodes' = Activated(n)
    /\ chosen' = n

-----------------------------------------------------------------------------
\* A node that was activated is the one that invoices are made for and the
\* one the page shows, until an active node is registered or another one is
\* activated.
ActivationTakesEffect == chosen # NoNode => ActiveNode = chosen /\ ShownNode = chosen
=============================================================================

---------------------------- MODULE InvoiceProofs ----------------------------
(***************************************************************************)
(* Theorems about InvoiceProcessing and the registry of nodes beside it,   *)
(* for any operations, JSON collections, nodes and invoices of LND.        *)
(*                                                                         *)
(* What an operation holds stays true because what it was read from only   *)
(* grows: the import, which replaces whole collections, finds them empty.  *)
(***************************************************************************)
EXTENDS InvoiceProcessing, SequenceTheorems, WellFoundedInduction, TLAPS

Known == Registry!Known

\* What operation o holds.
Holding(o) ==
    /\ op[o].stage = "new" => ~ op[o].knew
    /\ op[o].knew => op[o].pays \in told
    /\ ~ imported => op[o].stage \in {"new", "import", "failed", "lost"}
    /\ op[o].stage = "checking" /\ op[o].knew => \E i \in ToSet(op[o].seen) : i.bolt = op[o].pays
    /\ op[o].stage = "paid" => ~ op[o].knew
    /\ op[o].stage \in {"creating", "storing"} => op[o].node \in Known
    /\ op[o].stage \in {"invoices", "checking", "selecting", "creating", "storing"} =>
           op[o].found = (op[o].request # None)
    /\ op[o].stage = "storing" => /\ op[o].invoice \in Invoices
                                  /\ op[o].invoice.node = op[o].node
                                  /\ op[o].invoice.request = op[o].request
    /\ op[o].stage \in {"storing", "answering"} => op[o].invoice.bolt \in made \cup {None}
    /\ op[o].stage \in {"answering", "answered"} => op[o].invoice \in ToSet(invoices)

\* Nothing is stored before the import.
Unimported ==
    ~ imported => /\ invoices = <<>> /\ nodes = <<>> /\ chosen = None
                  /\ told \subseteq {i.bolt : i \in ToSet(LegacyInvoices)}

ToldStored == imported => \A b \in told : \E i \in ToSet(invoices) : i.bolt = b

\* An activated node is the only active one.
ChosenAlone ==
    chosen # None => /\ Registry!Active # {}
                     /\ \A i \in Registry!Active : nodes[i].id = chosen

Collections == Unimported /\ ToldStored /\ ChosenAlone /\ InvoiceNodeIsKnown /\ LinkIsLatest

IInv == TypeOK /\ Collections /\ \A o \in Ops : Holding(o)

USE LegacyAssumption, DistinctAssumption

-----------------------------------------------------------------------------
(* Sequences *)

LEMMA AppendedSet ==
    ASSUME NEW S, NEW s \in Seq(S), NEW e \in S
    PROVE  ToSet(Append(s, e)) = ToSet(s) \cup {e}
<1>1. /\ Append(s, e) \in Seq(S) /\ Len(Append(s, e)) = Len(s) + 1
      /\ \A i \in 1 .. Len(s) : Append(s, e)[i] = s[i]
      /\ Append(s, e)[Len(s) + 1] = e
  BY AppendProperties
<1>2. DOMAIN s = 1 .. Len(s) /\ DOMAIN Append(s, e) = 1 .. Len(s) + 1 /\ Len(s) \in Nat
  BY <1>1, LenProperties
<1> DEFINE t == Append(s, e)
<1>3. t[Len(s) + 1] = e /\ Len(s) + 1 \in DOMAIN t /\ \A i \in DOMAIN s : i \in DOMAIN t /\ t[i] = s[i]
  BY <1>1, <1>2
<1>4. \A i \in DOMAIN t : i \in DOMAIN s \/ i = Len(s) + 1
  BY <1>2
<1> HIDE DEF t
<1>5. ToSet(t) = ToSet(s) \cup {e}
  BY <1>3, <1>4 DEF ToSet
<1> QED
  BY <1>5 DEF t

LEMMA FunctionIsSeq ==
    ASSUME NEW S, NEW n \in Nat, NEW f \in [1 .. n -> S]
    PROVE  f \in Seq(S)
<1>1. Seq(S) = UNION {[1 .. k -> S] : k \in Nat}
  BY SeqDef, Zenon
<1>2. f \in UNION {[1 .. k -> S] : k \in Nat}
  OBVIOUS
<1> QED
  BY <1>1, <1>2, Zenon

LEMMA EmptySet == ToSet(<<>>) = {}
BY DEF ToSet

LEMMA FirstIn ==
    ASSUME NEW I \in SUBSET Nat, I # {}
    PROVE  Registry!Min(I) \in I
<1>1. PICK x \in I : \A y \in I : ~ (<<y, x>> \in OpToRel(<, Nat))
  BY NatLessThanWellFounded, WFMin
<1>2. \A y \in I : ~ (y < x)
  BY <1>1 DEF OpToRel
<1>3. \A y \in I : x <= y
  BY <1>2
<1> QED
  BY <1>3 DEF Registry!Min

LEMMA LastPlace ==
    ASSUME NEW s \in Seq(Invoices), NEW r \in Requests, PlacesOf(r, s) # {}
    PROVE  Max(PlacesOf(r, s)) \in PlacesOf(r, s)
<1> DEFINE n == Len(s)
           T == {n - i : i \in PlacesOf(r, s)}
<1>1. n \in Nat /\ DOMAIN s = 1 .. n
  BY LenProperties
<1>2. T \subseteq Nat /\ T # {}
  BY <1>1 DEF PlacesOf
<1>3. PICK x \in T : \A y \in T : ~ (<<y, x>> \in OpToRel(<, Nat))
  BY <1>2, NatLessThanWellFounded, WFMin
<1>4. \A y \in T : ~ (y < x)
  BY <1>2, <1>3 DEF OpToRel
<1>5. PICK i \in PlacesOf(r, s) : x = n - i
  OBVIOUS
<1>6. ASSUME NEW j \in PlacesOf(r, s) PROVE i >= j
  <2>1. i \in Nat /\ j \in Nat
    BY <1>1 DEF PlacesOf
  <2>2. ~ (n - j < n - i)
    BY <1>4, <1>5
  <2> QED
    BY <1>1, <2>1, <2>2
<1> QED
  BY <1>6 DEF Max

LEMMA LatestType ==
    ASSUME NEW s \in Seq(Invoices)
    PROVE  Latest(s) \in [Requests -> Ids \cup {None}]
<1>1. ASSUME NEW r \in Requests PROVE Latest(s)[r] \in Ids \cup {None}
  <2>1. PlacesOf(r, s) # {} => s[Max(PlacesOf(r, s))] \in Invoices
    BY LastPlace, LenProperties DEF PlacesOf
  <2> QED
    BY <2>1 DEF Latest, Invoices
<1> QED
  BY <1>1 DEF Latest

\* The last place of a request after one more invoice.
LEMMA LatestAppended ==
    ASSUME NEW s \in Seq(Invoices), NEW e \in Invoices, NEW r \in Requests
    PROVE  Latest(Append(s, e))[r] = IF e.request = r THEN e.id ELSE Latest(s)[r]
<1> DEFINE t == Append(s, e)
           n == Len(s) + 1
<1>1. /\ t \in Seq(Invoices) /\ Len(t) = n
      /\ \A i \in 1 .. Len(s) : t[i] = s[i]
      /\ t[n] = e
  BY AppendProperties
<1>2. DOMAIN s = 1 .. Len(s) /\ DOMAIN t = 1 .. n /\ Len(s) \in Nat
  BY <1>1, LenProperties
<1> HIDE DEF t
<1>3. CASE e.request = r
  <2>1. n \in PlacesOf(r, t) /\ \A i \in PlacesOf(r, t) : n >= i
    BY <1>1, <1>2, <1>3 DEF PlacesOf
  <2>2. Max(PlacesOf(r, t)) = n
    <3>1. \A x \in PlacesOf(r, t) : x \in Int
      BY <1>2 DEF PlacesOf
    <3> QED
      BY <2>1, <3>1, <1>2 DEF Max
  <2> QED
    BY <1>1, <1>3, <2>1, <2>2 DEF Latest, t
<1>4. CASE e.request # r
  <2>1. PlacesOf(r, t) = PlacesOf(r, s)
    BY <1>1, <1>2, <1>4 DEF PlacesOf
  <2>2. PlacesOf(r, s) # {} => Max(PlacesOf(r, s)) \in PlacesOf(r, s)
    BY LastPlace
  <2> QED
    BY <1>1, <1>2, <1>4, <2>1, <2>2 DEF Latest, PlacesOf, t
<1> QED
  BY <1>3, <1>4

-----------------------------------------------------------------------------
(* The registry *)

LEMMA KnownNodes ==
    ASSUME TypeOK
    PROVE  Known \subseteq Nodes /\ None \notin Known
<1>1. \A i \in DOMAIN nodes : nodes[i] \in Registry!Entries
  BY LenProperties DEF TypeOK
<1> QED
  BY <1>1 DEF Known, Registry!Known, Registry!Entries, Registry!ToSet

\* A node that is selected is in the registry.
LEMMA SelectedIsKnown ==
    ASSUME TypeOK, NEW wanted \in Nodes \cup {None}, Selected(wanted) # None
    PROVE  Selected(wanted) \in Known
<1>1. DOMAIN nodes \subseteq Nat
  BY LenProperties DEF TypeOK
<1>2. ASSUME NEW I \in SUBSET DOMAIN nodes, Registry!FirstOf(I) # None
      PROVE  Registry!FirstOf(I) \in Known
  BY <1>1, <1>2, FirstIn DEF Registry!FirstOf, Known, Registry!Known, Registry!ToSet
<1>3. Registry!Active \subseteq DOMAIN nodes
  BY DEF Registry!Active
<1>4. Registry!ShownNode # None => Registry!ShownNode \in Known
  BY <1>2, <1>3 DEF Registry!ShownNode
<1>5. [id |-> DefaultNode, status |-> "active"] \in Registry!ToSet(nodes) => DefaultNode \in Known
  BY DEF Known, Registry!Known
<1> QED
  BY <1>4, <1>5 DEF Selected, Registry!ActiveNode, Known

LEMMA EffectOfActivation ==
    ASSUME TypeOK, ChosenAlone
    PROVE  ActivationTakesEffect
<1> SUFFICES ASSUME chosen # None
             PROVE  Registry!ActiveNode = chosen /\ Registry!ShownNode = chosen
  BY DEF ActivationTakesEffect, Registry!ActivationTakesEffect
<1>1. Registry!Active \in SUBSET Nat
  BY LenProperties DEF TypeOK, Registry!Active
<1>2. Registry!ShownNode = chosen
  BY <1>1, FirstIn DEF ChosenAlone, Registry!ShownNode, Registry!FirstOf
<1>3. [id |-> DefaultNode, status |-> "active"] \in Registry!ToSet(nodes) => DefaultNode = chosen
  BY DEF ChosenAlone, Registry!Active, Registry!ToSet
<1> QED
  BY <1>2, <1>3 DEF Registry!ActiveNode

LEMMA RegistrationHolds ==
    ASSUME TypeOK, ChosenAlone, NEW n \in Nodes, NEW status \in {"active", "inactive"},
           Registry!Registers(n, status)
    PROVE  /\ nodes' \in Seq(Registry!Entries) /\ chosen' \in Nodes \cup {None}
           /\ Known \subseteq Known' /\ ChosenAlone'
<1> DEFINE e == [id |-> n, status |-> status]
<1>1. e \in Registry!Entries /\ nodes \in Seq(Registry!Entries) /\ nodes' = Append(nodes, e)
  BY DEF TypeOK, Registry!Registers, Registry!Entries
<1>2. /\ nodes' \in Seq(Registry!Entries) /\ Len(nodes') = Len(nodes) + 1
      /\ \A i \in 1 .. Len(nodes) : nodes'[i] = nodes[i]
      /\ nodes'[Len(nodes) + 1] = e
  BY <1>1, AppendProperties
<1>3. DOMAIN nodes = 1 .. Len(nodes) /\ DOMAIN nodes' = 1 .. Len(nodes) + 1 /\ Len(nodes) \in Nat
  BY <1>1, <1>2, LenProperties
<1>4. ToSet(nodes') = ToSet(nodes) \cup {e}
  BY <1>1, AppendedSet
<1>5. Known \subseteq Known'
  BY <1>4 DEF Known, Registry!Known, Registry!ToSet, ToSet
<1>6. chosen' # None => Registry!Active' = Registry!Active /\ chosen' = chosen
  BY <1>2, <1>3 DEF Registry!Registers, Registry!Active
<1>7. ChosenAlone'
  BY <1>2, <1>3, <1>6 DEF ChosenAlone, Registry!Active
<1> QED
  BY <1>2, <1>5, <1>7 DEF Registry!Registers, TypeOK

LEMMA ActivationHolds ==
    ASSUME TypeOK, NEW n \in Nodes, Registry!Activates(n)
    PROVE  /\ nodes' \in Seq(Registry!Entries) /\ chosen' \in Nodes \cup {None}
           /\ Known \subseteq Known' /\ ChosenAlone'
<1>1. nodes \in Seq(Registry!Entries) /\ DOMAIN nodes = 1 .. Len(nodes) /\ Len(nodes) \in Nat
  BY LenProperties DEF TypeOK
<1>2. \A i \in DOMAIN nodes : nodes[i] \in Registry!Entries
  BY <1>1
<1>3. /\ DOMAIN nodes' = DOMAIN nodes
      /\ \A i \in DOMAIN nodes :
             nodes'[i] = [id |-> nodes[i].id, status |-> IF nodes[i].id = n THEN "active" ELSE "inactive"]
  BY <1>2 DEF Registry!Activates, Registry!Activated, Registry!Entries
<1>4. nodes' \in Seq(Registry!Entries)
  <2>1. nodes' = [i \in 1 .. Len(nodes) |-> nodes'[i]]
    BY <1>1, <1>2 DEF Registry!Activates, Registry!Activated
  <2>2. \A i \in 1 .. Len(nodes) : nodes'[i] \in Registry!Entries
    BY <1>1, <1>2, <1>3 DEF Registry!Entries
  <2>3. nodes' \in [1 .. Len(nodes) -> Registry!Entries]
    BY <2>1, <2>2
  <2> DEFINE E == Registry!Entries
  <2>4. nodes' \in [1 .. Len(nodes) -> E] /\ Len(nodes) \in Nat
    BY <1>1, <2>3
  <2> HIDE DEF E
  <2>5. nodes' \in Seq(E)
    BY <2>4, FunctionIsSeq
  <2> QED
    BY <2>5 DEF E
<1>5. Known' = Known
  BY <1>3 DEF Known, Registry!Known, Registry!ToSet
<1>6. PICK i \in DOMAIN nodes : nodes[i].id = n
  BY DEF Registry!Activates, Registry!Known, Registry!ToSet
<1>7. ChosenAlone'
  BY <1>3, <1>6 DEF ChosenAlone, Registry!Active, Registry!Activates
<1> QED
  BY <1>4, <1>5, <1>7 DEF Registry!Activates

-----------------------------------------------------------------------------
(* Operations *)

\* Everything that an operation reads only grows after the import.
Grows ==
    /\ imported => imported' /\ ToSet(invoices) \subseteq ToSet(invoices)' /\ Known \subseteq Known'
    /\ told \subseteq told' /\ made \subseteq made'

LEMMA HoldingKept ==
    ASSUME NEW p \in Ops, Holding(p), op'[p] = op[p], Grows
    PROVE  Holding(p)'
<1>1. CASE imported
  BY <1>1 DEF Holding, Grows
<1>2. CASE ~ imported
  BY <1>2 DEF Holding, Grows
<1> QED
  BY <1>1, <1>2

\* A step of one operation that changes no collection.
LEMMA OneMoves ==
    ASSUME IInv, NEW o \in Ops, op' \in [Ops -> Operations],
           \A p \in Ops \ {o} : op'[p] = op[p],
           UNCHANGED <<stored, told>>, made \subseteq made', made' \subseteq Bolts, Holding(o)'
    PROVE  IInv'
<1>1. Grows
  BY DEF stored, Grows, Known, Registry!Known
<1>2. \A p \in Ops : Holding(p)'
  BY <1>1, HoldingKept DEF IInv
<1>3. TypeOK'
  BY DEF IInv, TypeOK, stored
<1>4. Collections'
  BY DEF IInv, Collections, Unimported, ToldStored, ChosenAlone, InvoiceNodeIsKnown, LinkIsLatest,
         stored, Registry!Active, Registry!Known
<1> QED
  BY <1>2, <1>3, <1>4 DEF IInv

LEMMA EndHolds ==
    ASSUME IInv, NEW o \in Ops, NEW from, NEW to \in {"failed", "lost"}, Passes(o, from, to)
    PROVE  IInv'
<1>1. /\ op' = [op EXCEPT ![o] = [op[o] EXCEPT !.stage = to]]
      /\ UNCHANGED <<stored, told>> /\ made' = made
  BY DEF Passes, Moves, Becomes
<1>2. op \in [Ops -> Operations] /\ made \subseteq Bolts
  BY DEF IInv, TypeOK
<1>3. [op[o] EXCEPT !.stage = to] \in Operations
  <2>1. op[o] \in Operations /\ to \in Stages
    BY <1>2 DEF Stages
  <2> QED
    BY <2>1 DEF Operations
<1>4. /\ op' \in [Ops -> Operations] /\ \A p \in Ops \ {o} : op'[p] = op[p]
      /\ op'[o] = [op[o] EXCEPT !.stage = to]
  BY <1>1, <1>2, <1>3
<1>5. op'[o].stage = to /\ op'[o].knew = op[o].knew /\ op'[o].pays = op[o].pays
  BY <1>2, <1>4 DEF Operations
<1>6. Holding(o)'
  BY <1>1, <1>5 DEF IInv, Holding
<1> QED
  BY <1>1, <1>2, <1>4, <1>6, OneMoves

LEMMA BeginningHolds ==
    ASSUME IInv, NEW o \in Ops, Begins(o)
    PROVE  IInv'
<1>1. PICK b \in Bolts \cup Foreign \cup {None}, r \in Requests \cup {None} :
          Moves(o, "new", [op[o] EXCEPT !.pays = b, !.request = r, !.knew = b \in told,
                               !.stage = IF imported THEN "requests" ELSE "import"])
  BY DEF Begins
<1> DEFINE s == [op[o] EXCEPT !.pays = b, !.request = r, !.knew = b \in told,
                     !.stage = IF imported THEN "requests" ELSE "import"]
<1>2. op \in [Ops -> Operations] /\ made \subseteq Bolts
  BY DEF IInv, TypeOK
<1>3. /\ s \in Operations /\ s.pays = b /\ s.knew = (b \in told)
      /\ s.stage = IF imported THEN "requests" ELSE "import"
  <2>1. op[o] \in Operations
    BY <1>2
  <2> DEFINE stage == IF imported THEN "requests" ELSE "import"
             knew == b \in told
  <2>2. stage \in Stages /\ knew \in BOOLEAN
    BY DEF Stages
  <2> HIDE DEF stage, knew
  <2>3. LET t == [op[o] EXCEPT !.pays = b, !.request = r, !.knew = knew, !.stage = stage]
        IN  t \in Operations /\ t.pays = b /\ t.knew = knew /\ t.stage = stage
    BY <2>1, <2>2 DEF Operations
  <2> QED
    BY <2>3 DEF stage, knew
<1>4. op' = [op EXCEPT ![o] = s] /\ UNCHANGED <<stored, told>> /\ made' = made
  BY <1>1 DEF Moves, Becomes
<1> HIDE DEF s
<1>5. op' \in [Ops -> Operations] /\ op'[o] = s /\ \A p \in Ops \ {o} : op'[p] = op[p]
  BY <1>2, <1>3, <1>4
<1>6. Holding(o)'
  BY <1>3, <1>4, <1>5 DEF Holding, stored
<1> QED
  BY <1>2, <1>4, <1>5, <1>6, OneMoves

LEMMA ReadingHolds ==
    ASSUME IInv, NEW o \in Ops, Reads(o)
    PROVE  IInv'
<1>1. op \in [Ops -> Operations] /\ made \subseteq Bolts /\ invoices \in Seq(Invoices)
  BY DEF IInv, TypeOK
<1>2. CASE ReadsRequests(o)
  <2> DEFINE s == [op[o] EXCEPT !.stage = "invoices", !.found = op[o].request # None]
  <2>1. /\ s \in Operations /\ s.stage = "invoices" /\ s.found = (s.request # None)
        /\ s.pays = op[o].pays /\ s.knew = op[o].knew
    <3>1. op[o] \in Operations
      BY <1>1
    <3> QED
      BY <3>1 DEF Operations, Stages
  <2>2. /\ op[o].stage = "requests" /\ op' = [op EXCEPT ![o] = s]
        /\ UNCHANGED <<stored, told>> /\ made' = made
    BY <1>2 DEF ReadsRequests, Moves, Becomes
  <2> HIDE DEF s
  <2>3. op' \in [Ops -> Operations] /\ op'[o] = s /\ \A p \in Ops \ {o} : op'[p] = op[p]
    BY <1>1, <2>1, <2>2
  <2>4. Holding(o)'
    BY <2>1, <2>2, <2>3 DEF IInv, Holding, stored
  <2> QED
    BY <1>1, <2>2, <2>3, <2>4, OneMoves
<1>3. CASE ReadsInvoices(o)
  <2> DEFINE s == [op[o] EXCEPT
                      !.seen = invoices, !.stage = IF op[o].pays # None THEN "checking" ELSE "selecting"]
  <2>1. /\ s \in Operations /\ s.stage \in {"checking", "selecting"} /\ s.seen = invoices
        /\ s.pays = op[o].pays /\ s.knew = op[o].knew
        /\ s.found = op[o].found /\ s.request = op[o].request
    <3>1. op[o] \in Operations
      BY <1>1
    <3> QED
      BY <1>1, <3>1 DEF Operations, Stages
  <2>2. /\ op[o].stage = "invoices" /\ op' = [op EXCEPT ![o] = s]
        /\ UNCHANGED <<stored, told>> /\ made' = made
    BY <1>3 DEF ReadsInvoices, Moves, Becomes
  <2> HIDE DEF s
  <2>3. op' \in [Ops -> Operations] /\ op'[o] = s /\ \A p \in Ops \ {o} : op'[p] = op[p]
    BY <1>1, <2>1, <2>2
  <2>4. imported /\ Holding(o)
    BY <2>2 DEF IInv, Holding
  <2>5. Holding(o)'
    BY <2>1, <2>2, <2>3, <2>4 DEF IInv, Collections, ToldStored, Holding, stored
  <2> QED
    BY <1>1, <2>2, <2>3, <2>5, OneMoves
<1> QED
  BY <1>2, <1>3 DEF Reads

LEMMA PaymentHolds ==
    ASSUME IInv, NEW o \in Ops, Payment(o)
    PROVE  IInv'
<1>1. CASE RefusesOwn(o)
  BY <1>1, EndHolds DEF RefusesOwn
<1>2. CASE Pays(o)
  <2>1. op \in [Ops -> Operations] /\ made \subseteq Bolts
    BY DEF IInv, TypeOK
  <2> DEFINE s == [op[o] EXCEPT !.stage = "paid"]
  <2>2. s \in Operations /\ s.stage = "paid" /\ s.pays = op[o].pays /\ s.knew = op[o].knew
    <3>1. op[o] \in Operations
      BY <2>1
    <3> QED
      BY <3>1 DEF Operations, Stages
  <2>3. /\ op[o].stage = "checking" /\ op' = [op EXCEPT ![o] = s]
        /\ UNCHANGED <<stored, told>> /\ made' = made
    BY <1>2 DEF Pays, Passes, Moves, Becomes
  <2> HIDE DEF s
  <2>4. op' \in [Ops -> Operations] /\ op'[o] = s /\ \A p \in Ops \ {o} : op'[p] = op[p]
    BY <2>1, <2>2, <2>3
  <2>5. ~ op[o].knew
    BY <1>2, <2>3 DEF IInv, Holding, Pays, Owns
  <2>6. Holding(o)'
    BY <2>2, <2>3, <2>4, <2>5 DEF IInv, Holding, stored
  <2> QED
    BY <2>1, <2>3, <2>4, <2>6, OneMoves
<1> QED
  BY <1>1, <1>2 DEF Payment

LEMMA SelectionHolds ==
    ASSUME IInv, NEW o \in Ops, SelectsNode(o)
    PROVE  IInv'
<1>1. PICK wanted \in Nodes \cup {None} :
          /\ Selected(wanted) # None
          /\ Moves(o, "selecting", [op[o] EXCEPT !.stage = "creating", !.node = Selected(wanted)])
  BY DEF SelectsNode
<1> DEFINE n == Selected(wanted)
           s == [op[o] EXCEPT !.stage = "creating", !.node = n]
<1>2. op \in [Ops -> Operations] /\ made \subseteq Bolts
  BY DEF IInv, TypeOK
<1>3. n \in Known /\ n \in Nodes
  BY <1>1, SelectedIsKnown, KnownNodes DEF IInv
<1>4. op' = [op EXCEPT ![o] = s] /\ op[o].stage = "selecting" /\ UNCHANGED <<stored, told>> /\ made' = made
  BY <1>1 DEF Moves, Becomes
<1> HIDE DEF n
<1>5. /\ s \in Operations /\ s.stage = "creating" /\ s.node = n /\ s.pays = op[o].pays
      /\ s.knew = op[o].knew /\ s.found = op[o].found /\ s.request = op[o].request
  <2>1. op[o] \in Operations
    BY <1>2
  <2> QED
    BY <2>1, <1>3 DEF Operations, Stages
<1> HIDE DEF s
<1>6. op' \in [Ops -> Operations] /\ op'[o] = s /\ \A p \in Ops \ {o} : op'[p] = op[p]
  BY <1>2, <1>4, <1>5
<1>7. Known' = Known
  BY <1>4 DEF stored, Known, Registry!Known
<1>8. Holding(o)'
  BY <1>3, <1>4, <1>5, <1>6, <1>7 DEF IInv, Holding, stored
<1> QED
  BY <1>2, <1>4, <1>6, <1>8, OneMoves

LEMMA CreationHolds ==
    ASSUME IInv, NEW o \in Ops, Creates(o)
    PROVE  IInv'
<1>1. PICK b \in Bolts \ made, id \in Ids, known \in Bolts \cup {None} :
          /\ id \in {b} \cup ClockIds /\ known \in {b, None}
          /\ made' = made \cup {b}
          /\ Becomes(o, [op[o] EXCEPT !.stage = "storing", !.invoice =
                 [id |-> id, bolt |-> known, request |-> op[o].request, node |-> op[o].node]])
  BY DEF Creates
<1> DEFINE i == [id |-> id, bolt |-> known, request |-> op[o].request, node |-> op[o].node]
           s == [op[o] EXCEPT !.stage = "storing", !.invoice = i]
<1>2. op \in [Ops -> Operations] /\ made \subseteq Bolts /\ op[o] \in Operations
  BY DEF IInv, TypeOK
<1>3. op' = [op EXCEPT ![o] = s] /\ op[o].stage = "creating" /\ UNCHANGED <<stored, told>>
  BY <1>1 DEF Creates, Becomes
<1>4. Holding(o)
  BY DEF IInv
<1>5. op[o].node \in Known /\ op[o].node \in Nodes
  BY <1>3, <1>4, KnownNodes DEF IInv, Holding
<1>6. /\ i \in Invoices /\ i.node = op[o].node /\ i.request = op[o].request
      /\ i.bolt \in made' \cup {None}
  BY <1>1, <1>2, <1>5 DEF Invoices, Operations
<1> HIDE DEF i
<1>7. /\ s \in Operations /\ s.stage = "storing" /\ s.node = op[o].node /\ s.invoice = i
      /\ s.pays = op[o].pays /\ s.knew = op[o].knew /\ s.found = op[o].found
      /\ s.request = op[o].request
  BY <1>2, <1>6 DEF Operations, Stages
<1> HIDE DEF s
<1>8. op' \in [Ops -> Operations] /\ op'[o] = s /\ \A p \in Ops \ {o} : op'[p] = op[p]
  BY <1>2, <1>3, <1>7
<1>9. Known' = Known
  BY <1>3 DEF stored, Known, Registry!Known
<1>10. Holding(o)'
  BY <1>3, <1>4, <1>5, <1>6, <1>7, <1>8, <1>9 DEF Holding, stored
<1>11. made \subseteq made' /\ made' \subseteq Bolts
  BY <1>1, <1>2
<1> QED
  BY <1>3, <1>8, <1>10, <1>11, OneMoves

LEMMA LostReplyHolds ==
    ASSUME IInv, NEW o \in Ops, CreatesUnheard(o)
    PROVE  IInv'
<1> DEFINE s == [op[o] EXCEPT !.stage = "failed"]
<1>1. op \in [Ops -> Operations] /\ op[o] \in Operations /\ made \subseteq Bolts
  BY DEF IInv, TypeOK
<1>2. op' = [op EXCEPT ![o] = s] /\ UNCHANGED <<stored, told>>
  BY DEF CreatesUnheard, Goto
<1>3. s \in Operations /\ s.stage = "failed" /\ s.pays = op[o].pays /\ s.knew = op[o].knew
  BY <1>1 DEF Operations, Stages
<1> HIDE DEF s
<1>4. op' \in [Ops -> Operations] /\ op'[o] = s /\ \A p \in Ops \ {o} : op'[p] = op[p]
  BY <1>1, <1>2, <1>3
<1>5. Holding(o)'
  BY <1>2, <1>3, <1>4 DEF IInv, Holding
<1>6. made \subseteq made' /\ made' \subseteq Bolts
  BY <1>1 DEF CreatesUnheard
<1> QED
  BY <1>2, <1>4, <1>5, <1>6, OneMoves

LEMMA StoringHolds ==
    ASSUME IInv, NEW o \in Ops, Stores(o)
    PROVE  IInv' /\ ToSet(invoices) \subseteq ToSet(invoices')
<1> DEFINE s == [op[o] EXCEPT !.stage = "answering"]
           i == op[o].invoice
<1>1. /\ op \in [Ops -> Operations] /\ op[o] \in Operations
      /\ invoices \in Seq(Invoices) /\ link = Latest(invoices) /\ Holding(o)
  BY DEF IInv, TypeOK, Collections, LinkIsLatest
<1>2. /\ op' = [op EXCEPT ![o] = s] /\ op[o].stage = "storing"
      /\ invoices' = Append(invoices, i) /\ link' = Linked(o)
      /\ UNCHANGED <<imported, nodes, chosen, made, told>>
  BY DEF Stores, Goto, Added
<1>3. /\ imported /\ i \in Invoices /\ i.node \in Known /\ i.request = op[o].request
      /\ i.bolt \in made \cup {None} /\ op[o].found = (op[o].request # None)
  BY <1>1, <1>2 DEF Holding
<1>4. /\ s \in Operations /\ s.stage = "answering" /\ s.invoice = i
      /\ s.pays = op[o].pays /\ s.knew = op[o].knew
  BY <1>1 DEF Operations, Stages
<1> HIDE DEF i, s
<1>5. op' \in [Ops -> Operations] /\ op'[o] = s /\ \A p \in Ops \ {o} : op'[p] = op[p]
  BY <1>1, <1>2, <1>4
<1>6. ToSet(invoices') = ToSet(invoices) \cup {i} /\ invoices' \in Seq(Invoices)
  BY <1>1, <1>2, <1>3, AppendedSet, AppendProperties
<1>7. Known' = Known /\ Registry!Known' = Registry!Known
  BY <1>2 DEF Known, Registry!Known
<1>8. Grows
  BY <1>2, <1>6, <1>7 DEF Grows
<1>9. Holding(o)'
  BY <1>1, <1>2, <1>3, <1>4, <1>5, <1>6 DEF Holding
<1>10. \A p \in Ops : Holding(p)'
  BY <1>5, <1>8, <1>9, HoldingKept DEF IInv
<1>11. link' = Latest(invoices')
  <2>1. ASSUME NEW r \in Requests PROVE Linked(o)[r] = Latest(invoices')[r]
    <3>1. Latest(Append(invoices, i))[r] = IF i.request = r THEN i.id ELSE Latest(invoices)[r]
      BY <1>1, <1>3, <2>1, LatestAppended
    <3>2. Linked(o)[r] = IF i.request = r THEN i.id ELSE link[r]
      BY <1>3, <2>1 DEF Linked, i
    <3> QED
      BY <1>1, <1>2, <3>1, <3>2
  <2> QED
    BY <1>2, <2>1 DEF Linked, Latest
<1>12. TypeOK'
  BY <1>2, <1>5, <1>6, <1>11, LatestType DEF IInv, TypeOK
<1>13. Collections'
  BY <1>2, <1>3, <1>6, <1>7, <1>11
     DEF IInv, Collections, Unimported, ToldStored, ChosenAlone, InvoiceNodeIsKnown, LinkIsLatest,
         Registry!Active, Known
<1> QED
  BY <1>6, <1>10, <1>12, <1>13 DEF IInv

LEMMA AnswerHolds ==
    ASSUME IInv, NEW o \in Ops, Answers(o)
    PROVE  IInv'
<1> DEFINE s == [op[o] EXCEPT !.stage = "answered"]
           i == op[o].invoice
<1>1. op \in [Ops -> Operations] /\ op[o] \in Operations /\ Holding(o)
  BY DEF IInv, TypeOK
<1>2. /\ op' = [op EXCEPT ![o] = s] /\ op[o].stage = "answering"
      /\ told' = told \cup ({i.bolt} \ {None}) /\ UNCHANGED <<stored, made>>
  BY DEF Answers, Goto, Tells
<1>3. imported /\ i \in ToSet(invoices) /\ i.bolt \in made \cup {None}
  BY <1>1, <1>2 DEF Holding
<1>4. /\ s \in Operations /\ s.stage = "answered" /\ s.invoice = i
      /\ s.pays = op[o].pays /\ s.knew = op[o].knew
  BY <1>1 DEF Operations, Stages
<1> HIDE DEF i, s
<1>5. op' \in [Ops -> Operations] /\ op'[o] = s /\ \A p \in Ops \ {o} : op'[p] = op[p]
  BY <1>1, <1>2, <1>4
<1>6. Grows
  BY <1>2 DEF stored, Grows, Known, Registry!Known
<1>7. Holding(o)'
  BY <1>1, <1>2, <1>3, <1>4, <1>5 DEF Holding, stored
<1>8. \A p \in Ops : Holding(p)'
  BY <1>5, <1>6, <1>7, HoldingKept DEF IInv
<1>9. TypeOK'
  BY <1>2, <1>3, <1>5 DEF IInv, TypeOK, stored
<1>10. Collections'
  BY <1>2, <1>3 DEF IInv, Collections, Unimported, ToldStored, ChosenAlone, InvoiceNodeIsKnown,
         LinkIsLatest, stored, Registry!Active, Registry!Known
<1> QED
  BY <1>8, <1>9, <1>10 DEF IInv

LEMMA OperationHolds ==
    ASSUME IInv, NEW o \in Ops, Invoicing(o) \/ Fails(o) \/ Crashes(o)
    PROVE  IInv' /\ (Stores(o) \/ invoices' = invoices)
<1>1. CASE SelectsNode(o)
  BY <1>1, SelectionHolds DEF SelectsNode, Moves, stored
<1>2. CASE FindsNoNode(o)
  BY <1>2, EndHolds DEF FindsNoNode, Passes, Moves, stored
<1>3. CASE Creates(o)
  BY <1>3, CreationHolds DEF Creates, stored
<1>4. CASE CreatesUnheard(o)
  BY <1>4, LostReplyHolds DEF CreatesUnheard, stored
<1>5. CASE Stores(o)
  BY <1>5, StoringHolds
<1>6. CASE StoreCollides(o)
  BY <1>6, EndHolds DEF StoreCollides, Passes, Moves, stored
<1>7. CASE Answers(o)
  BY <1>7, AnswerHolds DEF Answers, stored
<1>8. CASE Fails(o)
  BY <1>8, EndHolds DEF Fails, Passes, Moves, stored
<1>9. CASE Crashes(o)
  BY <1>9, EndHolds DEF Crashes, Passes, Moves, stored
<1> QED
  BY <1>1, <1>2, <1>3, <1>4, <1>5, <1>6, <1>7, <1>8, <1>9 DEF Invoicing

-----------------------------------------------------------------------------
(* The import and the administrator *)

LEMMA ImportedCollections ==
    /\ \A b \in {i.bolt : i \in ToSet(LegacyInvoices)} : \E i \in ToSet(LegacyInvoices) : i.bolt = b
    /\ \A i \in ToSet(LegacyInvoices) : i.node \in {e.id : e \in ToSet(LegacyNodes)}
    /\ {i.bolt : i \in ToSet(LegacyInvoices)} \subseteq Bolts
    /\ LegacyNodes \in Seq(Registry!Entries)
<1>1. \A k \in DOMAIN LegacyInvoices : LegacyInvoices[k] \in Invoices
  BY LenProperties
<1> QED
  BY <1>1 DEF Invoices, ToSet, Registry!Entries

LEMMA ImportHolds ==
    ASSUME IInv, Import,
           \/ UNCHANGED op
           \/ \E o \in Ops : op[o].stage = "import" /\ Goto(o, "requests")
    PROVE  IInv' /\ ToSet(invoices) \subseteq ToSet(invoices')
<1>1. /\ ~ imported /\ imported' = TRUE /\ invoices' = LegacyInvoices /\ nodes' = LegacyNodes
      /\ chosen' = None /\ link' = Latest(LegacyInvoices) /\ told' = told /\ made' = made
  BY DEF Import, MarkerInserted
<1>2. /\ invoices = <<>> /\ nodes = <<>> /\ TypeOK
      /\ told \subseteq {i.bolt : i \in ToSet(LegacyInvoices)}
  BY <1>1 DEF IInv, Collections, Unimported
<1>3. Grows
  BY <1>1 DEF Grows
<1>4. op' \in [Ops -> Operations] /\ \A p \in Ops : Holding(p)'
  <2>1. CASE UNCHANGED op
    BY <1>2, <1>3, <2>1, HoldingKept DEF IInv, TypeOK
  <2>2. ASSUME NEW o \in Ops, op[o].stage = "import", Goto(o, "requests")
        PROVE  op' \in [Ops -> Operations] /\ \A p \in Ops : Holding(p)'
    <3> DEFINE s == [op[o] EXCEPT !.stage = "requests"]
    <3>1. op \in [Ops -> Operations] /\ op[o] \in Operations /\ op' = [op EXCEPT ![o] = s]
      BY <1>2, <2>2 DEF TypeOK, Goto
    <3>2. s \in Operations /\ s.stage = "requests" /\ s.pays = op[o].pays /\ s.knew = op[o].knew
      BY <3>1 DEF Operations, Stages
    <3> HIDE DEF s
    <3>3. op' \in [Ops -> Operations] /\ op'[o] = s /\ \A p \in Ops \ {o} : op'[p] = op[p]
      BY <3>1, <3>2
    <3>4. Holding(o)'
      BY <1>1, <3>2, <3>3 DEF IInv, Holding
    <3> QED
      BY <1>3, <3>3, <3>4, HoldingKept DEF IInv
  <2> QED
    BY <2>1, <2>2
<1>5. TypeOK'
  BY <1>1, <1>2, <1>4, LatestType, ImportedCollections DEF TypeOK
<1>6. Registry!Known' = {e.id : e \in ToSet(LegacyNodes)}
  BY <1>1 DEF Registry!Known, Registry!ToSet, ToSet
<1>7. Collections'
  BY <1>1, <1>2, <1>6, ImportedCollections
     DEF Collections, Unimported, ToldStored, ChosenAlone, InvoiceNodeIsKnown, LinkIsLatest
<1>8. ToSet(invoices) = {}
  BY <1>2, EmptySet
<1> QED
  BY <1>4, <1>5, <1>7, <1>8 DEF IInv

LEMMA AdministrationHolds ==
    ASSUME IInv, Administers
    PROVE  IInv'
<1>1. imported /\ UNCHANGED <<imported, invoices, link, made, told, op>>
  BY DEF Administers
<1>2. TypeOK /\ ChosenAlone
  BY DEF IInv, Collections
<1>3. /\ nodes' \in Seq(Registry!Entries) /\ chosen' \in Nodes \cup {None}
      /\ Known \subseteq Known' /\ ChosenAlone'
  BY <1>2, RegistrationHolds, ActivationHolds DEF Administers
<1>4. TypeOK'
  BY <1>1, <1>2, <1>3 DEF TypeOK
<1>5. Collections'
  BY <1>1, <1>3 DEF IInv, Collections, Unimported, ToldStored, InvoiceNodeIsKnown, LinkIsLatest, Known
<1>6. Grows
  BY <1>1, <1>3 DEF Grows
<1>7. \A p \in Ops : Holding(p)'
  BY <1>1, <1>6, HoldingKept DEF IInv
<1> QED
  BY <1>4, <1>5, <1>7 DEF IInv

-----------------------------------------------------------------------------
(* The invariant *)

LEMMA InitHolds == Init => IInv
<1> SUFFICES ASSUME Init PROVE IInv
  OBVIOUS
<1>1. <<>> \in Seq(Invoices) /\ <<>> \in Seq(Registry!Entries)
  BY EmptySeq
<1>2. invoices \in Seq(Invoices) /\ nodes \in Seq(Registry!Entries)
  BY <1>1, ImportedCollections DEF Init
<1>3. Fresh \in Operations
  BY <1>1 DEF Fresh, Operations, Stages
<1>4. TypeOK
  BY <1>2, <1>3, LatestType, ImportedCollections DEF Init, TypeOK
<1>5. imported => Registry!Known = {e.id : e \in ToSet(LegacyNodes)}
  BY DEF Init, Registry!Known, Registry!ToSet, ToSet
<1>6. Collections
  BY <1>5, EmptySet, ImportedCollections
     DEF Init, Collections, Unimported, ToldStored, ChosenAlone, InvoiceNodeIsKnown, LinkIsLatest
<1>7. \A o \in Ops : Holding(o)
  BY DEF Init, Fresh, Holding
<1> QED
  BY <1>4, <1>6, <1>7 DEF IInv

LEMMA StepHolds == IInv /\ [Next]_vars => IInv' /\ ToSet(invoices) \subseteq ToSet(invoices')
<1> SUFFICES ASSUME IInv, [Next]_vars
             PROVE  IInv' /\ ToSet(invoices) \subseteq ToSet(invoices')
  OBVIOUS
<1>1. ASSUME NEW o \in Ops, Begins(o) \/ Reads(o) \/ Payment(o) \/ ImportCollides(o)
      PROVE  IInv' /\ invoices' = invoices
  BY <1>1, BeginningHolds, ReadingHolds, PaymentHolds, EndHolds
     DEF Begins, Reads, ReadsRequests, ReadsInvoices, Payment, RefusesOwn, Pays, ImportCollides,
         Passes, Moves, stored
<1>2. ASSUME NEW o \in Ops, Imports(o)
      PROVE  IInv' /\ ToSet(invoices) \subseteq ToSet(invoices')
  BY <1>2, ImportHolds DEF Imports
<1>3. ASSUME NEW o \in Ops, Invoicing(o) \/ Fails(o) \/ Crashes(o)
      PROVE  IInv' /\ ToSet(invoices) \subseteq ToSet(invoices')
  BY <1>3, OperationHolds, StoringHolds
<1>4. CASE AdminImports
  BY <1>4, ImportHolds DEF AdminImports
<1>5. CASE Administers
  BY <1>5, AdministrationHolds DEF Administers
<1>6. CASE UNCHANGED vars
  BY <1>6 DEF vars, stored, IInv, TypeOK, Collections, Unimported, ToldStored, ChosenAlone,
              InvoiceNodeIsKnown, LinkIsLatest, Holding, Known, Registry!Known, Registry!Active
<1> QED
  BY <1>1, <1>2, <1>3, <1>4, <1>5, <1>6 DEF Next, ImportEnds, AllEnded

LEMMA InvariantHolds == Spec => []IInv
<1> QED
  BY InitHolds, StepHolds, PTL DEF Spec

\* Every variable keeps its type, and LND made what a client was told of.
THEOREM TypeCorrect == Spec => []TypeOK
<1>1. IInv => TypeOK
  BY DEF IInv
<1> QED
  BY <1>1, InvariantHolds, PTL

\* Whoever was told of an invoice finds it stored.
THEOREM ToldFindStored == Spec => []ToldIsStored
<1>1. IInv => ToldIsStored
  BY DEF IInv, Collections, ToldStored, Holding, ToldIsStored
<1> QED
  BY <1>1, InvariantHolds, PTL

\* No step of any process loses a stored invoice.
THEOREM InvoicesStay == Spec => InvoicesAreKept
<1> QED
  BY StepHolds, InvariantHolds, PTL DEF Spec, InvoicesAreKept

\* A stored request is linked with the last invoice stored for it.
THEOREM LinksAgree == Spec => []LinkIsLatest
<1>1. IInv => LinkIsLatest
  BY DEF IInv, Collections
<1> QED
  BY <1>1, InvariantHolds, PTL

\* No operation pays an invoice of this node that a client had been told of.
THEOREM ToldStayUnpaid == Spec => []ToldInvoicesAreNotPaid
<1>1. IInv => ToldInvoicesAreNotPaid
  BY DEF IInv, Holding, ToldInvoicesAreNotPaid
<1> QED
  BY <1>1, InvariantHolds, PTL

\* The node of a stored invoice is registered.
THEOREM InvoiceNodesKnown == Spec => []InvoiceNodeIsKnown
<1>1. IInv => InvoiceNodeIsKnown
  BY DEF IInv, Collections
<1> QED
  BY <1>1, InvariantHolds, PTL

\* The node that was activated is the one in use and the one shown.
THEOREM ActivationsWork == Spec => []ActivationTakesEffect
<1>1. IInv => ActivationTakesEffect
  BY EffectOfActivation DEF IInv, Collections
<1> QED
  BY <1>1, InvariantHolds, PTL
=============================================================================

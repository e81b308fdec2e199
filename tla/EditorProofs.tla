---------------------------- MODULE EditorProofs ----------------------------
(***************************************************************************)
(* Proofs about the lesson editors: what the handlers keep of a graph, and *)
(* that storing a lesson and opening it again loses nothing.               *)
(***************************************************************************)
EXTENDS LessonEditor, FiniteSetTheorems, SequenceTheorems, WellFoundedInduction,
        TLAPS

AllOptions == OptionIds \cup Verdicts \cup {DefaultOutcome}

Conditions ==
  {Onward} \cup {optionEdgeCondition(o) : o \in AllOptions}
           \cup {outcomeEdgeCondition(o) : o \in AllOptions}

Graded(node) == node.type \in {"single_choice", "free_text"}

NodeOK(node) ==
  /\ node \in GraphNode
  /\ \A i, j \in DOMAIN node.options : node.options[i].id = node.options[j].id => i = j
  /\ \A i \in DOMAIN node.options : (node.options[i].verdict # None) <=> Graded(node)
  /\ (node.fallback # None) <=> (node.type = "free_text")
  /\ node.type \in {"single_choice", "decision"} => 1 \in DOMAIN node.options

Distinct(nodes) == \A i, j \in DOMAIN nodes : nodes[i].id = nodes[j].id => i = j

NodesOK(nodes) ==
  /\ nodes \in Seq(GraphNode)
  /\ Distinct(nodes)
  /\ \A i \in DOMAIN nodes : NodeOK(nodes[i])

(* Edges of which nothing is known but that they are edges, and those that *)
(* lead forward wherever both their ends are in the list.                  *)
RoughEdges(edges) ==
  /\ edges = [e \in DOMAIN edges |-> edges[e]]
  /\ DOMAIN edges \subseteq NodeIds \X Conditions

Leads(nodes, edges) ==
  \A e \in DOMAIN edges, i, j \in DOMAIN nodes :
    e[1] = nodes[i].id /\ edges[e] = nodes[j].id => i < j

(* The edges of a graph: every one is an output of a block.                *)
Output(nodes, i, e) ==
  e = <<nodes[i].id, e[2]>> /\ e[2] \in getNodeOutputConditions(nodes[i])

EdgesOK(nodes, edges) ==
  /\ edges = [e \in DOMAIN edges |-> edges[e]]
  /\ \A e \in DOMAIN edges : \E i, j \in DOMAIN nodes :
       i < j /\ Output(nodes, i, e) /\ edges[e] = nodes[j].id

GraphOK(g) ==
  /\ g = [start |-> g.start, nodes |-> g.nodes, edges |-> g.edges]
  /\ NodesOK(g.nodes)
  /\ EdgesOK(g.nodes, g.edges)
  /\ g.start \in Ids(g.nodes) \/ (g.start = None /\ g.nodes = <<>>)

-----------------------------------------------------------------------------
(* Lists of blocks and of options.                                         *)

LEMMA PlaceOf ==
  ASSUME NEW nodes, Distinct(nodes), NEW i \in DOMAIN nodes
  PROVE  /\ Position(nodes, nodes[i].id) = i
         /\ NodeOf(nodes, nodes[i].id) = nodes[i]
BY DEF Position, NodeOf, Distinct

LEMMA AnyPlace ==
  ASSUME NEW nodes, NEW n \in Ids(nodes)
  PROVE  /\ Position(nodes, n) \in DOMAIN nodes
         /\ nodes[Position(nodes, n)].id = n
         /\ NodeOf(nodes, n) = nodes[Position(nodes, n)]
BY DEF Position, NodeOf, Ids

LEMMA RemovedAt ==
  ASSUME NEW S, NEW s \in Seq(S), NEW p \in DOMAIN s
  PROVE  /\ RemoveAt(s, p) \in Seq(S)
         /\ Len(RemoveAt(s, p)) = Len(s) - 1
         /\ \A k \in DOMAIN RemoveAt(s, p) :
              /\ k \in DOMAIN s /\ k + 1 \in DOMAIN s
              /\ RemoveAt(s, p)[k] = IF k < p THEN s[k] ELSE s[k + 1]
<1> DEFINE l == SubSeq(s, 1, p - 1)
           r == SubSeq(s, p + 1, Len(s))
<1>1. Len(s) \in Nat /\ DOMAIN s = 1..Len(s) /\ p \in 1..Len(s)
  BY LenProperties
<1>2. \A k \in 1..Len(s) : s[k] \in S
  BY <1>1, ElementOfSeq
<1>3. /\ l \in Seq(S) /\ Len(l) = p - 1 /\ \A k \in 1..(p - 1) : l[k] = s[k]
  BY <1>1, <1>2, SMTT(30)
<1>4. /\ r \in Seq(S) /\ Len(r) = Len(s) - p /\ \A k \in 1..(Len(s) - p) : r[k] = s[p + k]
  <2>1. r \in Seq(S) /\ Len(r) = Len(s) - p
    BY <1>1, <1>2, SMTT(30)
  <2>2. ASSUME NEW k \in 1..(Len(s) - p)
        PROVE  r[k] = s[p + k]
    BY <1>1, SMTT(30)
  <2> QED BY <2>1, <2>2
<1>5. RemoveAt(s, p) = l \o r
  BY <1>1 DEF RemoveAt
<1> HIDE DEF l, r
<1>6. /\ l \o r \in Seq(S) /\ Len(l \o r) = Len(s) - 1
      /\ \A k \in 1..(Len(s) - 1) : (l \o r)[k] = IF k <= p - 1 THEN l[k] ELSE r[k - (p - 1)]
  <2>1. l \o r \in Seq(S) /\ Len(l \o r) = Len(l) + Len(r)
        /\ \A k \in 1..Len(l)+Len(r) : (l \o r)[k] = IF k <= Len(l) THEN l[k] ELSE r[k - Len(l)]
    BY <1>3, <1>4, ConcatProperties
  <2>2. Len(l) = p - 1 /\ Len(l) + Len(r) = Len(s) - 1
    BY <1>1, <1>3, <1>4
  <2> QED BY ONLY <2>1, <2>2
<1>7. DOMAIN (l \o r) = 1..(Len(s) - 1)
  BY <1>6, LenProperties
<1>8. \A k \in 1..(Len(s) - 1) :
        /\ k \in 1..Len(s) /\ k + 1 \in 1..Len(s)
        /\ (l \o r)[k] = IF k < p THEN s[k] ELSE s[k + 1]
  <2> TAKE k \in 1..(Len(s) - 1)
  <2>1. k \in 1..Len(s) /\ k + 1 \in 1..Len(s)
    BY <1>1
  <2>2. CASE k < p
    BY <2>1, <2>2, <1>1, <1>3, <1>6
  <2>3. CASE ~(k < p)
    <3>1. k - (p - 1) \in 1..(Len(s) - p) /\ ~(k <= p - 1) /\ p + (k - (p - 1)) = k + 1
      BY <2>3, <1>1
    <3> QED BY <2>1, <2>3, <3>1, <1>4, <1>6
  <2> QED BY <2>2, <2>3
<1> QED BY <1>1, <1>5, <1>6, <1>7, <1>8

LEMMA RemovedPlace ==
  ASSUME NEW S, NEW s, NEW p, s \in Seq(S), p \in DOMAIN s, NEW k \in DOMAIN RemoveAt(s, p)
  PROVE  /\ k \in DOMAIN s /\ k + 1 \in DOMAIN s
         /\ RemoveAt(s, p)[k] = IF k < p THEN s[k] ELSE s[k + 1]
BY RemovedAt

LEMMA InsertedAt ==
  ASSUME NEW S, NEW s \in Seq(S), NEW x \in S, NEW p \in 1..(Len(s) + 1)
  PROVE  /\ InsertAt(s, p, x) \in Seq(S)
         /\ Len(InsertAt(s, p, x)) = Len(s) + 1
         /\ \A k \in 1..(Len(s) + 1) :
              InsertAt(s, p, x)[k] = IF k < p THEN s[k] ELSE IF k = p THEN x ELSE s[k - 1]
<1> DEFINE l == SubSeq(s, 1, p - 1)
           m == Append(l, x)
           r == SubSeq(s, p, Len(s))
<1>1. Len(s) \in Nat /\ DOMAIN s = 1..Len(s) /\ p \in 1..(Len(s) + 1)
  BY LenProperties
<1>2. \A k \in 1..Len(s) : s[k] \in S
  BY <1>1, ElementOfSeq
<1>3. /\ l \in Seq(S) /\ Len(l) = p - 1 /\ \A k \in 1..(p - 1) : l[k] = s[k]
  BY <1>1, <1>2, SMTT(30)
<1>4. /\ r \in Seq(S) /\ Len(r) = Len(s) - p + 1
      /\ \A k \in 1..(Len(s) - p + 1) : r[k] = s[p + k - 1]
  BY <1>1, <1>2, SMTT(30)
<1> HIDE DEF l, r
<1>5. /\ m \in Seq(S) /\ Len(m) = p /\ m[p] = x /\ \A k \in 1..(p - 1) : m[k] = s[k]
  BY <1>1, <1>3, AppendProperties
<1>6. m = l \o <<x>>
  BY <1>3, AppendIsConcat
<1>7. InsertAt(s, p, x) = m \o r
  BY <1>6 DEF InsertAt, l, r
<1> HIDE DEF m
<1>8. /\ m \o r \in Seq(S) /\ Len(m \o r) = Len(m) + Len(r)
      /\ \A k \in 1..Len(m)+Len(r) : (m \o r)[k] = IF k <= Len(m) THEN m[k] ELSE r[k - Len(m)]
  BY <1>4, <1>5, ConcatProperties
<1>9. Len(m) + Len(r) = Len(s) + 1
  BY <1>1, <1>4, <1>5
<1>10. \A k \in 1..(Len(s) + 1) :
        (m \o r)[k] = IF k < p THEN s[k] ELSE IF k = p THEN x ELSE s[k - 1]
  <2> TAKE k \in 1..(Len(s) + 1)
  <2>1. CASE k <= p
    BY <2>1, <1>1, <1>5, <1>8, <1>9
  <2>2. CASE ~(k <= p)
    <3>1. k - p \in 1..(Len(s) - p + 1) /\ p + (k - p) - 1 = k - 1
      BY <2>2, <1>1
    <3>2. (m \o r)[k] = r[k - p]
      BY <2>2, <1>1, <1>5, <1>8, <1>9
    <3>3. r[k - p] = s[p + (k - p) - 1]
      BY <3>1, <1>4
    <3> QED BY <2>2, <3>1, <3>2, <3>3, <1>1
  <2> QED BY <2>1, <2>2
<1> QED BY <1>7, <1>8, <1>9, <1>10

LEMMA InsertedPlace ==
  ASSUME NEW S, NEW s, NEW x, NEW p, s \in Seq(S), x \in S, p \in 1..(Len(s) + 1),
         NEW k \in 1..(Len(s) + 1)
  PROVE  InsertAt(s, p, x)[k] = IF k < p THEN s[k] ELSE IF k = p THEN x ELSE s[k - 1]
BY InsertedAt

-----------------------------------------------------------------------------
(* Outputs of blocks, and what normalisation keeps.                        *)

LEMMA OptionsAreTyped ==
  ASSUME NEW node \in GraphNode
  PROVE  /\ node.options \in Seq(Choice)
         /\ \A i \in DOMAIN node.options : node.options[i] \in Choice
<1>1. node.options \in Seq(Choice)
  BY DEF GraphNode
<1> QED BY <1>1, LenProperties, ElementOfSeq

LEMMA OutputsAreConditions ==
  ASSUME NEW node \in GraphNode
  PROVE  getNodeOutputConditions(node) \subseteq Conditions
<1>1. OptionsOf(node) \subseteq AllOptions
  BY OptionsAreTyped DEF OptionsOf, Choice, AllOptions
<1> QED BY <1>1 DEF getNodeOutputConditions, Conditions, AllOptions, GraphNode, Kinds

LEMMA ValidIsOutput ==
  ASSUME NEW node \in GraphNode, NEW c \in Conditions
  PROVE  isValidEdgeForNode(node, c) <=> c \in getNodeOutputConditions(node)
<1>1. OptionsOf(node) \subseteq AllOptions
  BY OptionsAreTyped DEF OptionsOf, Choice, AllOptions
<1>2. CASE c = Onward
  BY <1>1, <1>2 DEF isValidEdgeForNode, getNodeOutputConditions, Onward, optionEdgeCondition,
    outcomeEdgeCondition, GraphNode, Kinds
<1>3. CASE \E o \in AllOptions : c = optionEdgeCondition(o)
  BY <1>1, <1>3 DEF isValidEdgeForNode, getNodeOutputConditions, Onward, optionEdgeCondition,
    outcomeEdgeCondition, GraphNode, Kinds
<1>4. CASE \E o \in AllOptions : c = outcomeEdgeCondition(o)
  BY <1>1, <1>4 DEF isValidEdgeForNode, getNodeOutputConditions, Onward, optionEdgeCondition,
    outcomeEdgeCondition, GraphNode, Kinds
<1> QED BY <1>2, <1>3, <1>4 DEF Conditions

LEMMA EdgesAreRough ==
  ASSUME NEW nodes, NEW edges, NodesOK(nodes), EdgesOK(nodes, edges)
  PROVE  RoughEdges(edges) /\ Leads(nodes, edges)
<1>1. \A i \in DOMAIN nodes : nodes[i] \in GraphNode /\ nodes[i].id \in NodeIds
  BY DEF NodesOK, NodeOK, GraphNode
<1>2. ASSUME NEW e \in DOMAIN edges
      PROVE  e \in NodeIds \X Conditions
  <2>1. PICK i \in DOMAIN nodes : Output(nodes, i, e)
    BY DEF EdgesOK
  <2> QED BY <2>1, <1>1, OutputsAreConditions DEF Output
<1>3. ASSUME NEW e \in DOMAIN edges, NEW i \in DOMAIN nodes, NEW j \in DOMAIN nodes,
             e[1] = nodes[i].id, edges[e] = nodes[j].id
      PROVE  i < j
  <2>1. PICK k, l \in DOMAIN nodes : k < l /\ Output(nodes, k, e) /\ edges[e] = nodes[l].id
    BY DEF EdgesOK
  <2>2. e[1] = nodes[k].id
    BY <2>1 DEF Output
  <2>3. k = i /\ l = j
    BY <2>1, <2>2, <1>3 DEF NodesOK, Distinct
  <2> QED BY <2>1, <2>3
<1> QED BY <1>2, <1>3 DEF RoughEdges, Leads, EdgesOK

LEMMA Normalised ==
  ASSUME NEW h, NodesOK(h.nodes), RoughEdges(h.edges), Leads(h.nodes, h.edges)
  PROVE  /\ GraphOK(normalizeLessonGraph(h))
         /\ normalizeLessonGraph(h).nodes = h.nodes
<1> DEFINE g == normalizeLessonGraph(h)
           fit == {e \in DOMAIN h.edges :
                     /\ e[1] \in Ids(h.nodes) /\ h.edges[e] \in Ids(h.nodes)
                     /\ isValidEdgeForNode(NodeOf(h.nodes, e[1]), e[2])}
<1>1. g = [start |-> IF h.start \in Ids(h.nodes) THEN h.start ELSE FirstId(h.nodes),
           nodes |-> h.nodes, edges |-> [e \in fit |-> h.edges[e]]]
  BY DEF normalizeLessonGraph, Kept
<1>2. ASSUME NEW e \in fit
      PROVE  \E i, j \in DOMAIN h.nodes :
               i < j /\ Output(h.nodes, i, e) /\ h.edges[e] = h.nodes[j].id
  <2>1. PICK i \in DOMAIN h.nodes : h.nodes[i].id = e[1]
    BY DEF Ids
  <2>2. PICK j \in DOMAIN h.nodes : h.nodes[j].id = h.edges[e]
    BY DEF Ids
  <2>3. i < j
    BY <2>1, <2>2 DEF Leads
  <2>4. e = <<e[1], e[2]>> /\ e[2] \in Conditions
    BY DEF RoughEdges
  <2>5. NodeOf(h.nodes, e[1]) = h.nodes[i] /\ h.nodes[i] \in GraphNode
    BY <2>1, PlaceOf DEF NodesOK, NodeOK
  <2>6. e[2] \in getNodeOutputConditions(h.nodes[i])
    BY <2>4, <2>5, ValidIsOutput
  <2> QED BY <2>1, <2>2, <2>3, <2>4, <2>6 DEF Output
<1>3. g.start \in Ids(g.nodes) \/ (g.start = None /\ g.nodes = <<>>)
  <2>1. CASE h.nodes = <<>>
    BY <2>1, <1>1 DEF FirstId, Ids
  <2>2. CASE h.nodes # <<>>
    <3>1. 1 \in DOMAIN h.nodes
      BY <2>2, EmptySeq, LenProperties DEF NodesOK
    <3> QED BY <2>2, <3>1, <1>1 DEF FirstId, Ids
  <2> QED BY <2>1, <2>2
<1>4. g.edges = [e \in fit |-> h.edges[e]] /\ g.nodes = h.nodes
  BY <1>1
<1> HIDE DEF fit
<1>5. EdgesOK(g.nodes, g.edges)
  BY <1>2, <1>4 DEF EdgesOK
<1>6. g = [start |-> g.start, nodes |-> g.nodes, edges |-> g.edges]
  BY <1>1
<1> HIDE DEF g
<1>7. GraphOK(g) /\ g.nodes = h.nodes
  BY <1>3, <1>4, <1>5, <1>6 DEF GraphOK
<1> QED BY <1>7 DEF g

LEMMA NormalAlready ==
  ASSUME NEW g, GraphOK(g)
  PROVE  normalizeLessonGraph(g) = g
<1> DEFINE fit == {e \in DOMAIN g.edges :
                     /\ e[1] \in Ids(g.nodes) /\ g.edges[e] \in Ids(g.nodes)
                     /\ isValidEdgeForNode(NodeOf(g.nodes, e[1]), e[2])}
<1>1. normalizeLessonGraph(g)
        = [start |-> IF g.start \in Ids(g.nodes) THEN g.start ELSE FirstId(g.nodes),
           nodes |-> g.nodes, edges |-> [e \in fit |-> g.edges[e]]]
  BY DEF normalizeLessonGraph, Kept
<1>2. ASSUME NEW e \in DOMAIN g.edges
      PROVE  e \in fit
  <2>1. PICK i, j \in DOMAIN g.nodes : Output(g.nodes, i, e) /\ g.edges[e] = g.nodes[j].id
    BY DEF GraphOK, EdgesOK
  <2>2. NodeOf(g.nodes, e[1]) = g.nodes[i] /\ g.nodes[i] \in GraphNode
    BY <2>1, PlaceOf DEF Output, GraphOK, NodesOK, NodeOK
  <2>3. isValidEdgeForNode(NodeOf(g.nodes, e[1]), e[2])
    BY <2>1, <2>2, ValidIsOutput, OutputsAreConditions DEF Output
  <2>4. e[1] = g.nodes[i].id
    BY <2>1 DEF Output
  <2>5. e[1] \in Ids(g.nodes) /\ g.edges[e] \in Ids(g.nodes)
    BY <2>1, <2>4 DEF Ids
  <2> QED BY <2>3, <2>5
<1>3. fit = DOMAIN g.edges
  BY <1>2
<1>4. [e \in fit |-> g.edges[e]] = g.edges
  BY <1>3 DEF GraphOK, EdgesOK
<1> HIDE DEF fit
<1>5. (IF g.start \in Ids(g.nodes) THEN g.start ELSE FirstId(g.nodes)) = g.start
  BY DEF GraphOK, FirstId
<1> QED BY <1>1, <1>4, <1>5 DEF GraphOK

-----------------------------------------------------------------------------
(* The handlers.                                                           *)

(* What a handler makes of the list, bounded by what it was.               *)
Within(nodes, old) == Len(nodes) <= Len(old) /\ Ids(nodes) \subseteq Ids(old)

LEMMA GraphIsRough ==
  ASSUME NEW g, GraphOK(g)
  PROVE  NodesOK(g.nodes) /\ RoughEdges(g.edges) /\ Leads(g.nodes, g.edges)
BY EdgesAreRough DEF GraphOK

LEMMA KeptEdges ==
  ASSUME NEW edges, RoughEdges(edges), NEW D \in SUBSET DOMAIN edges
  PROVE  /\ RoughEdges(Kept(edges, D))
         /\ DOMAIN Kept(edges, D) = D
         /\ \A e \in D : Kept(edges, D)[e] = edges[e]
         /\ \A nodes : Leads(nodes, edges) => Leads(nodes, Kept(edges, D))
<1> DEFINE k == [e \in D |-> edges[e]]
<1>1. Kept(edges, D) = k
  BY DEF Kept
<1>2. DOMAIN k = D /\ \A e \in D : k[e] = edges[e]
  OBVIOUS
<1>3. k = [e \in DOMAIN k |-> k[e]]
  OBVIOUS
<1> HIDE DEF k
<1>4. RoughEdges(k)
  BY <1>2, <1>3 DEF RoughEdges
<1>5. \A nodes : Leads(nodes, edges) => Leads(nodes, k)
  BY <1>2 DEF Leads
<1> QED BY <1>1, <1>2, <1>4, <1>5

LEMMA Drawn ==
  ASSUME NEW nodes, NodesOK(nodes), NEW new \in Seq(GraphNode),
         NEW q \in [DOMAIN new -> DOMAIN nodes],
         \A k \in DOMAIN new : new[k] = nodes[q[k]],
         \A k, l \in DOMAIN new : q[k] = q[l] => k = l
  PROVE  NodesOK(new) /\ Ids(new) \subseteq Ids(nodes)
<1>1. Distinct(new)
  BY DEF NodesOK, Distinct
<1>2. \A k \in DOMAIN new : NodeOK(new[k])
  BY DEF NodesOK
<1>3. Ids(new) \subseteq Ids(nodes)
  BY DEF Ids
<1> QED BY <1>1, <1>2, <1>3 DEF NodesOK

LEMMA Removes ==
  ASSUME NEW g, GraphOK(g), NEW n \in Ids(g.nodes)
  PROVE  /\ GraphOK(removeNode(g, n))
         /\ Within(removeNode(g, n).nodes, g.nodes)
<1> DEFINE p == Position(g.nodes, n)
           left == RemoveAt(g.nodes, p)
           D == {e \in DOMAIN g.edges : e[1] # n /\ g.edges[e] # n}
           h == [start |-> IF g.start = n THEN FirstId(left) ELSE g.start,
                 nodes |-> left, edges |-> Kept(g.edges, D)]
           q == [k \in DOMAIN left |-> IF k < p THEN k ELSE k + 1]
<1>1. removeNode(g, n) = normalizeLessonGraph(h)
  BY DEF removeNode
<1>2. /\ NodesOK(g.nodes) /\ g.nodes \in Seq(GraphNode)
      /\ RoughEdges(g.edges) /\ Leads(g.nodes, g.edges)
  BY GraphIsRough DEF NodesOK
<1>3. p \in DOMAIN g.nodes
  BY AnyPlace
<1> HIDE DEF p
<1>4. /\ left \in Seq(GraphNode) /\ Len(left) = Len(g.nodes) - 1
      /\ \A k \in DOMAIN left :
           /\ k \in DOMAIN g.nodes /\ k + 1 \in DOMAIN g.nodes
           /\ left[k] = IF k < p THEN g.nodes[k] ELSE g.nodes[k + 1]
  BY <1>2, <1>3, RemovedAt
<1>5. DOMAIN left \subseteq Nat /\ p \in Nat /\ DOMAIN g.nodes = 1..Len(g.nodes)
      /\ Len(g.nodes) \in Nat
  BY <1>2, <1>3, <1>4, LenProperties
<1> HIDE DEF left
<1>6. /\ q \in [DOMAIN left -> DOMAIN g.nodes]
      /\ \A k \in DOMAIN left : q[k] = (IF k < p THEN k ELSE k + 1) /\ left[k] = g.nodes[q[k]]
  BY <1>4
<1> HIDE DEF q
<1>7. \A k, l \in DOMAIN left : q[k] = q[l] => k = l
  BY <1>5, <1>6
<1>8. NodesOK(left) /\ Ids(left) \subseteq Ids(g.nodes)
  <2>1. \A k \in DOMAIN left : left[k] = g.nodes[q[k]]
    BY <1>6
  <2>2. NodesOK(g.nodes) /\ left \in Seq(GraphNode) /\ q \in [DOMAIN left -> DOMAIN g.nodes]
    BY <1>2, <1>4, <1>6
  <2> QED BY <1>7, <2>1, <2>2, Drawn
<1>9. /\ RoughEdges(Kept(g.edges, D)) /\ DOMAIN Kept(g.edges, D) = D
      /\ \A e \in D : Kept(g.edges, D)[e] = g.edges[e]
  BY <1>2, KeptEdges
<1>10. Leads(left, Kept(g.edges, D))
  <2> SUFFICES ASSUME NEW e \in D, NEW k \in DOMAIN left, NEW l \in DOMAIN left,
                      e[1] = left[k].id, g.edges[e] = left[l].id
               PROVE  k < l
    BY <1>9 DEF Leads
  <2>1. q[k] \in DOMAIN g.nodes /\ q[l] \in DOMAIN g.nodes
        /\ e[1] = g.nodes[q[k]].id /\ g.edges[e] = g.nodes[q[l]].id
    BY <1>6
  <2>2. q[k] < q[l]
    BY <2>1, <1>2 DEF Leads
  <2> QED BY <2>2, <1>5, <1>6
<1>11. h.nodes = left /\ h.edges = Kept(g.edges, D)
  OBVIOUS
<1> HIDE DEF h
<1>12. /\ GraphOK(normalizeLessonGraph(h))
       /\ normalizeLessonGraph(h).nodes = left
  BY <1>8, <1>9, <1>10, <1>11, Normalised
<1>13. Len(left) <= Len(g.nodes)
  BY <1>4, <1>5
<1> QED BY <1>1, <1>8, <1>12, <1>13 DEF Within

LEMMA Reorders ==
  ASSUME NEW g, GraphOK(g), NEW i \in DOMAIN g.nodes, NEW j \in DOMAIN g.nodes
  PROVE  /\ GraphOK(reorderGraphNodes(g, i, j))
         /\ Within(reorderGraphNodes(g, i, j).nodes, g.nodes)
<1> DEFINE left == RemoveAt(g.nodes, i)
           moved == InsertAt(left, j, g.nodes[i])
           D == {e \in DOMAIN g.edges : isForwardEdge(moved, g.edges, e)}
           h == [g EXCEPT !.nodes = moved, !.edges = Kept(@, D)]
           q == [k \in DOMAIN moved |->
                   IF k = j THEN i
                   ELSE IF k < j THEN IF k < i THEN k ELSE k + 1
                        ELSE IF k - 1 < i THEN k - 1 ELSE k]
<1>1. /\ NodesOK(g.nodes) /\ g.nodes \in Seq(GraphNode)
      /\ RoughEdges(g.edges) /\ Leads(g.nodes, g.edges)
      /\ g = [start |-> g.start, nodes |-> g.nodes, edges |-> g.edges]
  BY GraphIsRough DEF NodesOK, GraphOK
<1>2. CASE i = j
  <2>1. reorderGraphNodes(g, i, j) = g
    BY <1>2, NormalAlready DEF reorderGraphNodes
  <2>2. Len(g.nodes) \in Nat
    BY <1>1, LenProperties
  <2> QED BY <2>1, <2>2 DEF Within
<1>3. CASE i # j
  <2>1. reorderGraphNodes(g, i, j) = normalizeLessonGraph(h)
    BY <1>3 DEF reorderGraphNodes
  <2>2. Len(g.nodes) \in Nat /\ DOMAIN g.nodes = 1..Len(g.nodes) /\ g.nodes[i] \in GraphNode
    BY <1>1, LenProperties, ElementOfSeq
  <2>3. /\ left \in Seq(GraphNode) /\ Len(left) = Len(g.nodes) - 1
        /\ \A k \in DOMAIN left : left[k] = IF k < i THEN g.nodes[k] ELSE g.nodes[k + 1]
    BY <1>1, RemovedAt
  <2>4. DOMAIN left = 1..(Len(g.nodes) - 1) /\ j \in 1..(Len(left) + 1)
    BY <2>2, <2>3, LenProperties
  <2> HIDE DEF left
  <2>5. /\ moved \in Seq(GraphNode) /\ Len(moved) = Len(left) + 1
        /\ \A k \in 1..(Len(left) + 1) :
             moved[k] = IF k < j THEN left[k] ELSE IF k = j THEN g.nodes[i] ELSE left[k - 1]
    <3>1. PICK x \in GraphNode : x = g.nodes[i]
      BY <2>2
    <3>2. left \in Seq(GraphNode) /\ j \in 1..(Len(left) + 1) /\ x \in GraphNode
      BY <2>3, <2>4
    <3>3. InsertAt(left, j, x) \in Seq(GraphNode) /\ Len(InsertAt(left, j, x)) = Len(left) + 1
      BY <3>2, InsertedAt
    <3>4. ASSUME NEW k \in 1..(Len(left) + 1)
          PROVE  InsertAt(left, j, x)[k]
                   = IF k < j THEN left[k] ELSE IF k = j THEN x ELSE left[k - 1]
      BY <3>2, InsertedPlace
    <3> QED BY <3>1, <3>3, <3>4
  <2>6. DOMAIN moved = DOMAIN g.nodes /\ Len(moved) = Len(g.nodes)
    BY <2>2, <2>3, <2>5, LenProperties
  <2> HIDE DEF moved
  <2>7. /\ q \in [DOMAIN moved -> DOMAIN g.nodes]
        /\ \A k \in DOMAIN moved :
             q[k] = IF k = j THEN i
                    ELSE IF k < j THEN IF k < i THEN k ELSE k + 1
                         ELSE IF k - 1 < i THEN k - 1 ELSE k
    BY <2>2, <2>6
  <2> HIDE DEF q
  <2>8. ASSUME NEW k \in DOMAIN moved
        PROVE  moved[k] = g.nodes[q[k]]
    <3>1. CASE k = j
      BY <3>1, <2>2, <2>3, <2>4, <2>5, <2>7
    <3>2. CASE k < j
      <4>1. k \in 1..(Len(left) + 1) /\ k \in DOMAIN left
        BY <3>2, <2>2, <2>3, <2>4, <2>6
      <4>2. moved[k] = left[k] /\ left[k] = IF k < i THEN g.nodes[k] ELSE g.nodes[k + 1]
        BY <3>2, <4>1, <2>3, <2>5
      <4> QED BY <3>2, <4>2, <2>2, <2>6, <2>7
    <3>3. CASE k > j
      <4>1. k \in 1..(Len(left) + 1) /\ k - 1 \in DOMAIN left
        BY <3>3, <2>2, <2>3, <2>4, <2>6
      <4>2. moved[k] = left[k - 1]
        <5>1. k \in Nat /\ j \in Nat /\ ~(k < j) /\ k # j
          BY <3>3, <2>2, <2>6
        <5>2. moved[k] = IF k < j THEN left[k] ELSE IF k = j THEN g.nodes[i] ELSE left[k - 1]
          BY <4>1, <2>5
        <5> QED BY <5>1, <5>2
      <4>4. left[k - 1] = IF k - 1 < i THEN g.nodes[k - 1] ELSE g.nodes[(k - 1) + 1]
        BY <4>1, <2>3
      <4>3. (k - 1) + 1 = k /\ q[k] = IF k - 1 < i THEN k - 1 ELSE k
        BY <3>3, <2>2, <2>6, <2>7
      <4> QED BY <4>2, <4>3, <4>4
    <3> QED BY <3>1, <3>2, <3>3, <2>2, <2>6
  <2>9. \A k, l \in DOMAIN moved : q[k] = q[l] => k = l
    BY <2>2, <2>6, <2>7, SMTT(30)
  <2>10. NodesOK(moved) /\ Ids(moved) \subseteq Ids(g.nodes)
    <3>1. NodesOK(g.nodes) /\ moved \in Seq(GraphNode) /\ q \in [DOMAIN moved -> DOMAIN g.nodes]
      BY <1>1, <2>5, <2>7
    <3> QED BY <3>1, <2>8, <2>9, Drawn
  <2>11. /\ RoughEdges(Kept(g.edges, D)) /\ DOMAIN Kept(g.edges, D) = D
         /\ \A e \in D : Kept(g.edges, D)[e] = g.edges[e]
    BY <1>1, KeptEdges
  <2>12. Leads(moved, Kept(g.edges, D))
    <3> SUFFICES ASSUME NEW e \in D, NEW k \in DOMAIN moved, NEW l \in DOMAIN moved,
                        e[1] = moved[k].id, g.edges[e] = moved[l].id
                 PROVE  k < l
      BY <2>11 DEF Leads
    <3>1. Position(moved, e[1]) = k /\ Position(moved, g.edges[e]) = l
      BY <2>10, PlaceOf DEF NodesOK
    <3>2. l > k
      BY <3>1 DEF isForwardEdge
    <3> QED BY <3>2, <2>2, <2>6
  <2>13. h.nodes = moved /\ h.edges = Kept(g.edges, D)
    BY <1>1
  <2> HIDE DEF h
  <2>14. GraphOK(normalizeLessonGraph(h)) /\ normalizeLessonGraph(h).nodes = moved
    BY <2>10, <2>11, <2>12, <2>13, Normalised
  <2> QED BY <2>1, <2>2, <2>6, <2>10, <2>14 DEF Within
<1> QED BY <1>2, <1>3

(* One block is changed and remains itself.                                *)
LEMMA Changes ==
  ASSUME NEW g, NodesOK(g.nodes), RoughEdges(g.edges), Leads(g.nodes, g.edges),
         g = [start |-> g.start, nodes |-> g.nodes, edges |-> g.edges],
         NEW node, NodeOK(node)
  PROVE  /\ GraphOK(changeNode(g, node))
         /\ Within(changeNode(g, node).nodes, g.nodes)
<1> DEFINE new == [k \in DOMAIN g.nodes |->
                     IF g.nodes[k].id = node.id THEN node ELSE g.nodes[k]]
           h == [g EXCEPT !.nodes = new]
<1>1. changeNode(g, node) = normalizeLessonGraph(h)
  BY DEF changeNode
<1>2. h.nodes = new /\ h.edges = g.edges
  OBVIOUS
<1>3. Len(g.nodes) \in Nat /\ DOMAIN g.nodes = 1..Len(g.nodes)
      /\ \A k \in DOMAIN g.nodes : g.nodes[k] \in GraphNode /\ node \in GraphNode
  BY LenProperties DEF NodesOK, NodeOK
<1>4. /\ DOMAIN new = DOMAIN g.nodes
      /\ \A k \in DOMAIN g.nodes :
           new[k] = (IF g.nodes[k].id = node.id THEN node ELSE g.nodes[k])
           /\ new[k].id = g.nodes[k].id
  OBVIOUS
<1>5. new \in [1..Len(g.nodes) -> GraphNode]
  BY <1>3
<1>6. new \in Seq(GraphNode) /\ Len(new) = Len(g.nodes)
  BY <1>3, <1>5, SeqDef, LenProperties
<1> HIDE DEF new, h
<1>7. NodesOK(new)
  <2>1. Distinct(new)
    BY <1>4 DEF NodesOK, Distinct
  <2>2. \A k \in DOMAIN new : NodeOK(new[k])
    BY <1>4 DEF NodesOK
  <2> QED BY <1>6, <2>1, <2>2 DEF NodesOK
<1>8. Leads(new, g.edges)
  BY <1>4 DEF Leads
<1>9. Ids(new) \subseteq Ids(g.nodes)
  BY <1>4 DEF Ids
<1>10. GraphOK(normalizeLessonGraph(h)) /\ normalizeLessonGraph(h).nodes = new
  BY <1>2, <1>7, <1>8, Normalised
<1> QED BY <1>1, <1>3, <1>6, <1>9, <1>10 DEF Within

Smaller == {pair \in Nat \X Nat : pair[1] < pair[2]}

LEMMA SmallerIsWellFounded == IsWellFoundedOn(Smaller, Nat)
<1>1. OpToRel(<, Nat) = Smaller
  BY DEF OpToRel, Smaller
<1> QED BY <1>1, NatLessThanWellFounded

LEMMA LeastPlace ==
  ASSUME NEW S \in SUBSET Nat, S # {}
  PROVE  \E i \in S : \A j \in S : i <= j
<1>1. S \subseteq Nat /\ S # {}
  OBVIOUS
<1>2. PICK i \in S : \A j \in S : <<j, i>> \notin Smaller
  BY <1>1, SmallerIsWellFounded, WFMin
<1>3. ASSUME NEW j \in S
      PROVE  i <= j
  <2>1. i \in Nat /\ j \in Nat /\ <<j, i>> \in Nat \X Nat
    BY <1>1
  <2>2. ~(j < i)
    BY <2>1, <1>2 DEF Smaller
  <2> QED BY <2>1, <2>2
<1> QED BY <1>2, <1>3

LEMMA Connects ==
  ASSUME NEW nodes, NodesOK(nodes), NEW edges, RoughEdges(edges), Leads(nodes, edges),
         NEW i \in DOMAIN nodes, NEW j \in DOMAIN nodes, i < j
  PROVE  /\ RoughEdges(connectMissingNodeOutputs(edges, nodes[i], nodes[j].id))
         /\ Leads(nodes, connectMissingNodeOutputs(edges, nodes[i], nodes[j].id))
<1> DEFINE missing == {<<nodes[i].id, c>> : c \in getNodeOutputConditions(nodes[i])}
                        \ DOMAIN edges
           new == [e \in DOMAIN edges \cup missing |->
                     IF e \in missing THEN nodes[j].id ELSE edges[e]]
<1>1. nodes[i] \in GraphNode /\ nodes[i].id \in NodeIds /\ nodes[j].id \in NodeIds
  BY DEF NodesOK, NodeOK, GraphNode
<1>2. connectMissingNodeOutputs(edges, nodes[i], nodes[j].id) = new
  BY <1>1, IdAssumption DEF connectMissingNodeOutputs
<1>3. /\ missing \subseteq NodeIds \X Conditions
      /\ \A e \in missing : e[1] = nodes[i].id /\ e \notin DOMAIN edges
  BY <1>1, OutputsAreConditions
<1> HIDE DEF missing
<1>4. /\ DOMAIN new = DOMAIN edges \cup missing /\ new = [e \in DOMAIN new |-> new[e]]
      /\ \A e \in DOMAIN new : new[e] = IF e \in missing THEN nodes[j].id ELSE edges[e]
  OBVIOUS
<1> HIDE DEF new
<1>5. RoughEdges(new)
  BY <1>3, <1>4 DEF RoughEdges
<1>6. Leads(nodes, new)
  <2> SUFFICES ASSUME NEW e \in DOMAIN new, NEW k \in DOMAIN nodes, NEW l \in DOMAIN nodes,
                      e[1] = nodes[k].id, new[e] = nodes[l].id
               PROVE  k < l
    BY DEF Leads
  <2>1. CASE e \in missing
    <3>1. nodes[k].id = nodes[i].id /\ nodes[l].id = nodes[j].id
      BY <2>1, <1>3, <1>4
    <3>2. k = i /\ l = j
      BY <3>1 DEF NodesOK, Distinct
    <3> QED BY <3>2
  <2>2. CASE e \notin missing
    BY <2>2, <1>4 DEF Leads
  <2> QED BY <2>1, <2>2
<1> QED BY <1>2, <1>5, <1>6

LEMMA Retargets ==
  ASSUME NEW nodes, NodesOK(nodes), NEW edges, RoughEdges(edges), Leads(nodes, edges),
         NEW i \in DOMAIN nodes, NEW j \in DOMAIN nodes, i < j, NEW old
  PROVE  /\ RoughEdges(retargetNodeOutputs(edges, nodes[i], old, nodes[j].id))
         /\ Leads(nodes, retargetNodeOutputs(edges, nodes[i], old, nodes[j].id))
<1> DEFINE moves(e) == /\ e[1] = nodes[i].id /\ e[2] \in getNodeOutputConditions(nodes[i])
                       /\ edges[e] = old
           new == [e \in DOMAIN edges |-> IF moves(e) THEN nodes[j].id ELSE edges[e]]
<1>1. retargetNodeOutputs(edges, nodes[i], old, nodes[j].id) = new
  BY DEF retargetNodeOutputs
<1>2. /\ DOMAIN new = DOMAIN edges /\ new = [e \in DOMAIN new |-> new[e]]
      /\ \A e \in DOMAIN new : new[e] = IF moves(e) THEN nodes[j].id ELSE edges[e]
  OBVIOUS
<1>3. \A e : moves(e) => e[1] = nodes[i].id
  OBVIOUS
<1> HIDE DEF new, moves
<1>4. RoughEdges(new)
  BY <1>2 DEF RoughEdges
<1>5. Leads(nodes, new)
  <2> SUFFICES ASSUME NEW e \in DOMAIN new, NEW k \in DOMAIN nodes, NEW l \in DOMAIN nodes,
                      e[1] = nodes[k].id, new[e] = nodes[l].id
               PROVE  k < l
    BY DEF Leads
  <2>1. CASE moves(e)
    <3>1. nodes[k].id = nodes[i].id /\ nodes[l].id = nodes[j].id
      BY <2>1, <1>2, <1>3
    <3>2. k = i /\ l = j
      BY <3>1 DEF NodesOK, Distinct
    <3> QED BY <3>2
  <2>2. CASE ~moves(e)
    BY <2>2, <1>2 DEF Leads
  <2> QED BY <2>1, <2>2
<1> QED BY <1>1, <1>4, <1>5

(* A new block in the list: the others stay in order around it.            *)
LEMMA Inserts ==
  ASSUME NEW nodes, NodesOK(nodes), NEW edges, EdgesOK(nodes, edges),
         NEW node, NodeOK(node), node.id \notin Ids(nodes), NEW at \in 1..(Len(nodes) + 1)
  PROVE  LET new == InsertAt(nodes, at, node) IN
         /\ NodesOK(new) /\ Leads(new, edges)
         /\ Len(new) = Len(nodes) + 1 /\ Ids(new) \subseteq Ids(nodes) \cup {node.id}
         /\ new[at] = node
         /\ \A k \in DOMAIN nodes : new[IF k < at THEN k ELSE k + 1] = nodes[k]
<1> DEFINE new == InsertAt(nodes, at, node)
<1>1. /\ nodes \in Seq(GraphNode) /\ node \in GraphNode /\ Len(nodes) \in Nat
      /\ DOMAIN nodes = 1..Len(nodes) /\ at \in 1..(Len(nodes) + 1)
  BY LenProperties DEF NodesOK, NodeOK
<1>2. /\ new \in Seq(GraphNode) /\ Len(new) = Len(nodes) + 1
      /\ \A k \in 1..(Len(nodes) + 1) :
           new[k] = IF k < at THEN nodes[k] ELSE IF k = at THEN node ELSE nodes[k - 1]
  <2>1. InsertAt(nodes, at, node) \in Seq(GraphNode)
        /\ Len(InsertAt(nodes, at, node)) = Len(nodes) + 1
    BY <1>1, InsertedAt
  <2>2. ASSUME NEW k \in 1..(Len(nodes) + 1)
        PROVE  InsertAt(nodes, at, node)[k]
                 = IF k < at THEN nodes[k] ELSE IF k = at THEN node ELSE nodes[k - 1]
    BY <1>1, InsertedPlace
  <2> QED BY <2>1, <2>2
<1>3. DOMAIN new = 1..(Len(nodes) + 1)
  BY <1>2, LenProperties
<1> HIDE DEF new
<1>4. new[at] = node
  BY <1>1, <1>2
<1>5. ASSUME NEW k \in DOMAIN new, k # at
      PROVE  \E i \in DOMAIN nodes : /\ k = (IF i < at THEN i ELSE i + 1)
                                     /\ new[k] = nodes[i]
  <2>1. CASE k < at
    BY <2>1, <1>1, <1>2, <1>3
  <2>2. CASE k > at
    <3>1. k - 1 \in DOMAIN nodes /\ ~(k - 1 < at) /\ (k - 1) + 1 = k /\ new[k] = nodes[k - 1]
      BY <2>2, <1>1, <1>2, <1>3
    <3> QED BY <3>1
  <2> QED BY <1>5, <2>1, <2>2, <1>1, <1>3
<1>6. \A k \in DOMAIN nodes : nodes[k].id # node.id /\ nodes[k].id \in Ids(nodes)
  BY DEF Ids
<1>7. Distinct(new)
  <2> SUFFICES ASSUME NEW k \in DOMAIN new, NEW l \in DOMAIN new, new[k].id = new[l].id
               PROVE  k = l
    BY DEF Distinct
  <2>1. CASE k = at \/ l = at
    BY <2>1, <1>4, <1>5, <1>6
  <2>2. CASE k # at /\ l # at
    <3>1. PICK i \in DOMAIN nodes : k = (IF i < at THEN i ELSE i + 1) /\ new[k] = nodes[i]
      BY <2>2, <1>5
    <3>2. PICK j \in DOMAIN nodes : l = (IF j < at THEN j ELSE j + 1) /\ new[l] = nodes[j]
      BY <2>2, <1>5
    <3>3. i = j
      BY <3>1, <3>2 DEF NodesOK, Distinct
    <3> QED BY <3>1, <3>2, <3>3
  <2> QED BY <2>1, <2>2
<1>8. \A k \in DOMAIN new : NodeOK(new[k])
  BY <1>4, <1>5 DEF NodesOK
<1>9. Ids(new) \subseteq Ids(nodes) \cup {node.id}
  BY <1>4, <1>5, <1>6 DEF Ids
<1>10. Leads(new, edges)
  <2> SUFFICES ASSUME NEW e \in DOMAIN edges, NEW k \in DOMAIN new, NEW l \in DOMAIN new,
                      e[1] = new[k].id, edges[e] = new[l].id
               PROVE  k < l
    BY DEF Leads
  <2>1. PICK i, j \in DOMAIN nodes : i < j /\ Output(nodes, i, e) /\ edges[e] = nodes[j].id
    BY DEF EdgesOK
  <2>2. e[1] = nodes[i].id
    BY <2>1 DEF Output
  <2>3. k # at /\ l # at
    BY <2>1, <2>2, <1>4, <1>6
  <2>4. PICK m \in DOMAIN nodes : k = (IF m < at THEN m ELSE m + 1) /\ new[k] = nodes[m]
    BY <2>3, <1>5
  <2>5. PICK p \in DOMAIN nodes : l = (IF p < at THEN p ELSE p + 1) /\ new[l] = nodes[p]
    BY <2>3, <1>5
  <2>6. m = i /\ p = j
    BY <2>1, <2>2, <2>4, <2>5 DEF NodesOK, Distinct
  <2> QED BY <2>1, <2>4, <2>5, <2>6, <1>1
<1>11. ASSUME NEW k \in DOMAIN nodes
       PROVE  new[IF k < at THEN k ELSE k + 1] = nodes[k]
  <2>1. CASE k < at
    BY <2>1, <1>1, <1>2
  <2>2. CASE ~(k < at)
    <3>1. k + 1 \in 1..(Len(nodes) + 1) /\ ~(k + 1 < at) /\ k + 1 # at /\ (k + 1) - 1 = k
      BY <2>2, <1>1
    <3> QED BY <2>2, <3>1, <1>2
  <2> QED BY <2>1, <2>2
<1>12. NodesOK(new)
  BY <1>2, <1>7, <1>8 DEF NodesOK
<1>13. /\ NodesOK(new) /\ Leads(new, edges)
       /\ Len(new) = Len(nodes) + 1 /\ Ids(new) \subseteq Ids(nodes) \cup {node.id}
       /\ new[at] = node
       /\ \A k \in DOMAIN nodes : new[IF k < at THEN k ELSE k + 1] = nodes[k]
  BY <1>2, <1>4, <1>9, <1>10, <1>11, <1>12
<1> QED BY <1>13 DEF new

LEMMA Adds ==
  ASSUME NEW g, GraphOK(g), NEW node, NodeOK(node), node.id \notin Ids(g.nodes)
  PROVE  /\ GraphOK(addNode(g, node))
         /\ Len(addNode(g, node).nodes) <= Len(g.nodes) + 1
         /\ Ids(addNode(g, node).nodes) \subseteq Ids(g.nodes) \cup {node.id}
<1> DEFINE ends == Terminals(g.nodes)
           isEnd == node.type = "terminal"
           at == IF isEnd \/ ends = {} THEN Len(g.nodes) + 1
                 ELSE CHOOSE i \in ends : \A j \in ends : i <= j
           new == InsertAt(g.nodes, at, node)
           before == g.nodes[at - 1]
           tied == IF at = 1 THEN g.edges
                   ELSE IF isEnd \/ ends = {}
                        THEN connectMissingNodeOutputs(g.edges, before, node.id)
                        ELSE connectMissingNodeOutputs(
                               retargetNodeOutputs(g.edges, before, g.nodes[at].id, node.id),
                               node, g.nodes[at].id)
           h == [start |-> IF g.start \in Ids(g.nodes) THEN g.start ELSE FirstId(new),
                 nodes |-> new, edges |-> tied]
<1>1. /\ NodesOK(g.nodes) /\ g.nodes \in Seq(GraphNode) /\ EdgesOK(g.nodes, g.edges)
      /\ RoughEdges(g.edges) /\ Leads(g.nodes, g.edges)
      /\ Len(g.nodes) \in Nat /\ DOMAIN g.nodes = 1..Len(g.nodes)
  BY GraphIsRough, LenProperties DEF NodesOK, GraphOK
<1>2. CASE isEnd /\ ends # {}
  BY <1>1, <1>2, NormalAlready DEF addNode
<1>3. CASE ~(isEnd /\ ends # {})
  <2>1. addNode(g, node) = normalizeLessonGraph(h)
    BY <1>3 DEF addNode
  <2>2. ends \subseteq 1..Len(g.nodes)
    BY <1>1 DEF Terminals
  <2>3. /\ isEnd \/ ends = {} => at = Len(g.nodes) + 1
        /\ ~(isEnd \/ ends = {}) => at \in ends
    <3>1. CASE isEnd \/ ends = {}
      BY <3>1
    <3>2. CASE ~(isEnd \/ ends = {})
      <4>1. \E i \in ends : \A j \in ends : i <= j
        <5>1. ends \subseteq Nat /\ ends # {}
          BY <3>2, <2>2
        <5> QED BY <5>1, LeastPlace
      <4> QED BY <3>2, <4>1
    <3> QED BY <3>1, <3>2
  <2> HIDE DEF ends, at
  <2>4. at \in 1..(Len(g.nodes) + 1)
    <3>1. CASE isEnd \/ ends = {}
      <4>1. at = Len(g.nodes) + 1
        BY <3>1, <2>3
      <4>2. Len(g.nodes) \in Nat
        BY <1>1
      <4> QED BY <4>1, <4>2
    <3>2. CASE ~(isEnd \/ ends = {})
      <4>1. at \in ends
        BY <3>2, <2>3
      <4>2. at \in 1..Len(g.nodes)
        BY <4>1, <2>2
      <4>3. Len(g.nodes) \in Nat
        BY <1>1
      <4> QED BY <4>2, <4>3
    <3> QED BY <3>1, <3>2
  <2>5. /\ NodesOK(new) /\ Leads(new, g.edges)
        /\ Len(new) = Len(g.nodes) + 1 /\ Ids(new) \subseteq Ids(g.nodes) \cup {node.id}
        /\ new[at] = node
        /\ \A k \in DOMAIN g.nodes : new[IF k < at THEN k ELSE k + 1] = g.nodes[k]
    BY <1>1, <2>4, Inserts
  <2>6. DOMAIN new = 1..(Len(g.nodes) + 1)
    BY <2>5, LenProperties DEF NodesOK
  <2> HIDE DEF new
  <2>7. RoughEdges(tied) /\ Leads(new, tied)
    <3>1. CASE at = 1
      BY <3>1, <1>1, <2>5
    <3>2. CASE at # 1 /\ (isEnd \/ ends = {})
      <4>1. at - 1 \in DOMAIN new /\ at \in DOMAIN new /\ at - 1 < at
        BY <3>2, <2>4, <2>6, <1>1
      <4>2. new[at - 1] = before
        <5>1. at - 1 \in DOMAIN g.nodes /\ at - 1 < at
          BY <3>2, <2>4, <1>1
        <5>2. \A k \in DOMAIN g.nodes : new[IF k < at THEN k ELSE k + 1] = g.nodes[k]
          BY <2>5
        <5> QED BY <5>1, <5>2
      <4>3. PICK i \in DOMAIN new : i = at - 1
        BY <4>1
      <4>4. /\ RoughEdges(connectMissingNodeOutputs(g.edges, new[i], new[at].id))
            /\ Leads(new, connectMissingNodeOutputs(g.edges, new[i], new[at].id))
        BY <4>1, <4>3, <1>1, <2>5, Connects
      <4> QED BY <3>2, <4>2, <4>3, <4>4, <2>5
    <3>3. CASE at # 1 /\ ~(isEnd \/ ends = {})
      <4>1. at \in DOMAIN g.nodes
        BY <3>3, <2>2, <2>3, <1>1
      <4>2. /\ at - 1 \in DOMAIN new /\ at \in DOMAIN new /\ at + 1 \in DOMAIN new
            /\ at - 1 < at /\ at < at + 1
        BY <3>3, <4>1, <2>4, <2>6, <1>1
      <4>3. new[at - 1] = before /\ new[at + 1] = g.nodes[at]
        BY <3>3, <4>1, <2>4, <2>5, <1>1
      <4>4. PICK i \in DOMAIN new : i = at - 1
        BY <4>2
      <4>5. PICK l \in DOMAIN new : l = at + 1
        BY <4>2
      <4>6. PICK r : r = retargetNodeOutputs(g.edges, new[i], g.nodes[at].id, new[at].id)
        OBVIOUS
      <4>7. RoughEdges(r) /\ Leads(new, r)
        BY <4>2, <4>4, <4>6, <1>1, <2>5, Retargets
      <4>8. /\ RoughEdges(connectMissingNodeOutputs(r, new[at], new[l].id))
            /\ Leads(new, connectMissingNodeOutputs(r, new[at], new[l].id))
        BY <4>2, <4>5, <4>7, <2>5, Connects
      <4>9. tied = connectMissingNodeOutputs(r, new[at], new[l].id)
        BY <3>3, <4>3, <4>4, <4>5, <4>6, <2>5
      <4> QED BY <4>8, <4>9
    <3> QED BY <3>1, <3>2, <3>3
  <2> HIDE DEF tied
  <2>8. h.nodes = new /\ h.edges = tied
    OBVIOUS
  <2> HIDE DEF h
  <2>9. GraphOK(normalizeLessonGraph(h)) /\ normalizeLessonGraph(h).nodes = new
    BY <2>5, <2>7, <2>8, Normalised
  <2>10. Len(new) <= Len(g.nodes) + 1
    BY <2>5, <1>1
  <2> QED BY <2>1, <2>5, <2>9, <2>10
<1> QED BY <1>2, <1>3

(* An exit is led to a block further on, or nowhere.                       *)
LEMMA LeadsOn ==
  ASSUME NEW g, GraphOK(g), NEW i \in DOMAIN g.nodes, NEW c \in Conditions,
         NEW to \in getForwardTargetNodes(g.nodes, g.nodes[i].id) \cup {None}
  PROVE  /\ GraphOK(setNextNode(g, g.nodes[i].id, c, to))
         /\ Within(setNextNode(g, g.nodes[i].id, c, to).nodes, g.nodes)
<1> DEFINE n == g.nodes[i].id
           others == DOMAIN g.edges \ {<<n, c>>}
           set == [e \in others \cup {<<n, c>>} |-> IF e = <<n, c>> THEN to ELSE g.edges[e]]
           new == setGraphEdgeTarget(g.edges, n, c, to)
           h == [g EXCEPT !.edges = new]
<1>1. /\ NodesOK(g.nodes) /\ g.nodes \in Seq(GraphNode) /\ Len(g.nodes) \in Nat
      /\ RoughEdges(g.edges) /\ Leads(g.nodes, g.edges)
      /\ g = [start |-> g.start, nodes |-> g.nodes, edges |-> g.edges]
  BY GraphIsRough, LenProperties DEF NodesOK, GraphOK
<1>2. setNextNode(g, n, c, to) = normalizeLessonGraph(h)
  BY DEF setNextNode
<1>3. h.nodes = g.nodes /\ h.edges = new
  BY <1>1
<1>4. RoughEdges(new) /\ Leads(g.nodes, new)
  <2>1. CASE to = None
    <3>1. new = Kept(g.edges, others)
      BY <2>1 DEF setGraphEdgeTarget
    <3> QED BY <3>1, <1>1, KeptEdges
  <2>2. CASE to # None
    <3>1. new = set
      BY <2>2 DEF setGraphEdgeTarget
    <3>2. /\ DOMAIN set = others \cup {<<n, c>>} /\ set = [e \in DOMAIN set |-> set[e]]
          /\ \A e \in DOMAIN set : set[e] = IF e = <<n, c>> THEN to ELSE g.edges[e]
      OBVIOUS
    <3>3. n \in NodeIds
      BY <1>1 DEF NodesOK, NodeOK, GraphNode
    <3>4. RoughEdges(set)
      <4> HIDE DEF set
      <4> QED BY <3>2, <3>3, <1>1 DEF RoughEdges
    <3>5. PICK j \in DOMAIN g.nodes : to = g.nodes[j].id /\ j > i
      <4>1. Position(g.nodes, n) = i /\ n \in Ids(g.nodes)
        BY <1>1, PlaceOf DEF NodesOK, Ids
      <4> QED BY <2>2, <4>1 DEF getForwardTargetNodes
    <3> HIDE DEF set
    <3>6. Leads(g.nodes, set)
      <4> SUFFICES ASSUME NEW e \in DOMAIN set, NEW k \in DOMAIN g.nodes,
                          NEW l \in DOMAIN g.nodes,
                          e[1] = g.nodes[k].id, set[e] = g.nodes[l].id
                   PROVE  k < l
        BY DEF Leads
      <4>1. CASE e = <<n, c>>
        <5>1. g.nodes[k].id = g.nodes[i].id /\ g.nodes[l].id = g.nodes[j].id
          BY <4>1, <3>2, <3>5
        <5>2. k = i /\ l = j
          BY <5>1, <1>1 DEF NodesOK, Distinct
        <5>3. DOMAIN g.nodes = 1..Len(g.nodes)
          BY <1>1, LenProperties
        <5> QED BY <5>2, <5>3, <3>5, <1>1
      <4>2. CASE e # <<n, c>>
        BY <4>2, <3>2, <1>1 DEF Leads
      <4> QED BY <4>1, <4>2
    <3> QED BY <3>1, <3>4, <3>6
  <2> QED BY <2>1, <2>2
<1> HIDE DEF h, new
<1>5. GraphOK(normalizeLessonGraph(h)) /\ normalizeLessonGraph(h).nodes = g.nodes
  BY <1>1, <1>3, <1>4, Normalised
<1> QED BY <1>1, <1>2, <1>5 DEF Within

-----------------------------------------------------------------------------
(* Changes of one block.                                                   *)

LEMMA FreshIsNew ==
  ASSUME NEW S, IsFiniteSet(S), Cardinality(S) < MaxOptions
  PROVE  FreshOption(S) \in NewOptions /\ FreshOption(S) \notin S
<1>1. ~(NewOptions \subseteq S)
  <2> SUFFICES ASSUME NewOptions \subseteq S
               PROVE  FALSE
    OBVIOUS
  <2>1. Cardinality(NewOptions) <= Cardinality(S)
    BY FS_Subset
  <2>2. Cardinality(S) \in Nat /\ Cardinality(NewOptions) \in Nat
    BY FS_CardinalityType, EditorAssumption
  <2> QED BY <2>1, <2>2, EditorAssumption
<1>2. \E o \in NewOptions : o \notin S
  BY <1>1
<1> QED BY <1>2 DEF FreshOption

LEMMA OptionsAreFew ==
  ASSUME NEW node \in GraphNode
  PROVE  IsFiniteSet(OptionsOf(node)) /\ Cardinality(OptionsOf(node)) <= Len(node.options)
<1> DEFINE n == Len(node.options)
           f == [i \in 1..n |-> node.options[i].id]
<1>1. n \in Nat /\ DOMAIN node.options = 1..n
  BY OptionsAreTyped, LenProperties
<1>2. f \in Surjection(1..n, OptionsOf(node))
  <2>1. f \in [1..n -> OptionsOf(node)]
    BY <1>1 DEF OptionsOf
  <2>2. \A o \in OptionsOf(node) : \E i \in 1..n : f[i] = o
    BY <1>1 DEF OptionsOf
  <2> QED BY <2>1, <2>2 DEF Surjection
<1> HIDE DEF f
<1>3. IsFiniteSet(1..n) /\ Cardinality(1..n) = n
  <2>1. 1 \in Int /\ n \in Int
    BY <1>1
  <2>2. Cardinality(1..n) = IF 1 > n THEN 0 ELSE n - 1 + 1
    BY <2>1, FS_Interval
  <2>3. IsFiniteSet(1..n)
    BY <2>1, FS_Interval
  <2> QED BY <1>1, <2>2, <2>3
<1> HIDE DEF n
<1>4. IsFiniteSet(OptionsOf(node)) /\ Cardinality(OptionsOf(node)) <= Cardinality(1..n)
  BY <1>2, <1>3, FS_Surjection
<1> QED BY <1>3, <1>4 DEF n

LEMMA CreatedOK ==
  ASSUME NEW type \in Kinds, NEW id \in NodeIds
  PROVE  NodeOK(createNode(type, id)) /\ createNode(type, id).id = id
<1>1. /\ FreshOption({}) \in NewOptions
      /\ FreshOption({FreshOption({})}) \in NewOptions
      /\ FreshOption({FreshOption({})}) # FreshOption({})
  <2>1. FreshOption({}) \in NewOptions
    <3>1. IsFiniteSet({}) /\ Cardinality({}) = 0
      BY FS_EmptySet
    <3> QED BY <3>1, FreshIsNew, EditorAssumption
  <2>2. PICK o : o = FreshOption({})
    OBVIOUS
  <2>3. IsFiniteSet({o}) /\ Cardinality({o}) = 1
    BY FS_Singleton
  <2>4. FreshOption({o}) \in NewOptions /\ FreshOption({o}) \notin {o}
    BY <2>3, FreshIsNew, EditorAssumption
  <2> QED BY <2>1, <2>2, <2>4
<1>2. PICK x \in OptionIds : x = FreshOption({})
  BY <1>1, EditorAssumption
<1>3. PICK y \in OptionIds : y = FreshOption({x}) /\ y # x
  BY <1>1, <1>2, EditorAssumption
<1> DEFINE two(a, b) == <<[id |-> x, verdict |-> a], [id |-> y, verdict |-> b]>>
           options == CASE type \in {"single_choice", "free_text"} -> two("correct", "incorrect")
                        [] type = "decision" -> two(None, None)
                        [] OTHER -> <<>>
           node == [id |-> id, type |-> type, filled |-> type \in {"single_choice", "terminal"},
                    options |-> options,
                    fallback |-> IF type = "free_text" THEN "incorrect" ELSE None]
<1>4. createNode(type, id) = node
  BY <1>2, <1>3 DEF createNode
<1>5. \A a, b \in Verdicts \cup {None} :
        /\ two(a, b) \in Seq(Choice) /\ DOMAIN two(a, b) = 1..2
        /\ two(a, b)[1].id = x /\ two(a, b)[2].id = y
        /\ two(a, b)[1].verdict = a /\ two(a, b)[2].verdict = b
  BY DEF Choice
<1>6. <<>> \in Seq(Choice) /\ DOMAIN <<>> = {}
  OBVIOUS
<1> HIDE DEF two
<1>7. /\ options \in Seq(Choice)
      /\ \A i, j \in DOMAIN options : options[i].id = options[j].id => i = j
      /\ \A i \in DOMAIN options :
           (options[i].verdict # None) <=> (type \in {"single_choice", "free_text"})
      /\ type \in {"single_choice", "decision"} => 1 \in DOMAIN options
  <2>1. CASE type \in {"single_choice", "free_text"}
    <3>1. options = two("correct", "incorrect") /\ {"correct", "incorrect"} \subseteq Verdicts
      BY <2>1 DEF Verdicts
    <3>2. None \notin {"correct", "incorrect"}
      BY <3>1, IdAssumption
    <3> HIDE DEF options
    <3>3. /\ options \in Seq(Choice) /\ DOMAIN options = 1..2
          /\ options[1].id = x /\ options[2].id = y
          /\ options[1].verdict = "correct" /\ options[2].verdict = "incorrect"
      BY <3>1, <1>5
    <3> QED BY <2>1, <3>2, <3>3, <1>3
  <2>2. CASE type = "decision"
    <3>1. options = two(None, None)
      BY <2>2
    <3> HIDE DEF options
    <3>2. /\ options \in Seq(Choice) /\ DOMAIN options = 1..2
          /\ options[1].id = x /\ options[2].id = y
          /\ options[1].verdict = None /\ options[2].verdict = None
      BY <3>1, <1>5
    <3> QED BY <2>2, <3>2, <1>3
  <2>3. CASE type \notin {"single_choice", "free_text", "decision"}
    <3>1. options = <<>>
      BY <2>3
    <3> HIDE DEF options
    <3> QED BY <2>3, <3>1, <1>6
  <2> QED BY <2>1, <2>2, <2>3
<1> HIDE DEF options
<1>8. "incorrect" \in Verdicts /\ "incorrect" # None
  BY IdAssumption DEF Verdicts
<1>9. NodeOK(node) /\ node.id = id
  BY <1>7, <1>8 DEF NodeOK, GraphNode, Graded
<1> QED BY <1>4, <1>9

LEMMA WithOptionOK ==
  ASSUME NEW node, NodeOK(node), Len(node.options) < MaxOptions,
         NEW v \in Verdicts \cup {None}, (v # None) <=> Graded(node)
  PROVE  NodeOK(WithOption(node, v)) /\ WithOption(node, v).id = node.id
<1>1. node \in GraphNode /\ node.options \in Seq(Choice)
  BY OptionsAreTyped DEF NodeOK
<1>2. FreshOption(OptionsOf(node)) \in OptionIds
      /\ FreshOption(OptionsOf(node)) \notin OptionsOf(node)
  <2>1. Cardinality(OptionsOf(node)) \in Nat /\ Len(node.options) \in Nat
    BY <1>1, OptionsAreFew, FS_CardinalityType, LenProperties
  <2>2. IsFiniteSet(OptionsOf(node)) /\ Cardinality(OptionsOf(node)) < MaxOptions
    BY <1>1, <2>1, OptionsAreFew, EditorAssumption
  <2> QED BY <2>2, FreshIsNew, EditorAssumption
<1>3. PICK p \in Choice : p = [id |-> FreshOption(OptionsOf(node)), verdict |-> v]
  BY <1>2 DEF Choice
<1>4. p.id \notin OptionsOf(node) /\ p.verdict = v
  BY <1>2, <1>3
<1> DEFINE os == Append(node.options, p)
           n == Len(node.options)
           new == [node EXCEPT !.filled = FALSE, !.options = os]
<1>5. WithOption(node, v) = new
  BY <1>3 DEF WithOption
<1>6. /\ n \in Nat /\ DOMAIN node.options = 1..n
      /\ os \in Seq(Choice) /\ DOMAIN os = 1..(n + 1)
      /\ os[n + 1] = p /\ \A i \in 1..n : os[i] = node.options[i]
  BY <1>1, AppendProperties, LenProperties
<1> HIDE DEF os, n
<1>7. \A i \in 1..(n + 1) : i = n + 1 \/ i \in 1..n
  BY <1>6
<1>8. \A i \in 1..n : node.options[i].id \in OptionsOf(node)
  BY <1>6 DEF OptionsOf
<1>9. \A i, j \in DOMAIN os : os[i].id = os[j].id => i = j
  BY <1>4, <1>6, <1>7, <1>8 DEF NodeOK
<1>10. \A i \in DOMAIN os : (os[i].verdict # None) <=> Graded(node)
  BY <1>4, <1>6, <1>7 DEF NodeOK
<1>11. /\ new \in GraphNode /\ new.options = os /\ new.type = node.type
       /\ new.id = node.id /\ new.fallback = node.fallback
  BY <1>1, <1>6 DEF GraphNode
<1>12. 1 \in DOMAIN os
  BY <1>6
<1> HIDE DEF new
<1>13. NodeOK(new)
  BY <1>9, <1>10, <1>11, <1>12 DEF NodeOK, Graded
<1> QED BY <1>5, <1>11, <1>13

LEMMA WithoutOptionOK ==
  ASSUME NEW node, NodeOK(node), Len(node.options) > 1, NEW o \in OptionsOf(node)
  PROVE  NodeOK(WithoutOption(node, o)) /\ WithoutOption(node, o).id = node.id
<1>1. node \in GraphNode /\ node.options \in Seq(Choice)
  BY OptionsAreTyped DEF NodeOK
<1> DEFINE p == Position(node.options, o)
           os == RemoveAt(node.options, p)
           new == [node EXCEPT !.options = os]
<1>2. p \in DOMAIN node.options
  BY DEF Position, OptionsOf
<1>3. WithoutOption(node, o) = new
  BY DEF WithoutOption
<1> HIDE DEF p
<1>4. Len(os) = Len(node.options) - 1
  BY <1>1, <1>2, RemovedAt
<1>5. os \in Seq(Choice)
  BY <1>1, <1>2, RemovedAt
<1>6. ASSUME NEW k \in DOMAIN os
       PROVE  /\ k \in DOMAIN node.options /\ k + 1 \in DOMAIN node.options
              /\ os[k] = IF k < p THEN node.options[k] ELSE node.options[k + 1]
  BY <1>1, <1>2, RemovedPlace
<1>7. DOMAIN node.options \subseteq Nat /\ Len(node.options) \in Nat
  BY <1>1, LenProperties
<1> HIDE DEF os
<1>8. \A i, j \in DOMAIN os : os[i].id = os[j].id => i = j
  <2> SUFFICES ASSUME NEW i \in DOMAIN os, NEW j \in DOMAIN os, os[i].id = os[j].id
               PROVE  i = j
    OBVIOUS
  <2>1. \A k, l \in DOMAIN node.options : node.options[k].id = node.options[l].id => k = l
    BY DEF NodeOK
  <2>2. (IF i < p THEN i ELSE i + 1) = (IF j < p THEN j ELSE j + 1)
    BY <1>6, <2>1
  <2>3. i \in Nat /\ j \in Nat /\ p \in Nat
    BY <1>2, <1>7, <1>6
  <2> QED BY <2>2, <2>3
<1>9. \A i \in DOMAIN os : (os[i].verdict # None) <=> Graded(node)
  BY <1>6 DEF NodeOK
<1>10. /\ new \in GraphNode /\ new.options = os /\ new.type = node.type
      /\ new.id = node.id /\ new.fallback = node.fallback
  BY <1>1, <1>5 DEF GraphNode
<1>11. 1 \in DOMAIN os
  BY <1>7, <1>4, <1>5, LenProperties
<1> HIDE DEF new
<1>12. NodeOK(new)
  BY <1>8, <1>9, <1>10, <1>11 DEF NodeOK, Graded
<1> QED BY <1>3, <1>10, <1>12

Regraded(node, o, v) ==
  [node EXCEPT !.options = [i \in DOMAIN node.options |->
    IF node.options[i].id = o THEN [node.options[i] EXCEPT !.verdict = v]
    ELSE node.options[i]]]

LEMMA SetVerdictOK ==
  ASSUME NEW node, NodeOK(node), Graded(node), NEW o, NEW v \in Verdicts
  PROVE  NodeOK(Regraded(node, o, v))
<1> DEFINE n == Len(node.options)
           os == [i \in DOMAIN node.options |->
                    IF node.options[i].id = o THEN [node.options[i] EXCEPT !.verdict = v]
                    ELSE node.options[i]]
           new == [node EXCEPT !.options = os]
<1>0. Regraded(node, o, v) = new
  BY DEF Regraded
<1>1. /\ node \in GraphNode /\ node.options \in Seq(Choice)
      /\ n \in Nat /\ DOMAIN node.options = 1..n
      /\ \A i \in DOMAIN node.options : node.options[i] \in Choice
  BY OptionsAreTyped, LenProperties DEF NodeOK
<1>2. v # None
  BY IdAssumption
<1>3. ASSUME NEW i \in DOMAIN node.options
      PROVE  /\ os[i] \in Choice /\ os[i].id = node.options[i].id
             /\ os[i].verdict # None
  <2>1. node.options[i].verdict # None /\ node.options[i] \in Choice
    BY <1>1 DEF NodeOK
  <2>2. CASE node.options[i].id = o
    BY <2>1, <2>2, <1>2 DEF Choice
  <2>3. CASE node.options[i].id # o
    BY <2>1, <2>3
  <2> QED BY <2>2, <2>3
<1>4. os \in [1..n -> Choice] /\ DOMAIN os = DOMAIN node.options
  BY <1>1, <1>3
<1> HIDE DEF os
<1>5. os \in Seq(Choice)
  BY <1>1, <1>4, SeqDef
<1>6. \A i, j \in DOMAIN os : os[i].id = os[j].id => i = j
  BY <1>3, <1>4 DEF NodeOK
<1>7. /\ new \in GraphNode /\ new.options = os /\ new.type = node.type
      /\ new.id = node.id /\ new.fallback = node.fallback
  BY <1>1, <1>5 DEF GraphNode
<1> HIDE DEF new
<1>8. NodeOK(new)
  BY <1>3, <1>4, <1>6, <1>7 DEF NodeOK, Graded
<1> QED BY <1>0, <1>8

LEMMA SetTextsOK ==
  ASSUME NEW node, NodeOK(node)
  PROVE  /\ \A filled \in BOOLEAN : NodeOK([node EXCEPT !.filled = filled])
         /\ node.type = "free_text" =>
              \A v \in Verdicts : NodeOK([node EXCEPT !.fallback = v])
<1>1. ASSUME NEW filled \in BOOLEAN
      PROVE  NodeOK([node EXCEPT !.filled = filled])
  BY DEF NodeOK, GraphNode, Graded
<1>2. ASSUME node.type = "free_text", NEW v \in Verdicts
      PROVE  NodeOK([node EXCEPT !.fallback = v])
  BY <1>2, IdAssumption DEF NodeOK, GraphNode, Graded
<1> QED BY <1>1, <1>2

-----------------------------------------------------------------------------
(* Opening a stored lesson.                                                *)

LEMMA StoredOptions ==
  ASSUME NEW node \in StoredGraphNode
  PROVE  /\ node.options \in Seq(Exits)
         /\ \A i \in DOMAIN node.options : node.options[i] \in Exits
<1>1. node.options \in Seq(Exits)
  BY DEF StoredGraphNode
<1> QED BY <1>1, LenProperties, ElementOfSeq

LEMMA DefaultIs ==
  ASSUME NEW node \in StoredGraphNode, isStoredNode(node), node.kind = "free_text"
  PROVE  /\ DefaultExit(node) \in Exits
         /\ DefaultExit(node).id = DefaultOutcome
         /\ DefaultExit(node).verdict \in Verdicts
<1>1. CASE node.rubric # "outcomes"
  <2> DEFINE wrong == CHOOSE i \in DOMAIN node.options : node.options[i].verdict = "incorrect"
  <2>1. wrong \in DOMAIN node.options /\ node.options[wrong].verdict = "incorrect"
    BY <1>1 DEF isStoredNode
  <2>2. DefaultExit(node) = [node.options[wrong] EXCEPT !.id = DefaultOutcome]
    BY <1>1 DEF DefaultExit
  <2> HIDE DEF wrong
  <2>3. node.options[wrong] \in Exits
    BY <2>1, StoredOptions
  <2> QED BY <2>1, <2>2, <2>3 DEF Exits, Verdicts
<1>2. CASE node.rubric = "outcomes"
  <2>1. DefaultExit(node) = node.fallback /\ node.fallback \in Exits \cup {NoExit}
        /\ node.fallback.id = DefaultOutcome /\ node.fallback.verdict \in Verdicts
    BY <1>2 DEF DefaultExit, isStoredNode, StoredGraphNode
  <2>2. CASE node.fallback \in Exits
    BY <2>1, <2>2
  <2>3. CASE node.fallback = NoExit
    <3>1. node.fallback.verdict = None
      BY <2>3 DEF NoExit, StoredExit
    <3> QED BY <2>1, <3>1, IdAssumption
  <2> QED BY <2>1, <2>2, <2>3
<1> QED BY <1>1, <1>2

LEMMA LoadedOptions ==
  ASSUME NEW node
  PROVE  /\ OptionsOf(LoadedNode(node)) = {node.options[i].id : i \in DOMAIN node.options}
         /\ LoadedNode(node).type = TypeOf(node.kind)
         /\ LoadedNode(node).id = node.id
<1> DEFINE os == [i \in DOMAIN node.options |->
                    [id |-> node.options[i].id, verdict |-> node.options[i].verdict]]
<1>1. LoadedNode(node).options = os /\ LoadedNode(node).type = TypeOf(node.kind)
      /\ LoadedNode(node).id = node.id
  BY DEF LoadedNode
<1>2. DOMAIN os = DOMAIN node.options
      /\ \A i \in DOMAIN node.options : os[i].id = node.options[i].id
  OBVIOUS
<1> HIDE DEF os
<1> QED BY <1>1, <1>2 DEF OptionsOf

(* What an output of a block leads to is one thing.                        *)
LEMMA ExitsAre ==
  ASSUME NEW node \in StoredGraphNode, isStoredNode(node)
  PROVE  /\ \A x \in ExitsOf(node) : /\ x = <<x[1], x[2]>> /\ x[2] \in NodeIds \cup {None}
                                     /\ x[1] \in getNodeOutputConditions(LoadedNode(node))
         /\ \A c \in getNodeOutputConditions(LoadedNode(node)) : \E x \in ExitsOf(node) : x[1] = c
         /\ \A x, y \in ExitsOf(node) : x[1] = y[1] => x = y
<1> DEFINE exits == {node.options[i] : i \in DOMAIN node.options}
           conds == getNodeOutputConditions(LoadedNode(node))
<1>1. /\ \A o \in exits : o \in Exits /\ o.to \in NodeIds \cup {None} /\ o.id # DefaultOutcome
      /\ \A o, p \in exits : o.id = p.id => o = p
  BY StoredOptions DEF isStoredNode, Exits
<1>2. /\ OptionsOf(LoadedNode(node)) = {o.id : o \in exits}
      /\ LoadedNode(node).type = TypeOf(node.kind)
  BY LoadedOptions
<1>3. node.kind \in {"story", "single_choice", "free_text", "decision", "end"}
      /\ node.next \in NodeIds \cup {None}
  BY DEF StoredGraphNode, KindOf, Kinds
<1> HIDE DEF exits
<1>4. CASE node.kind = "story"
  <2>1. ExitsOf(node) = {<<Onward, node.next>>}
    BY <1>4 DEF ExitsOf
  <2>2. conds = {Onward}
    BY <1>2, <1>4 DEF getNodeOutputConditions, TypeOf
  <2> QED BY <1>3, <2>1, <2>2
<1>5. CASE node.kind \in {"single_choice", "decision"}
  <2>1. ExitsOf(node) = {<<optionEdgeCondition(o.id), o.to>> : o \in exits}
    BY <1>5 DEF ExitsOf, exits
  <2>2. conds = {optionEdgeCondition(o.id) : o \in exits}
    BY <1>2, <1>5 DEF getNodeOutputConditions, TypeOf
  <2>3. \A o, p \in exits : optionEdgeCondition(o.id) = optionEdgeCondition(p.id) => o = p
    BY <1>1 DEF optionEdgeCondition
  <2>4. ASSUME NEW x \in ExitsOf(node)
        PROVE  x = <<x[1], x[2]>> /\ x[2] \in NodeIds \cup {None} /\ x[1] \in conds
    <3>1. PICK o \in exits : x = <<optionEdgeCondition(o.id), o.to>>
      BY <2>1
    <3> QED BY <3>1, <2>2, <1>1
  <2>5. ASSUME NEW c \in conds
        PROVE  \E x \in ExitsOf(node) : x[1] = c
    <3>1. PICK o \in exits : c = optionEdgeCondition(o.id)
      BY <2>2
    <3>2. <<c, o.to>> \in ExitsOf(node) /\ <<c, o.to>>[1] = c
      BY <3>1, <2>1
    <3> QED BY <3>2
  <2>6. ASSUME NEW x \in ExitsOf(node), NEW y \in ExitsOf(node), x[1] = y[1]
        PROVE  x = y
    <3>1. PICK o \in exits : x = <<optionEdgeCondition(o.id), o.to>>
      BY <2>1
    <3>2. PICK p \in exits : y = <<optionEdgeCondition(p.id), p.to>>
      BY <2>1
    <3>3. optionEdgeCondition(o.id) = optionEdgeCondition(p.id)
      BY <3>1, <3>2, <2>6
    <3>4. o = p
      BY <3>3, <2>3
    <3> QED BY <3>1, <3>2, <3>4
  <2> QED BY <2>4, <2>5, <2>6
<1>6. CASE node.kind = "free_text"
  <2> DEFINE all == exits \cup {DefaultExit(node)}
  <2>1. ExitsOf(node) = {<<outcomeEdgeCondition(o.id), o.to>> : o \in all}
    BY <1>6 DEF ExitsOf, exits
  <2>2. conds = {outcomeEdgeCondition(o.id) : o \in all}
    <3>1. DefaultExit(node).id = DefaultOutcome
      BY <1>6, DefaultIs
    <3>2. conds = {outcomeEdgeCondition(o) : o \in {p.id : p \in exits} \cup {DefaultOutcome}}
      BY <1>2, <1>6 DEF getNodeOutputConditions, TypeOf
    <3> HIDE DEF conds
    <3> QED BY <3>1, <3>2
  <2>3. /\ \A o \in all : o.to \in NodeIds \cup {None}
        /\ \A o, p \in all : o.id = p.id => o = p
    BY <1>1, <1>6, DefaultIs DEF Exits
  <2> HIDE DEF all
  <2>4. \A o, p \in all : outcomeEdgeCondition(o.id) = outcomeEdgeCondition(p.id) => o = p
    BY <2>3 DEF outcomeEdgeCondition
  <2>5. ASSUME NEW x \in ExitsOf(node)
        PROVE  x = <<x[1], x[2]>> /\ x[2] \in NodeIds \cup {None} /\ x[1] \in conds
    <3>1. PICK o \in all : x = <<outcomeEdgeCondition(o.id), o.to>>
      BY <2>1
    <3> QED BY <3>1, <2>2, <2>3
  <2>6. ASSUME NEW c \in conds
        PROVE  \E x \in ExitsOf(node) : x[1] = c
    <3>1. PICK o \in all : c = outcomeEdgeCondition(o.id)
      BY <2>2
    <3>2. <<c, o.to>> \in ExitsOf(node) /\ <<c, o.to>>[1] = c
      BY <3>1, <2>1
    <3> QED BY <3>2
  <2>7. ASSUME NEW x \in ExitsOf(node), NEW y \in ExitsOf(node), x[1] = y[1]
        PROVE  x = y
    <3>1. PICK o \in all : x = <<outcomeEdgeCondition(o.id), o.to>>
      BY <2>1
    <3>2. PICK p \in all : y = <<outcomeEdgeCondition(p.id), p.to>>
      BY <2>1
    <3>3. outcomeEdgeCondition(o.id) = outcomeEdgeCondition(p.id)
      BY <3>1, <3>2, <2>7
    <3>4. o = p
      BY <3>3, <2>4
    <3> QED BY <3>1, <3>2, <3>4
  <2> QED BY <2>5, <2>6, <2>7
<1>7. CASE node.kind = "end"
  <2>1. ExitsOf(node) = {} /\ conds = {}
    BY <1>2, <1>7 DEF ExitsOf, getNodeOutputConditions, TypeOf
  <2> QED BY <2>1
<1> QED BY <1>3, <1>4, <1>5, <1>6, <1>7

LEMMA LoadedIsOK ==
  ASSUME NEW node \in StoredGraphNode, isStoredNode(node)
  PROVE  NodeOK(LoadedNode(node))
<1> DEFINE os == [i \in DOMAIN node.options |->
                    [id |-> node.options[i].id, verdict |-> node.options[i].verdict]]
           type == TypeOf(node.kind)
           n == Len(node.options)
<1>1. /\ n \in Nat /\ DOMAIN node.options = 1..n
      /\ \A i \in DOMAIN node.options : node.options[i] \in Exits
  BY StoredOptions, LenProperties
<1>2. ASSUME NEW i \in DOMAIN node.options
      PROVE  /\ os[i] \in Choice /\ os[i].id = node.options[i].id
             /\ os[i].verdict = node.options[i].verdict
  <2>1. node.options[i] \in Exits /\ node.options[i].id # DefaultOutcome
    BY <1>1 DEF isStoredNode
  <2> QED BY <2>1 DEF Exits, Choice
<1>3. os \in [1..n -> Choice] /\ DOMAIN os = DOMAIN node.options
  BY <1>1, <1>2
<1>4. LoadedNode(node) =
        [id |-> node.id, type |-> type, filled |-> node.filled, options |-> os,
         fallback |-> IF node.kind = "free_text" THEN DefaultExit(node).verdict ELSE None]
  BY DEF LoadedNode
<1> HIDE DEF os
<1>5. os \in Seq(Choice)
  BY <1>1, <1>3, SeqDef
<1>6. /\ type \in Kinds /\ (type = "free_text" <=> node.kind = "free_text")
      /\ (type = "single_choice" <=> node.kind = "single_choice")
      /\ (type = "decision" <=> node.kind = "decision")
      /\ node.id \in NodeIds /\ node.filled \in BOOLEAN
  BY DEF StoredGraphNode, KindOf, TypeOf, Kinds
<1> HIDE DEF type
<1>7. \A i \in DOMAIN os :
        (os[i].verdict # None) <=> (type \in {"single_choice", "free_text"})
  BY <1>2, <1>3, <1>6 DEF isStoredNode
<1>8. \A i, j \in DOMAIN os : os[i].id = os[j].id => i = j
  BY <1>2, <1>3 DEF isStoredNode
<1>9. node.kind = "free_text" => DefaultExit(node).verdict \in Verdicts
  BY DefaultIs
<1>10. PICK f : f = IF node.kind = "free_text" THEN DefaultExit(node).verdict ELSE None
  OBVIOUS
<1>11. f \in Verdicts \cup {None} /\ (f # None <=> type = "free_text")
  BY <1>6, <1>9, <1>10, IdAssumption
<1>12. LoadedNode(node) = [id |-> node.id, type |-> type, filled |-> node.filled,
                           options |-> os, fallback |-> f]
  BY <1>4, <1>10
<1>13. type \in {"single_choice", "decision"} => 1 \in DOMAIN os
  <2>1. type \in {"single_choice", "decision"} => node.options # <<>>
    BY <1>6 DEF isStoredNode
  <2>2. node.options # <<>> => 1 \in DOMAIN node.options
    BY <1>1, StoredOptions, EmptySeq, LenProperties
  <2> QED BY <1>3, <2>1, <2>2
<1> QED BY <1>5, <1>6, <1>7, <1>8, <1>11, <1>12, <1>13 DEF NodeOK, GraphNode, Graded

LEMMA Loads ==
  ASSUME NEW raw, isStoredLesson(raw)
  PROVE  LET g == graphFromBackendFormat(raw) IN
         /\ GraphOK(g) /\ g.start = raw.start
         /\ g.nodes = [i \in DOMAIN raw.nodes |-> LoadedNode(raw.nodes[i])]
         /\ \A e : e \in DOMAIN g.edges <=>
              \E i \in DOMAIN raw.nodes : \E x \in ExitsOf(raw.nodes[i]) :
                x[2] # None /\ e = <<raw.nodes[i].id, x[1]>>
         /\ \A i \in DOMAIN raw.nodes : \A x \in ExitsOf(raw.nodes[i]) :
              x[2] # None => g.edges[<<raw.nodes[i].id, x[1]>>] = x[2]
<1> DEFINE outputs(node) == {x \in ExitsOf(node) : x[2] # None}
           E == UNION {{<<node.id, x[1]>> : x \in outputs(node)} : node \in ToSet(raw.nodes)}
           target(e) == LET node == raw.nodes[Position(raw.nodes, e[1])]
                        IN (CHOOSE x \in outputs(node) : x[1] = e[2])[2]
           nodes == [i \in DOMAIN raw.nodes |-> LoadedNode(raw.nodes[i])]
           edges == [e \in E |-> target(e)]
           h == [start |-> raw.start, nodes |-> nodes, edges |-> edges]
           n == Len(raw.nodes)
<1>1. graphFromBackendFormat(raw) = normalizeLessonGraph(h)
  BY DEF graphFromBackendFormat
<1>2. /\ raw.nodes \in Seq(StoredGraphNode) /\ n \in Nat /\ DOMAIN raw.nodes = 1..n
      /\ \A i \in DOMAIN raw.nodes : raw.nodes[i] \in StoredGraphNode /\ isStoredNode(raw.nodes[i])
      /\ Distinct(raw.nodes)
  <2>1. raw.nodes \in Seq(StoredGraphNode)
    BY DEF isStoredLesson
  <2>2. \A i \in DOMAIN raw.nodes : raw.nodes[i] \in StoredGraphNode
    BY <2>1, LenProperties, ElementOfSeq
  <2> QED BY <2>1, <2>2, LenProperties DEF isStoredLesson, Distinct
<1>3. DOMAIN nodes = DOMAIN raw.nodes
      /\ \A i \in DOMAIN raw.nodes : /\ nodes[i] = LoadedNode(raw.nodes[i])
                                     /\ nodes[i].id = raw.nodes[i].id
  BY LoadedOptions
<1>4. NodesOK(nodes)
  <2>1. \A i \in DOMAIN nodes : NodeOK(nodes[i]) /\ nodes[i] \in GraphNode
    BY <1>2, <1>3, LoadedIsOK DEF NodeOK
  <2>2. Distinct(nodes)
    BY <1>2, <1>3 DEF Distinct
  <2>3. nodes \in [1..n -> GraphNode]
    BY <1>2, <1>3, <2>1
  <2>4. nodes \in Seq(GraphNode)
    BY <1>2, <2>3, SeqDef
  <2> HIDE DEF nodes
  <2> QED BY <2>1, <2>2, <2>4 DEF NodesOK
<1> HIDE DEF nodes
<1>5. \A e : e \in E <=> \E i \in DOMAIN raw.nodes : \E x \in ExitsOf(raw.nodes[i]) :
                           x[2] # None /\ e = <<raw.nodes[i].id, x[1]>>
  BY DEF ToSet
<1>6. ASSUME NEW i \in DOMAIN raw.nodes, NEW x \in ExitsOf(raw.nodes[i]), x[2] # None
      PROVE  target(<<raw.nodes[i].id, x[1]>>) = x[2]
  <2>1. Position(raw.nodes, raw.nodes[i].id) = i
    BY <1>2, PlaceOf
  <2>2. \A y \in outputs(raw.nodes[i]) : y[1] = x[1] => y = x
    BY <1>2, ExitsAre
  <2>3. x \in outputs(raw.nodes[i])
    BY <1>6
  <2>4. (CHOOSE y \in outputs(raw.nodes[i]) : y[1] = x[1]) = x
    BY <2>2, <2>3
  <2> HIDE DEF outputs
  <2> QED BY <2>1, <2>4
<1> HIDE DEF E, target
<1>7. /\ DOMAIN edges = E /\ edges = [e \in DOMAIN edges |-> edges[e]]
      /\ \A e \in E : edges[e] = target(e)
  OBVIOUS
<1> HIDE DEF edges
<1>8. \A i \in DOMAIN raw.nodes : \A x \in ExitsOf(raw.nodes[i]) :
        x[2] # None => /\ <<raw.nodes[i].id, x[1]>> \in E
                       /\ edges[<<raw.nodes[i].id, x[1]>>] = x[2]
  BY <1>5, <1>6, <1>7
<1>9. EdgesOK(nodes, edges)
  <2> SUFFICES ASSUME NEW e \in E
               PROVE  \E i, j \in DOMAIN nodes :
                        i < j /\ Output(nodes, i, e) /\ edges[e] = nodes[j].id
    BY <1>7 DEF EdgesOK
  <2>1. PICK i \in DOMAIN raw.nodes : \E x \in ExitsOf(raw.nodes[i]) :
          x[2] # None /\ e = <<raw.nodes[i].id, x[1]>>
    BY <1>5
  <2>2. PICK x \in ExitsOf(raw.nodes[i]) : x[2] # None /\ e = <<raw.nodes[i].id, x[1]>>
    BY <2>1
  <2>3. PICK j \in DOMAIN raw.nodes : i < j /\ x[2] = raw.nodes[j].id
    BY <2>2 DEF isStoredLesson
  <2>4. edges[e] = nodes[j].id
    BY <1>3, <1>8, <2>2, <2>3
  <2>5. e[2] = x[1] /\ e = <<nodes[i].id, e[2]>>
    BY <1>3, <2>2
  <2>6. e[2] \in getNodeOutputConditions(nodes[i])
    BY <1>2, <1>3, <2>5, ExitsAre
  <2> QED BY <1>3, <2>3, <2>4, <2>5, <2>6 DEF Output
<1>10. h.start = raw.start /\ h.nodes = nodes /\ h.edges = edges
       /\ h = [start |-> h.start, nodes |-> h.nodes, edges |-> h.edges]
  OBVIOUS
<1> HIDE DEF h
<1>11. h.start \in Ids(nodes) \/ (h.start = None /\ nodes = <<>>)
  <2>1. CASE raw.start \in Ids(raw.nodes)
    BY <2>1, <1>3, <1>10 DEF Ids
  <2>2. CASE raw.start = None /\ raw.nodes = <<>>
    <3>1. n = 0
      BY <2>2
    <3>2. nodes = <<>>
      BY <3>1, <1>2, <1>3, <1>4, LenProperties, EmptySeq DEF NodesOK
    <3> QED BY <2>2, <3>2, <1>10
  <2> QED BY <2>1, <2>2 DEF isStoredLesson
<1>12. GraphOK(h)
  BY <1>4, <1>9, <1>10, <1>11 DEF GraphOK
<1>13. graphFromBackendFormat(raw) = h
  BY <1>1, <1>12, NormalAlready
<1>14. nodes = [i \in DOMAIN raw.nodes |-> LoadedNode(raw.nodes[i])]
  BY DEF nodes
<1>15. \A e : e \in DOMAIN h.edges <=>
              \E i \in DOMAIN raw.nodes : \E x \in ExitsOf(raw.nodes[i]) :
                x[2] # None /\ e = <<raw.nodes[i].id, x[1]>>
  BY <1>5, <1>7, <1>10
<1>16. \A i \in DOMAIN raw.nodes : \A x \in ExitsOf(raw.nodes[i]) :
              x[2] # None => h.edges[<<raw.nodes[i].id, x[1]>>] = x[2]
  BY <1>8, <1>10
<1> QED BY <1>10, <1>12, <1>13, <1>14, <1>15, <1>16

-----------------------------------------------------------------------------
(* Storing the graph of a page.                                            *)

LEMMA TargetsAre ==
  ASSUME NEW g, GraphOK(g), NEW n, NEW c
  PROVE  /\ getGraphEdgeTarget(g.edges, n, c) \in NodeIds \cup {None}
         /\ (getGraphEdgeTarget(g.edges, n, c) # None) <=> (<<n, c>> \in DOMAIN g.edges)
         /\ <<n, c>> \in DOMAIN g.edges =>
              getGraphEdgeTarget(g.edges, n, c) = g.edges[<<n, c>>]
<1>1. \A i \in DOMAIN g.nodes : g.nodes[i].id \in NodeIds
  BY DEF GraphOK, NodesOK, NodeOK, GraphNode
<1>2. \A e \in DOMAIN g.edges : g.edges[e] \in NodeIds
  BY <1>1 DEF GraphOK, EdgesOK
<1>3. \A m \in NodeIds : m # None
  BY IdAssumption
<1> QED BY <1>2, <1>3 DEF getGraphEdgeTarget

LEMMA KindsMatch ==
  ASSUME NEW type \in Kinds
  PROVE  /\ TypeOf(KindOf(type)) = type
         /\ \A t \in Kinds \ {"terminal"} : (KindOf(type) = t) <=> (type = t)
         /\ (KindOf(type) = "end") <=> (type = "terminal")
BY DEF Kinds, KindOf, TypeOf

(* The stored form of one block, field by field.                           *)
StoredAs(s, edges, node) ==
  /\ s.id = node.id /\ s.kind = KindOf(node.type) /\ s.filled = node.filled
  /\ s.terminal = FALSE /\ s.rubric = IF node.type = "free_text" THEN "outcomes" ELSE None
  /\ node.type = "story" => s.next = getGraphEdgeTarget(edges, node.id, Onward)
  /\ node.type # "story" => s.next = None
  /\ DOMAIN s.options = DOMAIN node.options
  /\ \A i \in DOMAIN node.options :
       /\ s.options[i].id = node.options[i].id
       /\ s.options[i].verdict = node.options[i].verdict
       /\ node.type = "free_text" =>
            s.options[i].to
              = getGraphEdgeTarget(edges, node.id, outcomeEdgeCondition(node.options[i].id))
       /\ node.type # "free_text" =>
            s.options[i].to
              = getGraphEdgeTarget(edges, node.id, optionEdgeCondition(node.options[i].id))
  /\ node.type = "free_text" =>
       s.fallback = [id |-> DefaultOutcome, verdict |-> node.fallback,
                     to |-> getGraphEdgeTarget(edges, node.id,
                                               outcomeEdgeCondition(DefaultOutcome))]
  /\ node.type # "free_text" => s.fallback = NoExit

StoredShape(s) ==
  /\ s = [id |-> s.id, kind |-> s.kind, filled |-> s.filled,
          terminal |-> s.terminal, rubric |-> s.rubric,
          next |-> s.next, options |-> s.options, fallback |-> s.fallback]
  /\ s.options = [i \in DOMAIN s.options |-> s.options[i]]
  /\ \A i \in DOMAIN s.options :
       s.options[i] = [id |-> s.options[i].id, verdict |-> s.options[i].verdict,
                       to |-> s.options[i].to]

LEMMA StoredFields ==
  ASSUME NEW edges, NEW node
  PROVE  /\ StoredAs(StoredNode(edges, node), edges, node)
         /\ StoredShape(StoredNode(edges, node))
<1> DEFINE s == StoredNode(edges, node)
           exit(o, c) == StoredExit(o.id, o.verdict, getGraphEdgeTarget(edges, node.id, c))
           os == [i \in DOMAIN node.options |->
                    LET o == node.options[i] IN
                    exit(o, IF node.type = "free_text" THEN outcomeEdgeCondition(o.id)
                            ELSE optionEdgeCondition(o.id))]
<1>1. /\ s.id = node.id /\ s.kind = KindOf(node.type) /\ s.filled = node.filled
      /\ s.terminal = FALSE /\ s.rubric = IF node.type = "free_text" THEN "outcomes" ELSE None
      /\ s.options = os
      /\ s.next = IF node.type = "story" THEN getGraphEdgeTarget(edges, node.id, Onward) ELSE None
      /\ s.fallback = IF node.type = "free_text"
                      THEN exit([id |-> DefaultOutcome, verdict |-> node.fallback],
                                outcomeEdgeCondition(DefaultOutcome))
                      ELSE NoExit
      /\ s = [id |-> s.id, kind |-> s.kind, filled |-> s.filled,
              terminal |-> s.terminal, rubric |-> s.rubric,
              next |-> s.next, options |-> s.options, fallback |-> s.fallback]
  BY DEF StoredNode
<1>2. DOMAIN os = DOMAIN node.options /\ os = [i \in DOMAIN os |-> os[i]]
  OBVIOUS
<1>3. ASSUME NEW i \in DOMAIN node.options
      PROVE  /\ os[i] = [id |-> os[i].id, verdict |-> os[i].verdict, to |-> os[i].to]
             /\ os[i].id = node.options[i].id /\ os[i].verdict = node.options[i].verdict
             /\ node.type = "free_text" =>
                  os[i].to
                    = getGraphEdgeTarget(edges, node.id, outcomeEdgeCondition(node.options[i].id))
             /\ node.type # "free_text" =>
                  os[i].to
                    = getGraphEdgeTarget(edges, node.id, optionEdgeCondition(node.options[i].id))
  <2>1. CASE node.type = "free_text"
    <3>1. os[i] = exit(node.options[i], outcomeEdgeCondition(node.options[i].id))
      BY <2>1
    <3> QED BY <2>1, <3>1 DEF StoredExit
  <2>2. CASE node.type # "free_text"
    <3>1. os[i] = exit(node.options[i], optionEdgeCondition(node.options[i].id))
      BY <2>2
    <3> QED BY <2>2, <3>1 DEF StoredExit
  <2> QED BY <2>1, <2>2
<1>4. node.type = "free_text" =>
        s.fallback = [id |-> DefaultOutcome, verdict |-> node.fallback,
                      to |-> getGraphEdgeTarget(edges, node.id,
                                                outcomeEdgeCondition(DefaultOutcome))]
  BY <1>1 DEF StoredExit
<1> HIDE DEF os, s, exit
<1>5. StoredAs(s, edges, node)
  BY <1>1, <1>2, <1>3, <1>4 DEF StoredAs
<1>6. StoredShape(s)
  BY <1>1, <1>2, <1>3 DEF StoredShape
<1> QED BY <1>5, <1>6 DEF s

LEMMA StoredIsOK ==
  ASSUME NEW g, GraphOK(g), NEW node, NodeOK(node)
  PROVE  /\ StoredNode(g.edges, node) \in StoredGraphNode
         /\ isStoredNode(StoredNode(g.edges, node))
<1> DEFINE s == StoredNode(g.edges, node)
           n == Len(node.options)
<1>0. StoredAs(s, g.edges, node) /\ StoredShape(s)
  BY StoredFields
<1> SUFFICES s \in StoredGraphNode /\ isStoredNode(s)
  OBVIOUS
<1> HIDE DEF s
<1>a. \A c : getGraphEdgeTarget(g.edges, node.id, c) \in NodeIds \cup {None}
  BY TargetsAre
<1>1. /\ node \in GraphNode /\ node.type \in Kinds /\ node.id \in NodeIds
      /\ node.filled \in BOOLEAN /\ n \in Nat /\ DOMAIN node.options = 1..n
      /\ \A i \in DOMAIN node.options : node.options[i] \in Choice
  BY OptionsAreTyped, LenProperties DEF NodeOK, GraphNode
<1>2. ASSUME NEW i \in DOMAIN node.options
      PROVE  /\ s.options[i] \in Exits
             /\ s.options[i].id = node.options[i].id /\ s.options[i].id # DefaultOutcome
             /\ s.options[i].verdict = node.options[i].verdict
  <2>1. /\ s.options[i] = [id |-> s.options[i].id, verdict |-> s.options[i].verdict,
                          to |-> s.options[i].to]
        /\ s.options[i].id = node.options[i].id
        /\ s.options[i].verdict = node.options[i].verdict
    BY <1>0 DEF StoredAs, StoredShape
  <2>2. s.options[i].to \in NodeIds \cup {None}
    <3>1. CASE node.type = "free_text"
      BY <3>1, <1>0, <1>a DEF StoredAs
    <3>2. CASE node.type # "free_text"
      BY <3>2, <1>0, <1>a DEF StoredAs
    <3> QED BY <3>1, <3>2
  <2>3. /\ node.options[i].id \in OptionIds \cup Verdicts
        /\ node.options[i].verdict \in Verdicts \cup {None}
    BY <1>1 DEF Choice
  <2>4. "default" \notin OptionIds /\ "default" \notin Verdicts
    BY IdAssumption DEF Verdicts
  <2> QED BY <2>1, <2>2, <2>3, <2>4 DEF Exits, DefaultOutcome
<1>3. /\ s.id = node.id /\ s.kind = KindOf(node.type) /\ s.filled = node.filled
      /\ s.terminal = FALSE /\ s.rubric = IF node.type = "free_text" THEN "outcomes" ELSE None
      /\ DOMAIN s.options = DOMAIN node.options
      /\ s = [id |-> s.id, kind |-> s.kind, filled |-> s.filled,
              terminal |-> s.terminal, rubric |-> s.rubric,
              next |-> s.next, options |-> s.options, fallback |-> s.fallback]
  BY <1>0 DEF StoredAs, StoredShape
<1>4. s.next \in NodeIds \cup {None}
  <2>1. CASE node.type = "story"
    BY <2>1, <1>0, <1>a DEF StoredAs
  <2>2. CASE node.type # "story"
    BY <2>2, <1>0 DEF StoredAs
  <2> QED BY <2>1, <2>2
<1>5. /\ node.type = "free_text" => /\ s.fallback \in Exits /\ s.fallback.id = DefaultOutcome
                                    /\ s.fallback.verdict \in Verdicts
      /\ node.type # "free_text" => s.fallback = NoExit
  <2>1. CASE node.type = "free_text"
    <3>1. node.fallback \in Verdicts
      BY <2>1, <1>1 DEF NodeOK, GraphNode
    <3>2. PICK to \in NodeIds \cup {None} :
            to = getGraphEdgeTarget(g.edges, node.id, outcomeEdgeCondition(DefaultOutcome))
      BY TargetsAre
    <3>3. s.fallback = [id |-> DefaultOutcome, verdict |-> node.fallback, to |-> to]
      BY <2>1, <3>2, <1>0 DEF StoredAs
    <3> QED BY <2>1, <3>1, <3>2, <3>3 DEF Exits
  <2>2. CASE node.type # "free_text"
    BY <2>2, <1>0 DEF StoredAs
  <2> QED BY <2>1, <2>2
<1>6. s.options \in Seq(Exits)
  <2>2. s.options = [i \in DOMAIN node.options |-> s.options[i]]
    BY <1>0 DEF StoredAs, StoredShape
  <2>3. s.options \in [1..n -> Exits]
    BY <1>1, <1>2, <2>2
  <2> QED BY <1>1, <2>3, SeqDef
<1>7. s \in StoredGraphNode
  <2>1. s.fallback \in Exits \cup {NoExit}
    BY <1>5
  <2>2. s.kind \in {KindOf(type) : type \in Kinds}
    BY <1>1, <1>3
  <2>3. s.terminal \in BOOLEAN /\ s.rubric \in Rubrics \cup {None}
    BY <1>3 DEF Rubrics
  <2> QED BY <1>1, <1>3, <1>4, <1>6, <2>1, <2>2, <2>3 DEF StoredGraphNode
<1>8. isStoredNode(s)
  <2>1. \A i, j \in DOMAIN s.options : s.options[i].id = s.options[j].id => i = j
    BY <1>2, <1>3 DEF NodeOK
  <2>2. (s.kind \in {"single_choice", "free_text"}) <=> Graded(node)
    BY <1>1, <1>3, KindsMatch DEF Graded, Kinds
  <2>3. \A i \in DOMAIN s.options :
          /\ s.options[i].id # DefaultOutcome
          /\ (s.options[i].verdict # None) <=> s.kind \in {"single_choice", "free_text"}
    BY <1>2, <1>3, <2>2 DEF NodeOK
  <2>4. s.kind = "free_text" => node.type = "free_text"
    BY <1>1, <1>3, KindsMatch DEF Kinds
  <2>5. s.kind \in {"single_choice", "decision"} => s.options # <<>>
    <3>1. s.kind \in {"single_choice", "decision"} => 1 \in DOMAIN s.options
      BY <1>1, <1>3, KindsMatch DEF Kinds, NodeOK
    <3>2. DOMAIN <<>> = {}
      OBVIOUS
    <3> QED BY <3>1, <3>2
  <2>6. s.kind = "free_text" => s.rubric = "outcomes" /\ s.rubric \notin {"plain", None}
    BY <1>3, <2>4, IdAssumption DEF Rubrics
  <2> QED BY <1>3, <1>5, <2>1, <2>3, <2>4, <2>5, <2>6 DEF isStoredNode
<1> QED BY <1>7, <1>8

LEMMA StoredLoads ==
  ASSUME NEW g, GraphOK(g), NEW node, NodeOK(node)
  PROVE  LoadedNode(StoredNode(g.edges, node)) = node
<1> DEFINE s == StoredNode(g.edges, node)
           os == [i \in DOMAIN s.options |->
                    [id |-> s.options[i].id, verdict |-> s.options[i].verdict]]
<1>0. StoredAs(s, g.edges, node) /\ StoredShape(s)
  BY StoredFields
<1> HIDE DEF s
<1>1. /\ node \in GraphNode /\ node.type \in Kinds /\ node.options \in Seq(Choice)
      /\ DOMAIN node.options = 1..Len(node.options)
      /\ \A i \in DOMAIN node.options : node.options[i] \in Choice
  BY OptionsAreTyped, LenProperties DEF NodeOK, GraphNode
<1>2. /\ s.id = node.id /\ s.kind = KindOf(node.type) /\ s.filled = node.filled
      /\ s.rubric = IF node.type = "free_text" THEN "outcomes" ELSE None
      /\ DOMAIN s.options = DOMAIN node.options
  BY <1>0 DEF StoredAs
<1>3. ASSUME NEW i \in DOMAIN node.options
      PROVE  /\ s.options[i].id = node.options[i].id
             /\ s.options[i].verdict = node.options[i].verdict
  BY <1>0 DEF StoredAs
<1>4. os = [i \in DOMAIN node.options |-> node.options[i]]
  <2>1. \A i \in DOMAIN node.options : os[i] = node.options[i]
    BY <1>1, <1>2, <1>3 DEF Choice
  <2>2. DOMAIN os = DOMAIN node.options /\ os = [i \in DOMAIN os |-> os[i]]
    BY <1>2
  <2> HIDE DEF os
  <2> QED BY <2>1, <2>2
<1>5. node.options = [i \in DOMAIN node.options |-> node.options[i]]
  BY <1>1
<1>6. (IF s.kind = "free_text" THEN DefaultExit(s).verdict ELSE None) = node.fallback
  <2>1. CASE node.type = "free_text"
    <3>1. s.kind = "free_text"
      BY <2>1, <1>2 DEF KindOf
    <3>2. DefaultExit(s) = s.fallback
      BY <2>1, <1>2 DEF DefaultExit
    <3>3. s.fallback.verdict = node.fallback
      BY <2>1, <1>0 DEF StoredAs
    <3> QED BY <3>1, <3>2, <3>3
  <2>2. CASE node.type # "free_text"
    <3>1. s.kind # "free_text"
      BY <2>2, <1>1, <1>2 DEF KindOf
    <3> QED BY <2>2, <3>1 DEF NodeOK
  <2> QED BY <2>1, <2>2
<1>7. LoadedNode(s) =
        [id |-> s.id, type |-> TypeOf(s.kind), filled |-> s.filled, options |-> os,
         fallback |-> IF s.kind = "free_text" THEN DefaultExit(s).verdict ELSE None]
  BY DEF LoadedNode
<1> HIDE DEF os
<1>8. TypeOf(s.kind) = node.type
  BY <1>1, <1>2, KindsMatch
<1>9. LoadedNode(s) = [id |-> node.id, type |-> node.type, filled |-> node.filled,
                       options |-> node.options, fallback |-> node.fallback]
  BY <1>2, <1>4, <1>5, <1>6, <1>7, <1>8
<1>10. LoadedNode(s) = node
  BY <1>1, <1>9 DEF GraphNode
<1> QED BY <1>10 DEF s

(* The exits of a stored block are the outputs of the block on the page,   *)
(* each with where it leads there.                                         *)
LEMMA StoredExits ==
  ASSUME NEW g, GraphOK(g), NEW node, NodeOK(node)
  PROVE  ExitsOf(StoredNode(g.edges, node)) =
           {<<c, getGraphEdgeTarget(g.edges, node.id, c)>> : c \in getNodeOutputConditions(node)}
<1> DEFINE s == StoredNode(g.edges, node)
           exits == {s.options[i] : i \in DOMAIN s.options}
           goes(c) == getGraphEdgeTarget(g.edges, node.id, c)
<1>0. StoredAs(s, g.edges, node) /\ StoredShape(s)
  BY StoredFields
<1> SUFFICES ExitsOf(s) = {<<c, goes(c)>> : c \in getNodeOutputConditions(node)}
  OBVIOUS
<1> HIDE DEF s
<1>1. node \in GraphNode /\ node.type \in Kinds
  BY DEF NodeOK, GraphNode
<1>2. /\ s.kind = KindOf(node.type)
      /\ s.rubric = IF node.type = "free_text" THEN "outcomes" ELSE None
      /\ DOMAIN s.options = DOMAIN node.options
  BY <1>0 DEF StoredAs
<1>3. CASE node.type = "story"
  <2>1. ExitsOf(s) = {<<Onward, s.next>>}
    BY <1>2, <1>3 DEF ExitsOf, KindOf
  <2>2. s.next = goes(Onward)
    BY <1>3, <1>0 DEF StoredAs
  <2>3. getNodeOutputConditions(node) = {Onward}
    BY <1>3 DEF getNodeOutputConditions
  <2> QED BY <2>1, <2>2, <2>3
<1>4. CASE node.type \in {"single_choice", "decision"}
  <2>1. ExitsOf(s) = {<<optionEdgeCondition(o.id), o.to>> : o \in exits}
    BY <1>2, <1>4 DEF ExitsOf, KindOf
  <2>2. getNodeOutputConditions(node) = {optionEdgeCondition(o) : o \in OptionsOf(node)}
    BY <1>4 DEF getNodeOutputConditions
  <2>3. \A i \in DOMAIN node.options :
          /\ s.options[i].id = node.options[i].id
          /\ s.options[i].to = goes(optionEdgeCondition(node.options[i].id))
    BY <1>4, <1>0 DEF StoredAs
  <2>4. ExitsOf(s) = {<<c, goes(c)>> : c \in getNodeOutputConditions(node)}
    BY <1>2, <2>1, <2>2, <2>3 DEF OptionsOf
  <2> QED BY <2>4
<1>5. CASE node.type = "free_text"
  <2> DEFINE all == exits \cup {s.fallback}
  <2>1. ExitsOf(s) = {<<outcomeEdgeCondition(o.id), o.to>> : o \in all}
    BY <1>2, <1>5 DEF ExitsOf, KindOf, DefaultExit
  <2>2. getNodeOutputConditions(node)
          = {outcomeEdgeCondition(o) : o \in OptionsOf(node) \cup {DefaultOutcome}}
    BY <1>5 DEF getNodeOutputConditions
  <2>3. \A i \in DOMAIN node.options :
          /\ s.options[i].id = node.options[i].id
          /\ s.options[i].to = goes(outcomeEdgeCondition(node.options[i].id))
    BY <1>5, <1>0 DEF StoredAs
  <2>4. s.fallback.id = DefaultOutcome
        /\ s.fallback.to = goes(outcomeEdgeCondition(DefaultOutcome))
    BY <1>5, <1>0 DEF StoredAs
  <2>5. ASSUME NEW o \in all
        PROVE  /\ o.id \in OptionsOf(node) \cup {DefaultOutcome}
               /\ o.to = goes(outcomeEdgeCondition(o.id))
    BY <1>2, <2>3, <2>4 DEF OptionsOf
  <2>6. ASSUME NEW p \in OptionsOf(node) \cup {DefaultOutcome}
        PROVE  \E o \in all : o.id = p
    <3>1. CASE p = DefaultOutcome
      BY <3>1, <2>4
    <3>2. CASE p \in OptionsOf(node)
      BY <3>2, <1>2, <2>3 DEF OptionsOf
    <3> QED BY <3>1, <3>2
  <2> HIDE DEF all
  <2>7. ExitsOf(s) = {<<c, goes(c)>> : c \in getNodeOutputConditions(node)}
    <3>1. ASSUME NEW x \in ExitsOf(s)
          PROVE  \E c \in getNodeOutputConditions(node) : x = <<c, goes(c)>>
      BY <2>1, <2>2, <2>5
    <3>2. ASSUME NEW c \in getNodeOutputConditions(node)
          PROVE  <<c, goes(c)>> \in ExitsOf(s)
      <4>1. PICK p \in OptionsOf(node) \cup {DefaultOutcome} : c = outcomeEdgeCondition(p)
        BY <2>2
      <4>2. PICK o \in all : o.id = p
        BY <2>6
      <4> QED BY <2>1, <2>5, <4>1, <4>2
    <3> QED BY <3>1, <3>2
  <2> QED BY <2>7
<1>6. CASE node.type = "terminal"
  <2>1. s.kind = "end"
    BY <1>2, <1>6 DEF KindOf
  <2>2. ExitsOf(s) = {} /\ getNodeOutputConditions(node) = {}
    BY <2>1, <1>6 DEF ExitsOf, getNodeOutputConditions
  <2> QED BY <2>2
<1> QED BY <1>1, <1>3, <1>4, <1>5, <1>6 DEF Kinds

(* Storing a graph and reading it gives the graph back.                    *)
LEMMA StoresAndLoads ==
  ASSUME NEW g, GraphOK(g)
  PROVE  LET raw == graphToBackendFormat(g) IN
         /\ isStoredLesson(raw)
         /\ graphFromBackendFormat(raw) = g
         /\ Ids(raw.nodes) = Ids(g.nodes) /\ Len(raw.nodes) = Len(g.nodes)
<1> DEFINE nodes == [i \in DOMAIN g.nodes |-> StoredNode(g.edges, g.nodes[i])]
           raw == [start |-> g.start, nodes |-> nodes]
           back == graphFromBackendFormat(raw)
           n == Len(g.nodes)
<1>1. graphToBackendFormat(g) = raw
  BY NormalAlready DEF graphToBackendFormat
<1>2. /\ g.nodes \in Seq(GraphNode) /\ n \in Nat /\ DOMAIN g.nodes = 1..n
      /\ NodesOK(g.nodes) /\ Distinct(g.nodes)
      /\ \A i \in DOMAIN g.nodes : NodeOK(g.nodes[i]) /\ g.nodes[i].id \in NodeIds
  BY LenProperties DEF GraphOK, NodesOK, NodeOK, GraphNode
<1>3. /\ DOMAIN nodes = DOMAIN g.nodes
      /\ \A i \in DOMAIN g.nodes : /\ nodes[i] = StoredNode(g.edges, g.nodes[i])
                                   /\ nodes[i].id = g.nodes[i].id
  <2> SUFFICES ASSUME NEW i \in DOMAIN g.nodes
               PROVE  StoredNode(g.edges, g.nodes[i]).id = g.nodes[i].id
    OBVIOUS
  <2>1. StoredAs(StoredNode(g.edges, g.nodes[i]), g.edges, g.nodes[i])
    BY StoredFields
  <2> QED BY <2>1 DEF StoredAs
<1>4. \A i \in DOMAIN nodes : nodes[i] \in StoredGraphNode /\ isStoredNode(nodes[i])
  BY <1>2, <1>3, StoredIsOK
<1>5. nodes \in [1..n -> StoredGraphNode]
  BY <1>2, <1>3, <1>4
<1> HIDE DEF nodes
<1>6. nodes \in Seq(StoredGraphNode) /\ Len(nodes) = n
  BY <1>2, <1>5, SeqDef, LenProperties
<1>7. Ids(nodes) = Ids(g.nodes)
  BY <1>3 DEF Ids
<1>8. raw.start = g.start /\ raw.nodes = nodes
  OBVIOUS
<1>9. raw \in [start : NodeIds \cup {None}, nodes : Seq(StoredGraphNode)]
  <2>1. g.start \in NodeIds \cup {None}
    BY <1>2 DEF GraphOK, Ids
  <2> QED BY <2>1, <1>6
<1>10. ASSUME NEW i \in DOMAIN nodes, NEW x \in ExitsOf(nodes[i])
       PROVE  \/ x[2] = None
              \/ \E j \in DOMAIN nodes : i < j /\ x[2] = nodes[j].id
  <2>1. PICK c \in getNodeOutputConditions(g.nodes[i]) :
          x = <<c, getGraphEdgeTarget(g.edges, g.nodes[i].id, c)>>
    BY <1>2, <1>3, StoredExits
  <2>2. x[2] = getGraphEdgeTarget(g.edges, g.nodes[i].id, c)
    BY <2>1
  <2>3. CASE <<g.nodes[i].id, c>> \notin DOMAIN g.edges
    BY <2>2, <2>3, TargetsAre
  <2>4. CASE <<g.nodes[i].id, c>> \in DOMAIN g.edges
    <3>1. x[2] = g.edges[<<g.nodes[i].id, c>>]
      BY <2>2, <2>4, TargetsAre
    <3>2. PICK k, j \in DOMAIN g.nodes :
            /\ k < j /\ Output(g.nodes, k, <<g.nodes[i].id, c>>)
            /\ g.edges[<<g.nodes[i].id, c>>] = g.nodes[j].id
      BY <2>4 DEF GraphOK, EdgesOK
    <3>3. g.nodes[k].id = g.nodes[i].id
      BY <3>2 DEF Output
    <3>4. k = i
      BY <3>3, <1>2, <1>3 DEF Distinct
    <3> QED BY <3>1, <3>2, <3>4, <1>3
  <2> QED BY <2>3, <2>4
<1>11. g.start \in Ids(nodes) \/ (g.start = None /\ nodes = <<>>)
  <2>1. CASE g.start \in Ids(g.nodes)
    BY <2>1, <1>7
  <2>2. CASE g.start = None /\ g.nodes = <<>>
    <3>1. Len(nodes) = 0
      BY <2>2, <1>6
    <3>2. nodes = <<>>
      BY <3>1, <1>6, EmptySeq
    <3> QED BY <2>2, <3>2
  <2> QED BY <2>1, <2>2 DEF GraphOK
<1>12. \A i, j \in DOMAIN nodes : nodes[i].id = nodes[j].id => i = j
  BY <1>2, <1>3 DEF Distinct
<1> HIDE DEF raw
<1>13. isStoredLesson(raw)
  BY <1>4, <1>8, <1>9, <1>10, <1>11, <1>12 DEF isStoredLesson
<1> HIDE DEF back
<1>14. /\ GraphOK(back) /\ back.start = raw.start
       /\ back.nodes = [i \in DOMAIN nodes |-> LoadedNode(nodes[i])]
       /\ \A e : e \in DOMAIN back.edges <=>
            \E i \in DOMAIN nodes : \E x \in ExitsOf(nodes[i]) :
              x[2] # None /\ e = <<nodes[i].id, x[1]>>
       /\ \A i \in DOMAIN nodes : \A x \in ExitsOf(nodes[i]) :
            x[2] # None => back.edges[<<nodes[i].id, x[1]>>] = x[2]
  BY <1>8, <1>13, Loads DEF back
<1>15. back.nodes = g.nodes
  <2>1. \A i \in DOMAIN nodes : LoadedNode(nodes[i]) = g.nodes[i]
    BY <1>2, <1>3, StoredLoads
  <2>2. back.nodes = [i \in DOMAIN g.nodes |-> g.nodes[i]]
    BY <2>1, <1>3, <1>14
  <2>3. g.nodes = [i \in DOMAIN g.nodes |-> g.nodes[i]]
    BY <1>2
  <2> QED BY <2>2, <2>3
<1>16. ASSUME NEW i \in DOMAIN nodes, NEW c \in getNodeOutputConditions(g.nodes[i]),
              <<g.nodes[i].id, c>> \in DOMAIN g.edges
       PROVE  /\ <<g.nodes[i].id, c>> \in DOMAIN back.edges
              /\ back.edges[<<g.nodes[i].id, c>>] = g.edges[<<g.nodes[i].id, c>>]
  <2>1. PICK to : to = getGraphEdgeTarget(g.edges, g.nodes[i].id, c)
    OBVIOUS
  <2>2. to # None /\ to = g.edges[<<g.nodes[i].id, c>>]
    BY <2>1, <1>16, TargetsAre
  <2>3. <<c, to>> \in ExitsOf(nodes[i])
    BY <2>1, <1>2, <1>3, StoredExits
  <2>4. <<c, to>>[1] = c /\ <<c, to>>[2] = to
    OBVIOUS
  <2>5. \E x \in ExitsOf(nodes[i]) : x[2] # None /\ <<g.nodes[i].id, c>> = <<nodes[i].id, x[1]>>
    BY <2>2, <2>3, <2>4, <1>3
  <2>6. <<g.nodes[i].id, c>> \in DOMAIN back.edges
    BY <2>5, <1>14
  <2>7. back.edges[<<nodes[i].id, <<c, to>>[1]>>] = <<c, to>>[2]
    BY <2>2, <2>3, <2>4, <1>14
  <2> QED BY <2>2, <2>4, <2>6, <2>7, <1>3
<1>17. ASSUME NEW e \in DOMAIN g.edges
       PROVE  e \in DOMAIN back.edges /\ back.edges[e] = g.edges[e]
  <2>1. PICK k \in DOMAIN g.nodes : Output(g.nodes, k, e)
    BY DEF GraphOK, EdgesOK
  <2>2. e = <<g.nodes[k].id, e[2]>> /\ e[2] \in getNodeOutputConditions(g.nodes[k])
    BY <2>1 DEF Output
  <2>3. <<g.nodes[k].id, e[2]>> \in DOMAIN g.edges
    BY <2>2
  <2>4. /\ <<g.nodes[k].id, e[2]>> \in DOMAIN back.edges
        /\ back.edges[<<g.nodes[k].id, e[2]>>] = g.edges[<<g.nodes[k].id, e[2]>>]
    BY <2>2, <2>3, <1>3, <1>16
  <2> QED BY <2>2, <2>4
<1>18. ASSUME NEW e \in DOMAIN back.edges
       PROVE  e \in DOMAIN g.edges
  <2>1. PICK i \in DOMAIN nodes : \E x \in ExitsOf(nodes[i]) :
          x[2] # None /\ e = <<nodes[i].id, x[1]>>
    BY <1>14
  <2>2. PICK x \in ExitsOf(nodes[i]) : x[2] # None /\ e = <<nodes[i].id, x[1]>>
    BY <2>1
  <2>3. PICK c \in getNodeOutputConditions(g.nodes[i]) :
          x = <<c, getGraphEdgeTarget(g.edges, g.nodes[i].id, c)>>
    BY <1>2, <1>3, StoredExits
  <2>4. e = <<g.nodes[i].id, c>> /\ getGraphEdgeTarget(g.edges, g.nodes[i].id, c) # None
    BY <2>2, <2>3, <1>3
  <2> QED BY <2>4, TargetsAre
<1>19. back.edges = g.edges
  <2>1. DOMAIN back.edges = DOMAIN g.edges
    BY <1>17, <1>18
  <2>2. /\ back.edges = [e \in DOMAIN back.edges |-> back.edges[e]]
        /\ g.edges = [e \in DOMAIN g.edges |-> g.edges[e]]
    BY <1>14 DEF GraphOK, EdgesOK
  <2> QED BY <2>1, <2>2, <1>17
<1>20. back = g
  BY <1>8, <1>14, <1>15, <1>19 DEF GraphOK
<1> QED BY <1>1, <1>6, <1>7, <1>8, <1>13, <1>20 DEF back

LEMMA EmptyIsOK ==
  /\ GraphOK(EmptyGraph) /\ Len(EmptyGraph.nodes) = 0 /\ Ids(EmptyGraph.nodes) = {}
<1>1. <<>> = [e \in DOMAIN <<>> |-> <<>>[e]]
  OBVIOUS
<1>2. EmptyGraph.edges = <<>> /\ EmptyGraph.nodes = <<>> /\ EmptyGraph.start = None
      /\ EmptyGraph = [start |-> None, nodes |-> <<>>, edges |-> <<>>]
  BY DEF EmptyGraph
<1>3. NodesOK(<<>>)
  BY DEF NodesOK, Distinct
<1>4. EdgesOK(<<>>, <<>>)
  BY <1>1 DEF EdgesOK
<1> QED BY <1>2, <1>3, <1>4 DEF GraphOK, Ids

(* The placeholder is the only graph that opens as another.                *)
LEMMA OpensOtherThanPlaceholder ==
  ASSUME NEW raw, isStoredLesson(raw)
  PROVE  /\ GraphOK(Opened(raw))
         /\ isPlaceholderGraph(graphFromBackendFormat(raw)) => Opened(raw) = EmptyGraph
         /\ ~isPlaceholderGraph(graphFromBackendFormat(raw)) =>
              Opened(raw) = graphFromBackendFormat(raw)
<1>1. GraphOK(graphFromBackendFormat(raw))
  BY Loads
<1> QED BY <1>1, NormalAlready, EmptyIsOK DEF Opened

LEMMA NamedStart ==
  ASSUME NEW g, GraphOK(g), isPlaceholderGraph(g)
  PROVE  "start" \in Ids(g.nodes)
BY DEF isPlaceholderGraph, Ids

LEMMA LoadedIds ==
  ASSUME NEW raw, isStoredLesson(raw)
  PROVE  /\ Ids(graphFromBackendFormat(raw).nodes) = Ids(raw.nodes)
         /\ Len(graphFromBackendFormat(raw).nodes) = Len(raw.nodes)
<1> DEFINE nodes == graphFromBackendFormat(raw).nodes
<1>1. nodes = [i \in DOMAIN raw.nodes |-> LoadedNode(raw.nodes[i])]
      /\ nodes \in Seq(GraphNode)
  BY Loads DEF GraphOK, NodesOK
<1>2. raw.nodes \in Seq(StoredGraphNode)
  BY DEF isStoredLesson
<1> HIDE DEF nodes
<1>3. DOMAIN nodes = DOMAIN raw.nodes
      /\ \A i \in DOMAIN raw.nodes : nodes[i].id = raw.nodes[i].id
  BY <1>1, LoadedOptions
<1>4. Len(nodes) = Len(raw.nodes)
  BY <1>1, <1>2, <1>3, LenProperties
<1>5. Ids(nodes) = Ids(raw.nodes)
  BY <1>3 DEF Ids
<1> QED BY <1>4, <1>5 DEF nodes

-----------------------------------------------------------------------------
(* The invariant.                                                          *)

StoredInv ==
  /\ isStoredLesson(stored) /\ validateLessonGraph(stored) = {}
  /\ Len(stored.nodes) <= MaxNodes
  /\ "start" \in Ids(stored.nodes) => isPlaceholderGraph(graphFromBackendFormat(stored))

PageInv ==
  /\ GraphOK(graph) /\ Len(graph.nodes) <= MaxNodes
  /\ "start" \notin Ids(graph.nodes)

EditorInv == desk \in {"teacher", "admin"} /\ StoredInv /\ PageInv

LEMMA OpenedOK ==
  ASSUME StoredInv
  PROVE  /\ GraphOK(Opened(stored)) /\ Len(Opened(stored).nodes) <= MaxNodes
         /\ "start" \notin Ids(Opened(stored).nodes)
<1>1. isStoredLesson(stored)
  BY DEF StoredInv
<1>2. CASE isPlaceholderGraph(graphFromBackendFormat(stored))
  <2>1. Opened(stored) = EmptyGraph
    BY <1>1, <1>2, OpensOtherThanPlaceholder
  <2> QED BY <2>1, EmptyIsOK, EditorAssumption
<1>3. CASE ~isPlaceholderGraph(graphFromBackendFormat(stored))
  <2>1. Opened(stored) = graphFromBackendFormat(stored) /\ GraphOK(Opened(stored))
    BY <1>1, <1>3, OpensOtherThanPlaceholder
  <2>2. Ids(Opened(stored).nodes) = Ids(stored.nodes)
        /\ Len(Opened(stored).nodes) = Len(stored.nodes)
    BY <1>1, <2>1, LoadedIds
  <2> QED BY <1>3, <2>1, <2>2 DEF StoredInv
<1> QED BY <1>2, <1>3

LEMMA InitHolds == EditorInit => EditorInv
<1> SUFFICES ASSUME EditorInit
             PROVE  EditorInv
  OBVIOUS
<1>1. PICK page \in Pages : desk = page[1] /\ stored = page[2]
  BY DEF EditorInit
<1>2. desk \in {"teacher", "admin"} /\ StoredInv
  BY <1>1, PagesAssumption DEF StoredInv
<1>3. graph = Opened(stored)
  BY DEF EditorInit
<1> QED BY <1>2, <1>3, OpenedOK DEF EditorInv, PageInv

(* An edit that adds no block.                                             *)
(* All other steps than an addition or an opening add no block.            *)
Rearranged == EditorInv' /\ Len(graph'.nodes) <= Len(graph.nodes)

LEMMA EditKeeps ==
  ASSUME EditorInv, NEW g, GraphOK(g), Within(g.nodes, graph.nodes), Edit(g)
  PROVE  Rearranged
<1>1. /\ graph' = g /\ desk' = desk /\ stored' = stored
  BY DEF Edit
<1>2. Len(g.nodes) <= MaxNodes
  <2>1. Len(g.nodes) \in Nat /\ Len(graph.nodes) \in Nat
    BY LenProperties DEF EditorInv, PageInv, GraphOK, NodesOK
  <2> QED BY <2>1, EditorAssumption DEF EditorInv, PageInv, Within
<1>3. "start" \notin Ids(g.nodes)
  BY DEF EditorInv, PageInv, Within
<1>4. EditorInv'
  BY <1>1, <1>2, <1>3 DEF EditorInv, PageInv, StoredInv
<1> QED BY <1>1, <1>4 DEF Rearranged, Within

LEMMA BlockOnPage ==
  ASSUME EditorInv, NEW i \in DOMAIN graph.nodes
  PROVE  /\ NodeOK(graph.nodes[i]) /\ graph.nodes[i] \in GraphNode
         /\ graph.nodes[i].id \in Ids(graph.nodes)
         /\ GraphOK(graph) /\ NodesOK(graph.nodes) /\ RoughEdges(graph.edges)
         /\ Leads(graph.nodes, graph.edges)
         /\ graph = [start |-> graph.start, nodes |-> graph.nodes, edges |-> graph.edges]
BY GraphIsRough DEF EditorInv, PageInv, GraphOK, NodesOK, NodeOK, Ids

LEMMA ChangeKeeps ==
  ASSUME EditorInv, NEW node, NodeOK(node), Edit(changeNode(graph, node))
  PROVE  Rearranged
<1>1. GraphOK(graph)
  BY DEF EditorInv, PageInv
<1>2. /\ NodesOK(graph.nodes) /\ RoughEdges(graph.edges) /\ Leads(graph.nodes, graph.edges)
      /\ graph = [start |-> graph.start, nodes |-> graph.nodes, edges |-> graph.edges]
  BY <1>1, GraphIsRough DEF GraphOK
<1>3. /\ GraphOK(changeNode(graph, node))
      /\ Within(changeNode(graph, node).nodes, graph.nodes)
  BY <1>2, Changes
<1> QED BY <1>3, EditKeeps

LEMMA ChangeWithoutEdgeKeeps ==
  ASSUME EditorInv, NEW node, NodeOK(node), NEW n, NEW c,
         Edit(changeNode([graph EXCEPT !.edges = WithoutEdge(graph.edges, n, c)], node))
  PROVE  Rearranged
<1> DEFINE h == [graph EXCEPT !.edges = WithoutEdge(graph.edges, n, c)]
<1>1. GraphOK(graph)
  BY DEF EditorInv, PageInv
<1>2. /\ NodesOK(graph.nodes) /\ RoughEdges(graph.edges) /\ Leads(graph.nodes, graph.edges)
      /\ graph = [start |-> graph.start, nodes |-> graph.nodes, edges |-> graph.edges]
  BY <1>1, GraphIsRough DEF GraphOK
<1>3. /\ h.nodes = graph.nodes /\ h.edges = WithoutEdge(graph.edges, n, c)
      /\ h = [start |-> h.start, nodes |-> h.nodes, edges |-> h.edges]
  BY <1>2
<1>4. RoughEdges(h.edges) /\ Leads(h.nodes, h.edges)
  BY <1>2, <1>3, KeptEdges DEF WithoutEdge
<1> HIDE DEF h
<1>5. GraphOK(changeNode(h, node)) /\ Within(changeNode(h, node).nodes, h.nodes)
  BY <1>2, <1>3, <1>4, Changes
<1>6. EditorInv /\ Edit(changeNode(h, node)) /\ Within(changeNode(h, node).nodes, graph.nodes)
  BY <1>3, <1>5 DEF h
<1> QED BY <1>5, <1>6, EditKeeps

LEMMA TextsKeep ==
  ASSUME EditorInv, NEW i \in DOMAIN graph.nodes, Texts(graph.nodes[i])
  PROVE  Rearranged
<1>1. NodeOK(graph.nodes[i]) /\ (~graph.nodes[i].filled) \in BOOLEAN
  BY BlockOnPage
<1>2. NodeOK([graph.nodes[i] EXCEPT !.filled = ~graph.nodes[i].filled])
  BY <1>1, SetTextsOK
<1>3. Edit(changeNode(graph, [graph.nodes[i] EXCEPT !.filled = ~graph.nodes[i].filled]))
  BY DEF Texts, updateNodeData
<1> QED BY <1>2, <1>3, ChangeKeeps

LEMMA ExitKeeps ==
  ASSUME EditorInv, NEW i \in DOMAIN graph.nodes, NEW c \in Conditions,
         Exit(graph.nodes[i], c)
  PROVE  Rearranged
<1>1. PICK to \in getForwardTargetNodes(graph.nodes, graph.nodes[i].id) \cup {None} :
        Edit(setNextNode(graph, graph.nodes[i].id, c, to))
  BY DEF Exit
<1>2. GraphOK(graph)
  BY BlockOnPage
<1>3. PICK g : g = setNextNode(graph, graph.nodes[i].id, c, to)
  OBVIOUS
<1>4. GraphOK(g) /\ Within(g.nodes, graph.nodes)
  BY <1>2, <1>3, LeadsOn
<1> QED BY <1>1, <1>3, <1>4, EditKeeps

LEMMA OptionConditions ==
  ASSUME NEW node \in GraphNode, NEW o \in OptionsOf(node)
  PROVE  optionEdgeCondition(o) \in Conditions /\ outcomeEdgeCondition(o) \in Conditions
<1>1. o \in AllOptions
  BY OptionsAreTyped DEF OptionsOf, Choice, AllOptions
<1> QED BY <1>1 DEF Conditions

LEMMA WithOptionKeeps ==
  ASSUME EditorInv, NEW i \in DOMAIN graph.nodes, Len(graph.nodes[i].options) < MaxOptions,
         NEW v \in Verdicts \cup {None}, (v # None) <=> Graded(graph.nodes[i]),
         Edit(changeNode(graph, WithOption(graph.nodes[i], v)))
  PROVE  Rearranged
<1>1. PICK node : node = graph.nodes[i] /\ NodeOK(node)
  BY BlockOnPage
<1>2. NodeOK(WithOption(node, v))
  BY <1>1, WithOptionOK
<1> QED BY <1>1, <1>2, ChangeKeeps

LEMMA WithoutOptionKeeps ==
  ASSUME EditorInv, NEW i \in DOMAIN graph.nodes, NEW o \in OptionsOf(graph.nodes[i]),
         Len(graph.nodes[i].options) > 1,
         \/ Edit(removeOption(graph, graph.nodes[i], o))
         \/ Edit(removeOutcome(graph, graph.nodes[i], o))
  PROVE  Rearranged
<1>1. PICK node : node = graph.nodes[i] /\ NodeOK(node)
  BY BlockOnPage
<1>2. PICK new : new = WithoutOption(node, o)
  OBVIOUS
<1>3. NodeOK(new)
  BY <1>1, <1>2, WithoutOptionOK
<1>4. PICK c : Edit(changeNode([graph EXCEPT !.edges = WithoutEdge(graph.edges, node.id, c)], new))
  BY <1>1, <1>2 DEF removeOption, removeOutcome
<1>5. PICK n : n = node.id
  OBVIOUS
<1> QED BY <1>3, <1>4, <1>5, ChangeWithoutEdgeKeeps

LEMMA VerdictKeeps ==
  ASSUME EditorInv, NEW i \in DOMAIN graph.nodes, Graded(graph.nodes[i]),
         NEW o, NEW v \in Grades, Edit(setVerdict(graph, graph.nodes[i], o, v))
  PROVE  Rearranged
<1>1. PICK node : node = graph.nodes[i] /\ NodeOK(node)
  BY BlockOnPage
<1>2. PICK new : new = Regraded(node, o, v)
  OBVIOUS
<1>3. v \in Verdicts /\ Graded(node)
  BY <1>1, EditorAssumption
<1>4. NodeOK(new)
  BY <1>1, <1>2, <1>3, SetVerdictOK
<1>5. Edit(changeNode(graph, new))
  BY <1>1, <1>2 DEF setVerdict, Regraded
<1> QED BY <1>4, <1>5, ChangeKeeps

LEMMA FallbackKeeps ==
  ASSUME EditorInv, NEW i \in DOMAIN graph.nodes, graph.nodes[i].type = "free_text",
         NEW v \in Grades, Edit(updateDefaultOutcome(graph, graph.nodes[i], v))
  PROVE  Rearranged
<1>1. PICK node : node = graph.nodes[i] /\ NodeOK(node)
  BY BlockOnPage
<1>2. NodeOK([node EXCEPT !.fallback = v])
  BY <1>1, SetTextsOK, EditorAssumption
<1>3. Edit(changeNode(graph, [node EXCEPT !.fallback = v]))
  BY <1>1 DEF updateDefaultOutcome
<1> QED BY <1>2, <1>3, ChangeKeeps

LEMMA HeadersKeep ==
  ASSUME EditorInv, NEW i \in DOMAIN graph.nodes, NodeHeader(i) \/ AdminNodeHeader(i)
  PROVE  Rearranged
<1>1. /\ GraphOK(graph) /\ graph.nodes[i].id \in Ids(graph.nodes)
      /\ DOMAIN graph.nodes = 1..Len(graph.nodes) /\ Len(graph.nodes) \in Nat
  BY BlockOnPage, LenProperties DEF NodesOK
<1>2. CASE Edit(removeNode(graph, graph.nodes[i].id))
  <2>1. PICK g : g = removeNode(graph, graph.nodes[i].id)
    OBVIOUS
  <2>2. GraphOK(g) /\ Within(g.nodes, graph.nodes)
    BY <1>1, <2>1, Removes
  <2> QED BY <1>2, <2>1, <2>2, EditKeeps
<1>3. ASSUME NEW j \in DOMAIN graph.nodes, Edit(reorderGraphNodes(graph, i, j))
      PROVE  Rearranged
  <2>1. PICK g : g = reorderGraphNodes(graph, i, j)
    OBVIOUS
  <2>2. GraphOK(g) /\ Within(g.nodes, graph.nodes)
    BY <1>1, <2>1, Reorders
  <2> QED BY <1>3, <2>1, <2>2, EditKeeps
<1>4. CASE i > 1 /\ Edit(reorderGraphNodes(graph, i, i - 1))
  <2>1. i - 1 \in DOMAIN graph.nodes
    BY <1>1, <1>4
  <2> QED BY <1>3, <1>4, <2>1
<1>5. CASE i < Len(graph.nodes) /\ Edit(reorderGraphNodes(graph, i, i + 1))
  <2>1. i + 1 \in DOMAIN graph.nodes
    BY <1>1, <1>5
  <2> QED BY <1>3, <1>5, <2>1
<1> QED BY <1>2, <1>4, <1>5 DEF NodeHeader, AdminNodeHeader

LEMMA BlocksKeep ==
  ASSUME EditorInv, NEW i \in DOMAIN graph.nodes,
         \/ StoryBlock(graph.nodes[i]) \/ ChoiceBlock(graph.nodes[i])
         \/ DecisionBlock(graph.nodes[i]) \/ FreeTextBlock(graph.nodes[i])
  PROVE  Rearranged
<1> DEFINE node == graph.nodes[i]
<1>1. NodeOK(node) /\ node \in GraphNode
  BY BlockOnPage
<1>2. CASE Texts(node)
  BY <1>2, TextsKeep
<1>3. /\ Onward \in Conditions /\ outcomeEdgeCondition(DefaultOutcome) \in Conditions
      /\ \A o \in OptionsOf(node) : optionEdgeCondition(o) \in Conditions
                                    /\ outcomeEdgeCondition(o) \in Conditions
  BY <1>1, OptionConditions DEF Conditions, AllOptions
<1>4. ASSUME NEW c \in Conditions, Exit(node, c)
      PROVE  Rearranged
  BY <1>4, ExitKeeps
<1>5. /\ "correct" \in Verdicts /\ "incorrect" \in Verdicts
      /\ "correct" # None /\ "incorrect" # None
  BY IdAssumption DEF Verdicts
<1>6. CASE StoryBlock(node)
  BY <1>2, <1>3, <1>4, <1>6 DEF StoryBlock
<1>7. CASE ChoiceBlock(node)
  <2>1. node.type = "single_choice" /\ Graded(node)
    BY <1>7 DEF ChoiceBlock, Graded
  <2>2. CASE Len(node.options) < MaxOptions /\ Edit(addOption(graph, node))
    <3>1. Edit(changeNode(graph, WithOption(node, "incorrect")))
      BY <2>1, <2>2 DEF addOption
    <3> QED BY <2>1, <2>2, <3>1, <1>5, WithOptionKeeps
  <2>3. ASSUME NEW o \in OptionsOf(node), Len(node.options) > 2,
               Edit(removeOption(graph, node, o))
        PROVE  Rearranged
    <3>1. Len(node.options) > 1
      BY <1>1, <2>3, OptionsAreTyped, LenProperties
    <3> QED BY <2>3, <3>1, WithoutOptionKeeps
  <2>4. ASSUME NEW o \in OptionsOf(node), NEW v \in Grades, Edit(setVerdict(graph, node, o, v))
        PROVE  Rearranged
    BY <2>1, <2>4, VerdictKeeps
  <2> HIDE DEF node
  <2> QED BY <1>2, <1>3, <1>4, <1>7, <2>2, <2>3, <2>4 DEF ChoiceBlock
<1>8. CASE DecisionBlock(node)
  <2>1. node.type = "decision" /\ ~Graded(node)
    BY <1>8 DEF DecisionBlock, Graded
  <2>2. CASE Len(node.options) < MaxOptions /\ Edit(addOption(graph, node))
    <3>1. Edit(changeNode(graph, WithOption(node, None)))
      BY <2>1, <2>2 DEF addOption
    <3> QED BY <2>1, <2>2, <3>1, WithOptionKeeps
  <2>3. ASSUME NEW o \in OptionsOf(node), Len(node.options) > 2,
               Edit(removeOption(graph, node, o))
        PROVE  Rearranged
    <3>1. Len(node.options) > 1
      BY <1>1, <2>3, OptionsAreTyped, LenProperties
    <3> QED BY <2>3, <3>1, WithoutOptionKeeps
  <2> HIDE DEF node
  <2> QED BY <1>2, <1>3, <1>4, <1>8, <2>2, <2>3 DEF DecisionBlock
<1>9. CASE FreeTextBlock(node)
  <2>1. node.type = "free_text" /\ Graded(node)
    BY <1>9 DEF FreeTextBlock, Graded
  <2>2. CASE Len(node.options) < MaxOptions /\ Edit(addOutcome(graph, node))
    <3>1. Edit(changeNode(graph, WithOption(node, "correct")))
      BY <2>2 DEF addOutcome
    <3> QED BY <2>1, <2>2, <3>1, <1>5, WithOptionKeeps
  <2>3. ASSUME NEW o \in OptionsOf(node), Len(node.options) > 1,
               Edit(removeOutcome(graph, node, o))
        PROVE  Rearranged
    BY <2>3, WithoutOptionKeeps
  <2>4. ASSUME NEW o \in OptionsOf(node), NEW v \in Grades, Edit(setVerdict(graph, node, o, v))
        PROVE  Rearranged
    BY <2>1, <2>4, VerdictKeeps
  <2>5. ASSUME NEW v \in Grades, Edit(updateDefaultOutcome(graph, node, v))
        PROVE  Rearranged
    BY <2>1, <2>5, FallbackKeeps
  <2> HIDE DEF node
  <2> QED BY <1>2, <1>3, <1>4, <1>9, <2>2, <2>3, <2>4, <2>5 DEF FreeTextBlock
<1> QED BY <1>6, <1>7, <1>8, <1>9

LEMMA AddKeeps ==
  ASSUME EditorInv, AddNodeBar
  PROVE  EditorInv'
<1>1. PICK type \in Offered, id \in FreshNodes : Edit(addNode(graph, createNode(type, id)))
  BY DEF AddNodeBar
<1>2. type \in Kinds /\ id \in NodeIds /\ id # "start" /\ id \notin Ids(graph.nodes)
  BY EditorAssumption DEF FreshNodes
<1>3. PICK node : node = createNode(type, id) /\ NodeOK(node) /\ node.id = id
  BY <1>2, CreatedOK
<1>4. PICK g : g = addNode(graph, node)
  OBVIOUS
<1>5. GraphOK(graph)
  BY DEF EditorInv, PageInv
<1>6. /\ GraphOK(g) /\ Len(g.nodes) <= Len(graph.nodes) + 1
      /\ Ids(g.nodes) \subseteq Ids(graph.nodes) \cup {id}
  BY <1>2, <1>3, <1>4, <1>5, Adds
<1>7. Len(graph.nodes) < MaxNodes /\ Len(graph.nodes) \in Nat /\ Len(g.nodes) \in Nat
  BY <1>5, <1>6, LenProperties DEF AddNodeBar, GraphOK, NodesOK
<1>8. Len(g.nodes) <= MaxNodes
  BY <1>6, <1>7, EditorAssumption
<1>9. "start" \notin Ids(g.nodes)
  BY <1>2, <1>6 DEF EditorInv, PageInv
<1>10. graph' = g /\ desk' = desk /\ stored' = stored
  BY <1>1, <1>3, <1>4 DEF Edit
<1> QED BY <1>6, <1>8, <1>9, <1>10 DEF EditorInv, PageInv, StoredInv

LEMMA SaveKeeps ==
  ASSUME EditorInv, Save
  PROVE  EditorInv'
<1>1. PICK raw : raw = graphToBackendFormat(graph)
  OBVIOUS
<1>2. GraphOK(graph) /\ Len(graph.nodes) <= MaxNodes /\ "start" \notin Ids(graph.nodes)
  BY DEF EditorInv, PageInv
<1>3. /\ isStoredLesson(raw) /\ Ids(raw.nodes) = Ids(graph.nodes)
      /\ Len(raw.nodes) = Len(graph.nodes)
  BY <1>1, <1>2, StoresAndLoads
<1>4. validateLessonGraph(raw) = {} /\ stored' = raw /\ desk' = desk /\ graph' = graph
  BY <1>1 DEF Save
<1> QED BY <1>2, <1>3, <1>4 DEF EditorInv, PageInv, StoredInv

LEMMA InvHolds == EditorSpec => []EditorInv
<1>1. EditorInv /\ [EditorNext]_editorVars => EditorInv'
  <2> SUFFICES ASSUME EditorInv, [EditorNext]_editorVars
               PROVE  EditorInv'
    OBVIOUS
  <2>1. CASE UNCHANGED editorVars
    BY <2>1 DEF editorVars, EditorInv, StoredInv, PageInv
  <2>2. CASE Open
    <3>1. GraphOK(Opened(stored)) /\ Len(Opened(stored).nodes) <= MaxNodes
          /\ "start" \notin Ids(Opened(stored).nodes)
      BY OpenedOK DEF EditorInv
    <3>2. graph' = Opened(stored) /\ desk' = desk /\ stored' = stored
      BY <2>2 DEF Open, Edit
    <3> QED BY <3>1, <3>2 DEF EditorInv, PageInv, StoredInv
  <2> QED BY <2>1, <2>2, HeadersKeep, BlocksKeep, AddKeeps, SaveKeeps DEF EditorNext, Rearranged
<1> QED BY <1>1, InitHolds, PTL DEF EditorSpec

-----------------------------------------------------------------------------
(* The properties.                                                         *)

(* Exits lead forward in the list and grades go with graded answers, for   *)
(* any lessons the editors wrote and any ids, whatever is edited.          *)
THEOREM EditorIsTyped == EditorSpec => []EditorTypeOK
<1>1. EditorInv => EditorTypeOK
  <2> SUFFICES ASSUME EditorInv
               PROVE  EditorTypeOK
    OBVIOUS
  <2>1. /\ GraphOK(graph) /\ NodesOK(graph.nodes) /\ EdgesOK(graph.nodes, graph.edges)
        /\ Len(graph.nodes) <= MaxNodes /\ graph.nodes \in Seq(GraphNode)
    BY DEF EditorInv, PageInv, GraphOK, NodesOK
  <2>2. \A i \in DOMAIN graph.nodes : NodeOK(graph.nodes[i]) /\ graph.nodes[i].id \in NodeIds
    BY <2>1 DEF NodesOK, NodeOK, GraphNode
  <2>3. Ids(stored.nodes) \subseteq NodeIds
    <3>1. stored.nodes \in Seq(StoredGraphNode)
      BY DEF EditorInv, StoredInv, isStoredLesson
    <3>2. \A i \in DOMAIN stored.nodes : stored.nodes[i] \in StoredGraphNode
      BY <3>1, LenProperties, ElementOfSeq
    <3> QED BY <3>2 DEF Ids, StoredGraphNode
  <2>4. graph.start \in NodeIds \cup {None}
    BY <2>1, <2>2 DEF GraphOK, Ids
  <2>5. ASSUME NEW e \in DOMAIN graph.edges
        PROVE  /\ e[1] \in NodeIds /\ graph.edges[e] \in NodeIds
               /\ isForwardEdge(graph.nodes, graph.edges, e)
    <3>1. PICK i, j \in DOMAIN graph.nodes :
            i < j /\ Output(graph.nodes, i, e) /\ graph.edges[e] = graph.nodes[j].id
      BY <2>1 DEF EdgesOK
    <3>2. e[1] = graph.nodes[i].id
      BY <3>1 DEF Output
    <3>3. Position(graph.nodes, e[1]) = i /\ Position(graph.nodes, graph.edges[e]) = j
      BY <2>1, <3>1, <3>2, PlaceOf DEF NodesOK
    <3>4. e[1] \in Ids(graph.nodes) /\ graph.edges[e] \in Ids(graph.nodes)
      BY <3>1, <3>2 DEF Ids
    <3>5. j > i
      BY <3>1, <2>1, LenProperties
    <3> QED BY <2>2, <3>1, <3>2, <3>3, <3>4, <3>5 DEF isForwardEdge
  <2>6. ASSUME NEW node \in ToSet(graph.nodes)
        PROVE  /\ \A i \in DOMAIN node.options :
                    (node.options[i].verdict # None) <=> Graded(node)
               /\ (node.fallback # None) <=> (node.type = "free_text")
    BY <2>2 DEF ToSet, NodeOK
  <2>7. desk \in {"teacher", "admin"}
    BY DEF EditorInv
  <2>8. \A i, j \in DOMAIN graph.nodes : graph.nodes[i].id = graph.nodes[j].id => i = j
    BY <2>1 DEF NodesOK, Distinct
  <2> QED BY <2>1, <2>3, <2>4, <2>5, <2>6, <2>7, <2>8 DEF EditorTypeOK, Graded
<1> QED BY <1>1, InvHolds, PTL

(* Storing a lesson and opening it again shows the same blocks, grades,    *)
(* exits and start: the two conversions of api/types.ts are inverse on     *)
(* every graph the page can hold.                                          *)
THEOREM SavingLosesNothing == EditorSpec => []OpensAsSaved
<1>1. EditorInv => OpensAsSaved
  <2> SUFFICES ASSUME EditorInv
               PROVE  OpensAsSaved
    OBVIOUS
  <2>1. GraphOK(graph) /\ "start" \notin Ids(graph.nodes)
    BY DEF EditorInv, PageInv
  <2>2. PICK raw : raw = graphToBackendFormat(graph)
    OBVIOUS
  <2>3. isStoredLesson(raw) /\ graphFromBackendFormat(raw) = graph
    BY <2>1, <2>2, StoresAndLoads
  <2>4. ~isPlaceholderGraph(graph)
    BY <2>1, NamedStart
  <2>5. Opened(raw) = graph
    BY <2>3, <2>4, OpensOtherThanPlaceholder
  <2> QED BY <2>2, <2>5 DEF OpensAsSaved
<1> QED BY <1>1, InvHolds, PTL

(* What the page lists under a block is what the server reads from the     *)
(* stored block, in the older form of free text too.                       *)
THEOREM PageShowsTheStored == EditorSpec => []ShowsWhatIsStored
<1>1. EditorInv => ShowsWhatIsStored
  <2> DEFINE shown == Opened(stored)
  <2> SUFFICES ASSUME EditorInv, shown # EmptyGraph
               PROVE  /\ shown.start = stored.start
                      /\ \A n \in Ids(stored.nodes) :
                           /\ describeOutgoingEdges(shown, NodeOf(shown.nodes, n))
                                = {x \in ExitsOf(NodeOf(stored.nodes, n)) : x[2] # None}
                           /\ getNodeOutputConditions(NodeOf(shown.nodes, n))
                                = {x[1] : x \in ExitsOf(NodeOf(stored.nodes, n))}
    BY DEF ShowsWhatIsStored
  <2>1. isStoredLesson(stored)
    BY DEF EditorInv, StoredInv
  <2>2. shown = graphFromBackendFormat(stored)
    BY <2>1, OpensOtherThanPlaceholder
  <2> HIDE DEF shown
  <2>3. /\ GraphOK(shown) /\ shown.start = stored.start
        /\ shown.nodes = [i \in DOMAIN stored.nodes |-> LoadedNode(stored.nodes[i])]
        /\ \A e : e \in DOMAIN shown.edges <=>
             \E i \in DOMAIN stored.nodes : \E x \in ExitsOf(stored.nodes[i]) :
               x[2] # None /\ e = <<stored.nodes[i].id, x[1]>>
        /\ \A i \in DOMAIN stored.nodes : \A x \in ExitsOf(stored.nodes[i]) :
             x[2] # None => shown.edges[<<stored.nodes[i].id, x[1]>>] = x[2]
    BY <2>1, <2>2, Loads
  <2>4. /\ Distinct(stored.nodes) /\ Distinct(shown.nodes)
        /\ DOMAIN shown.nodes = DOMAIN stored.nodes
        /\ \A i \in DOMAIN stored.nodes : /\ shown.nodes[i] = LoadedNode(stored.nodes[i])
                                          /\ shown.nodes[i].id = stored.nodes[i].id
    BY <2>1, <2>3, LoadedOptions DEF isStoredLesson, Distinct, GraphOK, NodesOK
  <2>5. \A i \in DOMAIN stored.nodes :
          stored.nodes[i] \in StoredGraphNode /\ isStoredNode(stored.nodes[i])
    <3>1. stored.nodes \in Seq(StoredGraphNode)
      BY <2>1 DEF isStoredLesson
    <3> QED BY <2>1, <3>1, LenProperties, ElementOfSeq DEF isStoredLesson
  <2>6. ASSUME NEW n \in Ids(stored.nodes)
        PROVE  /\ describeOutgoingEdges(shown, NodeOf(shown.nodes, n))
                    = {x \in ExitsOf(NodeOf(stored.nodes, n)) : x[2] # None}
               /\ getNodeOutputConditions(NodeOf(shown.nodes, n))
                    = {x[1] : x \in ExitsOf(NodeOf(stored.nodes, n))}
    <3>1. PICK i \in DOMAIN stored.nodes : stored.nodes[i].id = n
      BY DEF Ids
    <3>2. PICK node \in StoredGraphNode : node = stored.nodes[i] /\ isStoredNode(node)
      BY <2>5
    <3>3. NodeOf(stored.nodes, n) = node /\ NodeOf(shown.nodes, n) = LoadedNode(node)
      BY <2>4, <3>1, <3>2, PlaceOf
    <3>4. LoadedNode(node).id = n /\ node.id = n
      BY <2>4, <3>1, <3>2
    <3>5. /\ \A x \in ExitsOf(node) : /\ x = <<x[1], x[2]>>
                                      /\ x[1] \in getNodeOutputConditions(LoadedNode(node))
          /\ \A c \in getNodeOutputConditions(LoadedNode(node)) :
               \E x \in ExitsOf(node) : x[1] = c
          /\ \A x, y \in ExitsOf(node) : x[1] = y[1] => x = y
      BY <3>2, ExitsAre
    <3>6. getNodeOutputConditions(LoadedNode(node)) = {x[1] : x \in ExitsOf(node)}
      BY <3>5
    <3>7. ASSUME NEW x \in ExitsOf(node)
          PROVE  getGraphEdgeTarget(shown.edges, n, x[1]) = x[2]
      <4>1. CASE x[2] # None
        <5>1. <<stored.nodes[i].id, x[1]>> \in DOMAIN shown.edges
              /\ shown.edges[<<stored.nodes[i].id, x[1]>>] = x[2]
          BY <2>3, <3>2, <4>1
        <5> QED BY <3>1, <5>1 DEF getGraphEdgeTarget
      <4>2. CASE x[2] = None
        <5> SUFFICES ASSUME <<n, x[1]>> \in DOMAIN shown.edges
                     PROVE  FALSE
          BY <4>2 DEF getGraphEdgeTarget
        <5>1. PICK j \in DOMAIN stored.nodes : \E y \in ExitsOf(stored.nodes[j]) :
                y[2] # None /\ <<n, x[1]>> = <<stored.nodes[j].id, y[1]>>
          BY <2>3
        <5>2. PICK y \in ExitsOf(stored.nodes[j]) :
                y[2] # None /\ n = stored.nodes[j].id /\ x[1] = y[1]
          BY <5>1
        <5>3. j = i
          BY <2>4, <3>1, <5>2 DEF Distinct
        <5> QED BY <3>2, <3>5, <4>2, <5>2, <5>3
      <4> QED BY <4>1, <4>2
    <3>8. describeOutgoingEdges(shown, LoadedNode(node))
            = {x \in ExitsOf(node) : x[2] # None}
      <4> DEFINE listed == {<<c, getGraphEdgeTarget(shown.edges, LoadedNode(node).id, c)>> :
                              c \in getNodeOutputConditions(LoadedNode(node))}
      <4>1. listed = ExitsOf(node)
        <5>1. ASSUME NEW l \in listed
              PROVE  l \in ExitsOf(node)
          <6>1. PICK c \in getNodeOutputConditions(LoadedNode(node)) :
                  l = <<c, getGraphEdgeTarget(shown.edges, n, c)>>
            BY <3>4
          <6>2. PICK x \in ExitsOf(node) : x[1] = c
            BY <3>5
          <6> QED BY <3>5, <3>7, <6>1, <6>2
        <5>2. ASSUME NEW x \in ExitsOf(node)
              PROVE  x \in listed
          BY <3>4, <3>5, <3>7
        <5> QED BY <5>1, <5>2
      <4>2. describeOutgoingEdges(shown, LoadedNode(node)) = {x \in listed : x[2] # None}
        BY DEF describeOutgoingEdges
      <4> HIDE DEF listed
      <4> QED BY <4>1, <4>2
    <3> QED BY <3>3, <3>6, <3>8
  <2> QED BY <2>3, <2>6
<1> QED BY <1>1, InvHolds, PTL

-----------------------------------------------------------------------------
(* What the validator admits.                                              *)

(* One step of a walk through the blocks, and the steps Reach takes.       *)
Onto(raw, T) ==
  T \cup ((UNION {Targets(StoredById(raw)[n]) : n \in T}) \cap DOMAIN StoredById(raw))

Walked(raw, S, after, m) ==
  after = [k \in 0..m |-> IF k = 0 THEN S \cap DOMAIN StoredById(raw)
                          ELSE Onto(raw, after[k - 1])]

LEMMA WalkExists ==
  ASSUME NEW raw, NEW S, NEW m \in Nat
  PROVE  \E after : Walked(raw, S, after, m)
<1> DEFINE B == {k \in Nat : ~\E after : Walked(raw, S, after, k)}
<1> SUFFICES ASSUME B # {}
             PROVE  FALSE
  OBVIOUS
<1>1. B \subseteq Nat
  OBVIOUS
<1>2. PICK b \in B : \A k \in B : b <= k
  BY <1>1, LeastPlace
<1>3. b \in Nat
  OBVIOUS
<1>4. ~\E after : Walked(raw, S, after, b)
  OBVIOUS
<1>5. \A k \in Nat : k < b => \E after : Walked(raw, S, after, k)
  BY <1>2, <1>3
<1> HIDE DEF B
<1> DEFINE S0 == S \cap DOMAIN StoredById(raw)
<1>6. CASE b = 0
  <2> DEFINE f == [k \in 0..b |-> S0]
  <2>1. f = [k \in 0..b |-> IF k = 0 THEN S0 ELSE Onto(raw, f[k - 1])]
    BY <1>6
  <2> HIDE DEF f
  <2> QED BY <1>4, <2>1 DEF Walked
<1>7. CASE b # 0
  <2>1. b - 1 \in Nat /\ b - 1 < b
    BY <1>3, <1>7
  <2>2. PICK f : Walked(raw, S, f, b - 1)
    BY <1>5, <2>1
  <2> DEFINE g == [k \in 0..b |-> IF k = b THEN Onto(raw, f[b - 1]) ELSE f[k]]
  <2>3. \A k \in 0..(b - 1) : f[k] = IF k = 0 THEN S0 ELSE Onto(raw, f[k - 1])
    BY <2>2 DEF Walked
  <2>4. ASSUME NEW k \in 0..b
        PROVE  g[k] = IF k = 0 THEN S0 ELSE Onto(raw, g[k - 1])
    <3>1. CASE k = b
      <4>1. g[k] = Onto(raw, f[b - 1]) /\ g[b - 1] = f[b - 1]
        BY <3>1, <2>1
      <4> QED BY <3>1, <4>1, <1>7
    <3>2. CASE k = 0
      <4>1. g[k] = f[0] /\ 0 \in 0..(b - 1)
        BY <3>2, <1>7, <2>1
      <4> QED BY <3>2, <4>1, <2>3
    <3>3. CASE k # b /\ k # 0
      <4>1. k \in 0..(b - 1) /\ k - 1 \in 0..b /\ k - 1 # b
        BY <3>3, <1>3
      <4>2. g[k] = f[k] /\ g[k - 1] = f[k - 1]
        BY <3>3, <4>1
      <4> QED BY <3>3, <4>1, <4>2, <2>3
    <3> QED BY <3>1, <3>2, <3>3
  <2>5. g = [k \in 0..b |-> g[k]]
    OBVIOUS
  <2> HIDE DEF g
  <2>6. g = [k \in 0..b |-> IF k = 0 THEN S0 ELSE Onto(raw, g[k - 1])]
    BY <2>4, <2>5
  <2> QED BY <1>4, <2>6 DEF Walked
<1> QED BY <1>6, <1>7

LEMMA ReachIsWalk ==
  ASSUME NEW raw, Len(raw.nodes) \in Nat, NEW S
  PROVE  \E after : /\ Reach(raw, S) = after[Len(raw.nodes)]
                    /\ after[0] = S \cap DOMAIN StoredById(raw)
                    /\ \A k \in 1..Len(raw.nodes) : after[k] = Onto(raw, after[k - 1])
                    /\ \A k \in 0..Len(raw.nodes) : after[k] \subseteq DOMAIN StoredById(raw)
<1> DEFINE node == StoredById(raw)
           after == CHOOSE f : f = [k \in 0..Len(raw.nodes) |->
                      IF k = 0 THEN S \cap DOMAIN node
                      ELSE f[k-1] \cup ((UNION {Targets(node[n]) : n \in f[k-1]}) \cap DOMAIN node)]
<1>1. Reach(raw, S) = after[Len(raw.nodes)]
  BY DEF Reach
<1>2. after = CHOOSE f : Walked(raw, S, f, Len(raw.nodes))
  BY DEF Walked, Onto
<1> HIDE DEF after
<1>3. Walked(raw, S, after, Len(raw.nodes))
  BY <1>2, WalkExists
<1>4. \A k \in 0..Len(raw.nodes) :
        after[k] = IF k = 0 THEN S \cap DOMAIN StoredById(raw) ELSE Onto(raw, after[k - 1])
  BY <1>3 DEF Walked
<1>5. after[0] = S \cap DOMAIN StoredById(raw)
  BY <1>4
<1>6. \A k \in 1..Len(raw.nodes) : after[k] = Onto(raw, after[k - 1])
  BY <1>4
<1> DEFINE astray == {k \in Nat : k <= Len(raw.nodes) /\ ~(after[k] \subseteq DOMAIN node)}
<1>7. astray = {}
  <2> SUFFICES ASSUME astray # {}
               PROVE  FALSE
    OBVIOUS
  <2>1. astray \in SUBSET Nat
    OBVIOUS
  <2>2. PICK k \in astray : \A j \in astray : k <= j
    BY <2>1, LeastPlace
  <2>3. k \in Nat /\ k <= Len(raw.nodes) /\ ~(after[k] \subseteq DOMAIN node)
    OBVIOUS
  <2>4. \A j \in Nat : j <= Len(raw.nodes) /\ j < k => after[j] \subseteq DOMAIN node
    BY <2>2, <2>3
  <2> HIDE DEF astray
  <2>5. k # 0
    BY <1>5, <2>3
  <2>6. k \in 1..Len(raw.nodes) /\ k - 1 \in Nat /\ k - 1 <= Len(raw.nodes) /\ k - 1 < k
    BY <2>3, <2>5
  <2>7. after[k - 1] \subseteq DOMAIN node
    BY <2>4, <2>6
  <2> QED BY <1>6, <2>3, <2>6, <2>7 DEF Onto
<1>8. \A k \in 0..Len(raw.nodes) : after[k] \subseteq DOMAIN node
  BY <1>7
<1> QED BY <1>1, <1>5, <1>6, <1>8

LEMMA AdmittedIs ==
  ASSUME NEW raw, validateLessonGraph(raw) = {}
  PROVE  /\ \A n \in DOMAIN StoredById(raw) :
              /\ collectTargets(StoredById(raw)[n]) = {}
              /\ Targets(StoredById(raw)[n]) \subseteq DOMAIN StoredById(raw)
         /\ raw.start # None
         /\ Reach(raw, {raw.start}) = DOMAIN StoredById(raw)
         /\ \A n \in Reach(raw, {raw.start}) :
              n \notin Reach(raw, Targets(StoredById(raw)[n]))
<1> DEFINE node == StoredById(raw)
           texts == UNION {collectTargets(node[n]) : n \in DOMAIN node}
           starts == IF raw.start = None THEN {"missing_start_node"}
                     ELSE IF raw.start \notin DOMAIN node THEN {"missing_start_target"} ELSE {}
           strays == IF \E n \in DOMAIN node : ~(Targets(node[n]) \subseteq DOMAIN node)
                     THEN {"missing_transition_target"} ELSE {}
           rounds == IF raw.start # None
                        /\ \E n \in Reach(raw, {raw.start}) : n \in Reach(raw, Targets(node[n]))
                     THEN {"cycle_detected"} ELSE {}
           islands == IF raw.start # None /\ Reach(raw, {raw.start}) # DOMAIN node
                      THEN {"unreachable_node"} ELSE {}
<1>1. validateLessonGraph(raw) = texts \cup starts \cup strays \cup rounds \cup islands
  BY DEF validateLessonGraph
<1> HIDE DEF texts, starts, strays, rounds, islands
<1>2. texts = {} /\ starts = {} /\ strays = {} /\ rounds = {} /\ islands = {}
  BY <1>1
<1>3. \A n \in DOMAIN node : collectTargets(node[n]) = {}
  BY <1>2 DEF texts
<1>4. raw.start # None
  BY <1>2 DEF starts
<1>5. \A n \in DOMAIN node : Targets(node[n]) \subseteq DOMAIN node
  BY <1>2 DEF strays
<1>6. ~\E n \in Reach(raw, {raw.start}) : n \in Reach(raw, Targets(node[n]))
  BY <1>2, <1>4 DEF rounds
<1>7. Reach(raw, {raw.start}) = DOMAIN node
  BY <1>2, <1>4 DEF islands
<1> QED BY <1>3, <1>4, <1>5, <1>6, <1>7

(* A block without complaint that is no dead end has an exit unless it is  *)
(* an end, and every exit leads to some block.                             *)
LEMMA NothingIsUnled ==
  ASSUME NEW node \in StoredGraphNode, isStoredNode(node), collectTargets(node) = {},
         ~DeadEnd(node)
  PROVE  /\ \A x \in ExitsOf(node) : x[2] # None
         /\ node.kind # "end" => ExitsOf(node) # {}
<1> DEFINE unled == \E x \in ExitsOf(node) : x[2] = None
           exits == {node.options[i] : i \in DOMAIN node.options}
<1>1. node.kind \in {"story", "single_choice", "free_text", "decision", "end"}
      /\ node.rubric \in Rubrics \cup {None} /\ node.options \in Seq(Exits)
  BY DEF StoredGraphNode, KindOf, Kinds
<1>2. CASE node.kind = "story"
  <2>1. ExitsOf(node) = {<<Onward, node.next>>}
    BY <1>2 DEF ExitsOf
  <2>2. ~(unled /\ ~node.terminal)
    BY <1>2 DEF collectTargets
  <2>3. ~unled
    BY <1>2, <2>1, <2>2 DEF DeadEnd
  <2> QED BY <2>1, <2>3
<1>3. CASE node.kind \in {"single_choice", "decision"}
  <2>1. ~unled
    BY <1>3 DEF collectTargets
  <2>2. Len(node.options) \in Nat \ {0}
    <3>1. CASE node.kind = "single_choice"
      <4>1. node.options # <<>>
        BY <3>1 DEF collectTargets
      <4> QED BY <4>1, <1>1, EmptySeq, LenProperties
    <3>2. CASE node.kind = "decision"
      <4>1. ~(Len(node.options) < 2)
        BY <3>2 DEF collectTargets
      <4> QED BY <4>1, <1>1, LenProperties
    <3> QED BY <1>3, <3>1, <3>2
  <2>3. 1 \in DOMAIN node.options
    BY <1>1, <2>2, LenProperties
  <2>4. ExitsOf(node) = {<<optionEdgeCondition(o.id), o.to>> : o \in exits}
    BY <1>3 DEF ExitsOf
  <2>5. <<optionEdgeCondition(node.options[1].id), node.options[1].to>> \in ExitsOf(node)
    BY <2>3, <2>4
  <2> QED BY <2>1, <2>5
<1>4. CASE node.kind = "free_text"
  <2>1. ~unled
    BY <1>1, <1>4 DEF collectTargets
  <2>2. ExitsOf(node)
          = {<<outcomeEdgeCondition(o.id), o.to>> : o \in exits \cup {DefaultExit(node)}}
    BY <1>4 DEF ExitsOf
  <2> QED BY <2>1, <2>2
<1>5. CASE node.kind = "end"
  <2>1. ExitsOf(node) = {}
    BY <1>5 DEF ExitsOf
  <2> QED BY <1>5, <2>1
<1> QED BY <1>1, <1>2, <1>3, <1>4, <1>5

(* A walk that goes on from a block of an admitted lesson has come, after  *)
(* every step, to an end or one place further in the list.                 *)
LEMMA WalksEnd ==
  ASSUME NEW raw, isStoredLesson(raw), validateLessonGraph(raw) = {},
         \A p \in DOMAIN raw.nodes : ~DeadEnd(raw.nodes[p]),
         NEW i \in DOMAIN raw.nodes
  PROVE  \E m \in Reach(raw, {raw.nodes[i].id}) : StoredById(raw)[m].kind = "end"
<1> DEFINE node == StoredById(raw)
           L == Len(raw.nodes)
<1>1. /\ raw.nodes \in Seq(StoredGraphNode) /\ L \in Nat /\ DOMAIN raw.nodes = 1..L
      /\ Distinct(raw.nodes)
  BY LenProperties DEF isStoredLesson, Distinct
<1>2. ASSUME NEW p \in DOMAIN raw.nodes
      PROVE  raw.nodes[p].id \in DOMAIN node /\ node[raw.nodes[p].id] = raw.nodes[p]
  <2>1. DOMAIN node = Ids(raw.nodes)
        /\ \A n \in Ids(raw.nodes) : node[n] = NodeOf(raw.nodes, n)
    BY DEF StoredById
  <2>2. raw.nodes[p].id \in Ids(raw.nodes)
    BY DEF Ids
  <2> QED BY <1>1, <2>1, <2>2, PlaceOf
<1>3. PICK after : /\ Reach(raw, {raw.nodes[i].id}) = after[L]
                   /\ after[0] = {raw.nodes[i].id} \cap DOMAIN node
                   /\ \A k \in 1..L : after[k] = Onto(raw, after[k - 1])
                   /\ \A k \in 0..L : after[k] \subseteq DOMAIN node
  BY <1>1, ReachIsWalk
<1> DEFINE Come(k) == \/ \E m \in after[k] : node[m].kind = "end"
                      \/ \E p \in DOMAIN raw.nodes : i + k <= p /\ raw.nodes[p].id \in after[k]
           Stuck == {k \in Nat : k <= L /\ ~Come(k)}
<1>4. Come(0)
  <2>1. raw.nodes[i].id \in after[0] /\ i + 0 <= i
    BY <1>1, <1>2, <1>3
  <2> QED BY <2>1
<1>5. ASSUME NEW k \in 1..L, Come(k - 1)
      PROVE  Come(k)
  <2>1. after[k] = Onto(raw, after[k - 1]) /\ after[k - 1] \subseteq after[k]
    BY <1>3 DEF Onto
  <2>2. CASE \E m \in after[k - 1] : node[m].kind = "end"
    BY <2>1, <2>2
  <2>3. CASE ~\E m \in after[k - 1] : node[m].kind = "end"
    <3>1. PICK p \in DOMAIN raw.nodes : i + (k - 1) <= p /\ raw.nodes[p].id \in after[k - 1]
      BY <1>5, <2>3
    <3>2. PICK s : s = raw.nodes[p]
      OBVIOUS
    <3>3. s \in StoredGraphNode /\ isStoredNode(s) /\ ~DeadEnd(s)
      BY <1>1, <3>2, ElementOfSeq DEF isStoredLesson
    <3>4. node[s.id] = s /\ s.id \in DOMAIN node /\ s.id \in after[k - 1]
      BY <1>2, <3>1, <3>2
    <3>5. s.kind # "end"
      BY <2>3, <3>4
    <3>6. collectTargets(s) = {} /\ Targets(s) \subseteq DOMAIN node
      BY <3>4, AdmittedIs
    <3>7. PICK x \in ExitsOf(s) : x[2] # None
      BY <3>3, <3>5, <3>6, NothingIsUnled
    <3>8. PICK q \in DOMAIN raw.nodes : p < q /\ x[2] = raw.nodes[q].id
      BY <3>2, <3>7 DEF isStoredLesson
    <3>9. x[2] \in Targets(s)
      BY <3>7 DEF Targets
    <3>10. x[2] \in after[k]
      <4>1. Targets(s) \in {Targets(StoredById(raw)[n]) : n \in after[k - 1]}
        BY <3>4
      <4>2. x[2] \in UNION {Targets(StoredById(raw)[n]) : n \in after[k - 1]}
        BY <3>9, <4>1
      <4> QED BY <2>1, <3>6, <3>9, <4>2 DEF Onto
    <3>11. i + k <= q
      BY <1>1, <3>1, <3>8
    <3> QED BY <3>8, <3>10, <3>11
  <2> QED BY <2>2, <2>3
<1>6. Come(L)
  <2> SUFFICES ASSUME ~Come(L)
               PROVE  FALSE
    OBVIOUS
  <2>1. Stuck \subseteq Nat /\ L \in Stuck
    BY <1>1
  <2>2. Stuck \in SUBSET Nat /\ Stuck # {}
    BY <2>1
  <2>3. PICK k \in Stuck : \A j \in Stuck : k <= j
    BY <2>2, LeastPlace
  <2>4. k \in Nat /\ k <= L /\ ~Come(k)
    OBVIOUS
  <2>5. \A j \in Nat : j <= L /\ j < k => Come(j)
    BY <2>3, <2>4
  <2> HIDE DEF Stuck, Come
  <2>6. k # 0
    BY <1>4, <2>4
  <2>7. k \in 1..L /\ k - 1 \in Nat /\ k - 1 <= L /\ k - 1 < k
    BY <1>1, <2>4, <2>6
  <2>8. Come(k - 1)
    BY <2>5, <2>7
  <2> QED BY <1>5, <2>4, <2>7, <2>8
<1>7. ~\E p \in DOMAIN raw.nodes : i + L <= p /\ raw.nodes[p].id \in after[L]
  <2> SUFFICES ASSUME NEW p \in DOMAIN raw.nodes, i + L <= p
               PROVE  FALSE
    OBVIOUS
  <2> QED BY <1>1
<1> QED BY <1>3, <1>6, <1>7

LEMMA AdmittedEnds ==
  ASSUME NEW raw, isStoredLesson(raw), validateLessonGraph(raw) = {},
         \A p \in DOMAIN raw.nodes : ~DeadEnd(raw.nodes[p])
  PROVE  CanBeFinished(raw)
<1> DEFINE node == StoredById(raw)
<1> SUFFICES ASSUME NEW n \in DOMAIN node
             PROVE  /\ node[n].kind = "end" \/ TakenExits(node[n]) # {}
                    /\ \A x \in TakenExits(node[n]) : x[2] \in DOMAIN node
                    /\ \E m \in Reach(raw, {n}) : node[m].kind = "end"
                    /\ n \notin Reach(raw, Targets(node[n]))
  BY DEF CanBeFinished
<1>1. DOMAIN node = Ids(raw.nodes) /\ node[n] = NodeOf(raw.nodes, n)
  BY DEF StoredById
<1>2. PICK i \in DOMAIN raw.nodes : raw.nodes[i].id = n
  BY <1>1 DEF Ids
<1>3. Distinct(raw.nodes) /\ raw.nodes \in Seq(StoredGraphNode)
  BY DEF isStoredLesson, Distinct
<1>4. node[n] = raw.nodes[i]
  BY <1>1, <1>2, <1>3, PlaceOf
<1>5. raw.nodes[i] \in StoredGraphNode /\ isStoredNode(raw.nodes[i]) /\ ~DeadEnd(raw.nodes[i])
  BY <1>3, LenProperties, ElementOfSeq DEF isStoredLesson
<1>6. /\ collectTargets(node[n]) = {} /\ Targets(node[n]) \subseteq DOMAIN node
      /\ n \notin Reach(raw, Targets(node[n]))
  BY AdmittedIs
<1>7. /\ \A x \in ExitsOf(node[n]) : x[2] # None
      /\ node[n].kind # "end" => ExitsOf(node[n]) # {}
  BY <1>4, <1>5, <1>6, NothingIsUnled
<1>8. TakenExits(node[n]) = ExitsOf(node[n])
  BY <1>4, <1>5 DEF TakenExits, DeadEnd
<1>9. \A x \in ExitsOf(node[n]) : x[2] \in DOMAIN node
  BY <1>6, <1>7 DEF Targets
<1>10. \E m \in Reach(raw, {n}) : node[m].kind = "end"
  BY <1>2, WalksEnd
<1> QED BY <1>6, <1>7, <1>8, <1>9, <1>10

(* The editors write neither of the two blocks that lead nowhere.          *)
LEMMA NoDeadEndIsWritten ==
  ASSUME NEW g, GraphOK(g)
  PROVE  \A p \in DOMAIN graphToBackendFormat(g).nodes :
           ~DeadEnd(graphToBackendFormat(g).nodes[p])
<1> DEFINE nodes == [i \in DOMAIN g.nodes |-> StoredNode(g.edges, g.nodes[i])]
<1>1. graphToBackendFormat(g) = [start |-> g.start, nodes |-> nodes]
  BY NormalAlready DEF graphToBackendFormat
<1>2. \A i \in DOMAIN g.nodes : NodeOK(g.nodes[i])
  BY DEF GraphOK, NodesOK
<1>3. ASSUME NEW p \in DOMAIN g.nodes
      PROVE  ~DeadEnd(StoredNode(g.edges, g.nodes[p]))
  <2>1. PICK node : node = g.nodes[p] /\ node.type \in Kinds
    BY <1>2 DEF NodeOK, GraphNode
  <2>2. PICK s : s = StoredNode(g.edges, node)
    OBVIOUS
  <2>3. /\ s.kind = KindOf(node.type) /\ s.terminal = FALSE
        /\ s.rubric = IF node.type = "free_text" THEN "outcomes" ELSE None
    <3>1. StoredAs(s, g.edges, node)
      BY <2>2, StoredFields
    <3> QED BY <3>1 DEF StoredAs
  <2>4. s.kind = "free_text" => node.type = "free_text"
    BY <2>1, <2>3 DEF KindOf, Kinds
  <2>5. "outcomes" # None
    BY IdAssumption DEF Rubrics
  <2>6. ~DeadEnd(s)
    BY <2>3, <2>4, <2>5 DEF DeadEnd
  <2> QED BY <2>1, <2>2, <2>6
<1> QED BY <1>1, <1>3

(* What the editors make and the validator lets through can be finished    *)
(* from every block, by every answer: each exit leads to a block of the    *)
(* lesson, some walk comes to an end, and none comes back.  So can every   *)
(* stored lesson without a story marked as final and without a free text   *)
(* that has no rubric, wherever it came from.                              *)
THEOREM StoredLessonsCanBeFinished == EditorSpec => []StoredCanBeFinished
<1>1. EditorInv => StoredCanBeFinished
  <2> SUFFICES ASSUME EditorInv
               PROVE  StoredCanBeFinished
    OBVIOUS
  <2>1. isStoredLesson(stored) /\ validateLessonGraph(stored) = {} /\ GraphOK(graph)
    BY DEF EditorInv, StoredInv, PageInv
  <2>2. ASSUME NEW raw, raw = graphToBackendFormat(graph), validateLessonGraph(raw) = {}
        PROVE  CanBeFinished(raw)
    <3>1. isStoredLesson(raw)
      BY <2>1, <2>2, StoresAndLoads
    <3>2. \A p \in DOMAIN raw.nodes : ~DeadEnd(raw.nodes[p])
      BY <2>1, <2>2, NoDeadEndIsWritten
    <3> QED BY <2>2, <3>1, <3>2, AdmittedEnds
  <2>3. ASSUME \A node \in ToSet(stored.nodes) : ~DeadEnd(node)
        PROVE  CanBeFinished(stored)
    <3>1. \A p \in DOMAIN stored.nodes : ~DeadEnd(stored.nodes[p])
      BY <2>3 DEF ToSet
    <3> QED BY <2>1, <3>1, AdmittedEnds
  <2> QED BY <2>2, <2>3 DEF StoredCanBeFinished
<1> QED BY <1>1, InvHolds, PTL

-----------------------------------------------------------------------------
(* Adding a block.                                                         *)

LEMMA StoredParts ==
  ASSUME NEW raw, isStoredLesson(raw)
  PROVE  /\ raw.nodes \in Seq(StoredGraphNode) /\ Distinct(raw.nodes)
         /\ Len(raw.nodes) \in Nat /\ DOMAIN raw.nodes = 1..Len(raw.nodes)
         /\ DOMAIN StoredById(raw) = Ids(raw.nodes)
         /\ \A i \in DOMAIN raw.nodes :
              /\ raw.nodes[i] \in StoredGraphNode /\ isStoredNode(raw.nodes[i])
              /\ raw.nodes[i].id \in Ids(raw.nodes)
              /\ StoredById(raw)[raw.nodes[i].id] = raw.nodes[i]
         /\ \A i, j \in DOMAIN raw.nodes : raw.nodes[j].id \in Targets(raw.nodes[i]) => i < j
<1>1. raw.nodes \in Seq(StoredGraphNode) /\ Distinct(raw.nodes)
  BY DEF isStoredLesson, Distinct
<1>2. Len(raw.nodes) \in Nat /\ DOMAIN raw.nodes = 1..Len(raw.nodes)
  BY <1>1, LenProperties
<1>3. /\ DOMAIN StoredById(raw) = Ids(raw.nodes)
      /\ \A n \in Ids(raw.nodes) : StoredById(raw)[n] = NodeOf(raw.nodes, n)
  BY DEF StoredById
<1>4. ASSUME NEW i \in DOMAIN raw.nodes
      PROVE  /\ raw.nodes[i] \in StoredGraphNode /\ isStoredNode(raw.nodes[i])
             /\ raw.nodes[i].id \in Ids(raw.nodes)
             /\ StoredById(raw)[raw.nodes[i].id] = raw.nodes[i]
  <2>1. raw.nodes[i].id \in Ids(raw.nodes)
    BY DEF Ids
  <2>2. raw.nodes[i] \in StoredGraphNode /\ isStoredNode(raw.nodes[i])
    BY <1>1, <1>2, ElementOfSeq DEF isStoredLesson
  <2>3. StoredById(raw)[raw.nodes[i].id] = raw.nodes[i]
    BY <1>1, <1>3, <2>1, PlaceOf
  <2> QED BY <2>1, <2>2, <2>3
<1>5. ASSUME NEW i \in DOMAIN raw.nodes, NEW j \in DOMAIN raw.nodes,
             raw.nodes[j].id \in Targets(raw.nodes[i])
      PROVE  i < j
  <2>1. PICK x \in ExitsOf(raw.nodes[i]) : x[2] = raw.nodes[j].id /\ x[2] # None
    BY <1>5 DEF Targets
  <2>2. PICK k \in DOMAIN raw.nodes : i < k /\ x[2] = raw.nodes[k].id
    BY <2>1 DEF isStoredLesson
  <2>3. k = j
    BY <1>1, <2>1, <2>2 DEF Distinct
  <2> QED BY <2>2, <2>3
<1> QED BY <1>1, <1>2, <1>3, <1>4, <1>5

(* A block that is reached and is not the start has a block before it.     *)
LEMMA ReachedFromBefore ==
  ASSUME NEW raw, isStoredLesson(raw), NEW i \in DOMAIN raw.nodes,
         raw.nodes[i].id \in Reach(raw, {raw.start}), raw.nodes[i].id # raw.start
  PROVE  \E j \in DOMAIN raw.nodes : raw.nodes[i].id \in Targets(raw.nodes[j])
<1> DEFINE L == Len(raw.nodes)
           n == raw.nodes[i].id
<1>1. L \in Nat /\ DOMAIN StoredById(raw) = Ids(raw.nodes)
  BY StoredParts
<1>2. PICK after : /\ Reach(raw, {raw.start}) = after[L]
                   /\ after[0] = {raw.start} \cap DOMAIN StoredById(raw)
                   /\ \A k \in 1..L : after[k] = Onto(raw, after[k - 1])
                   /\ \A k \in 0..L : after[k] \subseteq DOMAIN StoredById(raw)
  BY <1>1, ReachIsWalk
<1> DEFINE came == {k \in Nat : k <= L /\ n \in after[k]}
<1>3. came \in SUBSET Nat /\ L \in came
  BY <1>1, <1>2
<1>4. came # {}
  BY <1>3
<1>5. PICK k \in came : \A j \in came : k <= j
  BY <1>3, <1>4, LeastPlace
<1>6. k \in Nat /\ k <= L /\ n \in after[k]
  OBVIOUS
<1>7. \A j \in Nat : j <= L /\ j < k => n \notin after[j]
  BY <1>5, <1>6
<1> HIDE DEF came
<1>8. k # 0
  BY <1>2, <1>6
<1>9. k \in 1..L /\ k - 1 \in 0..L /\ k - 1 \in Nat /\ k - 1 <= L /\ k - 1 < k
  BY <1>1, <1>6, <1>8
<1>10. n \notin after[k - 1]
  BY <1>7, <1>9
<1>11. n \in UNION {Targets(StoredById(raw)[m]) : m \in after[k - 1]}
  BY <1>2, <1>6, <1>9, <1>10 DEF Onto
<1>12. PICK m \in after[k - 1] : n \in Targets(StoredById(raw)[m])
  BY <1>11
<1>13. m \in Ids(raw.nodes)
  BY <1>1, <1>2, <1>9
<1>14. PICK j \in DOMAIN raw.nodes : raw.nodes[j].id = m
  BY <1>13 DEF Ids
<1>15. StoredById(raw)[m] = raw.nodes[j]
  BY <1>14, StoredParts
<1> QED BY <1>12, <1>15

(* A lesson in which every block but the first has one before it is        *)
(* reached from the first.                                                 *)
LEMMA AllReached ==
  ASSUME NEW raw, isStoredLesson(raw), raw.nodes # <<>>, raw.start = raw.nodes[1].id,
         \A i \in DOMAIN raw.nodes : i # 1 =>
           \E j \in DOMAIN raw.nodes : raw.nodes[i].id \in Targets(raw.nodes[j])
  PROVE  Reach(raw, {raw.start}) = Ids(raw.nodes)
<1> DEFINE L == Len(raw.nodes)
           node == StoredById(raw)
<1>1. /\ L \in Nat /\ DOMAIN raw.nodes = 1..L /\ DOMAIN node = Ids(raw.nodes)
      /\ \A i \in DOMAIN raw.nodes :
           raw.nodes[i].id \in Ids(raw.nodes) /\ node[raw.nodes[i].id] = raw.nodes[i]
      /\ \A i, j \in DOMAIN raw.nodes : raw.nodes[j].id \in Targets(raw.nodes[i]) => i < j
  BY StoredParts
<1>2. L # 0
  BY EmptySeq, StoredParts
<1>3. PICK after : /\ Reach(raw, {raw.start}) = after[L]
                   /\ after[0] = {raw.start} \cap DOMAIN node
                   /\ \A k \in 1..L : after[k] = Onto(raw, after[k - 1])
                   /\ \A k \in 0..L : after[k] \subseteq DOMAIN node
  BY <1>1, ReachIsWalk
<1> DEFINE Got(k) == \A i \in DOMAIN raw.nodes : i <= k + 1 => raw.nodes[i].id \in after[k]
           late == {k \in Nat : k <= L /\ ~Got(k)}
<1>4. Got(0)
  <2>1. 1 \in DOMAIN raw.nodes /\ raw.nodes[1].id \in DOMAIN node
    BY <1>1, <1>2
  <2>2. \A i \in DOMAIN raw.nodes : i <= 0 + 1 => i = 1
    BY <1>1
  <2> QED BY <1>3, <2>1, <2>2
<1>5. ASSUME NEW k \in 1..L, Got(k - 1)
      PROVE  Got(k)
  <2> SUFFICES ASSUME NEW i \in DOMAIN raw.nodes, i <= k + 1
               PROVE  raw.nodes[i].id \in after[k]
    OBVIOUS
  <2>1. after[k] = Onto(raw, after[k - 1])
    BY <1>3
  <2>2. CASE i <= (k - 1) + 1
    BY <1>5, <2>1, <2>2 DEF Onto
  <2>3. CASE ~(i <= (k - 1) + 1)
    <3>1. i # 1
      BY <1>1, <2>3
    <3>2. PICK j \in DOMAIN raw.nodes : raw.nodes[i].id \in Targets(raw.nodes[j])
      BY <3>1
    <3>3. j < i
      BY <1>1, <3>2
    <3>4. j <= (k - 1) + 1
      BY <1>1, <3>3
    <3>5. raw.nodes[j].id \in after[k - 1]
      BY <1>5, <3>4
    <3>6. node[raw.nodes[j].id] = raw.nodes[j] /\ raw.nodes[i].id \in DOMAIN node
      BY <1>1
    <3>7. Targets(raw.nodes[j]) \in {Targets(node[m]) : m \in after[k - 1]}
      BY <3>5, <3>6
    <3>8. raw.nodes[i].id \in UNION {Targets(node[m]) : m \in after[k - 1]}
      BY <3>2, <3>7
    <3> QED BY <2>1, <3>6, <3>8 DEF Onto
  <2> QED BY <2>2, <2>3
<1>6. Got(L)
  <2> SUFFICES ASSUME ~Got(L)
               PROVE  FALSE
    OBVIOUS
  <2>1. L \in late
    BY <1>1
  <2>2. late \in SUBSET Nat /\ late # {}
    BY <2>1
  <2>3. PICK k \in late : \A j \in late : k <= j
    BY <2>2, LeastPlace
  <2>4. k \in Nat /\ k <= L /\ ~Got(k)
    OBVIOUS
  <2>5. \A j \in Nat : j <= L /\ j < k => Got(j)
    BY <2>3, <2>4
  <2> HIDE DEF late, Got
  <2>6. k # 0
    BY <1>4, <2>4
  <2>7. k \in 1..L /\ k - 1 \in Nat /\ k - 1 <= L /\ k - 1 < k
    BY <1>1, <2>4, <2>6
  <2>8. Got(k - 1)
    BY <2>5, <2>7
  <2> QED BY <1>5, <2>4, <2>7, <2>8
<1>7. ASSUME NEW n \in Ids(raw.nodes)
      PROVE  n \in after[L]
  <2>1. PICK i \in DOMAIN raw.nodes : raw.nodes[i].id = n
    BY DEF Ids
  <2>2. i <= L + 1
    BY <1>1
  <2> QED BY <1>6, <2>1, <2>2
<1>8. L \in 0..L
  BY <1>1
<1> QED BY <1>1, <1>3, <1>7, <1>8

(* What it is for a graph to hold together, block by block.                *)
Wired(g) ==
  /\ g.nodes # <<>> /\ g.start = g.nodes[1].id
  /\ \A i \in DOMAIN g.nodes : \A c \in getNodeOutputConditions(g.nodes[i]) :
       <<g.nodes[i].id, c>> \in DOMAIN g.edges
  /\ \A i \in DOMAIN g.nodes : i # 1 => \E e \in DOMAIN g.edges : g.edges[e] = g.nodes[i].id

Led(raw) ==
  /\ raw.nodes # <<>>
  /\ Reach(raw, {raw.start}) = Ids(raw.nodes)
  /\ \A i \in DOMAIN raw.nodes : \A x \in ExitsOf(raw.nodes[i]) : x[2] # None

LEMMA LoadedAre ==
  ASSUME NEW raw, isStoredLesson(raw), NEW g, g = graphFromBackendFormat(raw)
  PROVE  /\ GraphOK(g) /\ g.start = raw.start
         /\ DOMAIN g.nodes = DOMAIN raw.nodes
         /\ \A i \in DOMAIN raw.nodes : /\ g.nodes[i] = LoadedNode(raw.nodes[i])
                                        /\ g.nodes[i].id = raw.nodes[i].id
         /\ \A e : e \in DOMAIN g.edges <=>
              \E i \in DOMAIN raw.nodes : \E x \in ExitsOf(raw.nodes[i]) :
                x[2] # None /\ e = <<raw.nodes[i].id, x[1]>>
         /\ \A i \in DOMAIN raw.nodes : \A x \in ExitsOf(raw.nodes[i]) :
              x[2] # None => g.edges[<<raw.nodes[i].id, x[1]>>] = x[2]
<1>1. /\ GraphOK(g) /\ g.start = raw.start
      /\ g.nodes = [i \in DOMAIN raw.nodes |-> LoadedNode(raw.nodes[i])]
      /\ \A e : e \in DOMAIN g.edges <=>
           \E i \in DOMAIN raw.nodes : \E x \in ExitsOf(raw.nodes[i]) :
             x[2] # None /\ e = <<raw.nodes[i].id, x[1]>>
      /\ \A i \in DOMAIN raw.nodes : \A x \in ExitsOf(raw.nodes[i]) :
           x[2] # None => g.edges[<<raw.nodes[i].id, x[1]>>] = x[2]
  BY Loads
<1>2. /\ DOMAIN g.nodes = DOMAIN raw.nodes
      /\ \A i \in DOMAIN raw.nodes : g.nodes[i] = LoadedNode(raw.nodes[i])
  BY <1>1
<1>3. \A i \in DOMAIN raw.nodes : g.nodes[i].id = raw.nodes[i].id
  BY <1>2, LoadedOptions
<1> QED BY <1>1, <1>2, <1>3

(* A stored lesson is led on everywhere if and only if its graph is wired. *)
LEMMA LedIsWired ==
  ASSUME NEW raw, isStoredLesson(raw), NEW g, g = graphFromBackendFormat(raw)
  PROVE  Led(raw) <=> Wired(g)
<1>1. /\ GraphOK(g) /\ g.start = raw.start
      /\ DOMAIN g.nodes = DOMAIN raw.nodes
      /\ \A i \in DOMAIN raw.nodes : /\ g.nodes[i] = LoadedNode(raw.nodes[i])
                                     /\ g.nodes[i].id = raw.nodes[i].id
  BY LoadedAre
<1>2. \A e : e \in DOMAIN g.edges <=>
        \E i \in DOMAIN raw.nodes : \E x \in ExitsOf(raw.nodes[i]) :
          x[2] # None /\ e = <<raw.nodes[i].id, x[1]>>
  BY LoadedAre
<1>3. \A i \in DOMAIN raw.nodes : \A x \in ExitsOf(raw.nodes[i]) :
        x[2] # None => g.edges[<<raw.nodes[i].id, x[1]>>] = x[2]
  BY LoadedAre
<1>4. /\ raw.nodes \in Seq(StoredGraphNode) /\ Distinct(raw.nodes)
      /\ DOMAIN raw.nodes = 1..Len(raw.nodes) /\ Len(raw.nodes) \in Nat
      /\ \A i, j \in DOMAIN raw.nodes : raw.nodes[j].id \in Targets(raw.nodes[i]) => i < j
      /\ \A i \in DOMAIN raw.nodes : raw.nodes[i].id \in Ids(raw.nodes)
  BY StoredParts
<1>5. ASSUME NEW i \in DOMAIN raw.nodes
      PROVE  /\ \A x \in ExitsOf(raw.nodes[i]) : x[1] \in getNodeOutputConditions(g.nodes[i])
             /\ \A c \in getNodeOutputConditions(g.nodes[i]) :
                  \E x \in ExitsOf(raw.nodes[i]) : x[1] = c
             /\ \A x, y \in ExitsOf(raw.nodes[i]) : x[1] = y[1] => x = y
             /\ raw.nodes[i].id # None
  <2>1. PICK node \in StoredGraphNode : node = raw.nodes[i] /\ isStoredNode(node)
    BY StoredParts
  <2>2. g.nodes[i] = LoadedNode(node)
    BY <1>1, <2>1
  <2>3. raw.nodes[i].id # None
    BY <2>1, IdAssumption DEF StoredGraphNode
  <2> QED BY <2>1, <2>2, <2>3, ExitsAre
<1>6. g.nodes # <<>> <=> raw.nodes # <<>>
  <2>1. g.nodes \in Seq(GraphNode)
    BY <1>1 DEF GraphOK, NodesOK
  <2> QED BY <1>1, <1>4, <2>1, EmptySeq, LenProperties
<1>7. raw.nodes # <<>> => 1 \in DOMAIN raw.nodes
  BY <1>4, EmptySeq, LenProperties
<1>8. ASSUME Led(raw)
      PROVE  Wired(g)
  <2>1. /\ raw.nodes # <<>> /\ Reach(raw, {raw.start}) = Ids(raw.nodes)
        /\ \A i \in DOMAIN raw.nodes : \A x \in ExitsOf(raw.nodes[i]) : x[2] # None
    BY <1>8 DEF Led
  <2>2. \A i \in DOMAIN raw.nodes : raw.nodes[i].id # raw.start =>
          \E j \in DOMAIN raw.nodes : raw.nodes[i].id \in Targets(raw.nodes[j])
    BY <1>4, <2>1, ReachedFromBefore
  <2>3. raw.start = raw.nodes[1].id
    <3> SUFFICES ASSUME raw.nodes[1].id # raw.start
                 PROVE  FALSE
      OBVIOUS
    <3>1. PICK j \in DOMAIN raw.nodes : raw.nodes[1].id \in Targets(raw.nodes[j])
      BY <1>7, <2>1, <2>2
    <3>2. j < 1
      BY <1>4, <1>7, <2>1, <3>1
    <3> QED BY <1>4, <3>2
  <2>4. ASSUME NEW i \in DOMAIN g.nodes, NEW c \in getNodeOutputConditions(g.nodes[i])
        PROVE  <<g.nodes[i].id, c>> \in DOMAIN g.edges
    <3>1. PICK x \in ExitsOf(raw.nodes[i]) : x[1] = c
      BY <1>1, <1>5
    <3>2. x[2] # None /\ g.nodes[i].id = raw.nodes[i].id /\ i \in DOMAIN raw.nodes
      BY <1>1, <2>1
    <3> QED BY <1>2, <3>1, <3>2
  <2>5. ASSUME NEW i \in DOMAIN g.nodes, i # 1
        PROVE  \E e \in DOMAIN g.edges : g.edges[e] = g.nodes[i].id
    <3>1. raw.nodes[i].id # raw.start /\ i \in DOMAIN raw.nodes
      BY <1>1, <1>4, <1>7, <2>1, <2>3, <2>5 DEF Distinct
    <3>2. PICK j \in DOMAIN raw.nodes : raw.nodes[i].id \in Targets(raw.nodes[j])
      BY <2>2, <3>1
    <3>3. PICK x \in ExitsOf(raw.nodes[j]) : x[2] = raw.nodes[i].id /\ x[2] # None
      BY <3>2 DEF Targets
    <3>4. /\ <<raw.nodes[j].id, x[1]>> \in DOMAIN g.edges
          /\ g.edges[<<raw.nodes[j].id, x[1]>>] = x[2]
      BY <1>2, <1>3, <3>3
    <3>5. x[2] = g.nodes[i].id
      BY <1>1, <3>1, <3>3
    <3> QED BY <3>4, <3>5
  <2>6. g.nodes # <<>> /\ g.start = g.nodes[1].id
    BY <1>1, <1>6, <1>7, <2>1, <2>3
  <2> QED BY <2>4, <2>5, <2>6 DEF Wired
<1>9. ASSUME Wired(g)
      PROVE  Led(raw)
  <2>1. raw.nodes # <<>> /\ raw.start = raw.nodes[1].id
    BY <1>1, <1>6, <1>7, <1>9 DEF Wired
  <2>2. ASSUME NEW i \in DOMAIN raw.nodes, NEW x \in ExitsOf(raw.nodes[i])
        PROVE  x[2] # None
    <3>1. x[1] \in getNodeOutputConditions(g.nodes[i])
      BY <1>5
    <3>2. <<raw.nodes[i].id, x[1]>> \in DOMAIN g.edges
      BY <1>1, <1>9, <3>1 DEF Wired
    <3>3. PICK j \in DOMAIN raw.nodes : \E y \in ExitsOf(raw.nodes[j]) :
            y[2] # None /\ <<raw.nodes[i].id, x[1]>> = <<raw.nodes[j].id, y[1]>>
      BY <1>2, <3>2
    <3>4. PICK y \in ExitsOf(raw.nodes[j]) :
            y[2] # None /\ raw.nodes[i].id = raw.nodes[j].id /\ x[1] = y[1]
      BY <3>3
    <3>5. j = i
      BY <1>4, <3>4 DEF Distinct
    <3>6. x = y
      BY <1>5, <3>4, <3>5
    <3> QED BY <3>4, <3>6
  <2>3. ASSUME NEW i \in DOMAIN raw.nodes, i # 1
        PROVE  \E j \in DOMAIN raw.nodes : raw.nodes[i].id \in Targets(raw.nodes[j])
    <3>1. PICK e \in DOMAIN g.edges : g.edges[e] = raw.nodes[i].id
      BY <1>1, <1>9, <2>3 DEF Wired
    <3>2. PICK j \in DOMAIN raw.nodes : \E x \in ExitsOf(raw.nodes[j]) :
            x[2] # None /\ e = <<raw.nodes[j].id, x[1]>>
      BY <1>2
    <3>3. PICK x \in ExitsOf(raw.nodes[j]) : x[2] # None /\ e = <<raw.nodes[j].id, x[1]>>
      BY <3>2
    <3>4. x[2] = raw.nodes[i].id
      BY <1>3, <3>1, <3>3
    <3> QED BY <3>3, <3>4 DEF Targets
  <2>4. Reach(raw, {raw.start}) = Ids(raw.nodes)
    BY <2>1, <2>3, AllReached
  <2> QED BY <2>1, <2>2, <2>4 DEF Led
<1> QED BY <1>8, <1>9

LEMMA WiredUpIsWired ==
  ASSUME NEW g, GraphOK(g)
  PROVE  WiredUp(g) <=> Wired(g)
<1>1. PICK raw : raw = graphToBackendFormat(g)
  OBVIOUS
<1>2. isStoredLesson(raw) /\ g = graphFromBackendFormat(raw)
  BY <1>1, StoresAndLoads
<1>3. Led(raw) <=> Wired(g)
  BY <1>2, LedIsWired
<1>4. ToSet(raw.nodes) = {raw.nodes[i] : i \in DOMAIN raw.nodes}
  BY DEF ToSet
<1>5. WiredUp(g) <=> Led(raw)
  BY <1>1, <1>4 DEF WiredUp, Led
<1> QED BY <1>3, <1>5

LEMMA HasOutputs ==
  ASSUME NEW node, NodeOK(node)
  PROVE  (getNodeOutputConditions(node) = {}) <=> (node.type = "terminal")
<1>1. node.type \in {"story", "single_choice", "free_text", "decision", "terminal"}
  BY DEF NodeOK, GraphNode, Kinds
<1>2. CASE node.type = "story"
  BY <1>2 DEF getNodeOutputConditions
<1>3. CASE node.type \in {"single_choice", "decision"}
  <2>1. 1 \in DOMAIN node.options
    BY <1>3 DEF NodeOK
  <2>2. node.options[1].id \in OptionsOf(node)
    BY <2>1 DEF OptionsOf
  <2>3. getNodeOutputConditions(node) = {optionEdgeCondition(o) : o \in OptionsOf(node)}
    BY <1>3 DEF getNodeOutputConditions
  <2> QED BY <1>3, <2>2, <2>3
<1>4. CASE node.type = "free_text"
  BY <1>4 DEF getNodeOutputConditions
<1>5. CASE node.type = "terminal"
  BY <1>5 DEF getNodeOutputConditions
<1> QED BY <1>1, <1>2, <1>3, <1>4, <1>5

LEMMA LastIsEnd ==
  ASSUME NEW g, GraphOK(g), Wired(g)
  PROVE  /\ Len(g.nodes) \in DOMAIN g.nodes
         /\ g.nodes[Len(g.nodes)].type = "terminal"
<1>1. /\ g.nodes \in Seq(GraphNode) /\ Distinct(g.nodes) /\ Len(g.nodes) \in Nat
      /\ DOMAIN g.nodes = 1..Len(g.nodes) /\ \A i \in DOMAIN g.nodes : NodeOK(g.nodes[i])
  BY LenProperties DEF GraphOK, NodesOK
<1>2. Len(g.nodes) # 0
  BY <1>1, EmptySeq DEF Wired
<1>3. PICK l \in DOMAIN g.nodes : l = Len(g.nodes)
  BY <1>1, <1>2
<1>4. getNodeOutputConditions(g.nodes[l]) = {}
  <2> SUFFICES ASSUME NEW c \in getNodeOutputConditions(g.nodes[l])
               PROVE  FALSE
    OBVIOUS
  <2>1. PICK e \in DOMAIN g.edges : e = <<g.nodes[l].id, c>>
    BY DEF Wired
  <2>2. PICK i, j \in DOMAIN g.nodes : i < j /\ Output(g.nodes, i, e)
    BY DEF GraphOK, EdgesOK
  <2>3. g.nodes[i].id = g.nodes[l].id
    BY <2>1, <2>2 DEF Output
  <2>4. i = l
    BY <1>1, <2>3 DEF Distinct
  <2> QED BY <1>1, <1>3, <2>2, <2>4
<1> QED BY <1>1, <1>3, <1>4, HasOutputs

(* Normalisation keeps every edge that is an output and leads to a block.  *)
LEMMA NormalKeeps ==
  ASSUME NEW h, NodesOK(h.nodes), NEW i \in DOMAIN h.nodes, NEW e \in DOMAIN h.edges,
         Output(h.nodes, i, e), h.edges[e] \in Ids(h.nodes)
  PROVE  /\ e \in DOMAIN normalizeLessonGraph(h).edges
         /\ normalizeLessonGraph(h).edges[e] = h.edges[e]
<1> DEFINE fit == {d \in DOMAIN h.edges :
                     /\ d[1] \in Ids(h.nodes) /\ h.edges[d] \in Ids(h.nodes)
                     /\ isValidEdgeForNode(NodeOf(h.nodes, d[1]), d[2])}
<1>1. normalizeLessonGraph(h).edges = [d \in fit |-> h.edges[d]]
  BY DEF normalizeLessonGraph, Kept
<1>2. e[1] = h.nodes[i].id /\ e[2] \in getNodeOutputConditions(h.nodes[i])
  BY DEF Output
<1>3. NodeOf(h.nodes, e[1]) = h.nodes[i] /\ h.nodes[i] \in GraphNode
  BY <1>2, PlaceOf DEF NodesOK, NodeOK
<1>4. isValidEdgeForNode(NodeOf(h.nodes, e[1]), e[2])
  BY <1>2, <1>3, ValidIsOutput, OutputsAreConditions
<1>5. e[1] \in Ids(h.nodes)
  BY <1>2 DEF Ids
<1>6. e \in fit
  BY <1>4, <1>5
<1> HIDE DEF fit
<1> QED BY <1>1, <1>6

(* A block that goes before the only end takes the place of the end for    *)
(* the block before it, and leads to the end.                              *)
LEMMA AddsWired ==
  ASSUME NEW g, GraphOK(g), Wired(g), Len(g.nodes) > 1,
         \A i, j \in Terminals(g.nodes) : i = j,
         NEW node, NodeOK(node), node.id \notin Ids(g.nodes),
         Len(addNode(g, node).nodes) > Len(g.nodes)
  PROVE  Wired(addNode(g, node))
<1> DEFINE L == Len(g.nodes)
           ends == Terminals(g.nodes)
           isEnd == node.type = "terminal"
           new == InsertAt(g.nodes, L, node)
           before == g.nodes[L - 1]
           last == g.nodes[L]
           r == retargetNodeOutputs(g.edges, before, last.id, node.id)
           tied == connectMissingNodeOutputs(r, node, last.id)
           h == [start |-> g.start, nodes |-> new, edges |-> tied]
           k == normalizeLessonGraph(h)
<1>1. /\ NodesOK(g.nodes) /\ g.nodes \in Seq(GraphNode) /\ EdgesOK(g.nodes, g.edges)
      /\ L \in Nat /\ DOMAIN g.nodes = 1..L /\ Distinct(g.nodes)
      /\ \A i \in DOMAIN g.nodes : NodeOK(g.nodes[i]) /\ g.nodes[i].id \in Ids(g.nodes)
                                   /\ g.nodes[i].id \in NodeIds
  BY LenProperties DEF GraphOK, NodesOK, Ids, NodeOK, GraphNode
<1>2. ends = {L} /\ L \in DOMAIN g.nodes
  BY LastIsEnd DEF Terminals
<1>3. ~isEnd
  <2> SUFFICES ASSUME isEnd
               PROVE  FALSE
    OBVIOUS
  <2>1. addNode(g, node) = g
    BY <1>2, NormalAlready DEF addNode
  <2> QED BY <1>1, <2>1
<1>4. /\ L - 1 \in DOMAIN g.nodes /\ 1 \in DOMAIN g.nodes /\ L # 1
      /\ L \in 1..(L + 1)
  BY <1>1, <1>2
<1>5. addNode(g, node) = k
  <2>1. (CHOOSE i \in ends : \A j \in ends : i <= j) = L
    BY <1>1, <1>2
  <2>2. g.start \in Ids(g.nodes)
    BY <1>1, <1>4 DEF Wired
  <2> HIDE DEF ends
  <2> QED BY <1>2, <1>3, <1>4, <2>1, <2>2 DEF addNode, ends
<1>6. /\ NodesOK(new)
      /\ Len(new) = L + 1 /\ Ids(new) \subseteq Ids(g.nodes) \cup {node.id}
      /\ new[L] = node
      /\ \A i \in DOMAIN g.nodes : new[IF i < L THEN i ELSE i + 1] = g.nodes[i]
  BY <1>1, <1>4, Inserts
<1>7. DOMAIN new = 1..(L + 1)
  BY <1>6, LenProperties DEF NodesOK
<1> HIDE DEF new
<1>8. /\ \A i \in DOMAIN g.nodes : i # L => i \in DOMAIN new /\ new[i] = g.nodes[i]
      /\ L \in DOMAIN new /\ L + 1 \in DOMAIN new /\ new[L + 1] = last
      /\ \A i \in DOMAIN new : i = L \/ i = L + 1 \/ (i \in DOMAIN g.nodes /\ i # L)
  <2>1. ASSUME NEW i \in DOMAIN g.nodes, i # L
        PROVE  i \in DOMAIN new /\ new[i] = g.nodes[i]
    <3>1. i < L /\ i \in DOMAIN new
      BY <1>1, <1>7, <2>1
    <3> QED BY <1>6, <3>1
  <2>2. L \in DOMAIN new /\ L + 1 \in DOMAIN new /\ ~(L < L)
    BY <1>1, <1>4, <1>7
  <2>3. new[L + 1] = last
    BY <1>2, <1>6, <2>2
  <2>4. \A i \in DOMAIN new : i = L \/ i = L + 1 \/ (i \in DOMAIN g.nodes /\ i # L)
    BY <1>1, <1>7
  <2> QED BY <2>1, <2>2, <2>3, <2>4
<1>9. \A i \in DOMAIN new : new[i].id \in Ids(new)
  BY DEF Ids
<1>10. getNodeOutputConditions(last) = {} /\ getNodeOutputConditions(node) # {}
       /\ getNodeOutputConditions(before) # {}
  <2>1. last.type = "terminal" /\ before.type # "terminal"
    <3>1. L \in ends /\ L - 1 \notin ends
      BY <1>1, <1>2
    <3> QED BY <1>4, <3>1 DEF Terminals
  <2> QED BY <1>1, <1>2, <1>3, <1>4, <2>1, HasOutputs
<1> DEFINE missing == {<<node.id, c>> : c \in getNodeOutputConditions(node)}
<1>11. \A e \in DOMAIN g.edges : \E i, j \in DOMAIN g.nodes :
         i < j /\ Output(g.nodes, i, e) /\ g.edges[e] = g.nodes[j].id
  BY <1>1 DEF EdgesOK
<1>12. \A e \in missing : e \notin DOMAIN g.edges
  <2> SUFFICES ASSUME NEW c, <<node.id, c>> \in DOMAIN g.edges
               PROVE  FALSE
    OBVIOUS
  <2>1. PICK i \in DOMAIN g.nodes : Output(g.nodes, i, <<node.id, c>>)
    BY <1>11
  <2>2. g.nodes[i].id = node.id
    BY <2>1 DEF Output
  <2> QED BY <1>1, <2>2
<1>13. /\ DOMAIN r = DOMAIN g.edges
       /\ \A e \in DOMAIN g.edges :
            r[e] = IF e[1] = before.id /\ e[2] \in getNodeOutputConditions(before)
                      /\ g.edges[e] = last.id
                   THEN node.id ELSE g.edges[e]
  BY DEF retargetNodeOutputs
<1> HIDE DEF r
<1>14. /\ DOMAIN tied = DOMAIN g.edges \cup missing
       /\ \A e \in missing : tied[e] = last.id
       /\ \A e \in DOMAIN g.edges : tied[e] = r[e]
  <2>1. last.id # None
    BY <1>1, <1>2, IdAssumption
  <2>2. missing \ DOMAIN r = missing
    BY <1>12, <1>13
  <2>3. tied = [e \in DOMAIN r \cup (missing \ DOMAIN r) |->
                  IF e \in missing \ DOMAIN r THEN last.id ELSE r[e]]
    BY <2>1 DEF connectMissingNodeOutputs
  <2> HIDE DEF tied, missing
  <2> QED BY <1>12, <1>13, <2>2, <2>3
<1> HIDE DEF tied
<1>15. h.nodes = new /\ h.edges = tied /\ h.start = g.start
  OBVIOUS
<1> HIDE DEF h
<1>16. k.nodes = new
  BY <1>15 DEF normalizeLessonGraph
<1>17. ASSUME NEW e \in missing
       PROVE  e \in DOMAIN k.edges /\ k.edges[e] = last.id
  <2>1. PICK c \in getNodeOutputConditions(node) : e = <<node.id, c>>
    OBVIOUS
  <2>2. Output(new, L, e)
    BY <1>6, <2>1 DEF Output
  <2>3. e \in DOMAIN tied /\ tied[e] = last.id
    BY <1>14
  <2>4. last.id \in Ids(new)
    BY <1>8, <1>9
  <2>5. /\ NodesOK(h.nodes) /\ L \in DOMAIN h.nodes /\ e \in DOMAIN h.edges
        /\ Output(h.nodes, L, e) /\ h.edges[e] \in Ids(h.nodes) /\ h.edges[e] = last.id
    BY <1>6, <1>8, <1>15, <2>2, <2>3, <2>4
  <2> QED BY <2>5, NormalKeeps
<1>18. ASSUME NEW e \in DOMAIN g.edges
       PROVE  e \in DOMAIN k.edges /\ k.edges[e] = r[e]
  <2>1. PICK i, j \in DOMAIN g.nodes :
          i < j /\ Output(g.nodes, i, e) /\ g.edges[e] = g.nodes[j].id
    BY <1>11
  <2>2. i # L
    BY <1>1, <2>1
  <2>3. i \in DOMAIN new /\ Output(new, i, e)
    BY <1>8, <2>1, <2>2 DEF Output
  <2>4. g.nodes[j].id \in Ids(new) /\ node.id \in Ids(new)
    BY <1>6, <1>8, <1>9
  <2>5. r[e] \in Ids(new)
    BY <1>13, <2>1, <2>4
  <2>6. e \in DOMAIN tied /\ tied[e] = r[e]
    BY <1>14
  <2>7. /\ NodesOK(h.nodes) /\ i \in DOMAIN h.nodes /\ e \in DOMAIN h.edges
        /\ Output(h.nodes, i, e) /\ h.edges[e] \in Ids(h.nodes) /\ h.edges[e] = r[e]
    BY <1>6, <1>15, <2>3, <2>5, <2>6
  <2> QED BY <2>7, NormalKeeps
<1>19. new # <<>> /\ k.start = new[1].id
  <2>1. 1 \in DOMAIN new /\ new[1] = g.nodes[1]
    BY <1>4, <1>8
  <2>2. new # <<>>
    BY <2>1
  <2>3. h.start = new[1].id /\ new[1].id \in Ids(new)
    BY <1>9, <1>15, <2>1 DEF Wired
  <2>4. k.start = IF h.start \in Ids(h.nodes) THEN h.start ELSE FirstId(h.nodes)
    BY DEF normalizeLessonGraph
  <2> QED BY <1>15, <2>2, <2>3, <2>4
<1> HIDE DEF k
<1>20. ASSUME NEW i \in DOMAIN new, NEW c \in getNodeOutputConditions(new[i])
       PROVE  <<new[i].id, c>> \in DOMAIN k.edges
  <2>1. CASE i = L
    BY <1>6, <1>17, <2>1
  <2>2. CASE i = L + 1
    BY <1>8, <1>10, <2>2
  <2>3. CASE i \in DOMAIN g.nodes /\ i # L
    <3>1. new[i] = g.nodes[i]
      BY <1>8, <2>3
    <3>2. <<g.nodes[i].id, c>> \in DOMAIN g.edges
      BY <2>3, <3>1 DEF Wired
    <3> QED BY <1>18, <3>1, <3>2
  <2> QED BY <1>8, <2>1, <2>2, <2>3
<1>21. ASSUME NEW i \in DOMAIN new, i # 1
       PROVE  \E e \in DOMAIN k.edges : k.edges[e] = new[i].id
  <2>1. CASE i = L
    <3>1. PICK c : c \in getNodeOutputConditions(before)
      BY <1>10
    <3>2. PICK e : e = <<before.id, c>>
      OBVIOUS
    <3>3. e \in DOMAIN g.edges /\ e[1] = before.id /\ e[2] = c
      BY <1>4, <3>1, <3>2 DEF Wired
    <3>4. PICK a, b \in DOMAIN g.nodes :
            a < b /\ Output(g.nodes, a, e) /\ g.edges[e] = g.nodes[b].id
      BY <1>11, <3>3
    <3>5. g.nodes[a].id = before.id
      BY <3>3, <3>4 DEF Output
    <3>6. a = L - 1
      BY <1>1, <1>4, <3>5 DEF Distinct
    <3>7. b = L
      BY <1>1, <3>4, <3>6
    <3>8. r[e] = node.id
      BY <1>13, <3>1, <3>3, <3>4, <3>7
    <3> QED BY <1>6, <1>18, <2>1, <3>3, <3>8
  <2>2. CASE i = L + 1
    <3>1. PICK c : c \in getNodeOutputConditions(node)
      BY <1>10
    <3>2. <<node.id, c>> \in missing
      BY <3>1
    <3> HIDE DEF missing
    <3> QED BY <1>8, <1>17, <2>2, <3>2
  <2>3. CASE i \in DOMAIN g.nodes /\ i # L
    <3>1. new[i] = g.nodes[i]
      BY <1>8, <2>3
    <3>2. PICK e \in DOMAIN g.edges : g.edges[e] = g.nodes[i].id
      BY <1>21, <2>3 DEF Wired
    <3>3. g.edges[e] # last.id
      BY <1>1, <1>2, <2>3, <3>2 DEF Distinct
    <3>4. r[e] = g.edges[e]
      BY <1>13, <3>3
    <3> QED BY <1>18, <3>1, <3>2, <3>4
  <2> QED BY <1>8, <2>1, <2>2, <2>3
<1>22. Wired(k)
  BY <1>16, <1>19, <1>20, <1>21 DEF Wired
<1> QED BY <1>5, <1>22

(* A lesson with a single end in which every output leads on and every     *)
(* block can be reached stays so when a block is added to it.              *)
THEOREM AddingKeepsWiring == EditorSpec => AddingKeepsItWired
<1> DEFINE Grows == /\ AddNodeBar /\ Len(graph'.nodes) > Len(graph.nodes)
                    /\ WiredUp(graph)
                    /\ Len(graph.nodes) > 1
                    /\ \A i, j \in Terminals(graph.nodes) : i = j
<1>1. EditorInv /\ [EditorNext]_editorVars => (Grows => WiredUp(graph'))
  <2> SUFFICES ASSUME EditorInv, [EditorNext]_editorVars, Grows
               PROVE  WiredUp(graph')
    OBVIOUS
  <2>1. GraphOK(graph) /\ Wired(graph) /\ Len(graph.nodes) \in Nat
    <3>1. GraphOK(graph)
      BY DEF EditorInv, PageInv
    <3> QED BY <3>1, WiredUpIsWired, LenProperties DEF GraphOK, NodesOK
  <2>2. PICK type \in Offered, id \in FreshNodes : Edit(addNode(graph, createNode(type, id)))
    BY DEF AddNodeBar
  <2>3. type \in Kinds /\ id \in NodeIds /\ id \notin Ids(graph.nodes)
    BY EditorAssumption DEF FreshNodes
  <2>4. PICK node : node = createNode(type, id) /\ NodeOK(node) /\ node.id = id
    BY <2>3, CreatedOK
  <2>5. PICK k : k = addNode(graph, node)
    OBVIOUS
  <2>6. graph' = k
    BY <2>2, <2>4, <2>5 DEF Edit
  <2>7. Len(addNode(graph, node).nodes) > Len(graph.nodes)
    BY <2>5, <2>6
  <2>8. GraphOK(k) /\ Wired(k)
    BY <2>1, <2>3, <2>4, <2>5, <2>7, Adds, AddsWired
  <2> QED BY <2>6, <2>8, WiredUpIsWired
<1> QED BY <1>1, InvHolds, PTL DEF EditorSpec, AddingKeepsItWired
=============================================================================

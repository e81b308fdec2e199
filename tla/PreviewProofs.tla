--------------------------- MODULE PreviewProofs ---------------------------
(***************************************************************************)
(* Proofs about previews, for any drafts and any number of previews,       *)
(* authors, tabs and calls.                                                *)
(*                                                                         *)
(* A preview only moves on (Later), so that what was a step of it is, or   *)
(* was (IsStep).  Of the calls of a page at most one is answered, namely   *)
(* one of the step on show: an answer moves the preview past every other   *)
(* call (CallOf, Apart).                                                   *)
(***************************************************************************)
EXTENDS Preview, SequenceTheorems, TLAPS

Ops == {"get", "next", "answer", "decision", "back"}
PageRows == [preview : Previews \cup {NoPreview}, step : Steps \cup {NoStep},
             selected : Options \cup {NoOption}, result : Steps \cup {NoStep},
             completed : BOOLEAN]
CallRows == [page : Pages \cup {NoPage}, by : Authors, op : Ops, preview : Previews,
             version : 0..MaxVersion, node : Nodes, option : Options \cup {NoOption},
             status : {"sent", "evaluating", "answered"}, step : Steps \cup {NoStep}]

Used(s) == s \in Previews /\ preview[s] # NoPreview

(* A row is where a walk through its graph has led.                        *)
IsWalk(row) ==
  LET h == row.history IN
  /\ h # <<>> /\ h[1] = row.graph.start /\ h[Len(h)] = row.at
  /\ \A i \in 1..(Len(h) - 1) : \E e \in row.graph.exits[h[i]] : e.to = h[i + 1]

Leads(row, from, to) == \E e \in row.graph.exits[from] : e.to = to

(* A step that is, or was, a step of the preview in row.                   *)
IsStep(row, step) ==
  /\ step \in Steps
  /\ step.kind = row.graph.kind[step.node]
  /\ step.version <= row.version
  /\ step.version = row.version => step.node = row.at /\ step.back = previewNavigation(row)

PageOK(pg) ==
  /\ pg.preview # NoPreview => Used(pg.preview)
  /\ pg.result # NoStep => pg.step # NoStep
  /\ pg.step # NoStep =>
       /\ Used(pg.preview)
       /\ IsStep(preview[pg.preview], pg.step)
       /\ pg.result # NoStep =>
            /\ IsStep(preview[pg.preview], pg.result)
            /\ pg.result.version = pg.step.version + 1
            /\ Leads(preview[pg.preview], pg.step.node, pg.result.node)
            /\ pg.step.kind \in Questions
       /\ pg.selected # NoOption =>
            \E e \in Exits(pg.preview, pg.step.node) : e.option = pg.selected

CallOK(c) ==
  /\ c \in CallRows
  /\ Used(c.preview)
  /\ c.op = "next" => Kind(c.preview, c.node) = "story"
  /\ c.op = "answer" => Kind(c.preview, c.node) \in Questions
  /\ c.op = "decision" => Kind(c.preview, c.node) = "decision"
  /\ c.status # "answered" => c.step = NoStep
  /\ c.status = "evaluating" =>
       /\ c.op = "answer"
       /\ c.version = preview[c.preview].version /\ c.node = preview[c.preview].at
  /\ c.status = "answered" =>
       /\ c.page \in Pages /\ IsStep(preview[c.preview], c.step)
       /\ c.op # "get" =>
            /\ c.step.version = c.version + 1
            /\ c.op = "answer" => Leads(preview[c.preview], c.node, c.step.node)
            /\ c.step.kind = "decision" \/ Leads(preview[c.preview], c.node, c.step.node)

(* The call c of the page pg.                                              *)
CallOf(c, pg) ==
  /\ pg.preview = c.preview
  /\ c.op = "get" => pg.step = NoStep
  /\ c.op # "get" =>
       /\ pg.step # NoStep /\ c.version <= pg.step.version
       /\ c.version = pg.step.version => c.node = pg.step.node
       /\ c.op = "next" => c.version = pg.step.version
       /\ c.status = "answered" => c.version = pg.step.version /\ pg.result = NoStep

Apart(c, d) ==
  /\ c.page = d.page /\ c.page \in Pages =>
       /\ ~(c.op = "get" /\ d.op = "get")
       /\ ~(c.op \in {"next", "back"} /\ d.op \in {"next", "back"})
       /\ ~(c.status = "answered" /\ d.status = "answered")
  /\ ~(c.status = "evaluating" /\ d.status = "evaluating")

MemoryOK == recent \in Seq({s \in Previews : Used(s)}) /\ Len(recent) <= PreviewMax

ServerInv ==
  /\ draft \in Drafts /\ preview \in [Previews -> PreviewRows \cup {NoPreview}]
  /\ MemoryOK
  /\ \A s \in Previews : preview[s] # NoPreview => IsWalk(preview[s])

PagesInv ==
  /\ page \in [Pages -> PageRows]
  /\ \A p \in Pages, pg \in PageRows : page[p] = pg => PageOK(pg)

CallsInv ==
  /\ \A c \in calls : CallOK(c)
  /\ \A c \in calls, p \in Pages, pg \in PageRows : c.page = p /\ page[p] = pg => CallOf(c, pg)
  /\ \A c, d \in calls : c # d => Apart(c, d)

PreviewInv == ServerInv /\ PagesInv /\ CallsInv

-----------------------------------------------------------------------------
(* Walking.                                                                *)

LEMMA RowFields ==
  ASSUME NEW row \in PreviewRows
  PROVE  /\ row.owner \in Authors /\ row.graph \in Drafts /\ row.at \in Nodes
         /\ row.version \in 1..MaxVersion /\ row.version \in Nat
         /\ row.history \in Seq(Nodes) /\ row # NoPreview
  BY AbsenceAssumption DEF PreviewRows

LEMMA MovedWalks ==
  ASSUME NEW row \in PreviewRows, IsWalk(row), NEW n \in Nodes, Leads(row, row.at, n),
         NEW new, new = Moved(row, n), new.version <= MaxVersion
  PROVE  /\ new \in PreviewRows /\ IsWalk(new) /\ new.graph = row.graph
         /\ new.version = row.version + 1 /\ new.at = n
  <1> DEFINE h == row.history
  <1>1. h \in Seq(Nodes) /\ row.version \in Nat
    BY RowFields
  <1>2. PICK more : more = Append(h, n)
    OBVIOUS
  <1>3. /\ more \in Seq(Nodes) /\ Len(more) = Len(h) + 1 /\ more[Len(h) + 1] = n
        /\ \A i \in 1..Len(h) : more[i] = h[i]
        /\ Len(h) \in Nat
    BY <1>1, <1>2, AppendProperties
  <1>4. /\ new.graph = row.graph /\ new.version = row.version + 1 /\ new.at = n
        /\ new.history = more
    BY <1>2 DEF Moved, PreviewRows
  <1>5. new \in PreviewRows
    <2>1. row.version + 1 \in 1..MaxVersion
      BY <1>1, <1>4, RowFields, PageAssumption
    <2>2. new = [row EXCEPT !.version = row.version + 1, !.at = n, !.history = more]
      BY <1>2 DEF Moved
    <2> QED
      BY <1>3, <2>1, <2>2 DEF PreviewRows
  <1> HIDE DEF h
  <1>6. /\ h # <<>> /\ h[1] = row.graph.start /\ h[Len(h)] = row.at
        /\ \A i \in 1..(Len(h) - 1) : \E e \in row.graph.exits[h[i]] : e.to = h[i + 1]
    BY DEF IsWalk, h
  <1>7. Len(h) >= 1
    BY <1>1, <1>3, <1>6, EmptySeq DEF h
  <1>8. ASSUME NEW i \in 1..Len(h)
        PROVE  \E e \in row.graph.exits[more[i]] : e.to = more[i + 1]
    <2>1. CASE i = Len(h)
      BY <1>3, <1>6, <2>1 DEF Leads
    <2>2. CASE i # Len(h)
      <3>1. i \in 1..(Len(h) - 1) /\ i + 1 \in 1..Len(h)
        BY <1>3, <2>2
      <3> QED
        BY <1>3, <1>6, <3>1
    <2> QED
      BY <2>1, <2>2
  <1>9. more # <<>> /\ more[1] = row.graph.start
    BY <1>3, <1>6, <1>7
  <1>10. IsWalk(new)
    BY <1>3, <1>4, <1>8, <1>9 DEF IsWalk
  <1> QED
    BY <1>4, <1>5, <1>10

LEMMA MovedBackWalks ==
  ASSUME NEW row \in PreviewRows, IsWalk(row), NEW t \in DecisionsBehind(row),
         NEW new, new = MovedBack(row, t), new.version <= MaxVersion
  PROVE  /\ new \in PreviewRows /\ IsWalk(new) /\ new.graph = row.graph
         /\ new.version = row.version + 1 /\ row.graph.kind[new.at] = "decision"
  <1> DEFINE h == row.history
  <1>1. h \in Seq(Nodes) /\ row.version \in Nat /\ Len(h) \in Nat
        /\ \A i \in 1..Len(h) : h[i] \in Nodes
    BY RowFields, LenProperties, ElementOfSeq
  <1>2. t \in 1..(Len(h) - 1) /\ t \in 1..Len(h) /\ row.graph.kind[h[t]] = "decision"
    BY <1>1 DEF DecisionsBehind
  <1>3. PICK less : less = SubSeq(h, 1, t)
    OBVIOUS
  <1>4. /\ less \in Seq(Nodes) /\ Len(less) = t /\ \A i \in 1..t : less[i] = h[i]
    BY <1>1, <1>2, <1>3, SubSeqProperties
  <1>5. PICK n : n = h[t]
    OBVIOUS
  <1>6. /\ new.graph = row.graph /\ new.version = row.version + 1 /\ new.at = n
        /\ new.history = less
    BY <1>3, <1>5 DEF MovedBack, PreviewRows
  <1>7. new \in PreviewRows
    <2>1. row.version + 1 \in 1..MaxVersion
      BY <1>1, <1>6, RowFields, PageAssumption
    <2>2. new = [row EXCEPT !.version = row.version + 1, !.at = n, !.history = less]
      BY <1>3, <1>5 DEF MovedBack
    <2>3. n \in Nodes
      BY <1>1, <1>2, <1>5
    <2> QED
      BY <1>4, <2>1, <2>2, <2>3 DEF PreviewRows
  <1> HIDE DEF h
  <1>8. /\ h[1] = row.graph.start
        /\ \A i \in 1..(Len(h) - 1) : \E e \in row.graph.exits[h[i]] : e.to = h[i + 1]
    BY DEF IsWalk, h
  <1>9. ASSUME NEW i \in 1..(t - 1)
        PROVE  \E e \in row.graph.exits[less[i]] : e.to = less[i + 1]
    <2>1. i \in 1..(Len(h) - 1) /\ i \in 1..t /\ i + 1 \in 1..t
      BY <1>1, <1>2
    <2> QED
      BY <1>4, <1>8, <2>1
  <1>10. less # <<>> /\ less[1] = row.graph.start /\ less[t] = n
    BY <1>2, <1>4, <1>5, <1>8
  <1>11. IsWalk(new)
    BY <1>4, <1>6, <1>9, <1>10 DEF IsWalk
  <1> QED
    BY <1>2, <1>5, <1>6, <1>7, <1>11 DEF h

-----------------------------------------------------------------------------
(* A preview moves on.                                                     *)

Later ==
  \A s \in Previews : preview[s] # NoPreview =>
    /\ preview'[s] # NoPreview /\ preview'[s].graph = preview[s].graph
    /\ preview'[s] = preview[s] \/ preview'[s].version > preview[s].version

LEMMA StepsLast ==
  ASSUME preview \in [Previews -> PreviewRows \cup {NoPreview}],
         preview' \in [Previews -> PreviewRows \cup {NoPreview}],
         Later, NEW s \in Previews, Used(s), NEW step, IsStep(preview[s], step)
  PROVE  Used(s)' /\ IsStep(preview'[s], step)
  <1>1. /\ preview[s] \in PreviewRows /\ preview'[s] \in PreviewRows
        /\ preview'[s].graph = preview[s].graph
        /\ preview'[s] = preview[s] \/ preview'[s].version > preview[s].version
    BY DEF Later, Used
  <1>2. step.version \in Nat /\ preview[s].version \in Nat /\ preview'[s].version \in Nat
    BY <1>1, RowFields DEF IsStep, Steps
  <1>3. Used(s)'
    BY DEF Later, Used
  <1> QED
    BY <1>1, <1>2, <1>3 DEF IsStep

LEMMA PagesLast ==
  ASSUME preview \in [Previews -> PreviewRows \cup {NoPreview}],
         preview' \in [Previews -> PreviewRows \cup {NoPreview}],
         Later, NEW pg, PageOK(pg)
  PROVE  PageOK(pg)'
  <1>1. pg.preview # NoPreview => Used(pg.preview)'
    BY DEF PageOK, Later, Used
  <1>2. ASSUME pg.step # NoStep
        PROVE  /\ Used(pg.preview) /\ Used(pg.preview)'
               /\ preview'[pg.preview].graph = preview[pg.preview].graph
               /\ IsStep(preview'[pg.preview], pg.step)
               /\ pg.result # NoStep => IsStep(preview'[pg.preview], pg.result)
    BY <1>2, StepsLast DEF PageOK, Later, Used
  <1> QED
    BY <1>1, <1>2 DEF PageOK, Leads, Exits

LEMMA CallsLast ==
  ASSUME preview \in [Previews -> PreviewRows \cup {NoPreview}],
         preview' \in [Previews -> PreviewRows \cup {NoPreview}],
         Later, NEW c, CallOK(c),
         c.status = "evaluating" => preview'[c.preview] = preview[c.preview]
  PROVE  CallOK(c)'
  <1>1. /\ Used(c.preview) /\ Used(c.preview)'
        /\ preview'[c.preview].graph = preview[c.preview].graph
    BY DEF CallOK, Later, Used
  <1>2. c.status = "answered" => IsStep(preview'[c.preview], c.step)
    BY <1>1, StepsLast DEF CallOK, Used
  <1> QED
    BY <1>1, <1>2 DEF CallOK, Leads, Kind

LEMMA Envelope ==
  ASSUME NEW row \in PreviewRows, NEW step, step = buildPreviewEnvelope(row)
  PROVE  /\ IsStep(row, step) /\ step.version = row.version /\ step.node = row.at
         /\ step # NoStep
  <1>1. row.graph.kind[row.at] \in Kinds
    BY RowFields, DraftAssumption
  <1>2. previewNavigation(row) \in BOOLEAN
    BY DEF previewNavigation
  <1>3. /\ step.version = row.version /\ step.node = row.at
        /\ step.kind = row.graph.kind[row.at] /\ step.back = previewNavigation(row)
    BY DEF buildPreviewEnvelope
  <1>4. step \in Steps
    BY <1>1, <1>2, RowFields DEF buildPreviewEnvelope, Steps
  <1>5. row.version <= row.version
    BY RowFields
  <1> QED
    BY <1>3, <1>4, <1>5, AbsenceAssumption DEF IsStep

-----------------------------------------------------------------------------
(* What the server does.                                                   *)

LEMMA MovesOn ==
  ASSUME ServerInv, NEW s \in Previews, Used(s), NEW row \in PreviewRows, IsWalk(row),
         row.graph = preview[s].graph, row.version > preview[s].version,
         preview' = [preview EXCEPT ![s] = row]
  PROVE  /\ Later /\ preview' \in [Previews -> PreviewRows \cup {NoPreview}]
         /\ \A t \in Previews : preview'[t] # NoPreview => IsWalk(preview'[t])
         /\ preview'[s] = row
  <1>1. /\ preview' \in [Previews -> PreviewRows \cup {NoPreview}] /\ preview'[s] = row
        /\ \A t \in Previews \ {s} : preview'[t] = preview[t]
    BY DEF ServerInv
  <1>2. row # NoPreview
    BY RowFields
  <1>3. Later
    BY <1>1, <1>2 DEF Later
  <1>4. \A t \in Previews : preview'[t] # NoPreview => IsWalk(preview'[t])
    BY <1>1 DEF ServerInv
  <1> QED
    BY <1>1, <1>3, <1>4

LEMMA PagesKeep ==
  ASSUME PreviewInv, Later, preview' \in [Previews -> PreviewRows \cup {NoPreview}],
         UNCHANGED page
  PROVE  PagesInv'
  <1>1. \A p \in Pages, pg \in PageRows : page[p] = pg => PageOK(pg)'
    BY PagesLast DEF PreviewInv, ServerInv, PagesInv
  <1> QED
    BY <1>1 DEF PreviewInv, PagesInv

(* The call c is answered with where its preview is now, row: it was sent  *)
(* from the version the preview was at, or is a "next" that was repeated.  *)
LEMMA AnswersKeep ==
  ASSUME PreviewInv, Later, ServerInv', UNCHANGED page,
         NEW c \in calls, c.status # "answered",
         \A d \in calls : d.status = "evaluating" => d = c,
         NEW row \in PreviewRows, preview'[c.preview] = row,
         c.op # "get" =>
           /\ row.version = c.version + 1
           /\ c.version = preview[c.preview].version \/ c.op = "next"
           /\ c.op = "answer" => Leads(row, c.node, row.at)
           /\ row.graph.kind[row.at] = "decision" \/ Leads(row, c.node, row.at),
         Answers(c, row)
  PROVE  PreviewInv'
  <1>0. /\ preview \in [Previews -> PreviewRows \cup {NoPreview}]
        /\ preview' \in [Previews -> PreviewRows \cup {NoPreview}]
    BY DEF PreviewInv, ServerInv
  <1>1. PagesInv'
    BY <1>0, PagesKeep
  <1>2. CallOK(c) /\ c \in CallRows /\ Used(c.preview) /\ Used(c.preview)'
        /\ row.graph = preview[c.preview].graph
    BY DEF PreviewInv, CallsInv, CallOK, Later, Used
  <1>3. PICK step : step = buildPreviewEnvelope(row)
    OBVIOUS
  <1>4. /\ IsStep(row, step) /\ step.version = row.version /\ step.node = row.at
        /\ step \in Steps /\ step.kind = row.graph.kind[row.at]
    BY <1>3, Envelope DEF IsStep, buildPreviewEnvelope
  <1>5. PICK new : new = [c EXCEPT !.status = "answered", !.step = step]
    OBVIOUS
  <1>6. /\ new.page = c.page /\ new.op = c.op /\ new.preview = c.preview
        /\ new.version = c.version /\ new.node = c.node /\ new.status = "answered"
        /\ new.step = step
    BY <1>2, <1>5 DEF CallRows
  <1>7. new \in CallRows
    BY <1>2, <1>4, <1>5 DEF CallRows
  <1>8. \A d \in calls' : (d \in calls /\ d # c) \/ (d = new /\ c.page \in Pages)
    BY <1>2, <1>3, <1>5 DEF Answers, CallRows
  <1>9. \A d \in calls : d # c => CallOK(d)'
    BY <1>0, CallsLast DEF PreviewInv, CallsInv
  <1>10. c.page \in Pages => CallOK(new)'
    <2>1. new.op = "next" => Kind(new.preview, new.node)' = "story"
      BY <1>2, <1>6 DEF CallOK, Kind
    <2>2. new.op = "answer" => Kind(new.preview, new.node)' \in Questions
      BY <1>2, <1>6 DEF CallOK, Kind
    <2>3. new.op = "decision" => Kind(new.preview, new.node)' = "decision"
      BY <1>2, <1>6 DEF CallOK, Kind
    <2> QED
      BY <1>2, <1>4, <1>6, <1>7, <2>1, <2>2, <2>3 DEF CallOK
  <1>11. ASSUME NEW p \in Pages, NEW pg \in PageRows, c.page = p, page[p] = pg
         PROVE  CallOf(new, pg)
    <2>1. CallOf(c, pg) /\ PageOK(pg)
      BY <1>11 DEF PreviewInv, PagesInv, CallsInv
    <2>2. CASE c.op # "get"
      <3>1. /\ pg.step # NoStep /\ c.version <= pg.step.version
            /\ c.version = pg.step.version => c.node = pg.step.node
            /\ pg.preview = c.preview
            /\ IsStep(preview[c.preview], pg.step)
            /\ pg.result # NoStep => /\ pg.result.version = pg.step.version + 1
                                     /\ IsStep(preview[c.preview], pg.result)
                                     /\ pg.step.kind \in Questions
        BY <2>1, <2>2 DEF CallOf, PageOK
      <3>2. /\ c.version \in Nat /\ pg.step.version \in Nat
            /\ pg.step.version <= preview[c.preview].version
            /\ preview[c.preview].version \in Nat
            /\ pg.step.kind = Kind(c.preview, pg.step.node)
        BY <1>0, <1>2, <3>1, RowFields DEF CallRows, IsStep, Steps, Used, Kind
      <3>3. pg.result # NoStep => pg.step.version + 1 <= preview[c.preview].version
        BY <3>1 DEF IsStep
      <3>4. c.version = pg.step.version
        BY <2>1, <2>2, <3>1, <3>2 DEF CallOf
      <3>5. pg.result = NoStep
        <4>1. CASE c.version = preview[c.preview].version
          BY <3>2, <3>3, <3>4, <4>1
        <4>2. CASE c.op = "next"
          <5>1. pg.step.kind = "story"
            BY <1>2, <3>1, <3>2, <3>4, <4>2 DEF CallOK
          <5> QED
            BY <3>1, <5>1 DEF Questions
        <4> QED
          BY <2>2, <4>1, <4>2
      <3> QED
        BY <1>6, <2>1, <2>2, <3>1, <3>4, <3>5 DEF CallOf
    <2>3. CASE c.op = "get"
      BY <1>6, <2>1, <2>3 DEF CallOf
    <2> QED
      BY <2>2, <2>3
  <1>12. ASSUME NEW d \in calls, d # c, c.page \in Pages
         PROVE  Apart(new, d) /\ Apart(d, new)
    <2>1. Apart(c, d) /\ Apart(d, c) /\ CallOK(d)
      BY <1>12 DEF PreviewInv, CallsInv
    <2>2. ASSUME d.page = c.page, d.status = "answered"
          PROVE  FALSE
      <3>1. PICK pg \in PageRows : pg = page[c.page]
        BY <1>12 DEF PreviewInv, PagesInv
      <3>2. CallOf(c, pg) /\ CallOf(d, pg)
        BY <1>12, <2>2, <3>1 DEF PreviewInv, CallsInv
      <3>3. c.op # "get" /\ d.op # "get"
        BY <1>12, <2>1, <2>2, <3>2 DEF CallOf, Apart
      <3>4. /\ d.version = pg.step.version /\ d.preview = c.preview /\ d.node = pg.step.node
            /\ IsStep(preview[c.preview], d.step) /\ d.step.version = d.version + 1
            /\ c.version <= pg.step.version
        BY <2>1, <2>2, <3>2, <3>3 DEF CallOf, CallOK
      <3>5. d.version + 1 <= preview[c.preview].version
        BY <3>4 DEF IsStep
      <3>6. c.version \in Nat /\ d.version \in Nat /\ preview[c.preview].version \in Nat
        BY <1>0, <1>2, <2>1, RowFields DEF CallOK, CallRows, Used
      <3>7. c.op = "next"
        BY <3>3, <3>4, <3>5, <3>6
      <3>8. c.node = pg.step.node /\ Kind(c.preview, c.node) = "story"
        BY <1>2, <3>2, <3>3, <3>7 DEF CallOf, CallOK
      <3>9. d.op \in {"answer", "decision"}
        BY <1>12, <2>1, <2>2, <3>3, <3>7 DEF Apart, CallOK, CallRows, Ops
      <3> QED
        BY <2>1, <3>4, <3>8, <3>9 DEF CallOK, Questions
    <2> QED
      BY <1>6, <2>1, <2>2 DEF Apart
  <1>13. CallsInv'
    <2>1. \A d \in calls' : CallOK(d)'
      BY <1>8, <1>9, <1>10
    <2>2. \A d \in calls', p \in Pages, pg \in PageRows :
            d.page = p /\ page[p] = pg => CallOf(d, pg)
      <3>1. ASSUME NEW d \in calls', NEW p \in Pages, NEW pg \in PageRows,
                   d.page = p, page[p] = pg
            PROVE  CallOf(d, pg)
        <4>1. CASE d \in calls
          BY <3>1, <4>1 DEF PreviewInv, CallsInv
        <4>2. CASE d = new
          BY <1>6, <1>11, <3>1, <4>2
        <4> QED
          BY <1>8, <4>1, <4>2
      <3> QED
        BY <3>1
    <2>3. \A d, e \in calls' : d # e => Apart(d, e)
      BY <1>8, <1>12 DEF PreviewInv, CallsInv
    <2> QED
      BY <2>1, <2>2, <2>3 DEF CallsInv
  <1> QED
    BY <1>1, <1>13 DEF PreviewInv

(* The memory: what is touched goes to the end.                            *)

LEMMA RemovedAt ==
  ASSUME NEW S, NEW rs \in Seq(S), NEW i \in DOMAIN rs
  PROVE  RemoveAt(rs, i) \in Seq(S) /\ Len(RemoveAt(rs, i)) = Len(rs) - 1
  <1>1. Len(rs) \in Nat /\ i \in 1..Len(rs) /\ \A j \in 1..Len(rs) : rs[j] \in S
    BY LenProperties, ElementOfSeq
  <1>2. PICK before : before = SubSeq(rs, 1, i - 1)
    OBVIOUS
  <1>3. PICK after : after = SubSeq(rs, i + 1, Len(rs))
    OBVIOUS
  <1>4. before \in Seq(S) /\ Len(before) = i - 1
    BY <1>1, <1>2
  <1>5. after \in Seq(S) /\ Len(after) = Len(rs) - i
    BY <1>1, <1>3
  <1>6. /\ before \o after \in Seq(S)
        /\ Len(before \o after) = Len(before) + Len(after)
    BY <1>4, <1>5, ConcatProperties
  <1>7. RemoveAt(rs, i) = before \o after
    BY <1>2, <1>3 DEF RemoveAt
  <1>8. Len(before) + Len(after) = Len(rs) - 1
    BY <1>1, <1>4, <1>5
  <1> QED
    BY <1>6, <1>7, <1>8, Zenon

(* The preview s is remembered next to those in kept.                      *)
LEMMA Remembered ==
  ASSUME NEW S, NEW kept \in Seq(S), Len(kept) < PreviewMax, NEW s \in S,
         NEW new, new = Append(kept, s)
  PROVE  new \in Seq(S) /\ Len(new) <= PreviewMax
  <1>1. /\ new \in Seq(S) /\ Len(new) = Len(kept) + 1 /\ Len(kept) \in Nat
    BY AppendProperties, LenProperties
  <1> QED
    BY <1>1, PageAssumption

LEMMA MemoryLasts ==
  ASSUME MemoryOK, Later, preview \in [Previews -> PreviewRows \cup {NoPreview}]
  PROVE  recent \in Seq({s \in Previews : Used(s)'})
  <1>1. {s \in Previews : Used(s)} \subseteq {s \in Previews : Used(s)'}
    BY DEF Later, Used
  <1> QED
    BY <1>1 DEF MemoryOK

(* A handler that only reads.                                              *)
LEMMA ReadsKeep ==
  ASSUME PreviewInv, NEW c \in calls, loadPreview(c), UNCHANGED <<draft, preview, recent, page>>,
         Answers(c, preview[c.preview]),
         c.op # "get" => c.op = "next" /\ Repeated(c)
  PROVE  PreviewInv'
  <1>1. CallOK(c) /\ Used(c.preview) /\ c.status # "answered"
        /\ \A d \in calls : d.status = "evaluating" => d = c
    BY DEF PreviewInv, CallsInv, CallOK, loadPreview, MutexFree
  <1>2. PICK row : row = preview[c.preview]
    OBVIOUS
  <1>3. row \in PreviewRows /\ row = preview'[c.preview]
    BY <1>1, <1>2 DEF PreviewInv, ServerInv, Used
  <1>4. Later /\ ServerInv'
    BY DEF PreviewInv, ServerInv, MemoryOK, Used, Later
  <1>5. c.op # "get" =>
          /\ row.version = c.version + 1
          /\ Leads(row, c.node, row.at)
    BY <1>2 DEF Repeated, Leads, Exits
  <1> QED
    BY <1>1, <1>2, <1>3, <1>4, <1>5, AnswersKeep

(* A handler that walks, from where its call was sent.                     *)
LEMMA WalksKeep ==
  ASSUME PreviewInv, NEW c \in calls, c.status # "answered", c.op # "get",
         \A d \in calls : d.status = "evaluating" => d = c,
         c.version = preview[c.preview].version,
         NEW row \in PreviewRows, IsWalk(row), row.graph = preview[c.preview].graph,
         row.version = preview[c.preview].version + 1,
         c.op = "answer" => Leads(row, c.node, row.at),
         row.graph.kind[row.at] = "decision" \/ Leads(row, c.node, row.at),
         Walks(c, row), UNCHANGED <<draft, page>>
  PROVE  PreviewInv'
  <1>1. Used(c.preview) /\ c.preview \in Previews
    BY DEF PreviewInv, CallsInv, CallOK, Used
  <1>2. preview[c.preview] \in PreviewRows
    BY <1>1 DEF PreviewInv, ServerInv, Used
  <1>3. row.version > preview[c.preview].version
    BY <1>2, RowFields
  <1>4. preview' = [preview EXCEPT ![c.preview] = row] /\ Answers(c, row)
    BY DEF Walks
  <1>5. /\ Later /\ preview' \in [Previews -> PreviewRows \cup {NoPreview}]
        /\ \A t \in Previews : preview'[t] # NoPreview => IsWalk(preview'[t])
        /\ preview'[c.preview] = row
    BY <1>1, <1>3, <1>4, MovesOn DEF PreviewInv
  <1>6. MemoryOK'
    <2>1. PICK S : S = {s \in Previews : Used(s)'}
      OBVIOUS
    <2>2. recent \in Seq(S) /\ c.preview \in S /\ Len(recent) <= PreviewMax
      BY <1>1, <1>5, <2>1, MemoryLasts DEF PreviewInv, ServerInv, MemoryOK, Later, Used
    <2>3. PICK i \in DOMAIN recent : recent' = Append(RemoveAt(recent, i), c.preview)
      BY DEF Walks
    <2>4. PICK less : less = RemoveAt(recent, i)
      OBVIOUS
    <2>5. less \in Seq(S) /\ Len(less) = Len(recent) - 1
      BY <2>2, <2>4, RemovedAt
    <2>6. Len(less) < PreviewMax
      BY <2>2, <2>5, PageAssumption, LenProperties
    <2>7. recent' \in Seq(S) /\ Len(recent') <= PreviewMax
      BY <2>2, <2>3, <2>4, <2>5, <2>6, Remembered
    <2> QED
      BY <2>1, <2>7 DEF MemoryOK
  <1>7. ServerInv'
    BY <1>5, <1>6 DEF PreviewInv, ServerInv
  <1> QED
    BY <1>3, <1>4, <1>5, <1>7, AnswersKeep

(* A handler that takes the exit e of where its call was sent from.        *)
LEMMA MovedKeep ==
  ASSUME PreviewInv, NEW c \in calls, c.status # "answered", c.op # "get",
         \A d \in calls : d.status = "evaluating" => d = c,
         c.version = preview[c.preview].version, c.node = preview[c.preview].at,
         NEW e \in Exits(c.preview, c.node),
         Walks(c, Moved(preview[c.preview], e.to)), UNCHANGED <<draft, page>>
  PROVE  PreviewInv'
  <1>1. PICK old : old = preview[c.preview]
    OBVIOUS
  <1>2. old \in PreviewRows /\ IsWalk(old)
    BY <1>1 DEF PreviewInv, ServerInv, CallsInv, CallOK, Used
  <1>3. PICK g : g = old.graph
    OBVIOUS
  <1>4. /\ g.exits \in [Nodes -> SUBSET [option : Options, to : Nodes]]
        /\ e \in g.exits[old.at] /\ old.at \in Nodes
    BY <1>1, <1>2, <1>3, RowFields, DraftAssumption DEF Exits
  <1>5. PICK n : n = e.to
    OBVIOUS
  <1>6. n \in Nodes /\ Leads(old, old.at, n)
    BY <1>3, <1>4, <1>5 DEF Leads
  <1>7. PICK row : row = Moved(old, n)
    OBVIOUS
  <1>8. row.version <= MaxVersion
    BY <1>1, <1>5, <1>7 DEF Walks
  <1>9. /\ row \in PreviewRows /\ IsWalk(row) /\ row.graph = old.graph
        /\ row.version = old.version + 1 /\ row.at = n
    BY <1>2, <1>6, <1>7, <1>8, MovedWalks
  <1>10. Leads(row, c.node, row.at)
    BY <1>1, <1>6, <1>9 DEF Leads
  <1>11. Walks(c, row)
    BY <1>1, <1>5, <1>7
  <1> QED
    BY <1>1, <1>9, <1>10, <1>11, WalksKeep

LEMMA BackKeeps ==
  ASSUME PreviewInv, NEW c \in calls, PreviewBack(c), UNCHANGED <<draft, page>>
  PROVE  PreviewInv'
  <1>1. PICK old : old = preview[c.preview]
    OBVIOUS
  <1>2. old \in PreviewRows /\ IsWalk(old)
    BY <1>1 DEF PreviewInv, ServerInv, CallsInv, CallOK, Used
  <1>3. /\ c.op = "back" /\ c.status = "sent" /\ old.version = c.version
        /\ \A d \in calls : d.status = "evaluating" => d = c
    BY <1>1 DEF PreviewBack, loadPreview, MutexFree
  <1>4. PICK t \in DecisionsBehind(old) : Walks(c, MovedBack(old, t))
    BY <1>1 DEF PreviewBack
  <1>5. PICK row : row = MovedBack(old, t)
    OBVIOUS
  <1>6. row.version <= MaxVersion
    BY <1>4, <1>5 DEF Walks
  <1>7. /\ row \in PreviewRows /\ IsWalk(row) /\ row.graph = old.graph
        /\ row.version = old.version + 1 /\ row.graph.kind[row.at] = "decision"
    BY <1>2, <1>5, <1>6, MovedBackWalks
  <1> QED
    BY <1>1, <1>3, <1>4, <1>5, <1>7, WalksKeep

LEMMA AnswerTextKeeps ==
  ASSUME PreviewInv, NEW c \in calls, PreviewAnswerText(c), UNCHANGED <<draft, page>>
  PROVE  PreviewInv'
  <1>1. /\ c.op = "answer" /\ c.status = "sent" /\ UNCHANGED <<draft, preview, recent, page>>
        /\ \A d \in calls : d.status # "evaluating"
        /\ c.version = preview[c.preview].version /\ c.node = preview[c.preview].at
    BY DEF PreviewAnswerText, AtVersion, loadPreview, MutexFree
  <1>2. CallOK(c) /\ c \in CallRows
    BY DEF PreviewInv, CallsInv, CallOK
  <1>3. PICK new : new = [c EXCEPT !.status = "evaluating"]
    OBVIOUS
  <1>4. /\ new.page = c.page /\ new.op = c.op /\ new.preview = c.preview
        /\ new.version = c.version /\ new.node = c.node /\ new.status = "evaluating"
        /\ new.step = c.step /\ new \in CallRows
    BY <1>2, <1>3 DEF CallRows
  <1>5. calls' = (calls \ {c}) \cup {new}
    BY <1>3 DEF PreviewAnswerText
  <1>6. ServerInv' /\ PagesInv'
    BY <1>1 DEF PreviewInv, ServerInv, PagesInv, MemoryOK, Used, PageOK, Exits
  <1>7. \A d : CallOK(d) => CallOK(d)'
    BY <1>1 DEF CallOK, Used, Kind
  <1>8. CallOK(new)
    BY <1>1, <1>2, <1>4 DEF CallOK
  <1>9. \A p \in Pages, pg \in PageRows : c.page = p /\ page[p] = pg => CallOf(new, pg)
    BY <1>1, <1>4 DEF PreviewInv, CallsInv, CallOf
  <1>10. \A d \in calls : d # c => Apart(new, d) /\ Apart(d, new)
    BY <1>1, <1>4 DEF PreviewInv, CallsInv, Apart
  <1>11. CallsInv'
    <2>1. \A d \in calls' : CallOK(d)'
      BY <1>5, <1>7, <1>8 DEF PreviewInv, CallsInv
    <2>2. \A d \in calls', p \in Pages, pg \in PageRows :
            d.page = p /\ page'[p] = pg => CallOf(d, pg)
      BY <1>1, <1>4, <1>5, <1>9 DEF PreviewInv, CallsInv
    <2>3. \A d, e \in calls' : d # e => Apart(d, e)
      BY <1>5, <1>10 DEF PreviewInv, CallsInv
    <2> QED
      BY <2>1, <2>2, <2>3 DEF CallsInv
  <1> QED
    BY <1>6, <1>11 DEF PreviewInv

LEMMA ServerKeeps ==
  ASSUME PreviewInv, NEW c \in calls, Server(c), UNCHANGED <<draft, page>>
  PROVE  PreviewInv'
  <1>1. CASE PreviewSession(c)
    BY <1>1, ReadsKeep DEF PreviewSession
  <1>2. CASE PreviewNextRepeated(c)
    BY <1>2, ReadsKeep DEF PreviewNextRepeated, Repeated
  <1>3. ASSUME AtVersion(c), c.op # "get", NEW e \in Exits(c.preview, c.node),
               Walks(c, Moved(preview[c.preview], e.to))
        PROVE  PreviewInv'
    <2>1. /\ c.status # "answered" /\ \A d \in calls : d.status = "evaluating" => d = c
          /\ c.version = preview[c.preview].version /\ c.node = preview[c.preview].at
      BY <1>3 DEF AtVersion, loadPreview, MutexFree
    <2> QED
      BY <1>3, <2>1, MovedKeep
  <1>4. CASE PreviewNext(c)
    BY <1>3, <1>4 DEF PreviewNext
  <1>5. CASE PreviewAnswerChoice(c) \/ PreviewDecision(c)
    BY <1>3, <1>5 DEF PreviewAnswerChoice, PreviewDecision, Chosen
  <1>6. CASE PreviewAnswerText(c)
    BY <1>6, AnswerTextKeeps
  <1>7. CASE PreviewEvaluated(c)
    <2>1. /\ c.status = "evaluating" /\ c.op # "get"
          /\ c.version = preview[c.preview].version /\ c.node = preview[c.preview].at
      BY <1>7 DEF PreviewEvaluated, PreviewInv, CallsInv, CallOK
    <2>2. \A d \in calls : d.status = "evaluating" => d = c
      BY <2>1 DEF PreviewInv, CallsInv, Apart
    <2>3. PICK e \in Exits(c.preview, c.node) : Walks(c, Moved(preview[c.preview], e.to))
      BY <1>7 DEF PreviewEvaluated
    <2> QED
      BY <2>1, <2>2, <2>3, MovedKeep
  <1>8. CASE PreviewBack(c)
    BY <1>8, BackKeeps
  <1> QED
    BY <1>1, <1>2, <1>4, <1>5, <1>6, <1>7, <1>8 DEF Server

-----------------------------------------------------------------------------
(* What the pages do.                                                      *)

(* One page changes to npg, and of the others no call is new.              *)
LEMMA PageChanges ==
  ASSUME PreviewInv, Later, ServerInv', NEW p \in Pages, NEW npg \in PageRows,
         page' = [page EXCEPT ![p] = npg], PageOK(npg)',
         \A d \in calls' : CallOK(d)',
         \A d \in calls' : d.page = p => CallOf(d, npg),
         \A d \in calls' : d.page # p => d \in calls \/ d.page \notin Pages,
         \A d, e \in calls' : d # e => Apart(d, e)
  PROVE  PreviewInv'
  <1>0. /\ preview \in [Previews -> PreviewRows \cup {NoPreview}]
        /\ preview' \in [Previews -> PreviewRows \cup {NoPreview}]
    BY DEF PreviewInv, ServerInv
  <1>1. /\ page \in [Pages -> PageRows] /\ page' \in [Pages -> PageRows] /\ page'[p] = npg
        /\ \A q \in Pages \ {p} : page'[q] = page[q]
    BY DEF PreviewInv, PagesInv
  <1>2. \A q \in Pages, pg \in PageRows : page[q] = pg => PageOK(pg)'
    BY <1>0, PagesLast DEF PreviewInv, PagesInv
  <1>3. \A q \in Pages, pg \in PageRows : page'[q] = pg => PageOK(pg)'
    BY <1>1, <1>2
  <1>4. PagesInv'
    BY <1>1, <1>3 DEF PagesInv
  <1>5. \A d \in calls', q \in Pages, pg \in PageRows :
          d.page = q /\ page'[q] = pg => CallOf(d, pg)
    BY <1>1 DEF PreviewInv, CallsInv
  <1>6. CallsInv'
    BY <1>5 DEF CallsInv
  <1> QED
    BY <1>4, <1>6 DEF PreviewInv

(* Meanwhile the server rests.                                             *)
LEMMA Resting ==
  ASSUME PreviewInv, UNCHANGED <<draft, preview, recent>>
  PROVE  /\ Later /\ ServerInv'
         /\ \A c : CallOK(c) => CallOK(c)'
         /\ \A pg : PageOK(pg) => PageOK(pg)'
  <1>1. Later /\ ServerInv'
    BY DEF PreviewInv, ServerInv, MemoryOK, Used, Later
  <1>2. \A c : CallOK(c) => CallOK(c)'
    BY DEF CallOK, Used, Kind
  <1>3. \A pg : PageOK(pg) => PageOK(pg)'
    BY DEF PageOK, Used, Exits
  <1> QED
    BY <1>1, <1>2, <1>3

(* The page asks for what follows its step, or for the way back from it.   *)
LEMMA AsksKeep ==
  ASSUME PreviewInv, NEW p \in Pages, NEW npg \in PageRows,
         page' = [page EXCEPT ![p] = npg], PageOK(npg),
         npg.preview = page[p].preview, npg.step = page[p].step,
         npg.step # NoStep, npg.result = NoStep,
         NEW op \in Ops \ {"get"}, NEW option \in Options \cup {NoOption},
         op = "next" => npg.step.kind = "story" /\ ~advancing(p),
         op = "back" => ~advancing(p),
         op = "answer" => npg.step.kind \in Questions,
         op = "decision" => npg.step.kind = "decision",
         Asks(p, op, option)
  PROVE  PreviewInv'
  <1>1. UNCHANGED <<draft, preview, recent>>
    BY DEF Asks
  <1>2. /\ Later /\ ServerInv' /\ \A c : CallOK(c) => CallOK(c)'
        /\ \A pg : PageOK(pg) => PageOK(pg)'
    BY <1>1, Resting
  <1>3. PICK s : s = npg.preview
    OBVIOUS
  <1>4. PICK step : step = npg.step
    OBVIOUS
  <1>5. Used(s) /\ IsStep(preview[s], step) /\ step \in Steps
    BY <1>3, <1>4 DEF PageOK, IsStep
  <1>6. PICK new : new = [page |-> p, by |-> Author[p], op |-> op, preview |-> s,
                          version |-> step.version, node |-> step.node,
                          option |-> option, status |-> "sent", step |-> NoStep]
    OBVIOUS
  <1>7. calls' = calls \cup {new}
    BY <1>3, <1>4, <1>6 DEF Asks
  <1>8. /\ new.page = p /\ new.op = op /\ new.preview = s /\ new.version = step.version
        /\ new.node = step.node /\ new.status = "sent" /\ new.step = NoStep
    BY <1>6
  <1>9. new \in CallRows
    <2>1. step.version \in 0..MaxVersion /\ step.node \in Nodes /\ s \in Previews
      BY <1>5, PageAssumption DEF Steps, Used
    <2>2. Author[p] \in Authors
      BY PageAssumption
    <2> QED
      BY <1>6, <2>1, <2>2 DEF CallRows
  <1>10. CallOK(new)
    <2>1. step.kind = Kind(s, step.node)
      BY <1>5 DEF IsStep, Kind
    <2> QED
      BY <1>4, <1>5, <1>8, <1>9, <2>1 DEF CallOK
  <1>11. CallOf(new, npg)
    <2>1. step.version <= step.version
      BY <1>5 DEF Steps
    <2> QED
      BY <1>3, <1>4, <1>8, <2>1 DEF CallOf
  <1>12. ASSUME NEW d \in calls, d.page = p
         PROVE  CallOf(d, npg)
    <2>1. PICK pg \in PageRows : pg = page[p]
      BY DEF PreviewInv, PagesInv
    <2>2. CallOf(d, pg)
      BY <1>12, <2>1 DEF PreviewInv, CallsInv
    <2> QED
      BY <2>1, <2>2 DEF CallOf
  <1>13. ASSUME NEW d \in calls
         PROVE  Apart(new, d) /\ Apart(d, new)
    BY <1>8 DEF Apart, advancing, Waits
  <1>14. \A d \in calls' : CallOK(d)'
    BY <1>2, <1>7, <1>10 DEF PreviewInv, CallsInv
  <1>15. \A d \in calls' : d.page = p => CallOf(d, npg)
    BY <1>7, <1>11, <1>12
  <1>16. \A d \in calls' : d.page # p => d \in calls
    BY <1>7, <1>8
  <1>17. \A d, e \in calls' : d # e => Apart(d, e)
    BY <1>7, <1>13 DEF PreviewInv, CallsInv
  <1> QED
    BY <1>2, <1>14, <1>15, <1>16, <1>17, PageChanges

(* The fields of what a page shows, and what it shows anew.                *)
LEMMA PageFields ==
  ASSUME PreviewInv, NEW p \in Pages
  PROVE  /\ page[p] \in PageRows /\ PageOK(page[p])
         /\ page = [page EXCEPT ![p] = page[p]]
         /\ \A c \in calls : c.page = p => CallOf(c, page[p])
  <1>1. page \in [Pages -> PageRows]
    BY DEF PreviewInv, PagesInv
  <1> QED
    BY <1>1 DEF PreviewInv, PagesInv, CallsInv

LEMMA ShownAnew ==
  ASSUME NEW pg \in PageRows, NEW step \in Steps \cup {NoStep}, NEW npg, npg = StepShown(pg, step)
  PROVE  /\ npg \in PageRows /\ npg.preview = pg.preview /\ npg.step = step
         /\ npg.result = NoStep /\ npg.selected = NoOption
  BY DEF StepShown, PageRows

LEMMA AskingKeeps ==
  ASSUME PreviewInv, NEW p \in Pages,
         \/ handleNext(p) /\ calls' # calls
         \/ handleAnswer(p) \/ handleDecision(p) \/ handleBack(p)
  PROVE  PreviewInv'
  <1>0. PICK pg \in PageRows : pg = page[p]
    BY PageFields
  <1>1. /\ PageOK(pg) /\ page = [page EXCEPT ![p] = pg] /\ pg.selected \in Options \cup {NoOption}
        /\ pg.step \in Steps \cup {NoStep}
    BY <1>0, PageFields DEF PageRows
  <1>2. CASE handleNext(p) /\ calls' # calls
    <2>1. /\ StepPanel(p, {"story"}) /\ ~advancing(p) /\ Asks(p, "next", NoOption)
          /\ page' = [page EXCEPT ![p] = StepShown(@, @.step)]
      BY <1>2 DEF handleNext
    <2>2. pg.step # NoStep /\ pg.step.kind = "story"
      BY <1>0, <2>1 DEF StepPanel
    <2>3. PICK npg : npg = StepShown(pg, pg.step)
      OBVIOUS
    <2>4. /\ npg \in PageRows /\ npg.preview = pg.preview /\ npg.step = pg.step
          /\ npg.result = NoStep /\ npg.selected = NoOption
      BY <1>1, <2>3, ShownAnew
    <2>5. PageOK(npg)
      BY <1>1, <2>4 DEF PageOK
    <2>6. page' = [page EXCEPT ![p] = npg]
      BY <1>0, <1>1, <2>1, <2>3
    <2>7. PICK op \in Ops \ {"get"} : op = "next"
      BY DEF Ops
    <2>8. PICK none \in Options \cup {NoOption} : none = NoOption
      OBVIOUS
    <2>9. /\ Asks(p, op, none) /\ ~advancing(p)
          /\ op # "answer" /\ op # "decision"
      BY <2>1, <2>7, <2>8
    <2>10. /\ npg.preview = page[p].preview /\ npg.step = page[p].step
           /\ npg.step # NoStep
      BY <1>0, <2>2, <2>4
    <2>11. /\ op = "next" => npg.step.kind = "story" /\ ~advancing(p)
           /\ op = "back" => ~advancing(p)
           /\ op = "answer" => npg.step.kind \in Questions
           /\ op = "decision" => npg.step.kind = "decision"
      BY <2>2, <2>4, <2>9
    <2> QED
      BY <2>4, <2>5, <2>6, <2>9, <2>10, <2>11, AsksKeep, ZenonT(30)
  <1>3. CASE handleAnswer(p)
    <2>1. /\ pg.step # NoStep /\ pg.result = NoStep /\ pg.step.kind \in Questions
          /\ Asks(p, "answer", pg.selected) /\ page' = [page EXCEPT ![p] = pg]
      BY <1>0, <1>1, <1>3 DEF handleAnswer, StepPanel
    <2> QED
      BY <1>0, <1>1, <2>1, AsksKeep DEF Ops
  <1>4. CASE handleDecision(p)
    <2>1. /\ pg.step # NoStep /\ pg.result = NoStep /\ pg.step.kind = "decision"
          /\ Asks(p, "decision", pg.selected) /\ page' = [page EXCEPT ![p] = pg]
      BY <1>0, <1>1, <1>4 DEF handleDecision, StepPanel
    <2> QED
      BY <1>0, <1>1, <2>1, AsksKeep DEF Ops
  <1>5. CASE handleBack(p)
    <2>1. /\ pg.step # NoStep /\ pg.result = NoStep /\ ~advancing(p)
          /\ Asks(p, "back", NoOption) /\ page' = [page EXCEPT ![p] = pg]
      BY <1>0, <1>1, <1>5 DEF handleBack, StepPanel
    <2> QED
      BY <1>0, <1>1, <2>1, AsksKeep DEF Ops
  <1> QED
    BY <1>2, <1>3, <1>4, <1>5

(* The page changes without a call.                                        *)
LEMMA OnPageKeeps ==
  ASSUME PreviewInv, NEW p \in Pages, NEW npg \in PageRows,
         page' = [page EXCEPT ![p] = npg], PageOK(npg), UNCHANGED <<draft, preview, recent, calls>>,
         \A c \in calls : c.page = p => CallOf(c, npg)
  PROVE  PreviewInv'
  <1>1. /\ Later /\ ServerInv' /\ \A c : CallOK(c) => CallOK(c)'
        /\ \A pg : PageOK(pg) => PageOK(pg)'
    BY Resting
  <1>2. /\ \A d \in calls' : CallOK(d)' /\ (d.page # p => d \in calls)
    BY <1>1 DEF PreviewInv, CallsInv
  <1>3. \A d, e \in calls' : d # e => Apart(d, e)
    BY DEF PreviewInv, CallsInv
  <1>4. \A d \in calls' : d.page = p => CallOf(d, npg)
    OBVIOUS
  <1> QED
    BY <1>1, <1>2, <1>3, <1>4, PageChanges

LEMMA EndKeeps ==
  ASSUME PreviewInv, NEW p \in Pages, handleNext(p), calls' = calls
  PROVE  PreviewInv'
  <1>0. PICK pg \in PageRows : pg = page[p]
    BY PageFields
  <1>1. PageOK(pg) /\ \A c \in calls : c.page = p => CallOf(c, pg)
    BY <1>0, PageFields
  <1>2. CASE page' = [page EXCEPT ![p].completed = TRUE] /\ UNCHANGED <<draft, preview, recent>>
    <2>1. PICK npg : npg = [pg EXCEPT !.completed = TRUE]
      OBVIOUS
    <2>2. /\ npg \in PageRows /\ npg.preview = pg.preview /\ npg.step = pg.step
          /\ npg.result = pg.result /\ npg.selected = pg.selected
      BY <2>1 DEF PageRows
    <2>3. page' = [page EXCEPT ![p] = npg]
      BY <1>0, <1>2, <2>1
    <2>4. PageOK(npg) /\ \A c \in calls : c.page = p => CallOf(c, npg)
      BY <1>1, <2>2 DEF PageOK, CallOf
    <2> QED
      BY <1>2, <2>2, <2>3, <2>4, OnPageKeeps
  <1>3. CASE Asks(p, "next", NoOption) /\ ~advancing(p)
    <2>1. PICK new : new.page = p /\ new.op = "next" /\ calls' = calls \cup {new}
      BY <1>3 DEF Asks
    <2> QED
      BY <1>3, <2>1 DEF advancing, Waits
  <1> QED
    BY <1>2, <1>3 DEF handleNext

LEMMA SelectingKeeps ==
  ASSUME PreviewInv, NEW p \in Pages, NEW o \in Options, setSelectedOption(p, o)
  PROVE  PreviewInv'
  <1>0. PICK pg \in PageRows : pg = page[p]
    BY PageFields
  <1>1. PageOK(pg) /\ \A c \in calls : c.page = p => CallOf(c, pg)
    BY <1>0, PageFields
  <1>2. PICK npg : npg = [pg EXCEPT !.selected = o]
    OBVIOUS
  <1>3. /\ npg \in PageRows /\ npg.preview = pg.preview /\ npg.step = pg.step
        /\ npg.result = pg.result /\ npg.selected = o
    BY <1>2 DEF PageRows
  <1>4. page' = [page EXCEPT ![p] = npg]
    BY <1>0, <1>2 DEF setSelectedOption
  <1>5. PageOK(npg) /\ \A c \in calls : c.page = p => CallOf(c, npg)
    BY <1>0, <1>1, <1>3 DEF setSelectedOption, PageOK, CallOf
  <1> QED
    BY <1>3, <1>4, <1>5, OnPageKeeps DEF setSelectedOption

LEMMA ContinuingKeeps ==
  ASSUME PreviewInv, NEW p \in Pages, handleContinueAfterFeedback(p)
  PROVE  PreviewInv'
  <1>0. PICK pg \in PageRows : pg = page[p]
    BY PageFields
  <1>1. /\ PageOK(pg) /\ \A c \in calls : c.page = p => CallOf(c, pg)
        /\ pg.result # NoStep /\ pg.result \in Steps \cup {NoStep}
    BY <1>0, PageFields DEF handleContinueAfterFeedback, PageRows
  <1>2. PICK npg : npg = StepShown(pg, pg.result)
    OBVIOUS
  <1>3. /\ npg \in PageRows /\ npg.preview = pg.preview /\ npg.step = pg.result
        /\ npg.result = NoStep /\ npg.selected = NoOption
    BY <1>1, <1>2, ShownAnew
  <1>4. page' = [page EXCEPT ![p] = npg]
    BY <1>0, <1>2 DEF handleContinueAfterFeedback
  <1>5. /\ pg.step # NoStep /\ Used(pg.preview)
        /\ IsStep(preview[pg.preview], pg.step) /\ IsStep(preview[pg.preview], pg.result)
        /\ pg.result.version = pg.step.version + 1 /\ pg.step.kind \in Questions
    BY <1>1 DEF PageOK
  <1>6. PageOK(npg)
    BY <1>3, <1>5 DEF PageOK
  <1>7. ASSUME NEW c \in calls, c.page = p
        PROVE  CallOf(c, npg)
    <2>1. CallOf(c, pg) /\ CallOK(c)
      BY <1>1, <1>7 DEF PreviewInv, CallsInv
    <2>2. /\ c.op # "get" /\ c.version <= pg.step.version /\ c.preview = pg.preview
          /\ c.version = pg.step.version => c.node = pg.step.node
          /\ c.op = "next" => c.version = pg.step.version
          /\ c.status # "answered"
      BY <1>1, <1>5, <2>1 DEF CallOf
    <2>3. c.op # "next"
      BY <1>5, <2>1, <2>2 DEF CallOK, IsStep, Kind, Questions
    <2>4. c.version \in Nat /\ pg.step.version \in Nat
      BY <1>5, <2>1 DEF CallOK, CallRows, IsStep, Steps
    <2>5. c.version <= pg.result.version /\ c.version # pg.result.version
      BY <1>5, <2>2, <2>4
    <2> QED
      BY <1>1, <1>3, <2>2, <2>3, <2>5 DEF CallOf
  <1> QED
    BY <1>3, <1>4, <1>6, <1>7, OnPageKeeps DEF handleContinueAfterFeedback

LEMMA ShowsNothing == Away \in PageRows /\ PageOK(Away) /\ PageOK(Away)'
  BY DEF Away, PageRows, PageOK

(* Who left a page waits for nothing, but the server is still asked.       *)
LEMMA LeavingKeeps ==
  ASSUME PreviewInv, NEW p \in Pages, handleReturnToEditor(p)
  PROVE  PreviewInv'
  <1>1. /\ Later /\ ServerInv' /\ \A c : CallOK(c) => CallOK(c)'
    BY Resting DEF handleReturnToEditor
  <1>2. NoPage \notin Pages
    BY PageAssumption
  <1>3. ASSUME NEW d \in calls'
        PROVE  \/ d \in calls /\ d.page # p
               \/ \E c \in calls : /\ c.page = p /\ c.op # "get" /\ c.status # "answered"
                                   /\ d = [c EXCEPT !.page = NoPage]
    BY <1>3 DEF handleReturnToEditor
  <1>4. ASSUME NEW c \in calls, NEW d, c.page = p, c.status # "answered", d = [c EXCEPT !.page = NoPage]
        PROVE  /\ d.page = NoPage /\ d.status = c.status /\ CallOK(d)
    <2>1. CallOK(c) /\ c \in CallRows
      BY DEF PreviewInv, CallsInv, CallOK
    <2>2. /\ d \in CallRows /\ d.page = NoPage /\ d.status = c.status /\ d.op = c.op
          /\ d.preview = c.preview /\ d.version = c.version /\ d.node = c.node /\ d.step = c.step
      BY <1>4, <2>1 DEF CallRows
    <2> QED
      BY <1>4, <2>1, <2>2 DEF CallOK
  <1>5. \A d \in calls' : CallOK(d)'
    BY <1>1, <1>3, <1>4 DEF PreviewInv, CallsInv
  <1>6. \A d \in calls' : d.page # p /\ (d \in calls \/ d.page \notin Pages)
    BY <1>2, <1>3, <1>4
  <1>7. ASSUME NEW d \in calls', NEW e \in calls', d # e
        PROVE  Apart(d, e)
    <2>1. PICK c \in calls :
            \/ c = d /\ c.page # p
            \/ c.page = p /\ c.status # "answered" /\ d = [c EXCEPT !.page = NoPage]
      BY <1>3
    <2>2. PICK b \in calls :
            \/ b = e /\ b.page # p
            \/ b.page = p /\ b.status # "answered" /\ e = [b EXCEPT !.page = NoPage]
      BY <1>3
    <2>3. d.status = c.status /\ (c = d \/ d.page = NoPage)
      BY <1>4, <2>1
    <2>4. e.status = b.status /\ (b = e \/ e.page = NoPage)
      BY <1>4, <2>2
    <2>5. c # b
      BY <1>7, <2>1, <2>2
    <2>6. Apart(c, b)
      BY <2>5 DEF PreviewInv, CallsInv
    <2> QED
      BY <1>2, <2>3, <2>4, <2>6 DEF Apart
  <1>8. page' = [page EXCEPT ![p] = Away]
    BY DEF handleReturnToEditor
  <1> QED
    BY <1>1, <1>5, <1>6, <1>7, <1>8, ShowsNothing, PageChanges

(* A preview starts: the memory makes room, and what there is stays.       *)
LEMMA Starting ==
  ASSUME PreviewInv, NEW s \in Previews, NEW owner \in Authors,
         startPreviewFromDraft(s, owner), UNCHANGED draft
  PROVE  /\ Later /\ ServerInv' /\ Used(s)'
         /\ \A t \in Previews : Used(t) => preview'[t] = preview[t]
  <1>1. PICK row : row = [owner |-> owner, graph |-> draft, at |-> draft.start, version |-> 1,
                          history |-> <<draft.start>>]
    OBVIOUS
  <1>2. draft \in Drafts /\ draft.start \in Nodes
    BY DraftAssumption DEF PreviewInv, ServerInv
  <1>3. 1 \in 1..MaxVersion
    BY PageAssumption
  <1>4. row \in PreviewRows /\ row # NoPreview
    BY <1>1, <1>2, <1>3, RowFields DEF PreviewRows
  <1>5. IsWalk(row)
    <2>1. row.history = <<draft.start>> /\ row.graph = draft /\ row.at = draft.start
      BY <1>1
    <2> QED
      BY <2>1 DEF IsWalk
  <1>6. /\ preview' = [preview EXCEPT ![s] = row] /\ preview[s] = NoPreview
        /\ preview \in [Previews -> PreviewRows \cup {NoPreview}]
    BY <1>1 DEF startPreviewFromDraft, PreviewInv, ServerInv
  <1>7. /\ preview' \in [Previews -> PreviewRows \cup {NoPreview}] /\ preview'[s] = row
        /\ \A t \in Previews \ {s} : preview'[t] = preview[t]
    BY <1>4, <1>6
  <1>8. Later /\ Used(s)' /\ \A t \in Previews : Used(t) => preview'[t] = preview[t]
    BY <1>4, <1>6, <1>7 DEF Later, Used
  <1>9. \A t \in Previews : preview'[t] # NoPreview => IsWalk(preview'[t])
    BY <1>5, <1>7 DEF PreviewInv, ServerInv
  <1>10. MemoryOK'
    <2>1. PICK S : S = {t \in Previews : Used(t)'}
      OBVIOUS
    <2>2. recent \in Seq(S) /\ Len(recent) <= PreviewMax /\ s \in S
      BY <1>6, <1>8, <2>1, MemoryLasts DEF PreviewInv, ServerInv, MemoryOK
    <2>3. PICK kept : kept = evictPreviews(recent)
      OBVIOUS
    <2>4. kept \in Seq(S) /\ Len(kept) < PreviewMax
      <3>1. Len(recent) \in Nat /\ PreviewMax \in Nat /\ PreviewMax > 0
        BY <2>2, PageAssumption, LenProperties
      <3>2. CASE Len(recent) < PreviewMax
        BY <2>2, <2>3, <3>2 DEF evictPreviews
      <3>3. CASE ~(Len(recent) < PreviewMax)
        <4>1. recent # <<>> /\ kept = Tail(recent)
          BY <2>3, <3>1, <3>3 DEF evictPreviews
        <4>2. kept \in Seq(S) /\ Len(kept) = Len(recent) - 1
          BY <2>2, <4>1, HeadTailProperties
        <4> QED
          BY <2>2, <3>1, <4>2
      <3> QED
        BY <3>2, <3>3
    <2>5. recent' = Append(kept, s)
      BY <2>3 DEF startPreviewFromDraft
    <2>6. recent' \in Seq(S) /\ Len(recent') <= PreviewMax
      BY <2>2, <2>4, <2>5, Remembered
    <2> QED
      BY <2>1, <2>6 DEF MemoryOK
  <1> QED
    BY <1>7, <1>8, <1>9, <1>10 DEF PreviewInv, ServerInv

LEMMA MountingKeeps ==
  ASSUME PreviewInv, Later, ServerInv', NEW p \in Pages, NEW s \in Previews, Used(s)',
         \A t \in Previews : Used(t) => preview'[t] = preview[t],
         page[p].preview = NoPreview, Mounted(p, s)
  PROVE  PreviewInv'
  <1>0. /\ preview \in [Previews -> PreviewRows \cup {NoPreview}]
        /\ preview' \in [Previews -> PreviewRows \cup {NoPreview}]
    BY DEF PreviewInv, ServerInv
  <1>1. PICK npg : npg = [Away EXCEPT !.preview = s]
    OBVIOUS
  <1>2. /\ npg \in PageRows /\ npg.preview = s /\ npg.step = NoStep /\ npg.result = NoStep
    BY <1>1 DEF Away, PageRows
  <1>3. PageOK(npg)'
    BY <1>2 DEF PageOK
  <1>4. preview'[s].graph.start \in Nodes
    BY <1>0, RowFields, DraftAssumption DEF Used
  <1>5. PICK new : new = [page |-> p, by |-> Author[p], op |-> "get", preview |-> s, version |-> 0,
                          node |-> preview'[s].graph.start, option |-> NoOption,
                          status |-> "sent", step |-> NoStep]
    OBVIOUS
  <1>6. calls' = calls \cup {new} /\ page' = [page EXCEPT ![p] = npg]
    BY <1>1, <1>5 DEF Mounted
  <1>7. /\ new.page = p /\ new.op = "get" /\ new.preview = s /\ new.status = "sent"
        /\ new.step = NoStep
    BY <1>5
  <1>8. new \in CallRows
    BY <1>4, <1>5, PageAssumption DEF CallRows, Ops
  <1>9. CallOK(new)' /\ CallOf(new, npg)
    BY <1>2, <1>7, <1>8 DEF CallOK, CallOf
  <1>10. \A d \in calls : CallOK(d)'
    <2>1. \A d \in calls : CallOK(d) /\ Used(d.preview) /\ d.preview \in Previews
      BY DEF PreviewInv, CallsInv, CallOK, Used
    <2> QED
      BY <1>0, <2>1, CallsLast
  <1>11. \A d \in calls : d.page # p
    <2>1. ASSUME NEW d \in calls, d.page = p
          PROVE  FALSE
      <3>1. CallOf(d, page[p]) /\ d.preview \in Previews
        BY <2>1, PageFields DEF PreviewInv, CallsInv, CallOK, Used
      <3> QED
        BY <3>1, AbsenceAssumption DEF CallOf
    <2> QED
      BY <2>1
  <1>12. \A d \in calls : Apart(new, d) /\ Apart(d, new)
    BY <1>7, <1>11 DEF Apart
  <1>13. \A d \in calls' : CallOK(d)'
    BY <1>6, <1>9, <1>10
  <1>14. \A d \in calls' : d.page = p => CallOf(d, npg)
    BY <1>6, <1>9, <1>11
  <1>15. \A d \in calls' : d.page # p => d \in calls
    BY <1>6, <1>7
  <1>16. \A d, e \in calls' : d # e => Apart(d, e)
    BY <1>6, <1>12 DEF PreviewInv, CallsInv
  <1> QED
    BY <1>2, <1>3, <1>6, <1>13, <1>14, <1>15, <1>16, PageChanges

(* An answer arrives: whatever else its page still waits for was asked     *)
(* from an earlier step.                                                   *)
LEMMA ArrivingKeeps ==
  ASSUME PreviewInv, NEW c \in calls, Arrives(c)
  PROVE  PreviewInv'
  <1>1. /\ UNCHANGED <<draft, preview, recent>> /\ calls' = calls \ {c} /\ c.status = "answered"
    BY DEF Arrives
  <1>2. /\ Later /\ ServerInv' /\ \A d : CallOK(d) => CallOK(d)'
        /\ \A pg : PageOK(pg) => PageOK(pg)'
    BY <1>1, Resting
  <1>3. PICK p \in Pages : p = c.page
    BY <1>1 DEF PreviewInv, CallsInv, CallOK
  <1>4. PICK pg \in PageRows : pg = page[p]
    BY PageFields
  <1>5. PICK step : step = c.step
    OBVIOUS
  <1>6. /\ CallOK(c) /\ CallOf(c, pg) /\ PageOK(pg) /\ IsStep(preview[c.preview], step)
        /\ Used(c.preview) /\ step \in Steps /\ step # NoStep /\ pg.preview = c.preview
    BY <1>1, <1>3, <1>4, <1>5, PageFields, AbsenceAssumption
    DEF PreviewInv, CallsInv, CallOK, CallOf, IsStep
  <1>7. ASSUME NEW d \in calls', d.page = p
        PROVE  /\ d \in calls /\ d # c /\ d.status # "answered" /\ CallOf(d, pg) /\ CallOK(d)
               /\ Apart(c, d) /\ d.op \in Ops /\ d.version \in Nat
    <2>1. d \in calls /\ d # c
      BY <1>1
    <2>2. CallOK(d) /\ Apart(c, d) /\ CallOf(d, pg)
      BY <1>4, <1>7, <2>1, PageFields DEF PreviewInv, CallsInv
    <2>3. d.status # "answered"
      BY <1>1, <1>3, <1>7, <2>2 DEF Apart
    <2>4. d.op \in Ops /\ d.version \in Nat
      BY <2>2 DEF CallOK, CallRows
    <2> QED
      BY <2>1, <2>2, <2>3, <2>4
  <1>8. /\ \A d \in calls' : CallOK(d)' /\ (d.page # p => d \in calls)
        /\ \A d, e \in calls' : d # e => Apart(d, e)
    BY <1>1, <1>2 DEF PreviewInv, CallsInv
  <1>9. ASSUME NEW npg \in PageRows, page' = [page EXCEPT ![p] = npg], PageOK(npg),
               \A d \in calls' : d.page = p => CallOf(d, npg)
        PROVE  PreviewInv'
    BY <1>2, <1>8, <1>9, PageChanges
  <1>10. c.op # "get" =>
           /\ pg.step # NoStep /\ c.version = pg.step.version /\ c.node = pg.step.node
           /\ step.version = c.version + 1
           /\ c.op = "answer" => Leads(preview[c.preview], c.node, step.node)
    BY <1>1, <1>5, <1>6 DEF CallOf, CallOK
  <1>11. CASE c.op = "answer"
    <2>1. PICK npg : npg = [pg EXCEPT !.result = step]
      OBVIOUS
    <2>2. /\ npg \in PageRows /\ npg.preview = pg.preview /\ npg.step = pg.step
          /\ npg.result = step /\ npg.selected = pg.selected
      BY <1>6, <2>1 DEF PageRows
    <2>3. page' = [page EXCEPT ![p] = npg]
      BY <1>3, <1>4, <1>5, <1>11, <2>1 DEF Arrives
    <2>4. pg.step.kind \in Questions
      <3>1. IsStep(preview[c.preview], pg.step)
        BY <1>6, <1>10, <1>11 DEF PageOK
      <3> QED
        BY <1>6, <1>10, <1>11, <3>1 DEF CallOK, IsStep, Kind
    <2>5. PageOK(npg)
      BY <1>6, <1>10, <1>11, <2>2, <2>4 DEF PageOK
    <2>6. \A d \in calls' : d.page = p => CallOf(d, npg)
      BY <1>7, <2>2 DEF CallOf
    <2> QED
      BY <1>9, <2>2, <2>3, <2>5, <2>6
  <1>12. CASE c.op # "answer"
    <2>1. PICK npg : npg = StepShown(pg, step)
      OBVIOUS
    <2>2. /\ npg \in PageRows /\ npg.preview = pg.preview /\ npg.step = step
          /\ npg.result = NoStep /\ npg.selected = NoOption
      BY <1>6, <2>1, ShownAnew
    <2>3. page' = [page EXCEPT ![p] = npg]
      BY <1>3, <1>4, <1>5, <1>12, <2>1 DEF Arrives
    <2>4. PageOK(npg)
      BY <1>6, <2>2 DEF PageOK
    <2>5. ASSUME NEW d \in calls', d.page = p
          PROVE  CallOf(d, npg)
      <3>0. /\ d \in calls /\ d # c /\ d.status # "answered" /\ CallOf(d, pg) /\ CallOK(d)
            /\ Apart(c, d) /\ d.op \in Ops /\ d.version \in Nat
        BY <1>7, <2>5
      <3>1. c.op # "get" /\ d.op # "get"
        BY <1>3, <1>6, <2>5, <3>0 DEF CallOf, Apart
      <3>2. /\ d.version <= pg.step.version /\ d.preview = pg.preview
            /\ d.version = pg.step.version => d.node = pg.step.node
            /\ d.op = "next" => d.version = pg.step.version
        BY <3>0, <3>1 DEF CallOf
      <3>3. c.op \in {"next", "back", "decision"}
        BY <1>6, <1>12, <3>1 DEF CallOK, CallRows, Ops
      <3>4. d.op # "next"
        <4>1. CASE c.op \in {"next", "back"}
          BY <1>3, <2>5, <3>0, <4>1 DEF Apart
        <4>2. CASE c.op = "decision"
          BY <1>6, <1>10, <3>0, <3>2, <4>2 DEF CallOK
        <4> QED
          BY <3>3, <4>1, <4>2
      <3>5. pg.step.version \in Nat
        BY <1>6, <1>10, <3>1 DEF PageOK, IsStep, Steps
      <3>6. d.version <= step.version /\ d.version # step.version
        BY <1>10, <3>0, <3>1, <3>2, <3>5
      <3> QED
        BY <1>6, <2>2, <3>0, <3>1, <3>2, <3>4, <3>6 DEF CallOf
    <2> QED
      BY <1>9, <2>2, <2>3, <2>4, <2>5
  <1> QED
    BY <1>11, <1>12

(* No call is new, and the pages do not change.                            *)
LEMMA OnServerKeeps ==
  ASSUME PreviewInv, Later, ServerInv', UNCHANGED page, calls' \subseteq calls,
         \A d \in calls' : d.status = "evaluating" => preview'[d.preview] = preview[d.preview]
  PROVE  PreviewInv'
  <1>0. /\ preview \in [Previews -> PreviewRows \cup {NoPreview}]
        /\ preview' \in [Previews -> PreviewRows \cup {NoPreview}]
    BY DEF PreviewInv, ServerInv
  <1>1. PagesInv'
    BY <1>0, PagesKeep
  <1>2. \A d \in calls' : CallOK(d)'
    BY <1>0, CallsLast DEF PreviewInv, CallsInv
  <1>3. CallsInv'
    BY <1>2 DEF PreviewInv, CallsInv
  <1> QED
    BY <1>1, <1>3 DEF PreviewInv

LEMMA StartingKeeps ==
  ASSUME PreviewInv, NEW p \in Pages, NEW s \in Previews, handlePreview(p, s) \/ OpenAddress(p, s)
  PROVE  PreviewInv'
  <1>1. CASE handlePreview(p, s)
    <2>1. Author[p] \in Authors /\ startPreviewFromDraft(s, Author[p]) /\ UNCHANGED draft
      BY <1>1, PageAssumption DEF handlePreview
    <2>2. /\ Later /\ ServerInv' /\ Used(s)'
          /\ \A t \in Previews : Used(t) => preview'[t] = preview[t]
      BY <2>1, Starting
    <2>3. CASE Mounted(p, s)
      BY <1>1, <2>2, <2>3, MountingKeeps DEF handlePreview
    <2>4. CASE UNCHANGED <<page, calls>>
      <3>1. \A d \in calls : d.preview \in Previews /\ Used(d.preview)
        BY DEF PreviewInv, CallsInv, CallOK, Used
      <3> QED
        BY <2>2, <2>4, <3>1, OnServerKeeps
    <2> QED
      BY <1>1, <2>3, <2>4 DEF handlePreview
  <1>2. CASE OpenAddress(p, s)
    <2>1. UNCHANGED <<draft, preview, recent>> /\ Mounted(p, s) /\ page[p].preview = NoPreview
      BY <1>2 DEF OpenAddress
    <2>2. Later /\ ServerInv'
      BY <2>1, Resting
    <2>3. Used(s)' /\ \A t \in Previews : Used(t) => preview'[t] = preview[t]
      BY <1>2 DEF OpenAddress, Used
    <2> QED
      BY <2>1, <2>2, <2>3, MountingKeeps
  <1> QED
    BY <1>1, <1>2

(* What loses a call or a preview, and a draft that is saved.              *)
LEMMA LosingKeeps ==
  ASSUME PreviewInv,
         \/ \E c \in calls : CallFails(c)
         \/ \E i \in DOMAIN recent : Expires(i)
         \/ \E g \in Drafts : Saves(g)
         \/ Restarts
  PROVE  PreviewInv'
  <1>1. ASSUME UNCHANGED <<preview, page>>, draft' \in Drafts, calls' \subseteq calls,
               recent' \in Seq({s \in Previews : Used(s)}), Len(recent') <= PreviewMax
        PROVE  PreviewInv'
    <2>1. Later /\ ServerInv'
      BY <1>1 DEF PreviewInv, ServerInv, MemoryOK, Used, Later
    <2> QED
      BY <1>1, <2>1, OnServerKeeps
  <1>2. /\ draft \in Drafts /\ recent \in Seq({s \in Previews : Used(s)})
        /\ Len(recent) <= PreviewMax
    BY DEF PreviewInv, ServerInv, MemoryOK
  <1>3. CASE \E c \in calls : CallFails(c)
    BY <1>1, <1>2, <1>3 DEF CallFails
  <1>4. CASE \E g \in Drafts : Saves(g)
    BY <1>1, <1>2, <1>4 DEF Saves
  <1>5. CASE Restarts
    <2>1. <<>> \in Seq({s \in Previews : Used(s)}) /\ Len(<<>>) <= PreviewMax
      BY PageAssumption
    <2> QED
      BY <1>1, <1>2, <1>5, <2>1 DEF Restarts
  <1>6. CASE \E i \in DOMAIN recent : Expires(i)
    <2>1. PICK i \in DOMAIN recent : Expires(i)
      BY <1>6
    <2>2. PICK less : less = RemoveAt(recent, i)
      OBVIOUS
    <2>3. less \in Seq({s \in Previews : Used(s)}) /\ Len(less) = Len(recent) - 1
      BY <1>2, <2>2, RemovedAt
    <2>4. Len(less) <= PreviewMax
      BY <1>2, <2>3, PageAssumption, LenProperties
    <2>5. recent' = less /\ UNCHANGED <<draft, preview, page, calls>>
      BY <2>1, <2>2 DEF Expires
    <2> QED
      BY <1>1, <1>2, <2>3, <2>4, <2>5
  <1> QED
    BY <1>3, <1>4, <1>5, <1>6

-----------------------------------------------------------------------------
(* The invariant.                                                          *)

LEMMA PreviewInvInit == PreviewInit => PreviewInv
  <1> SUFFICES ASSUME PreviewInit PROVE PreviewInv
    OBVIOUS
  <1>1. ServerInv
    <2>1. <<>> \in Seq({s \in Previews : Used(s)}) /\ Len(<<>>) <= PreviewMax
      BY PageAssumption
    <2> QED
      BY <2>1 DEF PreviewInit, ServerInv, MemoryOK
  <1>2. PagesInv
    BY ShowsNothing DEF PreviewInit, PagesInv
  <1>3. CallsInv
    BY DEF PreviewInit, CallsInv
  <1> QED
    BY <1>1, <1>2, <1>3 DEF PreviewInv

LEMMA PreviewInvStep == PreviewInv /\ [PreviewStep]_previewVars => PreviewInv'
  <1> SUFFICES ASSUME PreviewInv, [PreviewStep]_previewVars PROVE PreviewInv'
    OBVIOUS
  <1>1. ASSUME NEW p \in Pages, PreviewPlayer(p)
        PROVE  PreviewInv'
    <2>1. CASE handleNext(p)
      BY <2>1, AskingKeeps, EndKeeps
    <2>2. CASE handleAnswer(p) \/ handleDecision(p) \/ handleBack(p)
      BY <2>2, AskingKeeps
    <2>3. CASE handleContinueAfterFeedback(p)
      BY <2>3, ContinuingKeeps
    <2>4. CASE handleReturnToEditor(p)
      BY <2>4, LeavingKeeps
    <2>5. CASE \E o \in Options : setSelectedOption(p, o)
      BY <2>5, SelectingKeeps
    <2> QED
      BY <1>1, <2>1, <2>2, <2>3, <2>4, <2>5 DEF PreviewPlayer
  <1>2. ASSUME NEW p \in Pages, NEW s \in Previews, handlePreview(p, s) \/ OpenAddress(p, s)
        PROVE  PreviewInv'
    BY <1>2, StartingKeeps
  <1>3. ASSUME NEW c \in calls, Server(c), UNCHANGED <<draft, page>>
        PROVE  PreviewInv'
    BY <1>3, ServerKeeps
  <1>4. ASSUME NEW c \in calls, Arrives(c)
        PROVE  PreviewInv'
    BY <1>4, ArrivingKeeps
  <1>5. ASSUME UNCHANGED previewVars
        PROVE  PreviewInv'
    <2>1. UNCHANGED <<draft, preview, recent, page, calls>>
      BY <1>5 DEF previewVars
    <2>2. Later /\ ServerInv'
      BY <2>1, Resting
    <2> QED
      BY <2>1, <2>2, OnServerKeeps
  <1> QED
    BY <1>1, <1>2, <1>3, <1>4, <1>5, LosingKeeps DEF PreviewStep

(* The inductive invariant.  The server's part: a remembered preview was   *)
(* started, and each has come to where it is by a walk.  The pages' part:  *)
(* what a page shows is, or was, a step of its preview.  The calls' part:  *)
(* a call asks from a step its page showed, and at most one call of a page *)
(* is answered, from the step that is still on show.                       *)
THEOREM PreviewInvariant == PreviewSpec => []PreviewInv
  <1>1. PreviewInit => PreviewInv
    BY PreviewInvInit
  <1>2. PreviewInv /\ [PreviewStep]_previewVars => PreviewInv'
    BY PreviewInvStep
  <1> QED
    BY <1>1, <1>2, PTL DEF PreviewSpec

(* Every value has its type, and the memory never holds more previews than *)
(* evictPreviews leaves room for.                                          *)
THEOREM PreviewTypes == PreviewSpec => []PreviewTypeOK
  <1>1. PreviewInv => PreviewTypeOK
    <2> SUFFICES ASSUME PreviewInv PROVE PreviewTypeOK
      OBVIOUS
    <2>1. draft \in Drafts /\ preview \in [Previews -> PreviewRows \cup {NoPreview}]
      BY DEF PreviewInv, ServerInv
    <2>2. ToSet(recent) \subseteq {s \in Previews : preview[s] # NoPreview} /\ Len(recent) <= PreviewMax
      <3>1. \A i \in 1..Len(recent) : recent[i] \in {s \in Previews : Used(s)}
        BY ElementOfSeq DEF PreviewInv, ServerInv, MemoryOK
      <3>2. DOMAIN recent = 1..Len(recent) /\ Len(recent) <= PreviewMax
        BY LenProperties DEF PreviewInv, ServerInv, MemoryOK
      <3> QED
        BY <3>1, <3>2 DEF ToSet, Used
    <2>3. page \in [Pages -> [preview : Previews \cup {NoPreview}, step : Steps \cup {NoStep},
                              selected : Options \cup {NoOption},
                              result : Steps \cup {NoStep}, completed : BOOLEAN]]
      BY DEF PreviewInv, PagesInv, PageRows
    <2>4. \A c \in calls : c.step \in Steps => c.status = "answered"
      BY AbsenceAssumption DEF PreviewInv, CallsInv, CallOK
    <2> QED
      BY <2>1, <2>2, <2>3, <2>4 DEF PreviewTypeOK
  <1> QED
    BY <1>1, PreviewInvariant, PTL

(* The history Back reads is a walk through the graph of the preview, from *)
(* its start to where it is.                                               *)
THEOREM HistoriesAreWalks == PreviewSpec => []HistoryIsWalk
  <1>1. PreviewInv => HistoryIsWalk
    BY DEF PreviewInv, ServerInv, IsWalk, HistoryIsWalk, Exits
  <1> QED
    BY <1>1, PreviewInvariant, PTL

(* A tab shows a step its preview is, or was, at, and what follows an      *)
(* answer leaves the question on show by one of its exits.                 *)
THEOREM PreviewPagesTrail == PreviewSpec => []PageTrailsPreview
  <1>1. PreviewInv => PageTrailsPreview
    <2> SUFFICES ASSUME PreviewInv, NEW p \in Pages, page[p].step # NoStep
                 PROVE  LET row == preview[page[p].preview]
                            Trails(step) == /\ step.version <= row.version
                                            /\ step.version = row.version =>
                                                 step.node = row.at /\ step.back = previewNavigation(row)
                        IN /\ Trails(page[p].step)
                           /\ page[p].result # NoStep =>
                                /\ Trails(page[p].result)
                                /\ page[p].result.version = page[p].step.version + 1
                                /\ \E e \in Exits(page[p].preview, page[p].step.node) :
                                     e.to = page[p].result.node
                           /\ page[p].selected # NoOption =>
                                \E e \in Exits(page[p].preview, page[p].step.node) :
                                  e.option = page[p].selected
      BY DEF PageTrailsPreview
    <2>1. PageOK(page[p])
      BY PageFields
    <2> QED
      BY <2>1 DEF PageOK, IsStep, Leads, Exits
  <1> QED
    BY <1>1, PreviewInvariant, PTL

-----------------------------------------------------------------------------
(* What a press leads to.                                                  *)

Pressed(p) ==
  LET old == page[p].step
      new == page'[p].step IN
  /\ new.version = old.version + 1
  /\ \/ new.kind = "decision"
     \/ \E e \in Exits(page[p].preview, old.node) : e.to = new.node

LEMMA StepFollows ==
  ASSUME PreviewInv, NEW p \in Pages, PreviewStep,
         page[p].step # NoStep, page'[p].step # NoStep, page'[p].step # page[p].step
  PROVE  Pressed(p)
  <1>0. page \in [Pages -> PageRows]
    BY DEF PreviewInv, PagesInv
  <1>1. PICK pg \in PageRows : pg = page[p]
    BY PageFields
  <1>2. PageOK(pg) /\ \A c \in calls : c.page = p => CallOf(c, pg)
    BY <1>1, PageFields
  <1>3. ASSUME NEW q \in Pages, PreviewPlayer(q)
        PROVE  Pressed(p)
    <2>1. CASE \/ handleAnswer(q) \/ handleDecision(q) \/ handleBack(q)
      BY <2>1 DEF handleAnswer, handleDecision, handleBack
    <2>2. CASE handleNext(q)
      <3>1. CASE page' = [page EXCEPT ![q].completed = TRUE]
        BY <1>0, <3>1 DEF PageRows
      <3>2. CASE page' = [page EXCEPT ![q] = StepShown(@, @.step)]
        <4>1. page'[p] = page[p] \/ page'[p] = StepShown(pg, pg.step)
          BY <1>0, <1>1, <3>2
        <4>2. PICK npg : npg = StepShown(pg, pg.step)
          OBVIOUS
        <4>3. pg.step \in Steps \cup {NoStep}
          BY DEF PageRows
        <4>4. npg.step = pg.step
          BY <4>2, <4>3, ShownAnew
        <4> QED
          BY <1>1, <4>1, <4>2, <4>4
      <3> QED
        BY <2>2, <3>1, <3>2 DEF handleNext
    <2>3. CASE handleContinueAfterFeedback(q)
      <3>1. q = p
        BY <1>0, <2>3 DEF handleContinueAfterFeedback
      <3>2. PICK npg : npg = StepShown(pg, pg.result)
        OBVIOUS
      <3>3. pg.result \in Steps \cup {NoStep} /\ pg.result # NoStep
        BY <1>1, <2>3, <3>1 DEF PageRows, handleContinueAfterFeedback
      <3>4. npg.step = pg.result
        BY <3>2, <3>3, ShownAnew
      <3>5. page'[p] = npg
        BY <1>0, <1>1, <2>3, <3>1, <3>2 DEF handleContinueAfterFeedback
      <3>6. /\ pg.result.version = pg.step.version + 1
            /\ Leads(preview[pg.preview], pg.step.node, pg.result.node)
        BY <1>2, <3>3 DEF PageOK
      <3> QED
        BY <1>1, <3>4, <3>5, <3>6 DEF Pressed, Leads, Exits
    <2>4. CASE handleReturnToEditor(q)
      <3>1. page'[p] = page[p] \/ page'[p] = Away
        BY <1>0, <2>4 DEF handleReturnToEditor
      <3> QED
        BY <3>1 DEF Away
    <2>5. CASE \E o \in Options : setSelectedOption(q, o)
      <3>1. PICK o \in Options : page' = [page EXCEPT ![q].selected = o]
        BY <2>5 DEF setSelectedOption
      <3> QED
        BY <1>0, <3>1 DEF PageRows
    <2> QED
      BY <1>3, <2>1, <2>2, <2>3, <2>4, <2>5 DEF PreviewPlayer
  <1>4. ASSUME NEW q \in Pages, NEW s \in Previews, handlePreview(q, s) \/ OpenAddress(q, s)
        PROVE  Pressed(p)
    <2>1. page' = page \/ page' = [page EXCEPT ![q] = [Away EXCEPT !.preview = s]]
      BY <1>4 DEF handlePreview, OpenAddress, Mounted
    <2>2. page'[p] = page[p] \/ page'[p].step = NoStep
      BY <1>0, <2>1 DEF Away
    <2> QED
      BY <2>2
  <1>5. ASSUME NEW c \in calls, Arrives(c)
        PROVE  Pressed(p)
    <2>1. PICK step : step = c.step
      OBVIOUS
    <2>2. /\ CallOK(c) /\ c.status = "answered" /\ step \in Steps
      BY <1>5, <2>1 DEF Arrives, PreviewInv, CallsInv, CallOK, IsStep
    <2>3. c.page = p
      BY <1>0, <1>5 DEF Arrives
    <2>4. CASE c.op = "answer"
      <3>1. page'[p] = [pg EXCEPT !.result = step]
        BY <1>0, <1>1, <1>5, <2>1, <2>3, <2>4 DEF Arrives
      <3> QED
        BY <1>1, <3>1 DEF PageRows
    <2>5. CASE c.op # "answer"
      <3>1. PICK npg : npg = StepShown(pg, step)
        OBVIOUS
      <3>2. npg.step = step
        BY <2>2, <3>1, ShownAnew
      <3>3. page'[p] = npg
        BY <1>0, <1>1, <1>5, <2>1, <2>3, <2>5, <3>1 DEF Arrives
      <3>4. /\ c.version = pg.step.version /\ c.node = pg.step.node /\ c.preview = pg.preview
            /\ c.op # "get"
        BY <1>1, <1>2, <2>2, <2>3 DEF CallOf
      <3>5. /\ step.version = c.version + 1
            /\ step.kind = "decision" \/ Leads(preview[c.preview], c.node, step.node)
        BY <2>1, <2>2, <3>4 DEF CallOK
      <3> QED
        BY <1>1, <3>2, <3>3, <3>4, <3>5 DEF Pressed, Leads, Exits
    <2> QED
      BY <2>4, <2>5
  <1>6. CASE page' = page
    BY <1>6
  <1>7. \/ \E q \in Pages : PreviewPlayer(q)
        \/ \E q \in Pages, s \in Previews : handlePreview(q, s) \/ OpenAddress(q, s)
        \/ \E c \in calls : Arrives(c)
        \/ page' = page
    BY DEF PreviewStep, CallFails, Expires, Saves, Restarts
  <1> QED
    BY <1>3, <1>4, <1>5, <1>6, <1>7

(* Whatever other tabs do and however often a call is repeated, a page     *)
(* goes one step further, or back to a decision, and no step is passed by. *)
THEOREM PressesLeadOneStep == PreviewSpec => OneStepPerPress
  <1> DEFINE Kept ==
        \A p \in Pages :
          LET old == page[p].step
              new == page'[p].step IN
          /\ old # NoStep /\ new # NoStep /\ new # old /\ page[p].preview = page'[p].preview
          => /\ new.version = old.version + 1
             /\ \/ new.kind = "decision"
                \/ \E e \in Exits(page[p].preview, old.node) : e.to = new.node
  <1>1. PreviewInv /\ [PreviewStep]_previewVars => [Kept]_previewVars
    BY StepFollows DEF Pressed
  <1> HIDE DEF Kept
  <1>2. [][Kept]_previewVars <=> OneStepPerPress
    BY PTL DEF OneStepPerPress, Kept
  <1> QED
    BY <1>1, <1>2, PreviewInvariant, PTL DEF PreviewSpec
=============================================================================

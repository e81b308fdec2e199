----------------------------- MODULE MCPreview -----------------------------
(* A lesson with every kind of block, and the same lesson edited: a loop   *)
(* back to its first decision, a lesson with no way on from its story and  *)
(* its free text, and a draft that is not valid.                           *)
EXTENDS Preview, TLC

CONSTANTS fork, ask, explain, tell, end, a, b, v1, v2, v3, t1, t2, t3, alice, bob

Ways(to1, to2) == {[option |-> a, to |-> to1], [option |-> b, to |-> to2]}
Way(to) == {[option |-> a, to |-> to]}

MCKinds == (fork :> "decision") @@ (ask :> "single_choice") @@ (explain :> "free_text")
             @@ (tell :> "story") @@ (end :> "end")
First == [start |-> tell, kind |-> MCKinds,
          exits |-> (tell :> Way(fork)) @@ (fork :> Ways(ask, end))
                      @@ (ask :> Ways(explain, end)) @@ (explain :> Way(end)) @@ (end :> {})]
Again == [First EXCEPT !.start = fork,
          !.exits = (tell :> Way(fork)) @@ (fork :> Ways(tell, explain))
                      @@ (ask :> Ways(end, end)) @@ (explain :> Ways(tell, end)) @@ (end :> {})]
Final == [Again EXCEPT !.exits[tell] = {}, !.exits[explain] = {}]
Cut == [First EXCEPT !.exits[ask] = {}]
MCDrafts == {First, Again, Final, Cut}

(* One preview in two tabs of its author, or several that are hardly       *)
(* walked, of two authors, and more of them than fit.                      *)
Used == {s \in Previews : preview[s] # NoPreview}
Shows(p) == page[p].preview # NoPreview
Walking ==
  /\ Cardinality(Used) <= 1 /\ ~Shows(t3)
  /\ \A s \in Used : preview[s].owner = alice /\ draft = preview[s].graph
Crowding ==
  /\ draft \in {First, Cut} /\ \A s \in Used : preview[s].graph = First /\ preview[s].version <= 2
  /\ \A r, s \in Used : r # s => preview[r].version = 1 \/ preview[s].version = 1
  /\ Cardinality(calls) <= 1
  /\ \A p \in Pages : page[p].result = NoStep /\ ~page[p].completed
  /\ Shows(t1) => ~Shows(t2)
Worlds == Walking \/ Crowding
MCAuthor == (t1 :> alice) @@ (t2 :> alice) @@ (t3 :> bob)
Symmetry == Permutations({t1, t2}) \cup Permutations(Previews)
=============================================================================

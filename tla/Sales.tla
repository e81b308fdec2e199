-------------------------------- MODULE Sales -------------------------------
(***************************************************************************)
(* What the commerce backend promises about a sale, whoever takes the      *)
(* payment: an order is placed, and then either closed for good or settled *)
(* once; money and access belong to a sale from the very step that settles *)
(* it, and no other step creates either of them.                           *)
(***************************************************************************)
CONSTANT Orders

VARIABLES
  stage,    \* "none", "open", "settled" or "closed", for each order
  funded,   \* orders with a recorded payment
  granted   \* orders that gave the student access

sales == <<stage, funded, granted>>

At(st) == {o \in Orders : stage[o] = st}

Init ==
  /\ stage = [o \in Orders |-> "none"]
  /\ funded = {}
  /\ granted = {}

(* One transaction may close several open orders and place others.         *)
Turnover ==
  \E placed \in SUBSET At("none"), closed \in SUBSET At("open") :
    /\ stage' = [o \in Orders |-> IF o \in placed THEN "open"
                                  ELSE IF o \in closed THEN "closed" ELSE stage[o]]
    /\ UNCHANGED <<funded, granted>>

Settle(o) ==
  /\ o \in At("open")
  /\ o \notin funded \cup granted
  /\ stage' = [stage EXCEPT ![o] = "settled"]
  /\ funded' = funded \cup {o}
  /\ granted' = granted \cup {o}

Next == Turnover \/ \E o \in Orders : Settle(o)

Spec == Init /\ [][Next]_sales
=============================================================================

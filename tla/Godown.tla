------------------------------- MODULE Godown -------------------------------
(***************************************************************************)
(* What the stock ledger promises the rest of the program                  *)
(* (docs/contracts/inventory.v1.md): each godown holds a number of goods   *)
(* that never goes below nothing, and an unfinished document is promised   *)
(* goods only while they are on hand and promised to nobody else.          *)
(***************************************************************************)
EXTENDS Naturals, FiniteSetsExt

CONSTANTS Godowns, Documents

VARIABLES onHand, promised

vars == <<onHand, promised>>

Nothing == [g \in Godowns |-> 0]
Total(f) == MapThenSumSet(LAMBDA x : f[x], DOMAIN f)
Promised(g) == Total([d \in Documents |-> promised[d][g]])

Init == onHand = Nothing /\ promised = [d \in Documents |-> Nothing]

Put(g, n) ==
  /\ UNCHANGED promised
  /\ onHand' = [onHand EXCEPT ![g] = @ + n]

Take(g, n) ==
  /\ UNCHANGED promised
  /\ n <= onHand[g]
  /\ onHand' = [onHand EXCEPT ![g] = @ - n]

Promise(d, need) ==
  /\ UNCHANGED onHand
  /\ promised' = [promised EXCEPT ![d] = need]
  /\ \A g \in Godowns : need[g] # 0 => need[g] + Promised(g) <= onHand[g] + promised[d][g]

Drop(d) ==
  /\ UNCHANGED onHand
  /\ promised' = [promised EXCEPT ![d] = Nothing]

\* Everything promised to a document leaves at once.
Ship(d) ==
  /\ promised' = [promised EXCEPT ![d] = Nothing]
  /\ \A g \in Godowns : promised[d][g] <= onHand[g]
  /\ onHand' = [g \in Godowns |-> onHand[g] - promised[d][g]]

Next ==
  \/ \E d \in Documents : Drop(d) \/ Promise(d, promised'[d]) \/ Ship(d)
  \/ \E g \in Godowns :
       \/ onHand'[g] > onHand[g] /\ Put(g, onHand'[g] - onHand[g])
       \/ onHand'[g] < onHand[g] /\ Take(g, onHand[g] - onHand'[g])

Spec == Init /\ [][Next]_vars
=============================================================================

------------------------------ MODULE Delivery ------------------------------
(***************************************************************************)
(* What the outbox promises those who put a message in it: the message is  *)
(* handed to its handler at least once, what the handler answered is saved *)
(* exactly once, and a message that is given up says so and waits for a    *)
(* person.  No relays, claims or leases: Outbox implements it.             *)
(***************************************************************************)
EXTENDS Naturals

CONSTANT Messages

VARIABLES
  state,           \* what became of each message
  answered,        \* messages whose handler has answered and that may be saved
  saves            \* how often an answer was saved

vars == <<state, answered, saves>>

Init ==
  /\ state = [m \in Messages |-> "none"]
  /\ answered = {}
  /\ saves = [m \in Messages |-> 0]

Enqueue(m) ==
  /\ state[m] = "none"
  /\ state' = [state EXCEPT ![m] = "waiting"]
  /\ UNCHANGED <<answered, saves>>

\* The handler may be called again, and answer again, whatever became of the message.
Answer(m) ==
  /\ state[m] # "none" /\ m \notin answered
  /\ answered' = answered \cup {m}
  /\ UNCHANGED <<state, saves>>

Lose(m) ==
  /\ m \in answered
  /\ answered' = answered \ {m}
  /\ UNCHANGED <<state, saves>>

Save(m) ==
  /\ state[m] = "waiting" /\ m \in answered
  /\ state' = [state EXCEPT ![m] = "sent"]
  /\ saves' = [saves EXCEPT ![m] = @ + 1]
  /\ answered' \in {answered, answered \ {m}}

GiveUp(m) ==
  /\ state[m] = "waiting"
  /\ state' = [state EXCEPT ![m] = "dead"]
  /\ UNCHANGED <<answered, saves>>

Replay(m) ==
  /\ state[m] = "dead"
  /\ state' = [state EXCEPT ![m] = "waiting"]
  /\ UNCHANGED <<answered, saves>>

Next == \E m \in Messages : Enqueue(m) \/ Answer(m) \/ Lose(m) \/ Save(m) \/ GiveUp(m) \/ Replay(m)

Spec == Init /\ [][Next]_vars
=============================================================================

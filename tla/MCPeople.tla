------------------------------ MODULE MCPeople -------------------------------
(* Who is in a business and signed in to it: Team and Session.  A run looks  *)
(* at one of them at a time; which, is chosen at the start.                  *)
EXTENDS Team, TLC

CONSTANTS Cases, Persons, Companies, Week, MaxSessions, MaxNow

VARIABLES case, now, member, session, asked, signIns

sessions == <<now, member, session, asked, signIns>>

(* A member tailored to review access and to sell, from before roles existed.*)
Tailor == {"access.review", "sales.finalise", "dashboard.read"}

Sessions == INSTANCE Session WITH request <- asked, People <- Persons
ASSUME SessionsAssumption == Sessions!SessionAssumption

MCInit ==
    /\ case \in Cases
    /\ Init
    /\ Sessions!Init
    /\ IF case = "team" THEN member = {} ELSE \A p \in People : role[p] # "custom"
MCNext ==
    /\ case' = case
    /\ \/ case = "team" /\ Next /\ UNCHANGED sessions
       \/ case = "sessions" /\ Sessions!Next /\ UNCHANGED vars
MCSpec == MCInit /\ [][MCNext]_<<vars, sessions, case>>

\* People, companies and requests are interchangeable.
Symmetry == Permutations(People) \cup Permutations(Companies) \cup Permutations(Requests)

-----------------------------------------------------------------------------
(* Members, invitations, sessions and requests are well formed (team.ts:20,  *)
(* auth.ts:10).                                                              *)
TypesOK == TypeOK /\ Sessions!TypeOK

(* However sign-ins, switches and sign-outs interleave, a sign-in leaves at  *)
(* most one usable session (sign-in.ts:137-160), and one that is over stays  *)
(* over (:145); whoever is removed is out at once, and being taken back      *)
(* revives nothing that was open (team.ts:8, postgres-platform.ts:275-283).  *)
SignInsEnd == []Sessions!OneAtATime /\ Sessions!OverIsOver /\ Sessions!StopsForGood
=============================================================================

---------------------------- MODULE PeopleProofs ----------------------------
(***************************************************************************)
(* What Team and Session promise for any number of people, companies,      *)
(* requests and invitations.                                               *)
(*                                                                         *)
(* Team's invariants are proved together: a request can be judged only     *)
(* when its type is known, and an owner stays an owner through every step  *)
(* but a hand-over, which makes another.  Session's rest on one invariant: *)
(* each sign-in has a single ticket, held by its live session or by the    *)
(* switch that has just ended it, and never by both.                       *)
(***************************************************************************)
EXTENDS MCPeople, FiniteSetTheorems, TLAPS


LEMMA RolesAreNamed == RolesGiven \subseteq Invitable /\ RolesGiven \subseteq MemberRoles /\ "owner" \notin RolesGiven
  BY TeamAssumption DEF Invitable, MemberRoles, RoleNames

(* What a waiting request is made of.                                      *)
LEMMA WaitingFacts ==
  ASSUME TypeOK, NEW r \in Requests, request[r] # Idle
  PROVE  /\ request[r] \in Waiting
         /\ request[r].by \in People
         /\ request[r].ask \in Asks
         /\ request[r].ask.kind \in {"invite", "changeRole"} => request[r].ask.whom \in People /\ request[r].ask.wanted \in RolesGiven
         /\ request[r].ask.kind \in {"remove", "transfer"} => request[r].ask.whom \in People
  BY DEF TypeOK, Waiting, Asks, Idle

LEMMA AuthenticateType ==
  ASSUME TypeOK, NEW r \in Requests, NEW p \in People, NEW ask \in Asks, Authenticate(r, p, ask)
  PROVE  TypeOK'
<1>1. ROLES[role[p]] \in SUBSET Permissions
  <2>1. role[p] \in {"owner", "admin", "accountant", "staff", "viewer", "custom", "out"}
    BY DEF TypeOK, MemberRoles, RoleNames
  <2>2. /\ ROLES["owner"] \in SUBSET Permissions /\ ROLES["admin"] \in SUBSET Permissions
        /\ ROLES["accountant"] \in SUBSET Permissions /\ ROLES["out"] \in SUBSET Permissions
    BY DEF ROLES
  <2>3. ROLES["staff"] \in SUBSET Permissions /\ ROLES["viewer"] \in SUBSET Permissions
    BY DEF ROLES, Permissions
  <2>4. ROLES["custom"] \in SUBSET Permissions
    BY TeamAssumption DEF ROLES
  <2> QED
    BY <2>1, <2>2, <2>3, <2>4
<1>2. [state |-> "waiting", by |-> p, held |-> ROLES[role[p]], ask |-> ask] \in Waiting
  BY <1>1 DEF Waiting
<1> QED
  BY <1>2 DEF Authenticate, TypeOK

LEMMA RevokedType ==
  ASSUME TypeOK, NEW p \in People, Revoked(p)
  PROVE  role' \in [People -> MemberRoles \cup {"out"}] /\ invitation' \in [Invitations -> Sent \cup {Unsent}]
<1>1. role' \in [People -> MemberRoles \cup {"out"}]
  BY DEF TypeOK, Revoked
<1>2. ASSUME NEW i \in Invitations, Open(i)
      PROVE  [invitation[i] EXCEPT !.state = "revoked"] \in Sent
  BY <1>2 DEF TypeOK, Open, Sent, Unsent
<1>3. invitation' \in [Invitations -> Sent \cup {Unsent}]
  BY <1>2 DEF TypeOK, Revoked
<1> QED
  BY <1>1, <1>3

LEMMA ServeType ==
  ASSUME TypeOK, NEW r \in Requests, Serve(r)
  PROVE  TypeOK'
<1> DEFINE q == request[r]
<1>1. q \in Waiting /\ q.by \in People
  BY WaitingFacts DEF Serve
<1>2. request' \in [Requests -> Waiting \cup {Idle}]
  BY DEF Serve, TypeOK
<1>3. role' \in [People -> MemberRoles \cup {"out"}] /\ invitation' \in [Invitations -> Sent \cup {Unsent}]
  <2>1. CASE Invite(q)
    <3>1. q.ask.whom \in People /\ q.ask.wanted \in Invitable
      BY <2>1, WaitingFacts, RolesAreNamed DEF Serve, Invite
    <3>2. [state |-> "open", to |-> q.ask.whom, role |-> q.ask.wanted, by |-> q.by] \in Sent
      BY <1>1, <3>1 DEF Sent
    <3> QED
      BY <2>1, <3>2 DEF Invite, TypeOK
  <2>2. CASE ChangeRole(q)
    <3>1. q.ask.wanted \in MemberRoles
      BY <2>2, WaitingFacts, RolesAreNamed DEF Serve, ChangeRole
    <3> QED
      BY <2>2, <3>1 DEF ChangeRole, TypeOK
  <2>3. CASE Remove(q)
    <3>1. q.ask.whom \in People
      BY <2>3, WaitingFacts DEF Serve, Remove
    <3> QED
      BY <2>3, <3>1, RevokedType DEF Remove
  <2>4. CASE Transfer(q)
    BY <2>4 DEF Transfer, TypeOK, MemberRoles, RoleNames
  <2>5. CASE Leave(q)
    BY <2>5, <1>1, RevokedType DEF Leave
  <2> QED
    BY <2>1, <2>2, <2>3, <2>4, <2>5 DEF Serve, Does
<1> QED
  BY <1>2, <1>3 DEF TypeOK

LEMMA AcceptType ==
  ASSUME TypeOK, NEW i \in Invitations, Accept(i)
  PROVE  TypeOK'
<1>1. invitation[i] \in Sent
  BY DEF TypeOK, Accept, Open, Unsent
<1>2. invitation[i].role \in MemberRoles /\ [invitation[i] EXCEPT !.state = "accepted"] \in Sent
  BY <1>1 DEF Sent, Invitable, MemberRoles
<1> QED
  BY <1>2 DEF Accept, TypeOK

LEMMA InitType == Init => TypeOK
  BY DEF Init, TypeOK, MemberRoles, RoleNames

LEMMA NextType == TypeOK /\ [Next]_vars => TypeOK'
<1> SUFFICES ASSUME TypeOK, [Next]_vars PROVE TypeOK'
  OBVIOUS
<1>1. ASSUME NEW r \in Requests, NEW p \in People, NEW ask \in Asks, Authenticate(r, p, ask) PROVE TypeOK'
  BY <1>1, AuthenticateType
<1>2. ASSUME NEW r \in Requests, Serve(r) PROVE TypeOK'
  BY <1>2, ServeType
<1>3. ASSUME NEW r \in Requests, Refuse(r) PROVE TypeOK'
  BY <1>3 DEF Refuse, TypeOK
<1>4. ASSUME NEW i \in Invitations, Accept(i) PROVE TypeOK'
  BY <1>4, AcceptType
<1>5. CASE UNCHANGED vars
  BY <1>5 DEF vars, TypeOK
<1> QED
  BY <1>1, <1>2, <1>3, <1>4, <1>5 DEF Next

(* Every reachable state of the team has its type.                         *)
THEOREM TypeCorrect == Spec => []TypeOK
  BY InitType, NextType, PTL DEF Spec

-----------------------------------------------------------------------------
(* What each operation does to the roles.  A step that ends a request is   *)
(* its service or its refusal.                                             *)
LEMMA ServedFacts ==
  ASSUME TypeOK, NEW r \in Requests, Serve(r)
  PROVE  Served(r)
  BY DEF Serve, Served, TypeOK

(* A role is changed by the person's own departure, by an owner, or -      *)
(* unless it is one only an owner may touch - by somebody else; and an     *)
(* owner is made only by an owner who becomes an admin.                    *)
LEMMA ServeRoles ==
  ASSUME TypeOK, NEW r \in Requests, Serve(r), NEW p \in People, role'[p] # role[p]
  PROVE  /\ request[r].by = p \/ Me(request[r]) = "owner" \/ ~Tailored(role[p])
         /\ role'[p] = "owner" => /\ Me(request[r]) = "owner"
                                  /\ request[r].by # p
                                  /\ role'[request[r].by] = "admin"
         /\ role[p] = "owner" => \E o \in People : o # p /\ role'[o] = "owner"
<1> DEFINE q == request[r]
<1>1. q \in Waiting /\ q.by \in People
  BY WaitingFacts DEF Serve
<1>2. role \in [People -> MemberRoles \cup {"out"}]
  BY DEF TypeOK
<1>3. CASE Invite(q)
  BY <1>3 DEF Invite
<1>4. CASE ChangeRole(q)
  <2>1. q.ask.whom \in People /\ q.ask.wanted # "owner" /\ role' = [role EXCEPT ![q.ask.whom] = q.ask.wanted]
    BY <1>4, WaitingFacts, RolesAreNamed DEF Serve, ChangeRole
  <2>2. p = q.ask.whom /\ q.ask.whom # q.by /\ role'[p] # "owner"
    BY <1>2, <1>4, <2>1 DEF ChangeRole, Other
  <2>3. Me(q) = "owner" \/ ~Tailored(role[p])
    BY <1>4, <2>2 DEF ChangeRole, MayManage
  <2>4. role[p] = "owner" => Me(q) = "owner"
    BY <2>3 DEF Tailored
  <2>5. Me(q) = "owner" => role'[q.by] = "owner"
    BY <1>1, <1>2, <2>1, <2>2 DEF Me
  <2> QED
    BY <1>1, <2>2, <2>3, <2>4, <2>5
<1>5. CASE Remove(q)
  <2>1. q.ask.whom \in People /\ role' = [role EXCEPT ![q.ask.whom] = "out"]
    BY <1>5, WaitingFacts DEF Serve, Remove, Revoked
  <2>2. p = q.ask.whom /\ q.ask.whom # q.by /\ role'[p] # "owner"
    BY <1>2, <1>5, <2>1 DEF Remove, Other
  <2>3. Me(q) = "owner" \/ ~Tailored(role[p])
    BY <1>5, <2>2 DEF Remove, MayManage
  <2>4. role[p] = "owner" => Me(q) = "owner"
    BY <2>3 DEF Tailored
  <2>5. Me(q) = "owner" => role'[q.by] = "owner"
    BY <1>1, <1>2, <2>1, <2>2 DEF Me
  <2> QED
    BY <1>1, <2>2, <2>3, <2>4, <2>5
<1>6. CASE Transfer(q)
  <2>1. q.ask.whom \in People /\ Me(q) = "owner" /\ q.ask.whom # q.by
    BY <1>6, WaitingFacts DEF Serve, Transfer, Other
  <2>2. role'[q.by] = "admin" /\ role'[q.ask.whom] = "owner"
    BY <1>1, <1>2, <1>6, <2>1 DEF Transfer
  <2>3. \A x \in People : x # q.by /\ x # q.ask.whom => role'[x] = role[x]
    BY <1>2, <1>6 DEF Transfer
  <2>4. p = q.by \/ p = q.ask.whom
    BY <2>3
  <2>5. CASE p = q.by
    BY <2>1, <2>2, <2>5
  <2>6. CASE p = q.ask.whom
    <3>1. role[p] # "owner"
      BY <2>2, <2>6
    <3> QED
      BY <2>1, <2>2, <2>6, <3>1
  <2> QED
    BY <2>4, <2>5, <2>6
<1>7. CASE Leave(q)
  <2>1. role' = [role EXCEPT ![q.by] = "out"]
    BY <1>7 DEF Leave, Revoked
  <2>2. p = q.by /\ role'[p] # "owner"
    BY <1>2, <2>1
  <2>3. ASSUME role[p] = "owner" PROVE \E o \in People : o # p /\ role'[o] = "owner"
    <3>1. PICK o \in People \ {q.by} : role[o] = "owner"
      BY <1>7, <2>2, <2>3 DEF Leave, Me
    <3> QED
      BY <1>2, <2>1, <2>2, <3>1
  <2> QED
    BY <2>2, <2>3
<1> QED
  BY <1>3, <1>4, <1>5, <1>6, <1>7 DEF Serve, Does

(* No other step takes or gives a role somebody already has.               *)
LEMMA OtherRoles ==
  ASSUME TypeOK, [Next]_vars, NEW p \in People, role'[p] # role[p]
  PROVE  \/ \E r \in Requests : Serve(r)
         \/ role[p] = "out" /\ role'[p] # "owner"
<1>1. ASSUME NEW i \in Invitations, Accept(i) PROVE role[p] = "out" /\ role'[p] # "owner"
  <2>1. invitation[i] \in Sent
    BY <1>1 DEF TypeOK, Accept, Open, Unsent
  <2>2. invitation[i].to \in People /\ invitation[i].role # "owner"
    BY <2>1 DEF Sent, Invitable
  <2>3. p = invitation[i].to /\ role'[p] = invitation[i].role
    BY <1>1, <2>2 DEF Accept, TypeOK
  <2> QED
    BY <1>1, <2>2, <2>3 DEF Accept, Active
<1> QED
  BY <1>1 DEF Next, vars, Authenticate, Refuse

-----------------------------------------------------------------------------
LEMMA InitOwner == Init => AlwaysAnOwner
  BY DEF Init, AlwaysAnOwner, Owners

LEMMA NextOwner == TypeOK /\ AlwaysAnOwner /\ [Next]_vars => AlwaysAnOwner'
<1> SUFFICES ASSUME TypeOK, AlwaysAnOwner, [Next]_vars PROVE AlwaysAnOwner'
  OBVIOUS
<1>1. PICK o \in People : role[o] = "owner"
  BY DEF AlwaysAnOwner, Owners
<1>2. CASE role'[o] = "owner"
  BY <1>2 DEF AlwaysAnOwner, Owners
<1>3. CASE role'[o] # "owner"
  <2>1. role'[o] # role[o]
    BY <1>1, <1>3
  <2>2. PICK r \in Requests : Serve(r)
    BY <1>1, <2>1, OtherRoles
  <2>3. \E x \in People : x # o /\ role'[x] = "owner"
    BY <1>1, <2>1, <2>2, ServeRoles
  <2> QED
    BY <2>3 DEF AlwaysAnOwner, Owners
<1> QED
  BY <1>2, <1>3

(* The business never loses its last owner, in any order of requests, each *)
(* authenticated as long before it is served as you like.                  *)
THEOREM OwnerStays == Spec => []AlwaysAnOwner
  BY InitType, NextType, InitOwner, NextOwner, PTL DEF Spec

(* Nobody becomes an owner but by an owner's hand-over.                    *)
THEOREM OwnershipIsHandedOver == Spec => OnlyHandedOver
<1>1. ASSUME TypeOK, [Next]_vars, NEW p \in Owners' \ Owners
      PROVE  \E q \in Owners \ Owners' : role'[q] = "admin" /\ \E r \in Requests : Served(r) /\ request[r].by = q
  <2>1. p \in People /\ role'[p] = "owner" /\ role[p] # "owner"
    BY <1>1 DEF Owners
  <2>2. PICK r \in Requests : Serve(r)
    BY <1>1, <2>1, OtherRoles
  <2>3. request[r].by \in People /\ role[request[r].by] = "owner" /\ role'[request[r].by] = "admin"
    BY <1>1, <2>1, <2>2, ServeRoles, WaitingFacts DEF Serve, Me
  <2>4. request[r].by \in Owners \ Owners'
    BY <2>3 DEF Owners
  <2> QED
    BY <1>1, <2>2, <2>3, <2>4, ServedFacts
<1>2. TypeOK /\ [Next]_vars => [\A p \in Owners' \ Owners : \E q \in Owners \ Owners' : role'[q] = "admin" /\ \E r \in Requests : Served(r) /\ request[r].by = q]_vars
  BY <1>1
<1> QED
  BY <1>2, InitType, NextType, PTL DEF Spec, OnlyHandedOver

(* Only an owner, judged as the step is taken, changes or removes an       *)
(* owner, an admin or a tailored member.                                   *)
THEOREM OwnersAlone == Spec => OnlyOwnersTouchThem
<1>1. ASSUME TypeOK, [Next]_vars, NEW p \in People, role[p] \in {"owner", "admin", "custom"}, role'[p] # role[p]
      PROVE  \E r \in Requests : Served(r) /\ (request[r].by = p \/ Me(request[r]) = "owner")
  <2>1. role[p] # "out" /\ Tailored(role[p])
    BY <1>1 DEF Tailored
  <2>2. PICK r \in Requests : Serve(r)
    BY <1>1, <2>1, OtherRoles
  <2>3. request[r].by = p \/ Me(request[r]) = "owner"
    BY <1>1, <2>1, <2>2, ServeRoles
  <2> QED
    BY <1>1, <2>2, <2>3, ServedFacts
<1>2. TypeOK /\ [Next]_vars => [\A p \in People : role[p] \in {"owner", "admin", "custom"} /\ role'[p] # role[p] =>
         \E r \in Requests : Served(r) /\ (request[r].by = p \/ Me(request[r]) = "owner")]_vars
  BY <1>1
<1> QED
  BY <1>2, InitType, NextType, PTL DEF Spec, OnlyOwnersTouchThem

-----------------------------------------------------------------------------
(* Whoever ends being a member takes the open invitations along, and only  *)
(* a member sends one.                                                     *)
LEMMA RevokedSenders ==
  ASSUME TypeOK, SendersStay, NEW p \in People, Revoked(p)
  PROVE  SendersStay'
<1> SUFFICES ASSUME NEW i \in Invitations, Open(i)' PROVE Active(invitation[i].by)'
  BY DEF SendersStay
<1>1. Open(i) /\ invitation[i].by # p
  BY DEF Revoked, Open, TypeOK, Sent, Unsent
<1>2. invitation'[i] = invitation[i] /\ invitation[i].by \in People
  BY <1>1 DEF Revoked, Open, TypeOK, Sent, Unsent
<1> QED
  BY <1>1, <1>2 DEF SendersStay, Active, Revoked, TypeOK

LEMMA NextSenders == TypeOK /\ SendersStay /\ [Next]_vars => SendersStay'
<1> SUFFICES ASSUME TypeOK, SendersStay, [Next]_vars PROVE SendersStay'
  OBVIOUS
<1>s. \A i \in Invitations : Open(i) => invitation[i].by \in People
  BY DEF TypeOK, Open, Sent, Unsent
<1>1. ASSUME NEW r \in Requests, Serve(r) PROVE SendersStay'
  <2> DEFINE q == request[r]
  <2>0. q.by \in People
    BY <1>1, WaitingFacts DEF Serve
  <2>1. CASE Invite(q)
    <3>1. role[q.by] # "out" /\ role' = role
      BY <2>1 DEF Invite, MayManage, Active
    <3>2. PICK i \in Invitations : invitation' = [invitation EXCEPT ![i] =
             [state |-> "open", to |-> q.ask.whom, role |-> q.ask.wanted, by |-> q.by]]
      BY <2>1 DEF Invite
    <3>3. \A j \in Invitations : j # i => invitation'[j] = invitation[j]
      BY <3>2 DEF TypeOK
    <3>4. invitation'[i].by = q.by
      BY <3>2 DEF TypeOK
    <3> QED
      BY <3>1, <3>3, <3>4 DEF SendersStay, Active, Open
  <2>2. CASE ChangeRole(q)
    <3>1. q.ask.whom \in People /\ q.ask.wanted # "out"
      BY <1>1, <2>2, WaitingFacts, RolesAreNamed DEF Serve, ChangeRole, Invitable, RoleNames
    <3>2. \A p \in People : role[p] # "out" => role'[p] # "out"
      BY <2>2, <3>1 DEF ChangeRole, TypeOK
    <3> QED
      BY <2>2, <3>2, <1>s DEF ChangeRole, SendersStay, Active, Open
  <2>3. CASE Remove(q)
    BY <1>1, <2>3, WaitingFacts, RevokedSenders DEF Serve, Remove
  <2>4. CASE Transfer(q)
    <3>1. \A p \in People : role[p] # "out" => role'[p] # "out"
      BY <2>4, <2>0 DEF Transfer, TypeOK
    <3> QED
      BY <2>4, <3>1, <1>s DEF Transfer, SendersStay, Active, Open
  <2>5. CASE Leave(q)
    BY <2>0, <2>5, RevokedSenders DEF Leave
  <2> QED
    BY <1>1, <2>1, <2>2, <2>3, <2>4, <2>5 DEF Serve, Does
<1>2. ASSUME NEW i \in Invitations, Accept(i) PROVE SendersStay'
  <2>1. invitation[i].to \in People /\ invitation[i].role # "out"
    BY <1>2 DEF TypeOK, Accept, Open, Sent, Unsent, Invitable, RoleNames
  <2>2. \A p \in People : role[p] # "out" => role'[p] # "out"
    BY <1>2, <2>1 DEF Accept, TypeOK
  <2>3. ASSUME NEW j \in Invitations, Open(j)' PROVE Open(j) /\ invitation'[j] = invitation[j]
    BY <1>2, <2>3 DEF Accept, Open, TypeOK, Sent, Unsent
  <2> QED
    BY <2>2, <2>3, <1>s DEF SendersStay, Active, Open
<1>3. CASE UNCHANGED <<role, invitation>>
  BY <1>3 DEF SendersStay, Active, Open
<1> QED
  BY <1>1, <1>2, <1>3 DEF Next, vars, Authenticate, Refuse

(* Every invitation that can still be taken up was sent by a member, for   *)
(* all orders of removals, departures and late requests.                   *)
THEOREM SendersRemain == Spec => []SendersStay
<1>1. Init => SendersStay
  BY DEF Init, SendersStay, Open, Unsent
<1> QED
  BY <1>1, InitType, NextType, NextSenders, PTL DEF Spec

-----------------------------------------------------------------------------
(* Sessions.  A sign-in has a number only once its first session is open,  *)
(* and there are no more sign-ins than sessions.                           *)
Numbered ==
    /\ Cardinality(Sessions!Ids) \in 0 .. MaxSessions
    /\ signIns \in 0 .. Cardinality(Sessions!Ids)
    /\ \A s \in Sessions!Ids : session[s].signIn \in 1 .. signIns

Yet(r, step) == asked[r] # Sessions!Idle /\ asked[r].step = step

(* A request ends only a session there is, and a switch belongs to the     *)
(* sign-in of the session it ends.                                         *)
AskedWell ==
    \A r \in Requests :
        /\ asked[r] # Sessions!Idle => asked[r].signIn \in 0 .. signIns /\ asked[r].old \in {0} \cup Sessions!Ids
        /\ Yet(r, "close") \/ Yet(r, "replace") => asked[r].old \in Sessions!Ids
        /\ Yet(r, "close") => asked[r].signIn = session[asked[r].old].signIn

(* Of one sign-in there is one live session, or one switch about to open   *)
(* the next: the ticket passes from the one to the other and back.         *)
OneTicket ==
    /\ \A s, t \in Sessions!Ids : Sessions!Live(s) /\ Sessions!Live(t) /\ session[s].signIn = session[t].signIn => s = t
    /\ \A r, q \in Requests : Yet(r, "open") /\ Yet(q, "open") /\ asked[r].signIn = asked[q].signIn /\ asked[r].signIn # 0 => r = q
    /\ \A r \in Requests, s \in Sessions!Ids : Yet(r, "open") /\ Sessions!Live(s) => asked[r].signIn # session[s].signIn

SessionInv == Sessions!TypeOK /\ Numbered /\ AskedWell /\ OneTicket

LEMMA SameCardinality == \A S : Sessions!Cardinality(S) = Cardinality(S)
  BY Zenon DEF Sessions!Cardinality, Cardinality

LEMMA RowFacts ==
  ASSUME Sessions!TypeOK, NEW s \in Sessions!Ids
  PROVE  /\ session[s].of \in Persons /\ session[s].at \in Companies
         /\ session[s].ends \in Nat /\ session[s].live \in BOOLEAN
         /\ session[s].signIn \in 1 .. MaxSessions
         /\ [session[s] EXCEPT !.live = FALSE] \in Sessions!Opened
  BY DEF Sessions!TypeOK, Sessions!Opened

LEMMA YetFacts ==
  ASSUME Sessions!TypeOK, NEW r \in Requests, asked[r] # Sessions!Idle
  PROVE  /\ asked[r].step \in {"close", "open", "replace"}
         /\ asked[r].of \in Persons /\ asked[r].to \in Companies
         /\ asked[r].old \in 0 .. MaxSessions /\ asked[r].ttl \in Nat
         /\ asked[r].signIn \in 0 .. MaxSessions
         /\ asked[r] \in Sessions!Steps
  BY DEF Sessions!TypeOK, Sessions!Steps

LEMMA IdFacts ==
  ASSUME SessionInv
  PROVE  /\ Sessions!Ids = 1 .. Cardinality(Sessions!Ids)
         /\ Cardinality(Sessions!Ids) \in 0 .. MaxSessions /\ MaxSessions \in Nat
         /\ \A s \in Sessions!Ids : s \in 1 .. MaxSessions
<1>1. Sessions!Ids = 1 .. Cardinality(Sessions!Ids)
  BY SameCardinality DEF SessionInv, Sessions!TypeOK
<1>2. Cardinality(Sessions!Ids) \in 0 .. MaxSessions /\ MaxSessions \in Nat
  BY SessionsAssumption DEF Sessions!SessionAssumption, SessionInv, Numbered
<1> DEFINE n == Cardinality(Sessions!Ids)
<1>3. \A s \in 1 .. n : s \in 1 .. MaxSessions
  <2> HIDE DEF n
  <2> QED
    BY <1>2 DEF n
<1> QED
  BY <1>1, <1>2, <1>3

(* What ending a session does to the rows.                                 *)
LEMMA EndedFacts ==
  ASSUME Sessions!TypeOK, NEW s \in Sessions!Ids, session' = Sessions!Ended(s)
  PROVE  /\ Sessions!Ids' = Sessions!Ids
         /\ session'[s] = [session[s] EXCEPT !.live = FALSE]
         /\ \A t \in Sessions!Ids \ {s} : session'[t] = session[t]
  BY DEF Sessions!Ended, Sessions!Ids

(* However a step ends rows, all it does to them is that they are no       *)
(* longer live.                                                            *)
OnlyEnds ==
    /\ Sessions!Ids' = Sessions!Ids
    /\ \A s \in Sessions!Ids : session'[s] \in {session[s], [session[s] EXCEPT !.live = FALSE]}

LEMMA OnlyEndsFacts ==
  ASSUME Sessions!TypeOK, OnlyEnds, NEW s \in Sessions!Ids
  PROVE  /\ session'[s].signIn = session[s].signIn
         /\ session'[s].of = session[s].of /\ session'[s].at = session[s].at /\ session'[s].ends = session[s].ends
         /\ Sessions!Live(s)' => Sessions!Live(s) /\ session'[s] = session[s]
         /\ session'[s] \in Sessions!Opened
<1>1. session[s] \in Sessions!Opened
  BY DEF Sessions!TypeOK
<1>2. CASE session'[s] = session[s]
  BY <1>1, <1>2 DEF Sessions!Live
<1>3. CASE session'[s] = [session[s] EXCEPT !.live = FALSE]
  BY <1>1, <1>3, RowFacts DEF Sessions!Live, Sessions!Opened
<1> QED
  BY <1>2, <1>3 DEF OnlyEnds

LEMMA EndedOnlyEnds ==
  ASSUME Sessions!TypeOK, NEW s \in Sessions!Ids, session' = Sessions!Ended(s)
  PROVE  OnlyEnds
  BY EndedFacts DEF OnlyEnds

LEMMA SameRowsOnlyEnd == session' = session => OnlyEnds
  BY DEF OnlyEnds, Sessions!Ids

(* A step that opens no session and leaves every request at rest or as it  *)
(* was keeps the invariant.                                                *)
LEMMA RestingKeeps ==
  ASSUME SessionInv, OnlyEnds, now' \in 0 .. MaxNow, member' \subseteq Persons \X Companies, signIns' = signIns,
         asked' = asked \/ \E r \in Requests : asked' = [asked EXCEPT ![r] = Sessions!Idle]
  PROVE  SessionInv'
<1>0. asked' \in [Requests -> Sessions!Steps \cup {Sessions!Idle}] /\ \A r \in Requests : asked'[r] \in {asked[r], Sessions!Idle}
  BY DEF SessionInv, Sessions!TypeOK
<1>1. Sessions!TypeOK'
  <2>1. Sessions!Ids' = 1 .. Cardinality(Sessions!Ids')
    BY SameCardinality DEF SessionInv, Sessions!TypeOK, OnlyEnds
  <2>2. \A s \in Sessions!Ids' : session'[s] \in Sessions!Opened
    BY OnlyEndsFacts DEF SessionInv, OnlyEnds
  <2> QED
    BY <1>0, <2>1, <2>2, SameCardinality DEF SessionInv, Sessions!TypeOK
<1>2. Numbered'
  BY OnlyEndsFacts DEF SessionInv, Numbered, OnlyEnds
<1>3. \A r \in Requests, step \in {"close", "open", "replace"} : Yet(r, step)' => Yet(r, step) /\ asked'[r] = asked[r]
  BY <1>0 DEF Yet
<1>4. AskedWell'
  <2>1. ASSUME NEW r \in Requests PROVE asked'[r] # Sessions!Idle => asked'[r].signIn \in 0 .. signIns' /\ asked'[r].old \in {0} \cup Sessions!Ids'
    BY <1>0 DEF SessionInv, AskedWell, OnlyEnds
  <2>2. ASSUME NEW r \in Requests PROVE Yet(r, "close")' \/ Yet(r, "replace")' => asked'[r].old \in Sessions!Ids'
    BY <1>3 DEF SessionInv, AskedWell, OnlyEnds
  <2>3. ASSUME NEW r \in Requests, Yet(r, "close")' PROVE asked'[r].signIn = session'[asked'[r].old].signIn
    BY <1>3, <2>3, OnlyEndsFacts DEF SessionInv, AskedWell
  <2> QED
    BY <2>1, <2>2, <2>3 DEF AskedWell
<1>5. OneTicket'
  BY <1>3, OnlyEndsFacts DEF SessionInv, OneTicket, OnlyEnds
<1> QED
  BY <1>1, <1>2, <1>4, <1>5 DEF SessionInv

(* The one request a step moves on, and where it stands afterwards.        *)
LEMMA MovedFacts ==
  ASSUME Sessions!TypeOK, NEW r \in Requests, NEW q, asked' = [asked EXCEPT ![r] = q]
  PROVE  asked'[r] = q /\ \A other \in Requests : other # r => asked'[other] = asked[other]
  BY DEF Sessions!TypeOK

LEMMA SignInKeeps ==
  ASSUME SessionInv,
         NEW r \in Requests, NEW p \in Persons, NEW c \in Companies, NEW old \in {0} \cup Sessions!Ids,
         Sessions!SignIn(r, p, c, old)
  PROVE  SessionInv'
<1> DEFINE q == [step |-> "open", of |-> p, to |-> c, old |-> old, ttl |-> Week, signIn |-> 0]
<1>1. /\ asked' = [asked EXCEPT ![r] = q]
      /\ now' = now /\ member' = member /\ session' = session /\ signIns' = signIns
  BY DEF Sessions!SignIn
<1>2. q.step = "open" /\ q.signIn = 0 /\ q.old = old /\ q # Sessions!Idle
  BY DEF Sessions!Idle
<1>3. Sessions!Ids' = Sessions!Ids /\ \A s \in Sessions!Ids : Sessions!Live(s)' = Sessions!Live(s) /\ session'[s].signIn = session[s].signIn
  BY <1>1 DEF Sessions!Ids, Sessions!Live
<1>4. Sessions!TypeOK'
  <2>1. q \in Sessions!Steps
    <3>1. old \in 0 .. MaxSessions
      BY IdFacts
    <3> QED
      BY <3>1, SessionsAssumption DEF Sessions!Steps, Sessions!SessionAssumption
  <2>2. asked' \in [Requests -> Sessions!Steps \cup {Sessions!Idle}]
    BY <1>1, <2>1 DEF SessionInv, Sessions!TypeOK
  <2> QED
    BY <1>1, <1>3, <2>2 DEF SessionInv, Sessions!TypeOK, Sessions!Ids
<1> HIDE DEF q
<1>5. asked'[r] = q /\ \A other \in Requests : other # r => asked'[other] = asked[other]
  BY <1>1, MovedFacts DEF SessionInv
<1>6. Numbered'
  BY <1>1, <1>3 DEF SessionInv, Numbered
<1>7. AskedWell'
  BY <1>1, <1>2, <1>3, <1>5 DEF SessionInv, AskedWell, Yet, Numbered
<1>8. OneTicket'
  BY <1>1, <1>2, <1>3, <1>5 DEF SessionInv, OneTicket, Yet, Numbered
<1> QED
  BY <1>4, <1>6, <1>7, <1>8 DEF SessionInv

LEMMA SwitchKeeps ==
  ASSUME SessionInv, NEW r \in Requests, NEW s \in Sessions!Ids, NEW c \in Companies, Sessions!Switch(r, s, c)
  PROVE  SessionInv'
<1> DEFINE q == [step |-> "close", of |-> session[s].of, to |-> c, old |-> s, ttl |-> 0, signIn |-> session[s].signIn]
<1>1. /\ asked' = [asked EXCEPT ![r] = q]
      /\ now' = now /\ member' = member /\ session' = session /\ signIns' = signIns
  BY DEF Sessions!Switch
<1>2. q.step = "close" /\ q.signIn = session[s].signIn /\ q.old = s
  OBVIOUS
<1>3. Sessions!Ids' = Sessions!Ids /\ \A t \in Sessions!Ids : Sessions!Live(t)' = Sessions!Live(t) /\ session'[t].signIn = session[t].signIn
  BY <1>1 DEF Sessions!Ids, Sessions!Live
<1>4. Sessions!TypeOK'
  <2>1. q \in Sessions!Steps
    <3>1. s \in 0 .. MaxSessions
      BY IdFacts
    <3>2. session[s].of \in Persons /\ session[s].signIn \in 0 .. MaxSessions
      <4>1. session[s].signIn \in 1 .. MaxSessions /\ session[s].of \in Persons /\ MaxSessions \in Nat
        BY RowFacts, IdFacts DEF SessionInv
      <4> QED
        BY <4>1
    <3> QED
      BY <3>1, <3>2 DEF Sessions!Steps
  <2>2. asked' \in [Requests -> Sessions!Steps \cup {Sessions!Idle}]
    BY <1>1, <2>1 DEF SessionInv, Sessions!TypeOK
  <2> QED
    BY <1>1, <1>3, <2>2 DEF SessionInv, Sessions!TypeOK, Sessions!Ids
<1> HIDE DEF q
<1>5. asked'[r] = q /\ \A other \in Requests : other # r => asked'[other] = asked[other]
  BY <1>1, MovedFacts DEF SessionInv
<1>6. Numbered'
  BY <1>1, <1>3 DEF SessionInv, Numbered
<1>7. AskedWell'
  BY <1>1, <1>2, <1>3, <1>5 DEF SessionInv, AskedWell, Yet, Numbered
<1>8. OneTicket'
  BY <1>1, <1>2, <1>3, <1>5 DEF SessionInv, OneTicket, Yet
<1> QED
  BY <1>4, <1>6, <1>7, <1>8 DEF SessionInv

(* A switch that finds its session live ends it and takes its ticket; one  *)
(* that does not opens nothing.                                            *)
LEMMA CloseKeeps ==
  ASSUME SessionInv, NEW r \in Requests, Sessions!Close(r)
  PROVE  SessionInv'
<1> DEFINE s == asked[r].old
           q == [asked[r] EXCEPT !.step = "open", !.ttl = session[s].ends - now]
<1>1. Yet(r, "close") /\ s \in Sessions!Ids /\ asked[r].signIn = session[s].signIn
  BY DEF SessionInv, AskedWell, Sessions!Close, Yet
<1>2. now' = now /\ member' = member /\ signIns' = signIns
  BY DEF Sessions!Close
<1>3. CASE OnlyEnds /\ asked' = [asked EXCEPT ![r] = Sessions!Idle]
  <2> QED
    BY <1>2, <1>3, RestingKeeps DEF SessionInv, Sessions!TypeOK
<1>4. CASE Sessions!Live(s) /\ session' = Sessions!Ended(s) /\ session[s].ends > now /\ asked' = [asked EXCEPT ![r] = q]
  <2>1. Sessions!Ids' = Sessions!Ids /\ session'[s] = [session[s] EXCEPT !.live = FALSE] /\ \A t \in Sessions!Ids \ {s} : session'[t] = session[t]
    BY <1>1, <1>4, EndedFacts DEF SessionInv
  <2>2. OnlyEnds
    BY <1>1, <1>4, EndedOnlyEnds DEF SessionInv
  <2>3. ~session'[s].live
    <3>1. session[s] \in Sessions!Opened
      BY <1>1 DEF SessionInv, Sessions!TypeOK
    <3>2. [session[s] EXCEPT !.live = FALSE].live = FALSE
      BY <3>1 DEF Sessions!Opened
    <3> QED
      BY <2>1, <3>2
  <2>4. asked[r] \in Sessions!Steps /\ session[s].ends - now \in Nat
    <3>1. session[s].ends \in Nat
      BY <1>1, RowFacts DEF SessionInv
    <3>0. now \in Nat
      BY SessionsAssumption DEF SessionInv, Sessions!TypeOK, Sessions!SessionAssumption
    <3>2. session[s].ends - now \in Nat
      BY <1>4, <3>0, <3>1
    <3> QED
      BY <1>1, <3>2, YetFacts DEF SessionInv, Yet
  <2>5. q \in Sessions!Steps /\ q.step = "open" /\ q.signIn = session[s].signIn /\ q.old = s
    BY <1>1, <2>4 DEF Sessions!Steps
  <2>6. Sessions!TypeOK'
    <3>1. asked' \in [Requests -> Sessions!Steps \cup {Sessions!Idle}]
      BY <1>4, <2>5 DEF SessionInv, Sessions!TypeOK
    <3>2. \A t \in Sessions!Ids' : session'[t] \in Sessions!Opened
      BY <2>2, OnlyEndsFacts DEF SessionInv, OnlyEnds
    <3> QED
      BY <1>2, <2>1, <3>1, <3>2 DEF SessionInv, Sessions!TypeOK
  <2>7. asked'[r] = q /\ \A other \in Requests : other # r => asked'[other] = asked[other]
    BY <1>4, MovedFacts DEF SessionInv
  <2> HIDE DEF q
  <2>8. Numbered'
    BY <1>2, <2>1, <2>2, OnlyEndsFacts DEF SessionInv, Numbered
  <2>9. AskedWell'
    BY <1>1, <1>2, <2>1, <2>2, <2>5, <2>7, OnlyEndsFacts DEF SessionInv, AskedWell, Yet, Numbered
  <2>10. OneTicket'
    <3>1. ASSUME NEW x \in Sessions!Ids, Sessions!Live(x)'
          PROVE  Sessions!Live(x) /\ session'[x].signIn = session[x].signIn /\ x # s
      BY <2>2, <2>3, <3>1, OnlyEndsFacts DEF SessionInv, Sessions!Live
    <3>2. ASSUME NEW x \in Sessions!Ids, Sessions!Live(x)' PROVE session[x].signIn # session[s].signIn
      BY <1>1, <1>4, <3>1, <3>2 DEF SessionInv, OneTicket
    <3>3. ASSUME NEW x \in Requests, x # r, Yet(x, "open")' PROVE Yet(x, "open") /\ asked'[x] = asked[x]
      BY <2>7, <3>3 DEF Yet
    <3>4. ASSUME NEW x \in Requests, x # r, Yet(x, "open")' PROVE asked[x].signIn # session[s].signIn
      BY <1>1, <1>4, <3>3, <3>4 DEF SessionInv, OneTicket
    <3>5. \A x, y \in Requests : Yet(x, "open")' /\ Yet(y, "open")' /\ asked'[x].signIn = asked'[y].signIn /\ asked'[x].signIn # 0 => x = y
      BY <2>5, <2>7, <3>3, <3>4 DEF SessionInv, OneTicket
    <3>6. \A x \in Requests, t \in Sessions!Ids : Yet(x, "open")' /\ Sessions!Live(t)' => asked'[x].signIn # session'[t].signIn
      BY <2>5, <2>7, <3>1, <3>2, <3>3 DEF SessionInv, OneTicket
    <3>7. \A t, u \in Sessions!Ids : Sessions!Live(t)' /\ Sessions!Live(u)' /\ session'[t].signIn = session'[u].signIn => t = u
      BY <3>1 DEF SessionInv, OneTicket
    <3> QED
      BY <2>1, <3>5, <3>6, <3>7 DEF OneTicket
  <2> QED
    BY <2>6, <2>8, <2>9, <2>10 DEF SessionInv
<1>5. CASE ~Sessions!Live(s)
  BY <1>3, <1>5, SameRowsOnlyEnd DEF Sessions!Close
<1>6. CASE Sessions!Live(s) /\ ~(session[s].ends > now)
  BY <1>1, <1>3, <1>6, EndedOnlyEnds DEF Sessions!Close, SessionInv
<1>7. CASE Sessions!Live(s) /\ session[s].ends > now
  BY <1>4, <1>7 DEF Sessions!Close
<1> QED
  BY <1>5, <1>6, <1>7

(* A new row goes to the next number; a first session names its sign-in,   *)
(* and any other is given the ticket its switch held.                      *)
LEMMA OpenFacts ==
  ASSUME SessionInv, NEW r \in Requests, Sessions!Open(r)
  PROVE  \E n, sign :
            /\ n = Cardinality(Sessions!Ids) + 1
            /\ Sessions!Ids' = Sessions!Ids \cup {n} /\ n \notin Sessions!Ids
            /\ Sessions!Ids' = 1 .. n /\ n \in 1 .. MaxSessions /\ Cardinality(Sessions!Ids') = n
            /\ \A s \in Sessions!Ids : session'[s] = session[s]
            /\ session'[n] = [of |-> asked[r].of, at |-> asked[r].to, ends |-> now + asked[r].ttl, live |-> TRUE, signIn |-> sign]
            /\ \/ asked[r].signIn = 0 /\ sign = signIns + 1 /\ signIns' = sign
               \/ asked[r].signIn # 0 /\ sign = asked[r].signIn /\ signIns' = signIns
<1> DEFINE c == Cardinality(Sessions!Ids)
           n == c + 1
           sign == IF asked[r].signIn = 0 THEN signIns + 1 ELSE asked[r].signIn
           row == [of |-> asked[r].of, at |-> asked[r].to, ends |-> now + asked[r].ttl, live |-> TRUE, signIn |-> sign]
<1>1. c \in 0 .. MaxSessions /\ MaxSessions \in Nat /\ Sessions!Ids = 1 .. c
  BY IdFacts
<1>2. c < MaxSessions /\ session' = [s \in 1 .. n |-> IF s = n THEN row ELSE session[s]]
  BY SameCardinality DEF Sessions!Open
<1>3. signIns' = IF asked[r].signIn = 0 THEN sign ELSE signIns
  BY DEF Sessions!Open
<1> HIDE DEF c, row
<1>4. n \in 1 .. MaxSessions /\ n \notin 1 .. c /\ 1 .. n = (1 .. c) \cup {n} /\ n \in Nat /\ n >= 1
  BY <1>1, <1>2
<1>5. Sessions!Ids' = 1 .. n
  BY <1>2 DEF Sessions!Ids
<1>6. Cardinality(1 .. n) = n
  BY <1>4, FS_Interval
<1>7. session'[n] = row /\ \A s \in 1 .. c : session'[s] = session[s]
  BY <1>2, <1>4
<1> QED
  BY <1>1, <1>3, <1>4, <1>5, <1>6, <1>7 DEF row, c

LEMMA OpenKeeps ==
  ASSUME SessionInv, NEW r \in Requests, Sessions!Open(r)
  PROVE  SessionInv'
<1>1. PICK n, sign :
            /\ n = Cardinality(Sessions!Ids) + 1
            /\ Sessions!Ids' = Sessions!Ids \cup {n} /\ n \notin Sessions!Ids
            /\ Sessions!Ids' = 1 .. n /\ n \in 1 .. MaxSessions /\ Cardinality(Sessions!Ids') = n
            /\ \A s \in Sessions!Ids : session'[s] = session[s]
            /\ session'[n] = [of |-> asked[r].of, at |-> asked[r].to, ends |-> now + asked[r].ttl, live |-> TRUE, signIn |-> sign]
            /\ \/ asked[r].signIn = 0 /\ sign = signIns + 1 /\ signIns' = sign
               \/ asked[r].signIn # 0 /\ sign = asked[r].signIn /\ signIns' = signIns
  BY OpenFacts
<1> DEFINE q == [asked[r] EXCEPT !.step = "replace"]
           to == IF asked[r].signIn = 0 /\ asked[r].old # 0 THEN q ELSE Sessions!Idle
<1>2. Yet(r, "open") /\ now' = now /\ member' = member /\ asked' = [asked EXCEPT ![r] = to]
  BY DEF Sessions!Open, Yet
<1>3. asked[r] \in Sessions!Steps
  BY <1>2, YetFacts DEF SessionInv, Yet
<1>4. q \in Sessions!Steps /\ q.step = "replace" /\ q.old = asked[r].old /\ q.signIn = asked[r].signIn
  BY <1>3 DEF Sessions!Steps
<1>5. asked'[r] = to /\ \A other \in Requests : other # r => asked'[other] = asked[other]
  BY <1>2, MovedFacts DEF SessionInv
<1>6. /\ signIns \in 0 .. Cardinality(Sessions!Ids) /\ Cardinality(Sessions!Ids) \in Nat /\ asked[r].signIn \in 0 .. signIns
      /\ \A s \in Sessions!Ids : session[s].signIn \in 1 .. signIns
  BY <1>2, IdFacts DEF SessionInv, Numbered, AskedWell, Yet
<1>7. signIns' \in 0 .. n /\ signIns' >= signIns /\ sign \in 1 .. signIns' /\ sign \in 1 .. n /\ signIns \in Nat /\ n \in Nat
  BY <1>1, <1>6
<1>8. Sessions!TypeOK'
  <2>1. session'[n] \in Sessions!Opened
    <3>1. sign \in 1 .. MaxSessions
      BY <1>1, <1>7, IdFacts
    <3>2. now + asked[r].ttl \in Nat
      <4>1. now \in Nat
        BY SessionsAssumption DEF SessionInv, Sessions!TypeOK, Sessions!SessionAssumption
      <4> QED
        BY <1>3, <4>1 DEF Sessions!Steps
    <3>3. asked[r].of \in Persons /\ asked[r].to \in Companies
      BY <1>3 DEF Sessions!Steps
    <3> QED
      BY <1>1, <3>1, <3>2, <3>3 DEF Sessions!Opened
  <2>2. \A s \in Sessions!Ids' : session'[s] \in Sessions!Opened
    BY <1>1, <2>1 DEF SessionInv, Sessions!TypeOK
  <2>3. asked' \in [Requests -> Sessions!Steps \cup {Sessions!Idle}]
    BY <1>2, <1>4 DEF SessionInv, Sessions!TypeOK
  <2>4. signIns' \in 0 .. MaxSessions
    BY <1>1, <1>7, IdFacts
  <2>5. Sessions!Ids' = 1 .. Sessions!Cardinality(Sessions!Ids')
    BY <1>1, SameCardinality
  <2>6. now' \in 0 .. MaxNow /\ member' \subseteq Persons \X Companies
    BY <1>2 DEF SessionInv, Sessions!TypeOK
  <2> QED
    BY <2>2, <2>3, <2>4, <2>5, <2>6 DEF Sessions!TypeOK
<1> HIDE DEF q
<1>9. Numbered'
  <2>1. signIns' \in 0 .. Cardinality(Sessions!Ids') /\ Cardinality(Sessions!Ids') \in 0 .. MaxSessions
    BY <1>1, <1>7
  <2>2. session'[n].signIn = sign
    BY <1>1
  <2>3. \A s \in Sessions!Ids : session'[s].signIn \in 1 .. signIns'
    BY <1>1, <1>6, <1>7
  <2> QED
    BY <1>1, <1>7, <2>1, <2>2, <2>3 DEF Numbered
<1>10. AskedWell'
  <2>1. ASSUME NEW x \in Requests, asked'[x] # Sessions!Idle PROVE asked'[x].signIn \in 0 .. signIns' /\ asked'[x].old \in {0} \cup Sessions!Ids'
    <3>1. asked[x] # Sessions!Idle /\ asked'[x].signIn = asked[x].signIn /\ asked'[x].old = asked[x].old
      BY <1>2, <1>4, <1>5, <2>1 DEF Yet
    <3>2. asked[x].signIn \in 0 .. signIns /\ asked[x].old \in {0} \cup Sessions!Ids
      BY <3>1 DEF SessionInv, AskedWell
    <3> QED
      BY <1>1, <1>7, <3>1, <3>2
  <2>2. ASSUME NEW x \in Requests, x # r, NEW step \in {"close", "open", "replace"}, Yet(x, step)' PROVE Yet(x, step) /\ asked'[x] = asked[x]
    BY <1>5, <2>2 DEF Yet
  <2>3. asked[r].old \in {0} \cup Sessions!Ids
    BY <1>2 DEF SessionInv, AskedWell, Yet
  <2>4. ASSUME NEW x \in Requests, Yet(x, "close")' \/ Yet(x, "replace")' PROVE asked'[x].old \in Sessions!Ids'
    BY <1>1, <1>4, <1>5, <2>2, <2>3, <2>4 DEF SessionInv, AskedWell, Yet
  <2>5. ASSUME NEW x \in Requests, Yet(x, "close")' PROVE asked'[x].signIn = session'[asked'[x].old].signIn
    <3>1. x # r
      BY <1>4, <1>5, <2>5 DEF Yet, Sessions!Idle
    <3> QED
      BY <1>1, <2>2, <2>5, <3>1 DEF SessionInv, AskedWell
  <2> QED
    BY <2>1, <2>4, <2>5 DEF AskedWell
<1>11. OneTicket'
  <2>1. Sessions!Ids' = Sessions!Ids \cup {n} /\ session'[n].signIn = sign
    BY <1>1
  <2>2. ASSUME NEW s \in Sessions!Ids PROVE session[s].signIn = session'[s].signIn /\ (Sessions!Live(s)' => Sessions!Live(s))
    BY <1>1 DEF Sessions!Live
  <2>3. ASSUME NEW s \in Sessions!Ids, Sessions!Live(s)' PROVE session[s].signIn # sign
    <3>1. CASE asked[r].signIn = 0
      BY <1>1, <1>6, <3>1
    <3>2. CASE asked[r].signIn # 0
      BY <1>1, <1>2, <2>2, <2>3, <3>2 DEF SessionInv, OneTicket
    <3> QED
      BY <3>1, <3>2
  <2>4. ASSUME NEW x \in Requests, Yet(x, "open")' PROVE x # r /\ Yet(x, "open") /\ asked'[x] = asked[x]
    BY <1>4, <1>5, <2>4 DEF Yet, Sessions!Idle
  <2>5. ASSUME NEW x \in Requests, Yet(x, "open")' PROVE asked[x].signIn # sign
    <3>1. asked[x].signIn \in 0 .. signIns
      BY <2>4, <2>5 DEF SessionInv, AskedWell, Yet
    <3>2. CASE asked[r].signIn = 0
      BY <1>1, <1>6, <3>1, <3>2
    <3>3. CASE asked[r].signIn # 0
      BY <1>1, <1>2, <2>4, <2>5, <3>3 DEF SessionInv, OneTicket
    <3> QED
      BY <3>2, <3>3
  <2>6. \A s, t \in Sessions!Ids' : Sessions!Live(s)' /\ Sessions!Live(t)' /\ session'[s].signIn = session'[t].signIn => s = t
    BY <2>1, <2>2, <2>3 DEF SessionInv, OneTicket
  <2>7. \A x, y \in Requests : Yet(x, "open")' /\ Yet(y, "open")' /\ asked'[x].signIn = asked'[y].signIn /\ asked'[x].signIn # 0 => x = y
    BY <2>4 DEF SessionInv, OneTicket
  <2>8. \A x \in Requests, s \in Sessions!Ids' : Yet(x, "open")' /\ Sessions!Live(s)' => asked'[x].signIn # session'[s].signIn
    BY <2>1, <2>2, <2>4, <2>5 DEF SessionInv, OneTicket
  <2> QED
    BY <2>6, <2>7, <2>8 DEF OneTicket
<1> QED
  BY <1>8, <1>9, <1>10, <1>11 DEF SessionInv

LEMMA RevokeOnlyEnds ==
  ASSUME NEW p, NEW c, Sessions!RevokeMember(p, c)
  PROVE  OnlyEnds
<1>1. Sessions!Ids' = Sessions!Ids
  BY DEF Sessions!RevokeMember, Sessions!Ids
<1>2. ASSUME NEW s \in Sessions!Ids PROVE session'[s] \in {session[s], [session[s] EXCEPT !.live = FALSE]}
  BY <1>2 DEF Sessions!RevokeMember
<1> QED
  BY <1>1, <1>2 DEF OnlyEnds

LEMMA ReplaceOnlyEnds ==
  ASSUME SessionInv, NEW r \in Requests, Sessions!Replace(r)
  PROVE  OnlyEnds
<1>1. asked[r].old \in Sessions!Ids
  BY DEF Sessions!Replace, SessionInv, AskedWell, Yet
<1> QED
  BY <1>1, EndedOnlyEnds DEF Sessions!Replace, SessionInv

LEMMA InitSession == Sessions!Init => SessionInv
<1> SUFFICES ASSUME Sessions!Init PROVE SessionInv
  OBVIOUS
<1>1. Sessions!Ids = {} /\ Cardinality(Sessions!Ids) = 0 /\ 1 .. 0 = {}
  BY FS_EmptySet DEF Sessions!Init, Sessions!Ids
<1>2. \A r \in Requests : asked[r] = Sessions!Idle
  BY DEF Sessions!Init
<1>3. Sessions!TypeOK
  BY <1>1, SameCardinality, SessionsAssumption DEF Sessions!Init, Sessions!TypeOK, Sessions!SessionAssumption
<1>4. Numbered
  BY <1>1, SessionsAssumption DEF Sessions!Init, Numbered, Sessions!SessionAssumption
<1>5. AskedWell /\ OneTicket
  BY <1>1, <1>2 DEF AskedWell, OneTicket, Yet
<1> QED
  BY <1>3, <1>4, <1>5 DEF SessionInv

LEMMA NextSession == SessionInv /\ [Sessions!Next]_sessions => SessionInv'
<1> SUFFICES ASSUME SessionInv, [Sessions!Next]_sessions PROVE SessionInv'
  OBVIOUS
<1>t. now \in 0 .. MaxNow /\ member \subseteq Persons \X Companies
  BY DEF SessionInv, Sessions!TypeOK
<1>1. ASSUME NEW r \in Requests, NEW p \in Persons, NEW c \in Companies, NEW old \in {0} \cup Sessions!Ids, Sessions!SignIn(r, p, c, old)
      PROVE  SessionInv'
  BY <1>1, SignInKeeps
<1>2. ASSUME NEW r \in Requests, NEW s \in Sessions!Ids, NEW c \in Companies, Sessions!Switch(r, s, c) PROVE SessionInv'
  BY <1>2, SwitchKeeps
<1>3. ASSUME NEW r \in Requests, Sessions!Close(r) PROVE SessionInv'
  BY <1>3, CloseKeeps
<1>4. ASSUME NEW r \in Requests, Sessions!Open(r) PROVE SessionInv'
  BY <1>4, OpenKeeps
<1>5. ASSUME NEW r \in Requests, Sessions!OpenFails(r) PROVE SessionInv'
  BY <1>5, <1>t, SameRowsOnlyEnd, RestingKeeps DEF Sessions!OpenFails
<1>6. ASSUME NEW r \in Requests, Sessions!Replace(r) PROVE SessionInv'
  <2>1. OnlyEnds
    BY <1>6, ReplaceOnlyEnds
  <2> QED
    BY <1>6, <1>t, <2>1, RestingKeeps DEF Sessions!Replace
<1>7. ASSUME NEW s \in Sessions!Ids, Sessions!SignOut(s) PROVE SessionInv'
  <2>1. OnlyEnds
    BY <1>7, EndedOnlyEnds DEF Sessions!SignOut, SessionInv
  <2> QED
    BY <1>7, <1>t, <2>1, RestingKeeps DEF Sessions!SignOut
<1>8. ASSUME NEW p \in Persons, NEW c \in Companies, Sessions!RevokeMember(p, c) PROVE SessionInv'
  <2>1. now' = now /\ signIns' = signIns /\ asked' = asked /\ member' \subseteq Persons \X Companies
    BY <1>8, <1>t DEF Sessions!RevokeMember
  <2> QED
    BY <1>8, <1>t, <2>1, RevokeOnlyEnds, RestingKeeps
<1>9. ASSUME NEW p \in Persons, NEW c \in Companies, Sessions!Join(p, c) PROVE SessionInv'
  <2>1. now' = now /\ signIns' = signIns /\ asked' = asked /\ session' = session /\ member' \subseteq Persons \X Companies
    BY <1>9, <1>t DEF Sessions!Join
  <2> QED
    BY <1>t, <2>1, SameRowsOnlyEnd, RestingKeeps
<1>10. CASE Sessions!Tick
  <2>1. now' \in 0 .. MaxNow
    BY <1>10, <1>t, SessionsAssumption DEF Sessions!Tick, Sessions!SessionAssumption
  <2> QED
    BY <1>10, <1>t, <2>1, SameRowsOnlyEnd, RestingKeeps DEF Sessions!Tick
<1>11. CASE UNCHANGED sessions
  BY <1>11, <1>t, SameRowsOnlyEnd, RestingKeeps DEF sessions
<1> QED
  BY <1>1, <1>2, <1>3, <1>4, <1>5, <1>6, <1>7, <1>8, <1>9, <1>10, <1>11 DEF Sessions!Next

-----------------------------------------------------------------------------
LEMMA AtMostOne ==
  ASSUME NEW S, \A x, y \in S : x = y
  PROVE  Cardinality(S) \in {0, 1} /\ (S = {} => Cardinality(S) = 0)
<1>1. CASE S = {}
  BY <1>1, FS_EmptySet
<1>2. CASE S # {}
  <2>1. PICK x \in S : TRUE
    BY <1>2
  <2>2. S = {x}
    BY <2>1
  <2> QED
    BY <1>2, <2>2, FS_Singleton
<1> QED
  BY <1>1, <1>2

LEMMA TicketsAreSingle == SessionInv => Sessions!OneAtATime
<1> SUFFICES ASSUME SessionInv, NEW i \in 1 .. signIns
             PROVE  Sessions!Cardinality({s \in Sessions!Ids : Sessions!Live(s) /\ session[s].signIn = i})
                      + Sessions!Cardinality({r \in Requests : asked[r] # Sessions!Idle /\ asked[r].step = "open" /\ asked[r].signIn = i}) <= 1
  BY DEF Sessions!OneAtATime
<1> DEFINE live == {s \in Sessions!Ids : Sessions!Live(s) /\ session[s].signIn = i}
           opening == {r \in Requests : asked[r] # Sessions!Idle /\ asked[r].step = "open" /\ asked[r].signIn = i}
<1>0. i # 0
  BY IdFacts DEF SessionInv, Numbered
<1>1. \A s, t \in live : s = t
  BY DEF SessionInv, OneTicket
<1>2. \A r, q \in opening : r = q
  BY <1>0 DEF SessionInv, OneTicket, Yet
<1>3. live = {} \/ opening = {}
  BY DEF SessionInv, OneTicket, Yet
<1> HIDE DEF live, opening
<1>4. Cardinality(live) \in {0, 1} /\ (live = {} => Cardinality(live) = 0)
  BY <1>1, AtMostOne
<1>5. Cardinality(opening) \in {0, 1} /\ (opening = {} => Cardinality(opening) = 0)
  BY <1>2, AtMostOne
<1>6. Sessions!Cardinality(live) + Sessions!Cardinality(opening) <= 1
  BY <1>3, <1>4, <1>5, SameCardinality
<1> QED
  BY <1>6 DEF live, opening

-----------------------------------------------------------------------------
(* A step that opens neither a session nor a switch's next one leaves what *)
(* is over, over.                                                          *)
LEMMA StillOver ==
  ASSUME SessionInv, OnlyEnds, NEW i, Sessions!Over(i),
         \A r \in Requests : Yet(r, "open")' /\ asked'[r].signIn = i => Yet(r, "open") /\ asked[r].signIn = i
  PROVE  Sessions!Over(i)'
<1>1. ~Sessions!Opening(i)'
  BY DEF Sessions!Over, Sessions!Opening, Yet
<1>2. \A s \in Sessions!Ids' : session'[s].signIn = i => ~Sessions!Live(s)'
  BY OnlyEndsFacts DEF SessionInv, OnlyEnds, Sessions!Over
<1> QED
  BY <1>1, <1>2 DEF Sessions!Over

LEMMA OverStep ==
  ASSUME SessionInv, [Sessions!Next]_sessions, NEW i \in 1 .. signIns, Sessions!Over(i)
  PROVE  Sessions!Over(i)'
<1>0. i # 0 /\ (asked' = asked => \A r \in Requests : Yet(r, "open")' /\ asked'[r].signIn = i => Yet(r, "open") /\ asked[r].signIn = i)
  BY IdFacts DEF SessionInv, Numbered, Yet
<1>a. \A r \in Requests : ~(Yet(r, "open") /\ asked[r].signIn = i)
  BY DEF Sessions!Over, Sessions!Opening, Yet
<1>b. ASSUME NEW r \in Requests, NEW q, asked' = [asked EXCEPT ![r] = q], q.step # "open" \/ q.signIn # i
      PROVE  \A x \in Requests : Yet(x, "open")' /\ asked'[x].signIn = i => Yet(x, "open") /\ asked[x].signIn = i
  <2>1. asked'[r] = q /\ \A x \in Requests : x # r => asked'[x] = asked[x]
    BY <1>b, MovedFacts DEF SessionInv
  <2> QED
    BY <1>b, <2>1 DEF Yet
<1>1. ASSUME NEW r \in Requests, NEW p \in Persons, NEW c \in Companies, NEW old \in {0} \cup Sessions!Ids, Sessions!SignIn(r, p, c, old)
      PROVE  Sessions!Over(i)'
  <2> DEFINE q == [step |-> "open", of |-> p, to |-> c, old |-> old, ttl |-> Week, signIn |-> 0]
  <2>1. asked' = [asked EXCEPT ![r] = q] /\ q.signIn # i /\ session' = session
    BY <1>0, <1>1 DEF Sessions!SignIn
  <2> HIDE DEF q
  <2> QED
    BY <1>b, <2>1, SameRowsOnlyEnd, StillOver
<1>2. ASSUME NEW r \in Requests, NEW s \in Sessions!Ids, NEW c \in Companies, Sessions!Switch(r, s, c) PROVE Sessions!Over(i)'
  <2> DEFINE q == [step |-> "close", of |-> session[s].of, to |-> c, old |-> s, ttl |-> 0, signIn |-> session[s].signIn]
  <2>1. asked' = [asked EXCEPT ![r] = q] /\ q.step # "open" /\ session' = session
    BY <1>2 DEF Sessions!Switch
  <2> HIDE DEF q
  <2> QED
    BY <1>b, <2>1, SameRowsOnlyEnd, StillOver
<1>3. ASSUME NEW r \in Requests, Sessions!Close(r) PROVE Sessions!Over(i)'
  <2> DEFINE s == asked[r].old
             q == [asked[r] EXCEPT !.step = "open", !.ttl = session[s].ends - now]
  <2>1. s \in Sessions!Ids /\ asked[r].signIn = session[s].signIn /\ asked[r] \in Sessions!Steps
    BY <1>3, YetFacts DEF SessionInv, AskedWell, Sessions!Close, Yet
  <2>2. CASE Sessions!Live(s)
    <3>1. OnlyEnds
      BY <1>3, <2>1, <2>2, EndedOnlyEnds DEF Sessions!Close, SessionInv
    <3>2. q.signIn # i
      BY <2>1, <2>2 DEF Sessions!Over, Sessions!Steps
    <3>3. asked' = [asked EXCEPT ![r] = q] \/ asked' = [asked EXCEPT ![r] = Sessions!Idle]
      BY <1>3, <2>2 DEF Sessions!Close
    <3> HIDE DEF q
    <3>4. Sessions!Idle.step # "open"
      BY DEF Sessions!Idle
    <3> QED
      BY <1>b, <3>1, <3>2, <3>3, <3>4, StillOver
  <2>3. CASE ~Sessions!Live(s)
    <3>1. asked' = [asked EXCEPT ![r] = Sessions!Idle] /\ session' = session
      BY <1>3, <2>3 DEF Sessions!Close
    <3>2. Sessions!Idle.step # "open"
      BY DEF Sessions!Idle
    <3> QED
      BY <1>b, <3>1, <3>2, SameRowsOnlyEnd, StillOver
  <2> QED
    BY <2>2, <2>3
<1>4. ASSUME NEW r \in Requests, Sessions!Open(r) PROVE Sessions!Over(i)'
  <2>1. PICK n, sign :
            /\ n = Cardinality(Sessions!Ids) + 1
            /\ Sessions!Ids' = Sessions!Ids \cup {n} /\ n \notin Sessions!Ids
            /\ Sessions!Ids' = 1 .. n /\ n \in 1 .. MaxSessions /\ Cardinality(Sessions!Ids') = n
            /\ \A s \in Sessions!Ids : session'[s] = session[s]
            /\ session'[n] = [of |-> asked[r].of, at |-> asked[r].to, ends |-> now + asked[r].ttl, live |-> TRUE, signIn |-> sign]
            /\ \/ asked[r].signIn = 0 /\ sign = signIns + 1 /\ signIns' = sign
               \/ asked[r].signIn # 0 /\ sign = asked[r].signIn /\ signIns' = signIns
    BY <1>4, OpenFacts
  <2>2. Yet(r, "open") /\ \E to : asked' = [asked EXCEPT ![r] = to] /\ to.step # "open"
    <3> DEFINE to == IF asked[r].signIn = 0 /\ asked[r].old # 0 THEN [asked[r] EXCEPT !.step = "replace"] ELSE Sessions!Idle
    <3>1. Yet(r, "open") /\ asked' = [asked EXCEPT ![r] = to]
      BY <1>4 DEF Sessions!Open, Yet
    <3>2. asked[r] \in Sessions!Steps
      BY <3>1, YetFacts DEF SessionInv, Yet
    <3>3. to.step # "open"
      BY <3>2 DEF Sessions!Steps, Sessions!Idle
    <3> QED
      BY <3>1, <3>3
  <2>3. sign # i
    <3>1. signIns \in Nat
      BY IdFacts DEF SessionInv, Numbered
    <3> QED
      BY <1>a, <2>1, <2>2, <3>1
  <2>4. \A x \in Requests : Yet(x, "open")' /\ asked'[x].signIn = i => Yet(x, "open") /\ asked[x].signIn = i
    BY <1>b, <2>2
  <2>5. ~Sessions!Opening(i)'
    BY <1>a, <2>4 DEF Sessions!Opening, Yet
  <2>6. ASSUME NEW s \in Sessions!Ids', session'[s].signIn = i PROVE ~Sessions!Live(s)'
    <3>1. s \in Sessions!Ids
      BY <2>1, <2>3, <2>6
    <3> QED
      BY <2>1, <2>6, <3>1 DEF Sessions!Over, Sessions!Live
  <2> QED
    BY <2>5, <2>6 DEF Sessions!Over
<1>5. ASSUME NEW r \in Requests, Sessions!OpenFails(r) PROVE Sessions!Over(i)'
  <2>1. asked' = [asked EXCEPT ![r] = Sessions!Idle] /\ session' = session /\ Sessions!Idle.step # "open"
    BY <1>5 DEF Sessions!OpenFails, Sessions!Idle
  <2> QED
    BY <1>b, <2>1, SameRowsOnlyEnd, StillOver
<1>6. ASSUME NEW r \in Requests, Sessions!Replace(r) PROVE Sessions!Over(i)'
  <2>1. asked' = [asked EXCEPT ![r] = Sessions!Idle] /\ Sessions!Idle.step # "open"
    BY <1>6 DEF Sessions!Replace, Sessions!Idle
  <2> QED
    BY <1>6, <1>b, <2>1, ReplaceOnlyEnds, StillOver
<1>7. ASSUME NEW s \in Sessions!Ids, Sessions!SignOut(s) PROVE Sessions!Over(i)'
  <2>1. OnlyEnds /\ asked' = asked
    BY <1>7, EndedOnlyEnds DEF Sessions!SignOut, SessionInv
  <2> QED
    BY <1>0, <2>1, StillOver
<1>8. ASSUME NEW p \in Persons, NEW c \in Companies, Sessions!RevokeMember(p, c) PROVE Sessions!Over(i)'
  <2>1. asked' = asked
    BY <1>8 DEF Sessions!RevokeMember
  <2> QED
    BY <1>0, <1>8, <2>1, RevokeOnlyEnds, StillOver
<1>9. CASE asked' = asked /\ session' = session
  BY <1>0, <1>9, SameRowsOnlyEnd, StillOver
<1> QED
  BY <1>1, <1>2, <1>3, <1>4, <1>5, <1>6, <1>7, <1>8, <1>9 DEF Sessions!Next, Sessions!Join, Sessions!Tick, sessions

(* Rows are opened, or they end.                                           *)
LEMMA RowsStep ==
  ASSUME SessionInv, [Sessions!Next]_sessions
  PROVE  OnlyEnds \/ \E r \in Requests : Sessions!Open(r)
<1>1. ASSUME NEW r \in Requests, Sessions!Close(r) PROVE OnlyEnds
  <2>1. asked[r].old \in Sessions!Ids
    BY <1>1 DEF SessionInv, AskedWell, Sessions!Close, Yet
  <2> QED
    BY <1>1, <2>1, EndedOnlyEnds, SameRowsOnlyEnd DEF Sessions!Close, SessionInv
<1>2. ASSUME NEW r \in Requests, Sessions!Replace(r) PROVE OnlyEnds
  BY <1>2, ReplaceOnlyEnds
<1>3. ASSUME NEW s \in Sessions!Ids, Sessions!SignOut(s) PROVE OnlyEnds
  BY <1>3, EndedOnlyEnds DEF Sessions!SignOut, SessionInv
<1>4. ASSUME NEW p \in Persons, NEW c \in Companies, Sessions!RevokeMember(p, c) PROVE OnlyEnds
  BY <1>4, RevokeOnlyEnds
<1>5. CASE session' = session
  BY <1>5, SameRowsOnlyEnd
<1> QED
  BY <1>1, <1>2, <1>3, <1>4, <1>5
  DEF Sessions!Next, Sessions!SignIn, Sessions!Switch, Sessions!OpenFails, Sessions!Join, Sessions!Tick, sessions

(* Nothing but the end of a row, of a membership or of its time makes a    *)
(* session unusable, and the end of a membership ends its rows.            *)
LEMMA StopStep ==
  ASSUME SessionInv, [Sessions!Next]_sessions, NEW s \in Sessions!Ids, Sessions!Authenticated(s)
  PROVE  Sessions!Authenticated(s)' \/ ~Sessions!Live(s)' \/ session'[s].ends <= now'
<1> SUFFICES ASSUME Sessions!Live(s)', ~(session'[s].ends <= now') PROVE Sessions!Authenticated(s)'
  OBVIOUS
<1>0. Sessions!Live(s) /\ session[s].ends > now /\ <<session[s].of, session[s].at>> \in member
  BY DEF Sessions!Authenticated, Sessions!Belongs
<1>1. session'[s] = session[s]
  <2>1. CASE OnlyEnds
    BY <2>1, OnlyEndsFacts DEF SessionInv
  <2>2. CASE \E r \in Requests : Sessions!Open(r)
    BY <2>2, OpenFacts
  <2> QED
    BY <2>1, <2>2, RowsStep
<1>2. <<session[s].of, session[s].at>> \in member'
  <2>1. ASSUME NEW p \in Persons, NEW c \in Companies, Sessions!RevokeMember(p, c) PROVE <<session[s].of, session[s].at>> \in member'
    <3>1. ASSUME session[s].of = p, session[s].at = c PROVE FALSE
      <4>1. session'[s] = [session[s] EXCEPT !.live = FALSE] /\ session[s] \in Sessions!Opened
        BY <2>1, <3>1 DEF Sessions!RevokeMember, SessionInv, Sessions!TypeOK
      <4>2. session'[s].live = FALSE
        BY <4>1 DEF Sessions!Opened
      <4> QED
        BY <4>2 DEF Sessions!Live
    <3> QED
      BY <1>0, <2>1, <3>1 DEF Sessions!RevokeMember
  <2> QED
    BY <1>0, <2>1 DEF Sessions!Next, Sessions!SignIn, Sessions!Switch, Sessions!Close, Sessions!Open, Sessions!OpenFails, Sessions!Replace, Sessions!SignOut, Sessions!Join, Sessions!Tick, sessions
<1>3. session'[s].ends \in Nat /\ now' \in Nat
  <2>1. SessionInv'
    BY NextSession
  <2>2. now' \in Nat
    BY <2>1, SessionsAssumption DEF SessionInv, Sessions!TypeOK, Sessions!SessionAssumption
  <2> QED
    BY <1>1, <2>2, RowFacts DEF SessionInv
<1> QED
  BY <1>1, <1>2, <1>3 DEF Sessions!Authenticated, Sessions!Belongs

-----------------------------------------------------------------------------
(* The run's specification takes the steps of the one component or of the  *)
(* other, so what each promises holds of both.                             *)
LEMMA BothInit == MCInit => Init /\ Sessions!Init
  BY DEF MCInit

LEMMA BothNext == [MCNext]_<<vars, sessions, case>> => [Next]_vars /\ [Sessions!Next]_sessions
  BY DEF MCNext

(* One sign-in never has two companies open, one that is over stays over,  *)
(* and a session stops only for good, for any number of people, companies  *)
(* and requests in any order.                                              *)
THEOREM SignInsAreSingle == MCSpec => SignInsEnd
<1>1. SessionInv /\ [Sessions!Next]_sessions => [\A i \in 1 .. signIns : Sessions!Over(i) => Sessions!Over(i)']_sessions
  BY OverStep
<1>2. SessionInv /\ [Sessions!Next]_sessions =>
        [\A s \in Sessions!Ids : Sessions!Authenticated(s) => Sessions!Authenticated(s)' \/ ~Sessions!Live(s)' \/ session'[s].ends <= now']_sessions
  BY StopStep
<1> QED
  BY <1>1, <1>2, BothInit, BothNext, InitSession, NextSession, TicketsAreSingle, PTL
  DEF MCSpec, SignInsEnd, Sessions!OverIsOver, Sessions!StopsForGood, Sessions!vars, sessions

(* Everything reachable is of its type.                                    *)
THEOREM TypesCorrect == MCSpec => []TypesOK
  BY BothInit, BothNext, InitType, NextType, InitSession, NextSession, PTL DEF MCSpec, TypesOK, SessionInv, Sessions!vars, sessions
=============================================================================

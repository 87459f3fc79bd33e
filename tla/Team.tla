-------------------------------- MODULE Team --------------------------------
(***************************************************************************)
(* The people in one business: packages/platform/src/team.ts over the      *)
(* PostgreSQL access control and invitations of postgres-platform.ts.      *)
(*                                                                         *)
(* A request is authenticated first, which is when its permissions are     *)
(* read and its route's gate checked; it then waits for the company's      *)
(* write lock (apps/api/src/server.ts, asOneAction) and is served in one   *)
(* unit of work, reading the members again.  Between the two any number    *)
(* of other requests may be served.                                        *)
(***************************************************************************)
EXTENDS Naturals, FiniteSets

CONSTANTS
    People,
    Requests,     \* the requests in flight at once
    Invitations,  \* bound: the invitations ever sent
    RolesGiven,   \* bound: the roles anybody is invited as or changed to
    CustomHolds   \* what a member with tailored permissions may do

(* Permissions that tell the roles apart; the others go with one of these. *)
Permissions == {"business.transfer", "access.review", "ledger.read", "sales.finalise", "dashboard.read"}

ASSUME TeamAssumption ==
    /\ RolesGiven \subseteq {"admin", "accountant", "staff", "viewer"}
    /\ CustomHolds \subseteq Permissions

VARIABLES
    role,        \* [People -> MemberRoles \cup {"out"}]: the active membership
    invitation,  \* [Invitations -> Sent \cup {Unsent}]
    request      \* [Requests -> Waiting \cup {Idle}]

vars == <<role, invitation, request>>

RoleNames == {"owner", "admin", "accountant", "staff", "viewer"}
Invitable == RoleNames \ {"owner"}
MemberRoles == RoleNames \cup {"custom"}

ROLES ==
    [owner      |-> Permissions,
     admin      |-> Permissions \ {"business.transfer"},
     accountant |-> Permissions \ {"business.transfer", "access.review"},
     staff      |-> {"sales.finalise", "dashboard.read"},
     viewer     |-> {"dashboard.read"},
     custom     |-> CustomHolds,
     out        |-> {}]

Gate ==
    [invite     |-> {"access.review"},
     changeRole |-> {"access.review"},
     remove     |-> {"access.review"},
     transfer   |-> {"business.transfer"},
     leave      |-> {}]

Asks ==
    [kind : {"invite", "changeRole"}, whom : People, wanted : RolesGiven]
        \cup [kind : {"remove", "transfer"}, whom : People]
        \cup {[kind |-> "leave"]}
Idle == [state |-> "idle"]
Waiting == [state : {"waiting"}, by : People, held : SUBSET Permissions, ask : Asks]

Unsent == [state |-> "unsent"]
Sent == [state : {"open", "accepted", "revoked"}, to : People, role : Invitable, by : People]
Open(i) == invitation[i].state = "open"

-----------------------------------------------------------------------------
(* A business begins with one owner; others may be members whose           *)
(* permissions were given before roles existed.                            *)
Init ==
    /\ \E o \in People : role \in {r \in [People -> {"owner", "custom", "out"}] : \A p \in People : r[p] = "owner" <=> p = o}
    /\ invitation = [i \in Invitations |-> Unsent]
    /\ request = [r \in Requests |-> Idle]

Asking(kind) == {r \in Requests : request[r] # Idle /\ request[r].ask.kind = kind}
(* Bound: an invitation is asked for only while one is left to send.       *)
OneLeft == Cardinality(Asking("invite")) < Cardinality({i \in Invitations : invitation[i] = Unsent})

(* The session is found and its member's permissions read; the route's     *)
(* gate is checked against them.                                           *)
Authenticate(r, p, ask) ==
    /\ request[r] = Idle
    /\ role[p] # "out"
    /\ Gate[ask.kind] \subseteq ROLES[role[p]]
    /\ ask.kind = "invite" => OneLeft
    /\ request' = [request EXCEPT ![r] = [state |-> "waiting", by |-> p, held |-> ROLES[role[p]], ask |-> ask]]
    /\ UNCHANGED <<role, invitation>>

-----------------------------------------------------------------------------
(* What a served request finds.                                            *)
Me(q) == role[q.by]
Active(p) == role[p] # "out"
Other(q) == q.ask.whom # q.by /\ Active(q.ask.whom)

(* The roles only an owner may touch or give.                              *)
TailoredNamed(r) == r \in {"owner", "admin"}
Tailored(r) == r \in {"owner", "admin", "custom"}

MayManage(q, roles) ==
    /\ Active(q.by)
    /\ \/ Me(q) = "owner"
       \/ \A r \in roles : ~Tailored(r) /\ ROLES[r] \subseteq q.held

Invite(q) ==
    /\ q.ask.kind = "invite"
    /\ MayManage(q, {q.ask.wanted})
    /\ \E i \in Invitations :
         /\ invitation[i] = Unsent
         /\ invitation' = [invitation EXCEPT ![i] = [state |-> "open", to |-> q.ask.whom, role |-> q.ask.wanted, by |-> q.by]]
    /\ UNCHANGED role

ChangeRole(q) ==
    /\ q.ask.kind = "changeRole"
    /\ Other(q)
    /\ MayManage(q, {role[q.ask.whom], q.ask.wanted})
    /\ role' = [role EXCEPT ![q.ask.whom] = q.ask.wanted]
    /\ UNCHANGED invitation

(* revokeMember: the membership and the invitations the member sent and    *)
(* nobody took up end together (their sessions are in Session.tla).        *)
RevokedKeepingInvitations(p) ==
    /\ role' = [role EXCEPT ![p] = "out"]
    /\ UNCHANGED invitation
Revoked(p) ==
    /\ role' = [role EXCEPT ![p] = "out"]
    /\ invitation' = [i \in Invitations |->
         IF Open(i) /\ invitation[i].by = p THEN [invitation[i] EXCEPT !.state = "revoked"] ELSE invitation[i]]

Remove(q) ==
    /\ q.ask.kind = "remove"
    /\ Other(q)
    /\ MayManage(q, {role[q.ask.whom]})
    /\ Revoked(q.ask.whom)

TransferHeld(q) ==
    /\ q.ask.kind = "transfer"
    /\ Active(q.by)
    /\ Other(q)
    /\ role' = [role EXCEPT ![q.ask.whom] = "owner", ![q.by] = "admin"]
    /\ UNCHANGED invitation
Transfer(q) ==
    /\ q.ask.kind = "transfer"
    /\ Me(q) = "owner"
    /\ Other(q)
    /\ role' = [role EXCEPT ![q.ask.whom] = "owner", ![q.by] = "admin"]
    /\ UNCHANGED invitation

LeaveAnyway(q) ==
    /\ q.ask.kind = "leave"
    /\ Active(q.by)
    /\ Revoked(q.by)
Leave(q) ==
    /\ q.ask.kind = "leave"
    /\ Active(q.by)
    /\ Me(q) = "owner" => \E p \in People \ {q.by} : role[p] = "owner"
    /\ Revoked(q.by)

Does(q) == Invite(q) \/ ChangeRole(q) \/ Remove(q) \/ Transfer(q) \/ Leave(q)

Refuses(q) ==
    \/ q.ask.kind = "invite" /\ ~MayManage(q, {q.ask.wanted})
    \/ q.ask.kind = "changeRole" /\ ~(Other(q) /\ MayManage(q, {role[q.ask.whom], q.ask.wanted}))
    \/ q.ask.kind = "remove" /\ ~(Other(q) /\ MayManage(q, {role[q.ask.whom]}))
    \/ q.ask.kind = "transfer" /\ ~(Me(q) = "owner" /\ Other(q))
    \/ q.ask.kind = "leave" /\ Me(q) = "owner" /\ \A p \in People \ {q.by} : role[p] # "owner"
    \/ q.ask.kind = "leave" /\ ~Active(q.by)

(* One unit of work: the request does what it asked, or is refused and     *)
(* saves nothing.                                                          *)
Serve(r) ==
    /\ request[r] # Idle
    /\ Does(request[r])
    /\ request' = [request EXCEPT ![r] = Idle]

Refuse(r) ==
    /\ request[r] # Idle
    /\ Refuses(request[r])
    /\ request' = [request EXCEPT ![r] = Idle]
    /\ UNCHANGED <<role, invitation>>

-----------------------------------------------------------------------------
(* acceptInvitation, by the person who proved the address it was sent to.  *)
(* Anything else, a member already in the business included, is refused    *)
(* and marks nothing used.                                                 *)
AcceptAsSent(i) ==
    /\ Open(i)
    /\ ~Active(invitation[i].to)
    /\ invitation' = [invitation EXCEPT ![i].state = "used"]
    /\ role' = [role EXCEPT ![invitation[i].to] = invitation[i].role]
    /\ UNCHANGED request
Accept(i) ==
    /\ Open(i)
    /\ ~Active(invitation[i].to)
    /\ invitation' = [invitation EXCEPT ![i].state = "accepted"]
    /\ role' = [role EXCEPT ![invitation[i].to] = invitation[i].role]
    /\ UNCHANGED request

Next ==
    \/ \E r \in Requests, p \in People, ask \in Asks : Authenticate(r, p, ask)
    \/ \E r \in Requests : Serve(r) \/ Refuse(r)
    \/ \E i \in Invitations : Accept(i)

Spec == Init /\ [][Next]_vars

-----------------------------------------------------------------------------
TypeOK ==
    /\ role \in [People -> MemberRoles \cup {"out"}]
    /\ invitation \in [Invitations -> Sent \cup {Unsent}]
    /\ request \in [Requests -> Waiting \cup {Idle}]

Owners == {p \in People : role[p] = "owner"}

(* However hand-overs, removals and departures that were all allowed when  *)
(* they were asked for follow each other, the business keeps an owner      *)
(* (team.ts:6, roles.ts:59 "A business always has at least one").          *)
AlwaysAnOwner == Owners # {}

(* Every invitation that can still be taken up was sent by somebody who is *)
(* still in the business: removal and departure take them along, and a     *)
(* request of a removed member, authenticated before, sends no new one     *)
(* (postgres-platform.ts:280, team.ts:107).                                *)
SendersStay == \A i \in Invitations : Open(i) => Active(invitation[i].by)

(* The request whose service this step is.                                 *)
Served(r) == request[r] # Idle /\ request'[r] = Idle

(* Ownership comes only from an owner, who gives it up in the same step:   *)
(* no invitation, no change of role and no late request makes an owner     *)
(* (team.ts:6).                                                            *)
OnlyHandedOver ==
    [][\A p \in Owners' \ Owners : \E q \in Owners \ Owners' : role'[q] = "admin" /\ \E r \in Requests : Served(r) /\ request[r].by = q]_vars

(* An owner, an admin or a tailored member is changed or removed only by   *)
(* somebody who is an owner as it happens, whatever they were when they    *)
(* asked, or goes of their own accord (team.ts:90).                        *)
OnlyOwnersTouchThem ==
    [][\A p \in People : role[p] \in {"owner", "admin", "custom"} /\ role'[p] # role[p] =>
         \E r \in Requests : Served(r) /\ (request[r].by = p \/ Me(request[r]) = "owner")]_vars
=============================================================================

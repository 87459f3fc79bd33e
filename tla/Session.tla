------------------------------ MODULE Session -------------------------------
(***************************************************************************)
(* Sign-in sessions: apps/api/src/sign-in.ts over the sessions table of    *)
(* packages/platform/src/postgres-platform.ts.                             *)
(*                                                                         *)
(* A browser signs in once and may then switch between its person's        *)
(* companies, each switch ending the session it used and opening another.  *)
(* A sign-in and a switch are several statements with other requests in    *)
(* between; opening a session waits for its company's write lock first.    *)
(* Sessions are numbered as they are opened, and so are sign-ins.          *)
(***************************************************************************)
EXTENDS Naturals, FiniteSets

CONSTANTS
    People, Companies,
    Requests,     \* the requests in flight at once
    Week,         \* SESSION_ABSOLUTE_MS, in ticks
    MaxSessions,  \* bound: sessions ever opened
    MaxNow        \* bound: how far time goes

(* Assumed where this module is instantiated.                              *)
SessionAssumption == Week \in Nat /\ MaxSessions \in Nat /\ MaxNow \in Nat

VARIABLES
    now,
    member,   \* SUBSET (People \X Companies): active memberships
    session,  \* [1 .. number opened -> Opened]
    request,  \* [Requests -> what each has yet to do]
    signIns   \* history: how many there have been

vars == <<now, member, session, request, signIns>>

Ids == DOMAIN session
Opened == [of : People, at : Companies, ends : Nat, live : BOOLEAN, signIn : 1 .. MaxSessions]

Idle == [step |-> "idle"]
(* `old` is the session a request came with: the one a switch ends, or the *)
(* one a new sign-in on the same browser replaces (0 for none).            *)
Steps == [step : {"close", "open", "replace"}, of : People, to : Companies, old : 0 .. MaxSessions, ttl : Nat, signIn : 0 .. MaxSessions]

Live(s) == session[s].live
Belongs(p, c) == <<p, c>> \in member

(* authenticate: a live session that has not run out, of someone who is    *)
(* still a member.                                                         *)
Authenticated(s) == Live(s) /\ session[s].ends > now /\ Belongs(session[s].of, session[s].at)

-----------------------------------------------------------------------------
Init ==
    /\ now = 0
    /\ member \in SUBSET (People \X Companies)
    /\ session = <<>>
    /\ request = [r \in Requests |-> Idle]
    /\ signIns = 0

(* checkCode: the code was right; companiesOf names the companies the      *)
(* person may open, and one of them is chosen.                             *)
SignIn(r, p, c, old) ==
    /\ request[r] = Idle
    /\ Belongs(p, c)
    /\ request' = [request EXCEPT ![r] = [step |-> "open", of |-> p, to |-> c, old |-> old, ttl |-> Week, signIn |-> 0]]
    /\ UNCHANGED <<now, member, session, signIns>>

(* switchCompany, authenticated with session s: companiesOf finds c.       *)
Switch(r, s, c) ==
    /\ request[r] = Idle
    /\ Authenticated(s)
    /\ Belongs(session[s].of, c)
    /\ request' = [request EXCEPT ![r] =
         [step |-> "close", of |-> session[s].of, to |-> c, old |-> s, ttl |-> 0, signIn |-> session[s].signIn]]
    /\ UNCHANGED <<now, member, session, signIns>>

Ended(s) == [session EXCEPT ![s].live = FALSE]

(* closeSession: one statement ends a live session and says when it would  *)
(* have ended; one that has already ended is refused.                      *)
CloseAnyway(r) ==
    /\ request[r] # Idle
    /\ request[r].step = "close"
    /\ LET s == request[r].old IN
         /\ session' = Ended(s)
         /\ request' = [request EXCEPT ![r] = IF session[s].ends > now THEN [@ EXCEPT !.step = "open", !.ttl = session[s].ends - now] ELSE Idle]
    /\ UNCHANGED <<now, member, signIns>>
CloseForgotten(r) ==
    /\ request[r] # Idle
    /\ request[r].step = "close"
    /\ LET s == request[r].old IN
         request' = [request EXCEPT ![r] =
            IF Live(s) /\ session[s].ends > now THEN [@ EXCEPT !.step = "open", !.ttl = session[s].ends - now] ELSE Idle]
    /\ UNCHANGED <<now, member, session, signIns>>
Close(r) ==
    /\ request[r] # Idle
    /\ request[r].step = "close"
    /\ LET s == request[r].old IN
         IF Live(s)
         THEN /\ session' = Ended(s)
              /\ request' = [request EXCEPT ![r] = IF session[s].ends > now THEN [@ EXCEPT !.step = "open", !.ttl = session[s].ends - now] ELSE Idle]
         ELSE /\ request' = [request EXCEPT ![r] = Idle]
              /\ UNCHANGED session
    /\ UNCHANGED <<now, member, signIns>>

(* createSession, once the company's lock is free: the end is counted from *)
(* the moment the row is written.                                          *)
Open(r) ==
    /\ request[r] # Idle
    /\ request[r].step = "open"
    /\ Cardinality(Ids) < MaxSessions
    /\ LET q == request[r]
           n == Cardinality(Ids) + 1
           first == q.signIn = 0
           sign == IF first THEN signIns + 1 ELSE q.signIn
       IN  /\ session' = [s \in 1 .. n |->
                IF s = n THEN [of |-> q.of, at |-> q.to, ends |-> now + q.ttl, live |-> TRUE, signIn |-> sign] ELSE session[s]]
           /\ signIns' = IF first THEN sign ELSE signIns
           /\ request' = [request EXCEPT ![r] = IF first /\ q.old # 0 THEN [q EXCEPT !.step = "replace"] ELSE Idle]
    /\ UNCHANGED <<now, member>>

(* The company's lock was not free in time: nothing is opened.             *)
OpenFails(r) ==
    /\ request[r] # Idle
    /\ request[r].step = "open"
    /\ request' = [request EXCEPT ![r] = Idle]
    /\ UNCHANGED <<now, member, session, signIns>>

(* replaceSession: the browser's older session ends.                       *)
ReplaceRow(r) ==
    /\ request[r] # Idle
    /\ request[r].step = "replace"
    /\ session' = [s \in Ids \ {request[r].old} |-> session[s]]
    /\ request' = [request EXCEPT ![r] = Idle]
    /\ UNCHANGED <<now, member, signIns>>
Replace(r) ==
    /\ request[r] # Idle
    /\ request[r].step = "replace"
    /\ session' = Ended(request[r].old)
    /\ request' = [request EXCEPT ![r] = Idle]
    /\ UNCHANGED <<now, member, signIns>>

SignOut(s) ==
    /\ Authenticated(s)
    /\ session' = Ended(s)
    /\ UNCHANGED <<now, member, request, signIns>>

(* revokeMember: access and every open session end together.               *)
RevokeMemberOnly(p, c) ==
    /\ Belongs(p, c)
    /\ member' = member \ {<<p, c>>}
    /\ UNCHANGED <<now, session, request, signIns>>
RevokeMember(p, c) ==
    /\ Belongs(p, c)
    /\ member' = member \ {<<p, c>>}
    /\ session' = [s \in Ids |-> IF session[s].of = p /\ session[s].at = c THEN [session[s] EXCEPT !.live = FALSE] ELSE session[s]]
    /\ UNCHANGED <<now, request, signIns>>

(* acceptInvitation.                                                       *)
Join(p, c) ==
    /\ ~Belongs(p, c)
    /\ member' = member \cup {<<p, c>>}
    /\ UNCHANGED <<now, session, request, signIns>>

Tick ==
    /\ now < MaxNow
    /\ now' = now + 1
    /\ UNCHANGED <<member, session, request, signIns>>

Next ==
    \/ \E r \in Requests, p \in People, c \in Companies, old \in {0} \cup Ids : SignIn(r, p, c, old)
    \/ \E r \in Requests, s \in Ids, c \in Companies : Switch(r, s, c)
    \/ \E r \in Requests : Close(r) \/ Open(r) \/ OpenFails(r) \/ Replace(r)
    \/ \E s \in Ids : SignOut(s)
    \/ \E p \in People, c \in Companies : RevokeMember(p, c) \/ Join(p, c)
    \/ Tick

Spec == Init /\ [][Next]_vars

-----------------------------------------------------------------------------
TypeOK ==
    /\ now \in 0 .. MaxNow
    /\ member \subseteq People \X Companies
    /\ signIns \in 0 .. MaxSessions
    /\ Ids = 1 .. Cardinality(Ids)
    /\ \A s \in Ids : session[s] \in Opened
    /\ request \in [Requests -> Steps \cup {Idle}]

(* One sign-in never opens two companies: whatever switches are sent at    *)
(* once, at most one of its sessions is live, and none while a switch that *)
(* has ended one is about to open the next (sign-in.ts:137-146).           *)
OneAtATime ==
    \A i \in 1 .. signIns :
        Cardinality({s \in Ids : Live(s) /\ session[s].signIn = i})
            + Cardinality({r \in Requests : request[r] # Idle /\ request[r].step = "open" /\ request[r].signIn = i}) <= 1

(* A sign-in that is over stays over: once it has no live session and no   *)
(* switch has just ended one, no request that was already under way opens  *)
(* another (sign-in.ts:145, "only one finds it live").                     *)
Opening(i) == \E r \in Requests : request[r] # Idle /\ request[r].step = "open" /\ request[r].signIn = i
Over(i) == ~Opening(i) /\ \A s \in Ids : session[s].signIn = i => ~Live(s)
OverIsOver == [][\A i \in 1 .. signIns : Over(i) => Over(i)']_vars

(* A session that could be used stops only for good: it ended or ran out.  *)
(* Being taken back into a business revives nothing that was open when one *)
(* was removed (team.ts:8 "removing someone ends every session they have   *)
(* in this business at once").                                             *)
StopsForGood ==
    [][\A s \in Ids : Authenticated(s) => Authenticated(s)' \/ ~Live(s)' \/ session'[s].ends <= now']_vars
=============================================================================

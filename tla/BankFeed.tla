------------------------------ MODULE BankFeed -------------------------------
(* One connection to a bank and the account behind it (packages/bank-feeds): *)
(* the customer's permission, the lines brought in with it, and its end.     *)
(*                                                                           *)
(* The bank is never asked inside a unit of work.  A command reads in one,   *)
(* lets go, asks, and writes in a second that checks again, so whatever      *)
(* other commands do may come in between.  The process may die while it asks.*)
(*                                                                           *)
(* The bank is external.  It numbers its lines 1, 2, ... and a cursor says   *)
(* how many it has sent; it may send again what was sent before, and a line  *)
(* that cannot be trusted.                                                   *)
(*                                                                           *)
(* Left out: what the screen shows of a sync under way, balances, who may    *)
(* reply and how long a reply may take, more accounts and connections.       *)
EXTENDS Naturals, FiniteSets

CONSTANTS
    Callers, Keys, \* of requests; and those that syncs are sent under
    None,
    MaxLines, MaxLost \* bounds: the lines at the bank; the calls that never come back

VARIABLES
    link,    \* bank_feed_connections: its state, whether the bank named its permission, and whether its reply is used
    cursor,  \* bank_feed_accounts.cursor
    results, \* bank_feed_syncs: the lines that each key brought in
    bank,    \* at the bank: the permission, and how many lines it has
    call,    \* what each caller is at
    lost     \* the calls that never came back

vars == <<link, cursor, results, bank, call, lost>>

States == {"NONE", "PENDING_CONSENT", "CONNECTED", "TOKEN_EXPIRED", "REVOKED", "DISCONNECTED", "ERROR"}
Ended == {"TOKEN_EXPIRED", "REVOKED", "DISCONNECTED", "ERROR"}
Kinds == {"idle", "start", "complete", "sync", "disconnect"}
Idle == [kind |-> "idle", answer |-> None, key |-> None, from |-> 0, page |-> {}]

TypeOK ==
    /\ link \in [state : States, named : BOOLEAN, used : BOOLEAN]
    /\ cursor \in 0..MaxLines
    /\ \A k \in Keys : results[k] = None \/ results[k] \subseteq 1..MaxLines
    /\ bank \in [permission : {"none", "asked", "given", "over"}, lines : 0..MaxLines]
    /\ \A c \in Callers : call[c].kind \in Kinds /\ call[c].page \subseteq 1..MaxLines /\ call[c].from \in 0..MaxLines
    /\ lost \in 0..MaxLost

Init ==
    /\ link = [state |-> "NONE", named |-> FALSE, used |-> FALSE]
    /\ cursor = 0
    /\ results = [k \in Keys |-> None]
    /\ bank = [permission |-> "none", lines |-> 0]
    /\ call = [c \in Callers |-> Idle]
    /\ lost = 0

\* The bank lines on record: each belongs to the sync that brought it in.
Imported == UNION {results[k] : k \in {q \in Keys : results[q] # None}}

Ask(c, kind) == call' = [call EXCEPT ![c] = [Idle EXCEPT !.kind = kind]]
Done(c) == call' = [call EXCEPT ![c] = Idle]
Answered(c, kind, answers) == call[c].kind = kind /\ call[c].answer \in answers
To(state) == link' = [link EXCEPT !.state = state]

-----------------------------------------------------------------------------
(* Permission                                                                *)

\* A connection waits for permission; then the bank is asked for its page.
StartConsent(c) ==
    /\ call[c] = Idle /\ link.state = "NONE"
    /\ To("PENDING_CONSENT") /\ Ask(c, "start")
    /\ UNCHANGED <<cursor, results, bank, lost>>

\* The permission is named, unless the connection changed while the bank answered.
Unnamed == link.state = "PENDING_CONSENT" /\ ~link.named
ConsentStarted(c) ==
    /\ Answered(c, "start", {"ok", "outage"})
    /\ IF ~Unnamed THEN UNCHANGED link
       ELSE IF call[c].answer = "ok" THEN link' = [link EXCEPT !.named = TRUE]
       ELSE To("ERROR")
    /\ Done(c) /\ UNCHANGED <<cursor, results, bank, lost>>

\* The reply is spent before the bank is asked what it is worth.
Replying == link.state = "PENDING_CONSENT" /\ link.named
CompleteConsent(c) ==
    /\ call[c] = Idle /\ Replying /\ ~link.used
    /\ link' = [link EXCEPT !.used = TRUE]
    /\ Ask(c, "complete")
    /\ UNCHANGED <<cursor, results, bank, lost>>

ConsentCompleted(c) ==
    /\ Answered(c, "complete", {"ok", "outage", "refused"})
    /\ IF Replying THEN To(IF call[c].answer = "ok" THEN "CONNECTED" ELSE "ERROR") ELSE UNCHANGED link
    /\ Done(c) /\ UNCHANGED <<cursor, results, bank, lost>>

\* The bank is told first, if it gave anything; and what was read is not read again.
Disconnect(c) ==
    /\ call[c] = Idle /\ link.state \notin {"NONE", "DISCONNECTED"}
    /\ call' = [call EXCEPT ![c] =
          [Idle EXCEPT !.kind = "disconnect", !.answer = IF link.named /\ link.state # "REVOKED" THEN None ELSE "ok"]]
    /\ UNCHANGED <<link, cursor, results, bank, lost>>

Disconnected(c) ==
    /\ Answered(c, "disconnect", {"ok", "outage"})
    /\ IF call[c].answer = "ok" THEN To("DISCONNECTED") ELSE UNCHANGED link
    /\ Done(c) /\ UNCHANGED <<cursor, results, bank, lost>>

MarkRevoked ==
    /\ link.state # "NONE"
    /\ To("REVOKED")
    /\ UNCHANGED <<cursor, results, bank, call, lost>>

-----------------------------------------------------------------------------
(* Bringing lines in                                                         *)

\* The first unit of work of a sync.  A key that has a result is answered with
\* it and has no action.
Sync(c, k) ==
    /\ call[c] = Idle /\ results[k] = None /\ link.state = "CONNECTED"
    /\ IF bank.permission = "over" THEN To("TOKEN_EXPIRED") /\ UNCHANGED call
       ELSE /\ call' = [call EXCEPT ![c] = [Idle EXCEPT !.kind = "sync", !.key = k, !.from = cursor]]
            /\ UNCHANGED link
    /\ UNCHANGED <<cursor, results, bank, lost>>

\* The bank did not answer, or not with what can be trusted: nothing of it is
\* kept.  A connection that ended meanwhile stays ended.
SyncFailed(c) ==
    /\ Answered(c, "sync", {"outage", "refused", "untrusted"})
    /\ IF link.state = "CONNECTED" /\ call[c].answer = "refused" THEN To("TOKEN_EXPIRED") ELSE UNCHANGED link
    /\ Done(c) /\ UNCHANGED <<cursor, results, bank, lost>>

\* Bug: what is on record is what was on record when the bank was asked.
FreshAsRead(c) == call[c].page \ 1..call[c].from
\* The lines of a page that are not on record yet.
Fresh(c) == call[c].page \ Imported

\* Bug: the last sync to land says how far the account is.
AdvancedLast(c) == TRUE
\* The account is as it was when the bank was asked.
Advanced(c) == cursor = call[c].from

\* Bug: a sync that was under way when the connection ended still lands.
MayLandEnded(c) == results[call[c].key] = None
\* The connection and the key are looked at again in the second unit of work.
MayLand(c) == results[call[c].key] = None /\ link.state = "CONNECTED"

\* How far a page goes: everything the bank had when it answered.
NextCursor(c) == IF call[c].page = {} THEN call[c].from ELSE CHOOSE n \in call[c].page : \A m \in call[c].page : m <= n

Synced(c) ==
    /\ Answered(c, "sync", {"ok"})
    /\ IF MayLand(c)
       THEN /\ results' = [results EXCEPT ![call[c].key] = Fresh(c)]
            /\ cursor' = IF Advanced(c) THEN NextCursor(c) ELSE cursor
       ELSE UNCHANGED <<results, cursor>>
    /\ Done(c) /\ UNCHANGED <<link, bank, lost>>

-----------------------------------------------------------------------------
(* The bank, and calls that never come back                                  *)

Reply(c, answer) == call' = [call EXCEPT ![c].answer = answer]
Asking(c, kind) == call[c].kind = kind /\ call[c].answer = None

BankStarts(c) ==
    /\ Asking(c, "start")
    /\ bank' = [bank EXCEPT !.permission = "asked"] /\ Reply(c, "ok")
    /\ UNCHANGED <<link, cursor, results, lost>>

BankGrants(c) ==
    /\ Asking(c, "complete")
    /\ IF bank.permission = "asked" THEN bank' = [bank EXCEPT !.permission = "given"] /\ Reply(c, "ok")
       ELSE UNCHANGED bank /\ Reply(c, "refused")
    /\ UNCHANGED <<link, cursor, results, lost>>

\* Everything after the cursor, or from the start again.
BankSends(c) ==
    /\ Asking(c, "sync") /\ bank.permission = "given"
    /\ \E from \in {0, call[c].from} : call' = [call EXCEPT ![c].answer = "ok", ![c].page = (from + 1)..bank.lines]
    /\ UNCHANGED <<link, cursor, results, bank, lost>>

\* Bug: the lines that can be trusted are kept, and the cursor with them.
UntrustedKept(c) ==
    /\ Asking(c, "sync") /\ bank.permission = "given" /\ bank.lines > 0
    /\ \E bad \in (call[c].from + 1)..bank.lines :
          call' = [call EXCEPT ![c].answer = "ok", ![c].page = ((call[c].from + 1)..bank.lines) \ {bad}]
    /\ UNCHANGED <<link, cursor, results, bank, lost>>
\* A page with a line that cannot be trusted.
Untrusted(c) ==
    /\ Asking(c, "sync") /\ bank.permission = "given" /\ bank.lines > 0
    /\ Reply(c, "untrusted")
    /\ UNCHANGED <<link, cursor, results, bank, lost>>

BankRefuses(c) ==
    /\ Asking(c, "sync") /\ bank.permission # "given" /\ Reply(c, "refused")
    /\ UNCHANGED <<link, cursor, results, bank, lost>>

BankRevokes(c) ==
    /\ Asking(c, "disconnect")
    /\ bank' = [bank EXCEPT !.permission = "none"] /\ Reply(c, "ok")
    /\ UNCHANGED <<link, cursor, results, lost>>

Outage(c) ==
    /\ call[c].kind # "idle" /\ call[c].answer = None /\ lost < MaxLost
    /\ lost' = lost + 1 /\ Reply(c, "outage")
    /\ UNCHANGED <<link, cursor, results, bank>>

Die(c) ==
    /\ call[c].kind # "idle" /\ lost < MaxLost
    /\ lost' = lost + 1 /\ Done(c)
    /\ UNCHANGED <<link, cursor, results, bank>>

\* Money moves; the customer or the bank ends the permission, or its time is up.
Book ==
    /\ bank.lines < MaxLines
    /\ bank' = [bank EXCEPT !.lines = @ + 1]
    /\ UNCHANGED <<link, cursor, results, call, lost>>
Withdraw ==
    /\ bank.permission = "given"
    /\ \E p \in {"none", "over"} : bank' = [bank EXCEPT !.permission = p]
    /\ UNCHANGED <<link, cursor, results, call, lost>>

Next ==
    \/ \E c \in Callers :
          \/ StartConsent(c) \/ ConsentStarted(c) \/ CompleteConsent(c) \/ ConsentCompleted(c)
          \/ Disconnect(c) \/ Disconnected(c)
          \/ (\E k \in Keys : Sync(c, k)) \/ SyncFailed(c) \/ Synced(c)
          \/ BankStarts(c) \/ BankGrants(c) \/ BankSends(c) \/ Untrusted(c) \/ BankRefuses(c) \/ BankRevokes(c)
          \/ Outage(c) \/ Die(c)
    \/ MarkRevoked \/ Book \/ Withdraw

Spec == Init /\ [][Next]_vars

-----------------------------------------------------------------------------
(* However syncs overlap, repeat and fail, no line up to the cursor is       *)
(* missing and none is on record twice (bank-feeds/service.ts:247-251,       *)
(* bank-feeds-v1.md:19).                                                     *)
LinesComeOnce ==
    /\ 1..cursor \subseteq Imported
    /\ \A k, q \in Keys : k # q /\ results[k] # None /\ results[q] # None => results[k] \cap results[q] = {}

(* What a key was answered stays its answer, the account never goes back,    *)
(* and a connection that ended brings nothing more in and never comes back   *)
(* (:189-195, 201-204).                                                      *)
FeedStands ==
    [][/\ \A k \in Keys : results[k] # None => results'[k] = results[k]
       /\ cursor' >= cursor
       /\ link.state \in Ended => link'.state \in Ended /\ results' = results]_vars
=============================================================================

-------------------------------- MODULE Inbox --------------------------------
(* Suppliers' bills that arrive by message or upload, before anybody has     *)
(* accepted them (packages/purchasing/src/inbox.ts): held for no business    *)
(* while they are screened and wait for the virus scanner, moved into the    *)
(* books of the business they were delivered to, read there by a provider    *)
(* that may fail, and made into a draft.  A document delivered to an address *)
(* that several businesses share waits until one takes it.                   *)
(*                                                                           *)
(* The screening and the reading happen outside any transaction, each step   *)
(* saves what the process last knew of the document, and processes may stop. *)
(*                                                                           *)
(* All documents here carry one file.  Left out: what is read in them, the   *)
(* files' own storage, and who may see what waits.                           *)
EXTENDS Integers, FiniteSets

CONSTANTS
    Documents,      \* one for each time something is delivered
    Message,        \* the message a document came with: resent, it is the same one
    Reach,          \* the businesses on whose address it arrived
    Businesses,
    Processes,
    Overlap,        \* a document may be resumed while a slow process is still on it
    MaxAttempts,    \* bound: readings of a document
    MaxCrashes,     \* bound: processes that stop, or steps that fail
    None

VARIABLES
    held,           \* purchase_inbox_holding
    stored,         \* purchase_inbox_documents
    firstCopy,      \* purchase_inbox_contents: the document that brought the file to a business
    drafts,         \* purchase_inbox_drafts
    process,        \* what each process is doing
    arrived, taken, \* deliveries begun; those answered "we have it"
    cleared,        \* documents the scanner, or whoever delivered them, called clean
    expired, crashes

vars == <<held, stored, firstCopy, drafts, process, arrived, taken, cleared, expired, crashes>>

NotHeld == [status |-> "none", owners |-> {}, clean |-> FALSE]
NotStored == [business |-> None, status |-> "none", attempts |-> 0]
Idle == [at |-> "idle", document |-> None, clean |-> FALSE, business |-> None, attempts |-> 0]
Quiet == \A p \in Processes : process[p] = Idle
Holds == {"screening", "awaiting", "refused", "unidentified"}
Statuses == {"screening", "extracting", "failed", "mismatch", "quarantined", "received", "ready", "discarded"}
Final == {"ready", "discarded"}   \* the table freezes these

TypeOK ==
    /\ held \in [Documents -> {NotHeld} \cup [status : Holds, owners : SUBSET Businesses, clean : BOOLEAN]]
    /\ stored \in [Documents -> {NotStored} \cup [business : Businesses, status : Statuses, attempts : 1..MaxAttempts]]
    /\ firstCopy \in [Businesses -> Documents \cup {None}]
    /\ drafts \subseteq Documents
    /\ process \in [Processes -> {Idle} \cup
         [at : {"put", "screen", "route", "file", "extract", "read", "retry", "assign"},
          document : Documents, clean : BOOLEAN, business : Businesses \cup {None}, attempts : 0..MaxAttempts]]
    /\ taken \subseteq arrived /\ arrived \subseteq Documents
    /\ cleared \subseteq Documents /\ expired \subseteq Documents /\ crashes \in 0..MaxCrashes

Init ==
    /\ held = [d \in Documents |-> NotHeld]
    /\ stored = [d \in Documents |-> NotStored]
    /\ firstCopy = [b \in Businesses |-> None]
    /\ drafts = {} /\ arrived = {} /\ taken = {} /\ cleared = {} /\ expired = {} /\ crashes = 0
    /\ process = [p \in Processes |-> Idle]

IsHeld(d) == held[d] # NotHeld
IsStored(d) == stored[d] # NotStored
Copies(d) == {e \in Documents : e = d \/ (Message[d] # None /\ Message[e] = Message[d])}

At(p, step) == process[p].at = step
Goes(p, step) == process' = [process EXCEPT ![p].at = step]
Rests(p) == process' = [process EXCEPT ![p] = Idle]
Starts(p, step, d, clean, b, n) ==
    /\ process[p] = Idle
    /\ process' = [process EXCEPT ![p] = [at |-> step, document |-> d, clean |-> clean, business |-> b, attempts |-> n]]

\* save: what the process knows of a document it may no longer be alone on
Saved(d, status, owners) ==
    IF IsHeld(d) THEN [held EXCEPT ![d] = [@ EXCEPT !.status = status, !.owners = owners]] ELSE held
\* claim: a business may take what arrived on its address
Out(d, b) == IF b \in held[d].owners THEN [held EXCEPT ![d] = NotHeld] ELSE held

-----------------------------------------------------------------------------
(* Arriving (receive)                                                        *)

\* A message already in the books of a business it can have reached
Look(p, d) ==
    /\ d \notin arrived /\ arrived' = arrived \cup {d}
    /\ IF \E e \in Copies(d) : stored[e].business \in Reach[d]
       THEN taken' = taken \cup {d} /\ process[p] = Idle /\ UNCHANGED process
       ELSE Starts(p, "put", d, FALSE, None, 1) /\ UNCHANGED taken
    /\ UNCHANGED <<held, stored, firstCopy, drafts, cleared, expired, crashes>>

\* A message already held; else it is held before anything else happens.
Put(p) ==
    LET d == process[p].document
    IN /\ At(p, "put")
       /\ taken' = taken \cup {d}
       /\ IF \E e \in Copies(d) : IsHeld(e)
          THEN Rests(p) /\ UNCHANGED <<held, cleared>>
          ELSE \E clean \in BOOLEAN :
                 /\ held' = [held EXCEPT ![d] = [status |-> "screening", owners |-> {}, clean |-> clean]]
                 /\ cleared' = IF clean THEN cleared \cup {d} ELSE cleared
                 /\ process' = [process EXCEPT ![p].at = "screen", ![p].clean = clean]
       /\ UNCHANGED <<stored, firstCopy, drafts, arrived, expired, crashes>>

Screen(p) ==
    LET d == process[p].document
    IN /\ At(p, "screen")
       /\ \/ held' = Saved(d, "refused", {}) /\ Rests(p)
          \/ ~process[p].clean /\ held' = Saved(d, "awaiting", {}) /\ Rests(p)
          \/ process[p].clean /\ held' \in {held, Saved(d, "screening", {})} /\ Goes(p, "route")
       /\ UNCHANGED <<stored, firstCopy, drafts, arrived, taken, cleared, expired, crashes>>

Route(p) ==
    LET d == process[p].document
    IN /\ At(p, "route")
       /\ IF Cardinality(Reach[d]) = 1
          THEN held' = Saved(d, "screening", Reach[d]) /\ Goes(p, "file")
          ELSE held' = Saved(d, "unidentified", Reach[d]) /\ Rests(p)
       /\ UNCHANGED <<stored, firstCopy, drafts, arrived, taken, cleared, expired, crashes>>

\* The copies of a message that a business has
InBooks(d, b) == {e \in Copies(d) : stored[e].business = b}
Enters(d, b, status) == stored' = [stored EXCEPT ![d] = [business |-> b, status |-> status, attempts |-> 1]]

\* Bug: the file is not looked for among those the business has.
IsNewAnyway(d, b) == TRUE
IsNew(d, b) == firstCopy[b] \in {None, d}

FirstHas(d, b) == firstCopy' = IF firstCopy[b] = None THEN [firstCopy EXCEPT ![b] = d] ELSE firstCopy

\* Bug: the document goes into the books and stays in the holding.
LeavesNothing(d, b) == held
Leaves(d, b) == Out(d, b)

\* Out of the holding and into the books, in one unit of work
File(p) ==
    LET d == process[p].document
        owner == CHOOSE c \in Reach[d] : TRUE
    IN /\ At(p, "file")
       /\ IF Message[d] # None /\ InBooks(d, owner) # {}
          THEN held' = Leaves(d, owner) /\ Rests(p) /\ UNCHANGED <<stored, firstCopy>>
          ELSE IF IsStored(d) THEN Rests(p) /\ UNCHANGED <<held, stored, firstCopy>>
          ELSE /\ held' = Leaves(d, owner)
               /\ FirstHas(d, owner)
               /\ IF IsNew(d, owner) THEN Enters(d, owner, "screening") /\ Goes(p, "extract")
                                 ELSE Enters(d, owner, "discarded") /\ Rests(p)
       /\ UNCHANGED <<drafts, arrived, taken, cleared, expired, crashes>>

-----------------------------------------------------------------------------
(* Reading (#readAndDraft, retry)                                            *)

Update(d, status, n) == stored' = [stored EXCEPT ![d].status = status, ![d].attempts = n]
MayChange(d) == stored[d].status \notin Final

Extract(p) ==
    LET d == process[p].document
    IN /\ At(p, "extract")
       /\ IF MayChange(d) THEN Update(d, "extracting", process[p].attempts) /\ Goes(p, "read")
                          ELSE Rests(p) /\ UNCHANGED stored
       /\ UNCHANGED <<held, firstCopy, drafts, arrived, taken, cleared, expired, crashes>>

MayDraft(d) == d \notin drafts /\ MayChange(d)

Read(p) ==
    LET d == process[p].document
    IN /\ At(p, "read") /\ Rests(p)
       /\ \/ /\ MayChange(d)
             /\ \E status \in {"failed", "mismatch", "quarantined"} : Update(d, status, process[p].attempts)
             /\ UNCHANGED drafts
          \/ MayDraft(d) /\ drafts' = drafts \cup {d} /\ Update(d, "ready", process[p].attempts)
          \/ ~MayChange(d) /\ UNCHANGED <<stored, drafts>>
       /\ UNCHANGED <<held, firstCopy, arrived, taken, cleared, expired, crashes>>

Retry(p, d) ==
    /\ stored[d].status = "failed" /\ stored[d].attempts < MaxAttempts
    /\ Starts(p, "retry", d, FALSE, None, stored[d].attempts + 1)
    /\ UNCHANGED <<held, stored, firstCopy, drafts, arrived, taken, cleared, expired, crashes>>

Attempt(p) ==
    LET d == process[p].document
    IN /\ At(p, "retry")
       /\ IF MayChange(d) THEN Update(d, "failed", process[p].attempts) /\ Goes(p, "extract")
                          ELSE Rests(p) /\ UNCHANGED stored
       /\ UNCHANGED <<held, firstCopy, drafts, arrived, taken, cleared, expired, crashes>>

-----------------------------------------------------------------------------
(* People, the scanner, a restart                                            *)

\* assignCompany, which looks first
Assign(p, d, b) ==
    /\ \/ held[d].status = "unidentified" /\ b \in held[d].owners
       \/ ~IsHeld(d) /\ stored[d].business = b /\ stored[d].status = "mismatch"
    /\ Starts(p, "assign", d, IsHeld(d), b, stored[d].attempts)
    /\ UNCHANGED <<held, stored, firstCopy, drafts, arrived, taken, cleared, expired, crashes>>

MayTake(d, b) == b \in held[d].owners /\ ~IsStored(d) /\ InBooks(d, b) = {}

\* clean says here that the document was held
Assigned(p) ==
    LET d == process[p].document
        owner == process[p].business
    IN /\ At(p, "assign") /\ Rests(p)
       /\ \/ process[p].clean /\ MayTake(d, owner)
             /\ held' = Leaves(d, owner) /\ Enters(d, owner, "received") /\ FirstHas(d, owner)
          \/ process[p].clean /\ ~MayTake(d, owner)
             /\ UNCHANGED <<held, stored, firstCopy>>
          \/ ~process[p].clean /\ MayChange(d)
             /\ Update(d, "received", process[p].attempts) /\ FirstHas(d, owner) /\ UNCHANGED held
          \/ ~process[p].clean /\ ~MayChange(d) /\ UNCHANGED <<held, stored, firstCopy>>
       /\ UNCHANGED <<drafts, arrived, taken, cleared, expired, crashes>>

\* The first of two answers gets through; "clean" is remembered by this process alone.
ScanAnswered(p, d) ==
    /\ held[d].status = "awaiting"
    /\ \/ /\ held' = Saved(d, "refused", {})
          /\ process[p] = Idle /\ UNCHANGED <<process, cleared>>
       \/ /\ held' = Saved(d, "screening", {}) /\ cleared' = cleared \cup {d}
          /\ Starts(p, "screen", d, TRUE, None, 1)
    /\ UNCHANGED <<stored, firstCopy, drafts, arrived, taken, expired, crashes>>

\* Bug: what was being screened is taken to be clean.
VerdictLost(d) == TRUE
Verdict(d) == held[d].clean

ResumeInterrupted(p, d) ==
    /\ held[d].status = "screening"
    /\ Overlap \/ \A q \in Processes : process[q].document # d
    /\ Starts(p, "screen", d, Verdict(d), None, 1)
    /\ UNCHANGED <<held, stored, firstCopy, drafts, arrived, taken, cleared, expired, crashes>>

Expire(d) ==
    /\ IsHeld(d) /\ \A q \in Processes : process[q].document # d
    /\ held' = [held EXCEPT ![d] = NotHeld] /\ expired' = expired \cup {d}
    /\ UNCHANGED <<stored, firstCopy, drafts, process, arrived, taken, cleared, crashes>>

\* A process stops, or its step is refused by the database.
Crash(p) ==
    /\ process[p] # Idle /\ Rests(p)
    /\ crashes < MaxCrashes /\ crashes' = crashes + 1
    /\ UNCHANGED <<held, stored, firstCopy, drafts, arrived, taken, cleared, expired>>

Next ==
    \/ \E p \in Processes :
         \/ Put(p) \/ Screen(p) \/ Route(p) \/ File(p) \/ Extract(p) \/ Read(p) \/ Attempt(p) \/ Assigned(p) \/ Crash(p)
         \/ \E d \in Documents :
              \/ Look(p, d) \/ Retry(p, d) \/ ScanAnswered(p, d) \/ ResumeInterrupted(p, d)
              \/ \E b \in Businesses : Assign(p, d, b)
    \/ \E d \in Documents : Expire(d)

Spec == Init /\ [][Next]_vars

-----------------------------------------------------------------------------
(* A document is held for nobody or in the books of one business, never both *)
(* (inbox.ts:385), as long as nobody resumes it under a slow process.        *)
OneHome == Overlap \/ \A d \in Documents : ~(IsHeld(d) /\ IsStored(d))

(* A delivery that was answered is somewhere, or its term has run out, though *)
(* processes stop and copies drop each other ("a restart cannot lose it",    *)
(* inbox.ts:251).                                                            *)
NothingLost == \A d \in taken : \E e \in Copies(d) : IsHeld(e) \/ IsStored(e) \/ e \in expired

(* No file enters a business's books before it was found clean, whichever    *)
(* way it was screened, released, resumed or assigned (inbox.ts:273).        *)
CleanOnly == \A d \in Documents : IsStored(d) => d \in cleared

(* A draft and its document move together (inbox.ts:588), and a file makes   *)
(* one draft in a business, however often it is delivered, read and retried. *)
OneDraft ==
    /\ drafts = {d \in Documents : stored[d].status = "ready"}
    /\ \A d, e \in drafts : d # e => stored[d].business # stored[e].business
=============================================================================

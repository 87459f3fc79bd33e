------------------------------ MODULE Durable ------------------------------
(***************************************************************************)
(* apps/api/src/durable.ts: stores kept in memory and written through to   *)
(* `app_records`.  A request that changes something is one unit of work    *)
(* of its company (UnitOfWork); its writes start from synchronous code and *)
(* land later; when it fails after writing, memory is thrown away for      *)
(* every company and read back, one company and one row at a time, while   *)
(* other requests go on.                                                   *)
(***************************************************************************)
EXTENDS Naturals, SequencesExt

CONSTANTS
    Requests,
    Readers,      \* the requests that only read (a GET, asOneRead)
    Companies,
    Keys,         \* entries of the DurableMaps
    CompanyOf,    \* [Keys -> Companies]
    Values,
    None,
    MaxSets,      \* bound: sets and deletes in one request
    Alone,        \* whether requests run one at a time
    ReloadFails   \* whether reading a company back may fail

VARIABLES
    mem,      \* [Keys -> Values \cup {None}]: the maps
    rows,     \* [Keys -> Values \cup {None}]: app_records, committed
    loaded,   \* durability.loaded
    holder,   \* [Companies -> Requests \cup {None}]: the unit of work open
    phase,    \* [Requests -> Phases]
    co,       \* [Requests -> Companies \cup {None}]
    sets,     \* [Requests -> Nat]: writes started, `pending.length`
    sealing,  \* [Requests -> Seq(write)]: sets whose value is being sealed
    queue,    \* [Requests -> Seq(write)]: statements on their way
    view,     \* [Requests -> [Keys -> ..]]: rows as its transaction sees them
    refused,  \* [Requests -> BOOLEAN]: `current.failed`
    todo,     \* [Requests -> Seq(Companies)]: companies it has yet to read back
    snap,     \* [Requests -> set of <<key, value>>]: rows it read, not replayed
    ever,     \* history: every <<key, value>> that was ever committed
    late      \* history: keys a read wrote after it had failed, not read back since

vars == <<mem, rows, loaded, holder, phase, co, sets, sealing, queue, view, refused, todo, snap, ever, late>>

Phases == {"idle", "working", "settling", "failed", "reading", "replaying", "done"}
Stored == Values \cup {None}
Of(c) == {k \in Keys : CompanyOf[k] = c}

-----------------------------------------------------------------------------
(* Every company has been opened once and read from the database.          *)
Init ==
    /\ mem = [k \in Keys |-> None]
    /\ rows = mem
    /\ loaded = Companies
    /\ holder = [c \in Companies |-> None]
    /\ phase = [r \in Requests |-> "idle"]
    /\ co = [r \in Requests |-> None]
    /\ sets = [r \in Requests |-> 0]
    /\ sealing = [r \in Requests |-> <<>>]
    /\ queue = [r \in Requests |-> <<>>]
    /\ view = [r \in Requests |-> rows]
    /\ refused = [r \in Requests |-> FALSE]
    /\ todo = [r \in Requests |-> <<>>]
    /\ snap = [r \in Requests |-> {}]
    /\ ever = {}
    /\ late = {}

AtRest == \A r \in Requests : phase[r] \in {"idle", "done"}
Writer(r) == r \notin Readers

(* asOneAction: the company's unit of work opens.  asOneRead: nothing does.*)
Begin(r, c) ==
    /\ phase[r] = "idle" /\ (Alone => AtRest)
    /\ Writer(r) => holder[c] = None
    /\ holder' = IF Writer(r) THEN [holder EXCEPT ![c] = r] ELSE holder
    /\ phase' = [phase EXCEPT ![r] = "working"]
    /\ co' = [co EXCEPT ![r] = c]
    /\ view' = [view EXCEPT ![r] = rows]
    /\ UNCHANGED <<mem, rows, loaded, sets, sealing, queue, refused, todo, snap, ever, late>>

(* DurableMap.set: memory at once; the statement once the value is sealed. *)
Set(r, k, v) ==
    /\ phase[r] = "working" /\ sets[r] < MaxSets /\ k \in Of(co[r])
    /\ mem' = [mem EXCEPT ![k] = v]
    /\ sets' = [sets EXCEPT ![r] = @ + 1]
    /\ sealing' = [sealing EXCEPT ![r] = Append(@, <<k, v>>)]
    /\ UNCHANGED <<rows, loaded, holder, phase, co, queue, view, refused, todo, snap, ever, late>>

Seal(r) ==
    /\ sealing[r] # <<>>
    /\ queue' = [queue EXCEPT ![r] = Append(@, Head(sealing[r]))]
    /\ sealing' = [sealing EXCEPT ![r] = Tail(@)]
    /\ UNCHANGED <<mem, rows, loaded, holder, phase, co, sets, view, refused, todo, snap, ever, late>>

(* DurableMap.delete: a null in the row.  It has nothing to seal, so it     *)
(* would overtake a set still being sealed: no handler of the app sets and *)
(* deletes an entry with no await between.                                 *)
Delete(r, k) ==
    /\ phase[r] = "working" /\ sets[r] < MaxSets /\ k \in Of(co[r])
    /\ mem[k] # None
    /\ sealing[r] = <<>>
    /\ mem' = [mem EXCEPT ![k] = None]
    /\ sets' = [sets EXCEPT ![r] = @ + 1]
    /\ queue' = [queue EXCEPT ![r] = Append(@, <<k, None>>)]
    /\ UNCHANGED <<rows, loaded, holder, phase, co, sealing, view, refused, todo, snap, ever, late>>

Commit(after, r) ==
    /\ rows' = [k \in Keys |-> IF CompanyOf[k] = co[r] THEN after[k] ELSE rows[k]]
    /\ ever' = ever \cup {<<k, after[k]>> : k \in Of(co[r])}

AtWork(r) == phase[r] \in {"working", "settling"}

(* A statement lands.  Inside an action it joins the open transaction; in  *)
(* a read it is a unit of work of its own, which needs the company lock,   *)
(* and lands whatever became of the others or of the read itself.          *)
Land(r) ==
    /\ queue[r] # <<>>
    /\ IF Writer(r) THEN ~refused[r] ELSE holder[co[r]] = None
    /\ LET w == Head(queue[r])
           after == [IF Writer(r) THEN view[r] ELSE rows EXCEPT ![w[1]] = w[2]] IN
       /\ view' = [view EXCEPT ![r] = after]
       /\ IF Writer(r) THEN UNCHANGED <<rows, ever>> ELSE Commit(after, r)
       /\ late' = IF AtWork(r) THEN late ELSE late \cup {w[1]}
    /\ queue' = [queue EXCEPT ![r] = Tail(@)]
    /\ UNCHANGED <<mem, loaded, holder, phase, co, sets, sealing, refused, todo, snap>>

(* The database refuses it: the first such error fails the request.        *)
Refuse(r) ==
    /\ queue[r] # <<>>
    /\ refused' = [refused EXCEPT ![r] = TRUE]
    /\ queue' = [queue EXCEPT ![r] = Tail(@)]
    /\ UNCHANGED <<mem, rows, loaded, holder, phase, co, sets, sealing, view, todo, snap, ever, late>>

(* The handler returns; the request waits for every write it started.      *)
Return(r) ==
    /\ phase[r] = "working"
    /\ phase' = [phase EXCEPT ![r] = "settling"]
    /\ UNCHANGED <<mem, rows, loaded, holder, co, sets, sealing, queue, view, refused, todo, snap, ever, late>>

FreedNot(r) == holder
Freed(r) == [c \in Companies |-> IF holder[c] = r THEN None ELSE holder[c]]

(* Everything landed: COMMIT.  The unit of work refuses to commit after a  *)
(* refused statement.                                                      *)
Settle(r) ==
    /\ phase[r] = "settling" /\ sealing[r] = <<>> /\ queue[r] = <<>> /\ ~refused[r]
    /\ phase' = [phase EXCEPT ![r] = "done"]
    /\ IF Writer(r) THEN Commit(view[r], r) ELSE UNCHANGED <<rows, ever>>
    /\ holder' = Freed(r)
    /\ UNCHANGED <<mem, loaded, co, sets, sealing, queue, view, refused, todo, snap, late>>

(* The handler throws, at once, or a write was refused: ROLLBACK.  Writes  *)
(* of an action still on their way find the transaction finished and are   *)
(* dropped; those of a read are units of their own and go on landing, also *)
(* while memory is read back and after.                                    *)
Fails(r) ==
    /\ \/ phase[r] = "working"
       \/ phase[r] = "settling" /\ refused[r] /\ sealing[r] = <<>> /\ queue[r] = <<>>
    /\ phase' = [phase EXCEPT ![r] = "failed"]
    /\ holder' = Freed(r)
    /\ sealing' = IF Writer(r) THEN [sealing EXCEPT ![r] = <<>>] ELSE sealing
    /\ queue' = IF Writer(r) THEN [queue EXCEPT ![r] = <<>>] ELSE queue
    /\ UNCHANGED <<mem, loaded, co, sets, view, refused, todo, snap, late>>
FailKeeping(r) == Fails(r) /\ IF Writer(r) THEN Commit(view[r], r) ELSE UNCHANGED <<rows, ever>>
Fail(r) == Fails(r) /\ UNCHANGED <<rows, ever>>

(* forgetUnsavedWrites, up to its first await: nothing was written, or     *)
(* every loaded company is forgotten and listed to be read back.           *)
ForgetAlready(r) ==
    /\ phase[r] = "failed"
    /\ phase' = [phase EXCEPT ![r] = "done"]
    /\ UNCHANGED <<mem, rows, loaded, holder, co, sets, sealing, queue, view, refused, todo, snap, ever, late>>
Forget(r) ==
    /\ phase[r] = "failed"
    /\ IF sets[r] = 0
       THEN /\ phase' = [phase EXCEPT ![r] = "done"]
            /\ UNCHANGED <<mem, loaded, todo>>
       ELSE /\ phase' = [phase EXCEPT ![r] = "reading"]
            /\ loaded' = {}
            /\ mem' = [k \in Keys |-> IF CompanyOf[k] \in loaded THEN None ELSE mem[k]]
            /\ todo' = [todo EXCEPT ![r] = SetToSeq(loaded)]
    /\ UNCHANGED <<rows, holder, co, sets, sealing, queue, view, refused, snap, ever, late>>

(* loadCompany, the reloader's query: the committed rows of one company.   *)
(* Nobody else can have read back a company that is on this list.          *)
Read(r) ==
    /\ phase[r] = "reading" /\ todo[r] # <<>>
    /\ phase' = [phase EXCEPT ![r] = "replaying"]
    /\ snap' = [snap EXCEPT ![r] = {<<k, rows[k]>> : k \in {j \in Of(Head(todo[r])) : rows[j] # None}}]
    /\ late' = late \ Of(Head(todo[r]))
    /\ UNCHANGED <<mem, rows, loaded, holder, co, sets, sealing, queue, view, refused, todo, ever>>

(* Each row is opened (an await) and put back into memory.                 *)
Replay(r) ==
    /\ phase[r] = "replaying"
    /\ \E kv \in snap[r] :
        /\ mem' = [mem EXCEPT ![kv[1]] = kv[2]]
        /\ snap' = [snap EXCEPT ![r] = @ \ {kv}]
    /\ UNCHANGED <<rows, loaded, holder, phase, co, sets, sealing, queue, view, refused, todo, ever, late>>

LoadedAgain(r) ==
    /\ phase[r] = "replaying" /\ snap[r] = {}
    /\ loaded' = loaded \cup {Head(todo[r])}
    /\ phase' = [phase EXCEPT ![r] = "reading"]
    /\ UNCHANGED <<mem, rows, holder, co, sets, sealing, queue, view, refused, todo, snap, ever, late>>
Loaded(r) ==
    /\ phase[r] = "replaying" /\ snap[r] = {}
    /\ loaded' = loaded \cup {Head(todo[r])}
    /\ todo' = [todo EXCEPT ![r] = Tail(@)]
    /\ phase' = [phase EXCEPT ![r] = "reading"]
    /\ UNCHANGED <<mem, rows, holder, co, sets, sealing, queue, view, refused, snap, ever, late>>

(* The error of the request is answered once all is read back.             *)
Rethrow(r) ==
    /\ phase[r] = "reading" /\ todo[r] = <<>>
    /\ phase' = [phase EXCEPT ![r] = "done"]
    /\ UNCHANGED <<mem, rows, loaded, holder, co, sets, sealing, queue, view, refused, todo, snap, ever, late>>

(* The query fails (the outage that refused the write is not over): the    *)
(* error leaves forgetUnsavedWrites, and the rest of the list with it.     *)
ReadRefused(r) ==
    /\ ReloadFails
    /\ phase[r] = "reading" /\ todo[r] # <<>>
    /\ phase' = [phase EXCEPT ![r] = "done"]
    /\ todo' = [todo EXCEPT ![r] = <<>>]
    /\ UNCHANGED <<mem, rows, loaded, holder, co, sets, sealing, queue, view, refused, snap, ever, late>>

Stop == AtRest /\ UNCHANGED vars

Next ==
    \/ \E r \in Requests :
        \/ \E c \in Companies : Begin(r, c)
        \/ \E k \in Keys : Delete(r, k) \/ \E v \in Values : Set(r, k, v)
        \/ Seal(r) \/ Land(r) \/ Refuse(r) \/ Return(r) \/ Settle(r) \/ Fail(r) \/ Forget(r)
        \/ Read(r) \/ Replay(r) \/ Loaded(r) \/ Rethrow(r) \/ ReadRefused(r)
    \/ Stop

Spec == Init /\ [][Next]_vars

(* Every await of a request settles.  Whether it fails, and which write    *)
(* the database refuses, is left open.                                     *)
Fairness == \A r \in Requests :
    /\ WF_vars(Return(r) \/ Fail(r) \/ Settle(r))
    /\ WF_vars(Seal(r)) /\ WF_vars(Land(r) \/ Refuse(r))
    /\ WF_vars(Forget(r) \/ Read(r) \/ Replay(r) \/ Loaded(r) \/ Rethrow(r))
FairSpec == Spec /\ Fairness

-----------------------------------------------------------------------------
TypeOK ==
    /\ {mem, rows} \subseteq [Keys -> Stored]
    /\ view \in [Requests -> [Keys -> Stored]]
    /\ loaded \subseteq Companies
    /\ holder \in [Companies -> Requests \cup {None}]
    /\ phase \in [Requests -> Phases]
    /\ co \in [Requests -> Companies \cup {None}]
    /\ sets \in [Requests -> 0 .. MaxSets]
    /\ \A r \in Requests :
        /\ Range(sealing[r]) \subseteq Keys \X Values
        /\ Range(queue[r]) \subseteq Keys \X Stored
        /\ snap[r] \subseteq Keys \X Values
        /\ Range(todo[r]) \subseteq Companies
    /\ refused \in [Requests -> BOOLEAN]
    /\ ever \subseteq Keys \X Stored
    /\ late \subseteq Keys
    \* the unit of work is held by a request that is still at work
    /\ \A c \in Companies : holder[c] # None => AtWork(holder[c])

(* When no request is running, memory holds nothing the database refused:  *)
(* every entry was committed at some time (durable.ts:13-14).              *)
NeverKeepsRefused ==
    AtRest => \A k \in Keys : mem[k] # None => <<k, mem[k]>> \in ever

(* When no request is running, memory is what the database holds: readers  *)
(* of the Map see what a restart would show them.  What a read had started *)
(* to write when it threw is not waited for (durable.ts:122): it may land  *)
(* after memory was read back, and is then not in memory until the next    *)
(* time it is.                                                             *)
MemoryIsWhatIsSaved == AtRest => \A k \in Keys \ late : mem[k] = rows[k]

(* A saved row changes only when a request of its company commits or a     *)
(* read's own write lands; a request that fails changes none.              *)
FailedSavesNothing ==
    [][\A r \in Requests : Writer(r) /\ phase'[r] = "failed" /\ phase[r] # "failed" => rows' = rows]_vars

(* Every request is answered, however many of them read the database back  *)
(* at once.                                                                *)
EveryRequestAnswered == []<>(\A r \in Requests : phase[r] \in {"idle", "done"})
=============================================================================

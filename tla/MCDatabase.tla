----------------------------- MODULE MCDatabase ------------------------------
(* What a server process keeps of the database and how it writes to it, side *)
(* by side: UnitOfWork, Durable and MasterView; and, with them, the Inbox,   *)
(* and Tax.  They share no state, so a run looks at one of them at a time;   *)
(* which, is chosen at the start.                                            *)
EXTENDS UnitOfWork, TLC

CONSTANTS
    Cases,
    Requests, Readers, DurableCompanies, Keys, Values, MaxSets, Alone, ReloadFails,
    Actions, Lookers, Elsewhere, Batch, MaxVersions, ConnectionsEnd

VARIABLES
    case,
    mem, rows, loaded, memHolder, memPhase, co, sets, sealing, queue, view, refused, todo, snap, ever, late,
    saved, next, viewHolder, own, viewDead, viewPhase, current, copies, chain, filling, batch, must, used,
    bill, sheet,
    held, stored, firstCopy, drafts, process, arrived, taken, cleared, expired, crashes

memory == <<mem, rows, loaded, memHolder, memPhase, co, sets, sealing, queue, view, refused, todo, snap, ever, late>>
masters == <<saved, next, viewHolder, own, viewDead, viewPhase, current, copies, chain, filling, batch, must, used>>
inbox == <<held, stored, firstCopy, drafts, process, arrived, taken, cleared, expired, crashes>>

(* One company has the first entry and another the rest. *)
First == CHOOSE k \in Keys : TRUE
Ours == CHOOSE c \in DurableCompanies : TRUE
Theirs == CHOOSE c \in DurableCompanies : c # Ours
Memory == INSTANCE Durable WITH Companies <- DurableCompanies,
                                CompanyOf <- [k \in Keys |-> IF k = First THEN Ours ELSE Theirs],
                                holder <- memHolder, phase <- memPhase
Masters == INSTANCE MasterView WITH Requests <- Actions, Readers <- Lookers,
                                    holder <- viewHolder, phase <- viewPhase, dead <- viewDead

(* Bills of up to three rows: two goods at one rate and one code at two, a    *)
(* cess, tax the buyer pays, goods for nothing, rows that cannot be priced.   *)
Item(treatment, code, register, declared, reverse, cess) ==
  [treatment |-> treatment, code |-> code, register |-> register, declared |-> declared, reverse |-> reverse, cess |-> cess]
NoCess == [percent |-> 0, perUnit |-> 0, takeHigher |-> FALSE]
Catalogue ==
  [rice |-> Item("TAXABLE", "1006", 500, -1, FALSE, NoCess), oats |-> Item("TAXABLE", "1104", 500, 1200, FALSE, NoCess),
   brown |-> Item("TAXABLE", "1006", -1, 1800, FALSE, NoCess), haul |-> Item("TAXABLE", "9965", 500, -1, TRUE, NoCess),
   cola |-> Item("TAXABLE", "2202", 2800, -1, FALSE, [percent |-> 1200, perUnit |-> 40, takeHigher |-> TRUE]),
   salt |-> Item("NIL_RATED", "2501", -1, -1, FALSE, NoCess), odd |-> Item("UNKNOWN", "9999", -1, -1, FALSE, NoCess),
   new |-> Item("TAXABLE", "8888", -1, -1, FALSE, NoCess)]
Row(i, p, q, b, off) == [item |-> i, price |-> p, qty |-> q, basis |-> b, off |-> off]
Offered ==
  {Row("rice", 333, 2, "EXCLUSIVE", 0), Row("rice", 1001, 3, "INCLUSIVE", 0), Row("oats", 777, 2, "INCLUSIVE", 1000),
   Row("oats", 0, 2, "EXCLUSIVE", 0), Row("brown", 555, 2, "EXCLUSIVE", 0), Row("cola", 299, 3, "EXCLUSIVE", 0),
   Row("cola", 299, 3, "INCLUSIVE", 0), Row("haul", 505, 2, "EXCLUSIVE", 0), Row("salt", 111, 2, "INCLUSIVE", 0),
   Row("odd", 100, 2, "EXCLUSIVE", 0), Row("new", 100, 2, "EXCLUSIVE", 0)}
Doc(s, p, z) == [scheme |-> s, split |-> p, zeroRated |-> z]
Rules == INSTANCE Tax WITH rows <- bill, Items <- Catalogue, Offers <- Offered, Charges <- {<<0, 0>>, <<101, 50>>}, MaxLines <- 3, NoRate <- -1, NoCode <- "none",
           Documents <- {Doc("REGULAR", "CGST_SGST", "NO"), Doc("REGULAR", "IGST", "NO"), Doc("REGULAR", "IGST", "WITHOUT_TAX"),
                         Doc("COMPOSITION", "CGST_UTGST", "NO"), Doc("COMPOSITION", "IGST", "NO")}

(* The same file twice: sent again as one message, or sent and uploaded, to  *)
(* one business or to an address that two share.                             *)
Deliveries == {"sent", "again"}
Resent == [d \in Deliveries |-> "m"]
Uploaded == [d \in Deliveries |-> IF d = "sent" THEN "m" ELSE None]
To(businesses) == [d \in Deliveries |-> businesses]
Resend == INSTANCE Inbox WITH Documents <- Deliveries, Message <- Resent, Reach <- To({"A"}), Overlap <- FALSE,
                            Businesses <- {"A", "B"}, Processes <- {1, 2}, MaxAttempts <- 2, MaxCrashes <- 1
Upload == INSTANCE Inbox WITH Documents <- Deliveries, Message <- Uploaded, Reach <- To({"A"}), Overlap <- FALSE,
                            Businesses <- {"A", "B"}, Processes <- {1, 2}, MaxAttempts <- 2, MaxCrashes <- 1
Shared == INSTANCE Inbox WITH Documents <- Deliveries, Message <- Uploaded, Reach <- To({"A", "B"}), Overlap <- TRUE,
                            Businesses <- {"A", "B"}, Processes <- {1, 2}, MaxAttempts <- 2, MaxCrashes <- 1
Hasty == INSTANCE Inbox WITH Documents <- Deliveries, Message <- Resent, Reach <- To({"A"}), Overlap <- TRUE,
                            Businesses <- {"A", "B"}, Processes <- {1, 2}, MaxAttempts <- 2, MaxCrashes <- 1

UnitSymmetry == Permutations(Units) \cup Permutations(Companies)

Begun == {u \in Units : phase[u] # "idle"}

(* "units": two units of one company, savepoints and all; "pool": many of    *)
(* two companies that write nothing.                                         *)
WithinUnits == Cardinality(Begun) <= 2 /\ Cardinality({company[u] : u \in Begun}) <= 1
WithinPool == \A u \in Units : made[u] = {} /\ nested[u] = 0

(* The inbox rests when all has arrived and no process is on any of it. *)
AllArrived == case \in {"resend", "upload", "shared", "hasty"} /\ arrived = Deliveries /\ Resend!Quiet

MCInit == case \in Cases /\ Init /\ Memory!Init /\ Masters!Init /\ Rules!Init /\ Resend!Init
MCNext ==
    /\ case' = case
    /\ \/ case = "units" /\ Next /\ WithinUnits' /\ UNCHANGED <<memory, masters, bill, sheet, inbox>>
       \/ case = "pool" /\ Next /\ WithinPool' /\ UNCHANGED <<memory, masters, bill, sheet, inbox>>
       \/ case = "memory" /\ Memory!Next /\ UNCHANGED <<vars, masters, bill, sheet, inbox>>
       \/ case = "masters" /\ Masters!Next /\ UNCHANGED <<vars, memory, bill, sheet, inbox>>
       \/ case = "tax" /\ Rules!Next /\ UNCHANGED <<vars, memory, masters, inbox>>
       \/ case = "resend" /\ Resend!Next /\ UNCHANGED <<vars, memory, masters, bill, sheet>>
       \/ case = "upload" /\ Upload!Next /\ UNCHANGED <<vars, memory, masters, bill, sheet>>
       \/ case = "shared" /\ Shared!Next /\ UNCHANGED <<vars, memory, masters, bill, sheet>>
       \/ case = "hasty" /\ Hasty!Next /\ UNCHANGED <<vars, memory, masters, bill, sheet>>
       \/ AllArrived /\ UNCHANGED <<vars, memory, masters, bill, sheet, inbox>>
MCSpec == MCInit /\ [][MCNext]_<<vars, memory, masters, bill, sheet, inbox, case>>

-----------------------------------------------------------------------------
(* Units, and what the process keeps, are well formed (database.ts:60,       *)
(* durable.ts:28-40, master-data.ts:99).                                     *)
TypesOK == TypeOK /\ Memory!TypeOK /\ Masters!TypeOK /\ Rules!TypeOK /\ Resend!TypeOK

(* "memory never keeps what the database refused" (durable.ts:13).           *)
NeverKeepsRefused == Memory!NeverKeepsRefused

(* An action that was saved read only versions that are saved                *)
(* (master-data.ts:23).                                                      *)
BuiltOnSaved == Masters!BuiltOnSaved

(* Requests that run one at a time leave memory and app_records the same,    *)
(* but for what a read that threw goes on writing (durable.ts:92-107, 122,   *)
(* 149-163).  A request reads at least what was                              *)
(* committed when it asked for the copy of the masters (master-data.ts:131), *)
(* although the copy asks only for what follows its last number              *)
(* (postgres-masters.ts:258); and between actions the copy may lag but never *)
(* holds what was never saved (master-data.ts:23).                           *)
(* A document that was taken in is held for nobody or in one business's      *)
(* books, never lost, entered only when found clean, and drafted once        *)
(* (inbox.ts:251, 273, 385, 588).                                            *)
WhatIsKeptIsSound ==
    /\ Memory!MemoryIsWhatIsSaved
    /\ Masters!NothingSkipped /\ Masters!FreshAtStart /\ Masters!BehindNeverWrong
    /\ case \in {"resend", "upload"} => Resend!OneHome
    /\ case \in {"resend", "upload", "shared", "hasty"} => Resend!CleanOnly /\ Resend!OneDraft
    /\ case \in {"resend", "hasty"} => Resend!NothingLost
    /\ case \in {"upload", "shared"} => Upload!NothingLost

(* Every figure of a bill adds up to every other (compute.ts:632,            *)
(* charge-shares.ts:79, 174).                                                *)
BillsAddUp == Rules!BillsAddUp
=============================================================================

------------------------------- MODULE Upserts -------------------------------
(***************************************************************************)
(* The handlers that create or overwrite a row under an id the client has  *)
(* chosen, and the clients that repeat a request they got no answer to.    *)
(*                                                                         *)
(* A behaviour is about one id of one table: several clients write it, as  *)
(* the participants of a list do with the rows they hold, and the copies   *)
(* of a request may be lost, delayed, overtaken by later writes, or run at *)
(* the same time.  A body is all the client sends beside the id.           *)
(*                                                                         *)
(* Left out: merges of goods (Catalog), access to lists (Sharing); both    *)
(* show here only in whether what a row refers to can be found, which is   *)
(* one answer for all clients and bodies at a time.                        *)
(***************************************************************************)
EXTENDS Integers, FiniteSets

CONSTANTS
  Clients,     \* owners that write this id
  Bodies,      \* what can be written under it
  Copies,      \* copies of requests that may be on their way at a time
  MaxWrites,   \* how often a client changes its mind (a bound of the model)
  Null

Answers == {"ok", "conflict", "not found", "bad request"}

\* Null is none of the values it stands in for.
ASSUME UpsertsAssumption ==
  /\ MaxWrites \in Nat
  /\ Null \notin Clients \cup Bodies \cup Answers /\ Null \notin Clients \X Bodies
  /\ Null \notin [owner : Clients, body : Bodies, live : BOOLEAN, moved : BOOLEAN]
  /\ Null \notin [owner : Clients, body : Bodies, live : BOOLEAN]

VARIABLES
  kind,    \* the table
  timed,   \* whether the clients say when a price was read
  twin,    \* who has another offer, and of what good and store (a body)
  refs,    \* whether what the row refers to can be found
  row,     \* the row of the id
  client,  \* what each client wants of the row and what it was answered
  copies,  \* the requests and the answers on their way
  late,    \* history: a copy of a write was carried out after a newer write
  done     \* history: the clients whose last write the row has held since

vars == <<kind, timed, twin, refs, row, client, copies, late, done>>

Editable == {"category", "good", "store", "list"}
Kinds    == Editable \cup {"offer", "price", "item"}
Refers   == {"good", "offer", "price", "item"}   \* to rows that may be missing

\* The owner (of an item: who added it), the body, whether it is not deleted, and
\* whether a merge has moved it to another offer.
Row     == {Null} \cup [owner : Clients, body : Bodies, live : BOOLEAN, moved : BOOLEAN]

\* Where the handler of a table may be.
Steps == [t \in Kinds |->
  CASE t = "category"         -> {"upsert"}
    [] t \in {"good", "store"} -> {"refs", "probe", "insert", "update"}
    [] t = "list"             -> {"probe", "insert", "update", "read"}
    [] t = "offer"            -> {"refs", "probe", "insert", "touch", "read", "adopt", "find"}
    [] t = "price"            -> {"refs", "probe", "insert", "read"}
    [] t = "item"             -> {"refs", "insert", "read"}]

Free == [pc |-> "free", by |-> Null, n |-> 0, body |-> Null, answer |-> Null]
Copy == [pc : {"free", "sent", "answered"} \cup Steps[kind],
         by : Clients \cup {Null}, n : 0..MaxWrites,
         body : Bodies \cup {Null}, answer : Answers \cup {Null}]

TypeOK ==
  /\ kind \in Kinds /\ timed \in BOOLEAN /\ twin \in (Clients \X Bodies) \cup {Null}
  /\ refs \in {"missing", "found", "gone"}
  /\ row \in Row
  /\ client \in [Clients -> [n : 0..MaxWrites, body : Bodies \cup {Null},
                             told : Answers \cup {"nothing"}]]
  /\ copies \in [Copies -> Copy]
  /\ late \in BOOLEAN
  /\ done \subseteq Clients

Init ==
  /\ kind \in Kinds
  /\ timed \in BOOLEAN /\ (kind # "price" => timed)
  /\ twin \in (Clients \X Bodies) \cup {Null} /\ (kind # "offer" => twin = Null)
  /\ refs \in {"missing", "found"} /\ (kind \notin Refers => refs = "found")
  /\ row = Null
  /\ client = [c \in Clients |-> [n |-> 0, body |-> Null, told |-> "nothing"]]
  /\ copies = [k \in Copies |-> Free]
  /\ late = FALSE /\ done = {}

Given     == UNCHANGED <<kind, timed, twin>>
Unwritten == UNCHANGED <<row, late, done>>

(***************************************************************************)
(* The client and the network                                              *)
(***************************************************************************)
Grants(e, c, b) == e # Null /\ e.body = b /\ (e.owner = c \/ kind = "offer")

\* The user creates the row or edits it, answered or not.
Write(c, b) ==
  /\ client[c].n < MaxWrites
  /\ client' = [client EXCEPT ![c] = [n |-> @.n + 1, body |-> b, told |-> "nothing"]]
  /\ done' = IF Grants(row, c, b) THEN done \cup {c} ELSE done \ {c}
  /\ Given /\ UNCHANGED <<refs, row, copies, late>>

\* The request goes out, for the first time or again.
Send(c, k) ==
  /\ client[c].n > 0 /\ client[c].told = "nothing" /\ copies[k] = Free
  /\ copies' = [copies EXCEPT ![k] =
       [pc |-> "sent", by |-> c, n |-> client[c].n, body |-> client[c].body, answer |-> Null]]
  /\ Given /\ Unwritten /\ UNCHANGED <<refs, client>>

\* A request or an answer is lost, a statement fails, the process dies: to the
\* client it is all one.
Lose(k) ==
  /\ copies[k] # Free
  /\ copies' = [copies EXCEPT ![k] = Free]
  /\ Given /\ Unwritten /\ UNCHANGED <<refs, client>>

Receive(k) ==
  LET q == copies[k] IN
  /\ q.pc = "answered"
  /\ copies' = [copies EXCEPT ![k] = Free]
  /\ client' = IF q.n = client[q.by].n /\ client[q.by].told = "nothing"
               THEN [client EXCEPT ![q.by].told = q.answer] ELSE client
  /\ Given /\ Unwritten /\ UNCHANGED refs

(***************************************************************************)
(* What else happens to the row and to what it refers to                   *)
(***************************************************************************)
RefsAppear ==
  /\ refs = "missing" /\ refs' = "found"
  /\ Given /\ Unwritten /\ UNCHANGED <<client, copies>>

\* The offer of a price is folded, and a price that is there moves with it; the
\* list of an item is deleted or left.
RefsGo ==
  /\ kind \in {"price", "item"} /\ refs = "found"
  /\ refs' = "gone"
  /\ row' = IF kind = "price" /\ row # Null THEN [row EXCEPT !.moved = TRUE] ELSE row
  /\ Given /\ UNCHANGED <<client, copies, late, done>>

\* The list or the item is deleted, the offer is folded.
Remove ==
  /\ kind \in {"list", "item", "offer"} /\ row # Null /\ row.live
  /\ row' = [row EXCEPT !.live = FALSE]
  /\ Given /\ UNCHANGED <<refs, client, copies, late, done>>

(***************************************************************************)
(* The handlers, statement by statement                                    *)
(***************************************************************************)
At(k, kinds, pc) == kind \in kinds /\ copies[k].pc = pc
Own(k)  == row # Null /\ row.owner = copies[k].by /\ row.live
Same(k) == row.body = copies[k].body

Goto(k, pc) == copies' = [copies EXCEPT ![k].pc = pc]
Answer(k, a) == copies' = [copies EXCEPT ![k].pc = "answered", ![k].answer = a]

\* A statement that reads.
Reads == Given /\ Unwritten /\ UNCHANGED <<refs, client>>

\* A statement that writes the body of the copy.
Writes(k) ==
  LET q == copies[k] IN
  /\ row' = [owner |-> q.by, body |-> q.body, live |-> TRUE, moved |-> FALSE]
  /\ late' = (late \/ q.n < client[q.by].n)
  /\ done' = done \cup {d \in Clients : Grants(row', d, client[d].body)}
  /\ Given /\ UNCHANGED <<refs, client>>

Post(k, t, pc)     == At(k, {t}, "sent") /\ Goto(k, pc) /\ Reads
PostCategory(k)    == Post(k, "category", "upsert")
PostUpsertGood(k)  == Post(k, "good", "refs")
PostUpsertStore(k) == Post(k, "store", "probe")
PostUpsertList(k)  == Post(k, "list", "probe")
PostOffer(k)       == Post(k, "offer", "refs")
PostPriceRecord(k) == Post(k, "price", "refs")
PostListItem(k)    == Post(k, "item", "refs")

\* Categories: one statement, and a row that is not the client's stops it.
UpsertCategoryOfAnyone(k) ==  \* mutant: the owner is not asked for
  At(k, {"category"}, "upsert") /\ Answer(k, "ok") /\ Writes(k)

UpsertCategory(k) ==
  /\ At(k, {"category"}, "upsert")
  /\ IF row = Null \/ Own(k) THEN Answer(k, "ok") /\ Writes(k)
                            ELSE Answer(k, "not found") /\ Reads

\* What the row refers to: the client's own category of a good, anybody's good
\* and store of an offer, and offer of a price, the access to an item's list.
Refer(k, t, pc, refusals) ==
  /\ At(k, {t}, "refs")
  /\ \/ refs = "found" /\ Goto(k, pc)
     \/ refs # "found" /\ \E a \in refusals : Answer(k, a)
  /\ Reads

ReadCategory(k)     == Refer(k, "good", "probe", {"bad request"})
ReadGoodAndStore(k) == Refer(k, "offer", "probe", {"not found"})
ReadOffer(k)        == Refer(k, "price", "probe", {"not found"})
ReadAccess(k)       == Refer(k, "item", "insert", {"not found", "bad request"})

\* A probe sees the client's own rows only.
Probe(k) ==
  /\ At(k, {"good", "store", "list"}, "probe")
  /\ Goto(k, IF Own(k) THEN "update" ELSE "insert")
  /\ Reads

ProbeOffer(k) ==
  /\ At(k, {"offer"}, "probe")
  /\ \/ ~Own(k) /\ Goto(k, "insert")
     \/ Own(k) /\ Same(k) /\ Goto(k, "touch")
     \/ Own(k) /\ ~Same(k) /\ Answer(k, "conflict")
  /\ Reads

ProbePriceThenUpdate(k) ==  \* mutant: a price that is there is updated
  /\ At(k, {"price"}, "probe")
  /\ Goto(k, IF Own(k) THEN "update" ELSE "insert")
  /\ Reads

\* A price read later, or of another offer since a merge, is another price.
PricesLikelyEqual(k) == Same(k) /\ ~row.moved

\* Times are compared by the millisecond.  A copy that does not say when has the
\* time it arrived at, in the same millisecond or not.
ProbePrice(k) ==
  /\ At(k, {"price"}, "probe")
  /\ \/ ~Own(k) /\ Goto(k, "insert")
     \/ Own(k) /\ PricesLikelyEqual(k) /\ Answer(k, "ok")
     \/ Own(k) /\ (~PricesLikelyEqual(k) \/ ~timed) /\ Answer(k, "conflict")
  /\ Reads

\* The insert meets the rows of all owners.
InsertAnyError(k) ==  \* mutant: whatever fails is taken for a unique violation
  /\ At(k, {"list", "price", "item"}, "insert")
  /\ \/ row = Null /\ Goto(k, "read") /\ Writes(k)
     \/ Answer(k, "conflict") /\ Reads

Insert(k) ==
  /\ At(k, {"list", "price", "item"}, "insert")
  /\ IF row = Null THEN Goto(k, "read") /\ Writes(k)
                   ELSE Answer(k, "conflict") /\ Reads

InsertReturning(k) ==
  /\ At(k, {"good", "store"}, "insert")
  /\ IF row = Null THEN Answer(k, "ok") /\ Writes(k)
                   ELSE Answer(k, "conflict") /\ Reads

HasTwin(k) == twin = <<copies[k].by, copies[k].body>>

InsertOffer(k) ==
  /\ At(k, {"offer"}, "insert")
  /\ IF row = Null /\ ~HasTwin(k) THEN Answer(k, "ok") /\ Writes(k)
                                  ELSE Goto(k, "adopt") /\ Reads

\* Another participant's offer of the same good and store will do.
AdoptOffer(k) ==
  /\ At(k, {"offer"}, "adopt")
  /\ IF row = Null \/ ~row.live THEN Goto(k, "find")
     ELSE Answer(k, IF Same(k) THEN "ok" ELSE "conflict")
  /\ Reads

\* The client's own offer of the pair; not this id, which was just not there and
\* which no copy can insert beside it.
FindOfferByTriple(k) ==
  /\ At(k, {"offer"}, "find")
  /\ Answer(k, IF HasTwin(k) THEN "conflict" ELSE "not found")
  /\ Reads

TouchOffer(k) ==
  /\ At(k, {"offer"}, "touch")
  /\ IF Own(k) THEN Goto(k, "read") ELSE Answer(k, "not found")
  /\ Reads

UpdateNothing(k) ==  \* mutant: the statement sets updated_at only
  /\ At(k, {"good", "store"}, "update")
  /\ Answer(k, IF Own(k) THEN "ok" ELSE "not found")
  /\ Reads

UpdateReturning(k) ==
  /\ At(k, {"good", "store"}, "update")
  /\ IF Own(k) THEN Answer(k, "ok") /\ Writes(k)
               ELSE Answer(k, "not found") /\ Reads

UpdateList(k) ==
  /\ At(k, {"list"}, "update")
  /\ IF Own(k) THEN Goto(k, "read") /\ Writes(k)
               ELSE Answer(k, "not found") /\ Reads

\* The answer is the row as it is now.
ReadRow(k) ==
  /\ At(k, {"list", "offer", "price"}, "read")
  /\ Answer(k, IF Own(k) THEN "ok" ELSE "not found")
  /\ Reads

\* An item is found under its list's author while the list is there.
ReadItem(k) ==
  /\ At(k, {"item"}, "read")
  /\ \/ row.live /\ Answer(k, "ok")
     \/ (~row.live \/ refs = "gone") /\ Answer(k, "not found")
  /\ Reads

Handle(k) ==
  \/ PostCategory(k) \/ PostUpsertGood(k) \/ PostUpsertStore(k) \/ PostUpsertList(k)
  \/ PostOffer(k) \/ PostPriceRecord(k) \/ PostListItem(k)
  \/ UpsertCategory(k)
  \/ ReadCategory(k) \/ ReadGoodAndStore(k) \/ ReadOffer(k) \/ ReadAccess(k)
  \/ Probe(k) \/ ProbeOffer(k) \/ ProbePrice(k)
  \/ Insert(k) \/ InsertReturning(k) \/ InsertOffer(k) \/ AdoptOffer(k)
  \/ FindOfferByTriple(k) \/ TouchOffer(k)
  \/ UpdateReturning(k) \/ UpdateList(k) \/ ReadRow(k) \/ ReadItem(k)

Next ==
  \/ \E c \in Clients : \/ \E b \in Bodies : Write(c, b)
                         \/ \E k \in Copies : Send(c, k)
  \/ \E k \in Copies : Lose(k) \/ Receive(k) \/ Handle(k)
  \/ RefsAppear \/ RefsGo \/ Remove

Spec == Init /\ [][Next]_vars

(***************************************************************************)
(* Properties                                                              *)
(***************************************************************************)
\* What a Register knows of the row and of the clients.
Entry  == IF row = Null THEN Null
          ELSE [owner |-> row.owner, body |-> row.body, live |-> row.live]
Wishes == [c \in Clients |-> [body |-> client[c].body, told |-> client[c].told]]

\* Whatever is repeated, lost or delayed, the id is a Register: no participant
\* changes another's row, a recorded price or an offer is never rewritten, "ok"
\* is said only of a write the table has held since the client made it and
\* "conflict" only when the id is taken (service/goods.go:40, offers.go:62,
\* pricing.go:37).
Promise == INSTANCE Register WITH
  editable <- kind \in Editable, common <- kind = "offer",
  row <- Entry, wish <- Wishes
ImplementsRegister == Promise!Spec

\* What a client was last told is stored stays as the client wrote it, unless a
\* delayed copy of an older write came after it: nothing tells the copies of
\* two writes apart (service/goods.go:69).
LastWordStands ==
  late \/ \A c \in Clients : client[c].told = "ok" =>
            Grants(row, c, client[c].body)

\* A client that alone uses the id, wrote it once and is answered with a conflict
\* meets its own copy: the write is stored, and repeating it is harmless
\* (service/lists.go:168, pricing.go:41).
ConflictIsOwnCopy ==
  \A c \in Clients :
    /\ client[c].told = "conflict" /\ client[c].n = 1 /\ twin = Null
    /\ \A d \in Clients \ {c} : client[d].n = 0
    => row # Null /\ row.owner = c /\ row.body = client[c].body
=============================================================================

----------------------------- MODULE UpsertsProofs -----------------------------
(***************************************************************************)
(* Proofs that an id the client has chosen is a Register, for any number   *)
(* of clients, bodies and copies of requests.                              *)
(***************************************************************************)
EXTENDS Upserts, TLAPS

(***************************************************************************)
(* The inductive invariant                                                 *)
(***************************************************************************)
\* A copy of the last write of its client.
Current(q) == q.n = client[q.by].n

\* A handler that goes on to touch or to read a row, and one that says "ok", has
\* seen the write in the table; one that says "conflict" has seen the id taken.
CopySound(q) ==
  /\ q.pc # "free" => /\ q.by \in Clients /\ q.body \in Bodies
                      /\ 0 < q.n /\ q.n <= client[q.by].n
                      /\ Current(q) => q.body = client[q.by].body
  /\ q.pc = "answered" <=> q.answer # Null
  /\ q.pc \in {"touch", "read"} \/ q.answer = "ok" => (Current(q) => q.by \in done)
  /\ q.pc \in {"touch", "read"} => row # Null
  /\ q.answer = "conflict" => row # Null \/ twin = <<q.by, q.body>>

ClientSound(c) ==
  /\ client[c].n > 0 => client[c].body \in Bodies
  /\ client[c].told = "ok" => c \in done
  /\ client[c].told = "conflict" => row # Null \/ twin = <<c, client[c].body>>

\* Who owns the row has written it, and if once only, what is there.
RowSound ==
  row # Null => LET w == client[row.owner] IN
    w.n > 0 /\ (w.n = 1 => row.body = w.body)

\* A wish is marked as done while the row grants it, and for as long as no late
\* copy has come it stays granted.
DoneSound ==
  /\ \A c \in Clients : Grants(row, c, client[c].body) => c \in done
  /\ late \/ \A c \in done : Grants(row, c, client[c].body)

Inv ==
  /\ TypeOK
  /\ \A k \in Copies : CopySound(copies[k])
  /\ \A c \in Clients : ClientSound(c)
  /\ RowSound /\ DoneSound

(***************************************************************************)
(* What the statements of the handlers come to                             *)
(***************************************************************************)
AtWork(k) == copies[k].pc \notin {"free", "answered"}
Held(k)   == Current(copies[k]) => copies[k].by \in done

\* A statement that reads sends the handler to a step it may reach, or answers
\* what it may answer.
MayGo(k, pc) ==
  pc \in Steps[kind] /\ (pc \in {"touch", "read"} => row # Null /\ Held(k))
MayAnswer(k, a) ==
  /\ a \in Answers
  /\ a = "ok" => Held(k)
  /\ a = "conflict" => row # Null \/ HasTwin(k)

Reading(k) ==
  /\ Reads /\ AtWork(k)
  /\ \/ \E pc : MayGo(k, pc) /\ Goto(k, pc)
     \/ \E a : MayAnswer(k, a) /\ Answer(k, a)

\* A statement that writes meets no row, or the client's own in a table whose
\* rows are edited.
Storing(k) ==
  /\ Writes(k) /\ AtWork(k)
  /\ row # Null => kind \in Editable /\ Own(k)
  /\ ("read" \in Steps[kind] /\ Goto(k, "read")) \/ Answer(k, "ok")

\* The statements each kind of upsert runs through.
LEMMA StepsOf ==
  /\ Steps["category"] = {"upsert"}
  /\ Steps["good"] = {"refs", "probe", "insert", "update"}
  /\ Steps["store"] = {"refs", "probe", "insert", "update"}
  /\ Steps["list"] = {"probe", "insert", "update", "read"}
  /\ Steps["offer"] = {"refs", "probe", "insert", "touch", "read", "adopt", "find"}
  /\ Steps["price"] = {"refs", "probe", "insert", "read"}
  /\ Steps["item"] = {"refs", "insert", "read"}
  BY DEF Steps, Kinds, Editable

\* No step of a handler is named like the ends of a copy's life.
LEMMA StepNames ==
  ASSUME NEW t \in Kinds
  PROVE  Steps[t] \subseteq {"upsert", "refs", "probe", "insert", "update", "touch", "read",
                             "adopt", "find"}
  BY StepsOf DEF Kinds, Editable

\* The row grants the copy's write, so its client has been marked.
LEMMA SeenIsHeld ==
  ASSUME Inv, NEW k \in Copies, AtWork(k), row # Null,
         row.owner = copies[k].by \/ kind = "offer", Same(k)
  PROVE  Held(k)
  BY DEF Inv, CopySound, DoneSound, AtWork, Held, Same, Grants

\* Every statement of a handler either reads or stores.
LEMMA HandleCases ==
  ASSUME Inv, NEW k \in Copies, Handle(k)
  PROVE  Reading(k) \/ Storing(k)
  <1> USE DEF At
  <1>0. kind \in Kinds /\ copies[k] \in Copy /\ CopySound(copies[k])
    BY DEF Inv, TypeOK
  <1>1. CASE \/ PostCategory(k) \/ PostUpsertGood(k) \/ PostUpsertStore(k)
             \/ PostUpsertList(k) \/ PostOffer(k) \/ PostPriceRecord(k) \/ PostListItem(k)
    BY <1>1, StepsOf
       DEF PostCategory, PostUpsertGood, PostUpsertStore, PostUpsertList, PostOffer,
           PostPriceRecord, PostListItem, Post, Reading, AtWork, MayGo
  <1>2. CASE UpsertCategory(k)
    BY <1>2 DEF UpsertCategory, Reading, Storing, AtWork, MayAnswer, Answers, Editable
  <1>3. CASE ReadCategory(k) \/ ReadGoodAndStore(k) \/ ReadOffer(k) \/ ReadAccess(k)
    BY <1>3, StepsOf
       DEF ReadCategory, ReadGoodAndStore, ReadOffer, ReadAccess, Refer, Reading, AtWork,
           MayGo, MayAnswer, Answers
  <1>4. CASE Probe(k)
    BY <1>4, StepsOf DEF Probe, Reading, AtWork, MayGo
  <1>5. CASE ProbeOffer(k)
    BY <1>5, StepsOf, SeenIsHeld
       DEF ProbeOffer, Own, Reading, AtWork, MayGo, MayAnswer, Answers
  <1>6. CASE ProbePrice(k)
    BY <1>6, StepsOf, SeenIsHeld
       DEF ProbePrice, Own, PricesLikelyEqual, Reading, AtWork, MayGo, MayAnswer, Answers
  <1>7. CASE Insert(k) \/ InsertReturning(k) \/ InsertOffer(k)
    BY <1>7, StepsOf
       DEF Insert, InsertReturning, InsertOffer, Reading, Storing, AtWork, MayGo, MayAnswer,
           Answers
  <1>8. CASE AdoptOffer(k)
    BY <1>8, StepsOf, SeenIsHeld
       DEF AdoptOffer, Reading, AtWork, MayGo, MayAnswer, Answers
  <1>9. CASE FindOfferByTriple(k)
    BY <1>9 DEF FindOfferByTriple, Reading, AtWork, MayAnswer, Answers
  <1>10. CASE TouchOffer(k)
    BY <1>0, <1>10, StepsOf
       DEF TouchOffer, Own, CopySound, Reading, AtWork, MayGo, MayAnswer, Held, Answers
  <1>11. CASE UpdateReturning(k) \/ UpdateList(k)
    BY <1>11, StepsOf
       DEF UpdateReturning, UpdateList, Reading, Storing, AtWork, MayAnswer, Answers, Editable
  <1>12. CASE ReadRow(k) \/ ReadItem(k)
    BY <1>0, <1>12
       DEF ReadRow, ReadItem, CopySound, Reading, AtWork, MayAnswer, Held, Answers
  <1> QED
    BY <1>1, <1>2, <1>3, <1>4, <1>5, <1>6, <1>7, <1>8, <1>9, <1>10, <1>11, <1>12 DEF Handle

(***************************************************************************)
(* Every step keeps the invariant                                          *)
(***************************************************************************)
LEMMA NullIsNone ==
  /\ \A c \in Clients, b \in Bodies, l \in BOOLEAN, m \in BOOLEAN :
       /\ [owner |-> c, body |-> b, live |-> l, moved |-> m] # Null
       /\ [owner |-> c, body |-> b, live |-> l] # Null
       /\ <<c, b>> # Null
  /\ \A c \in Clients : c # Null
  /\ \A b \in Bodies : b # Null
  /\ \A a \in Answers : a # Null
  /\ "ok" # Null /\ "conflict" # Null
  <1>1. Null \notin Answers
    BY UpsertsAssumption
  <1>2. "ok" # Null /\ "conflict" # Null
    BY <1>1 DEF Answers
  <1> QED
    BY <1>1, <1>2, UpsertsAssumption

\* A copy is put where its handler left it.
LEMMA ReadingKeeps ==
  ASSUME Inv, NEW k \in Copies, Reading(k)
  PROVE  Inv'
  <1>0. /\ copies \in [Copies -> Copy] /\ kind \in Kinds /\ CopySound(copies[k]) /\ AtWork(k)
        /\ UNCHANGED <<kind, timed, twin, refs, client, row, late, done>>
    BY DEF Inv, TypeOK, Reading, Reads, Given, Unwritten
  <1>1. PICK q : copies' = [copies EXCEPT ![k] = q] /\ q \in Copy /\ CopySound(q)
    <2>1. ASSUME NEW pc, MayGo(k, pc), Goto(k, pc)
          PROVE  \E q : copies' = [copies EXCEPT ![k] = q] /\ q \in Copy /\ CopySound(q)
      <3> DEFINE q == [copies[k] EXCEPT !.pc = pc]
      <3>1. pc \in Steps[kind] /\ pc # "answered" /\ pc # "free"
        BY <1>0, <2>1, StepNames DEF MayGo
      <3>2. q \in Copy
        BY <1>0, <3>1 DEF Copy
      <3>3. CopySound(q)
        BY <1>0, <2>1, <3>1 DEF CopySound, AtWork, MayGo, Held, Current, Copy
      <3>4. copies' = [copies EXCEPT ![k] = q]
        BY <2>1 DEF Goto
      <3> QED
        BY <3>2, <3>3, <3>4
    <2>2. ASSUME NEW a, MayAnswer(k, a), Answer(k, a)
          PROVE  \E q : copies' = [copies EXCEPT ![k] = q] /\ q \in Copy /\ CopySound(q)
      <3> DEFINE q == [copies[k] EXCEPT !.pc = "answered", !.answer = a]
      <3>1. a \in Answers
        BY <2>2 DEF MayAnswer
      <3>2. q \in Copy
        BY <1>0, <3>1 DEF Copy
      <3>3. CopySound(q)
        BY <1>0, <2>2, <3>1, NullIsNone
           DEF CopySound, AtWork, MayAnswer, Held, Current, Copy, HasTwin
      <3>4. copies' = [copies EXCEPT ![k] = q]
        BY <2>2 DEF Answer
      <3> QED
        BY <3>2, <3>3, <3>4
    <2> QED
      BY <2>1, <2>2 DEF Reading
  <1>2. TypeOK'
    BY <1>0, <1>1 DEF Inv, TypeOK, Copy
  <1>3. \A j \in Copies : CopySound(copies[j])'
    BY <1>0, <1>1 DEF Inv, CopySound, Current
  <1>4. (\A c \in Clients : ClientSound(c))' /\ RowSound' /\ DoneSound'
    BY <1>0 DEF Inv, ClientSound, RowSound, DoneSound, Grants
  <1> QED
    BY <1>2, <1>3, <1>4 DEF Inv

\* A write finds no row or its owner's, and marks who is granted by what it leaves.
LEMMA StoringKeeps ==
  ASSUME Inv, NEW k \in Copies, Storing(k)
  PROVE  Inv'
  <1> DEFINE o == copies[k]
             e == [owner |-> o.by, body |-> o.body, live |-> TRUE, moved |-> FALSE]
  <1>0. /\ copies \in [Copies -> Copy] /\ kind \in Kinds /\ CopySound(o) /\ o \in Copy
        /\ o.by \in Clients /\ o.body \in Bodies /\ o.n \in Nat /\ 0 < o.n
        /\ client[o.by].n \in Nat /\ o.n <= client[o.by].n
        /\ Current(o) => o.body = client[o.by].body
        /\ o.answer = Null
    BY UpsertsAssumption DEF Inv, TypeOK, Storing, AtWork, CopySound, Copy
  <1>1. /\ UNCHANGED <<kind, timed, twin, refs, client>>
        /\ row' = e /\ e \in Row /\ e # Null
        /\ late' = (late \/ o.n < client[o.by].n)
        /\ done' = done \cup {d \in Clients : Grants(e, d, client[d].body)}
    BY <1>0, NullIsNone DEF Storing, Writes, Given, Row
  <1>2. Current(o) => o.by \in done'
    BY <1>0, <1>1 DEF Grants
  <1>3. PICK q : copies' = [copies EXCEPT ![k] = q] /\ q \in Copy /\ CopySound(q)'
    <2> HIDE DEF o, e
    <2>1. CASE "read" \in Steps[kind] /\ Goto(k, "read")
      <3> DEFINE q == [o EXCEPT !.pc = "read"]
      <3>1. copies' = [copies EXCEPT ![k] = q]
        BY <2>1 DEF Goto, o
      <3>2. q \in Copy
        BY <1>0, <2>1 DEF Copy
      <3>3. q.pc = "read" /\ q.by = o.by /\ q.n = o.n /\ q.body = o.body /\ q.answer = Null
        BY <1>0 DEF Copy
      <3> HIDE DEF q
      <3>4. ASSUME NEW p, p.pc = "read" /\ p.by = o.by /\ p.n = o.n /\ p.body = o.body,
                   p.answer = Null
            PROVE  CopySound(p)'
        BY <1>0, <1>1, <1>2, <3>4, NullIsNone DEF CopySound, Current
      <3> QED
        BY <3>1, <3>2, <3>3, <3>4
    <2>2. CASE Answer(k, "ok")
      <3> DEFINE q == [o EXCEPT !.pc = "answered", !.answer = "ok"]
      <3>1. copies' = [copies EXCEPT ![k] = q]
        BY <2>2 DEF Answer, o
      <3>2. q \in Copy
        BY <1>0, <2>2 DEF Copy, Answers
      <3>3. /\ q.pc = "answered" /\ q.by = o.by /\ q.n = o.n /\ q.body = o.body
            /\ q.answer = "ok"
        BY <1>0 DEF Copy
      <3> HIDE DEF q
      <3>4. ASSUME NEW p, p.pc = "answered" /\ p.by = o.by /\ p.n = o.n /\ p.body = o.body,
                   p.answer = "ok"
            PROVE  CopySound(p)'
        BY <1>0, <1>1, <1>2, <3>4, NullIsNone DEF CopySound, Current
      <3> QED
        BY <3>1, <3>2, <3>3, <3>4
    <2> QED
      BY <2>1, <2>2 DEF Storing
  <1>4. TypeOK'
    BY <1>0, <1>1, <1>3 DEF Inv, TypeOK, Copy
  <1>5. \A j \in Copies : CopySound(copies[j])'
    <2> HIDE DEF e
    <2> QED
      BY <1>0, <1>1, <1>3 DEF Inv, CopySound, Current
  <1>6. (\A c \in Clients : ClientSound(c))'
    <2> HIDE DEF e
    <2> QED
      BY <1>1 DEF Inv, ClientSound
  <1>7. RowSound'
    BY <1>0, <1>1 DEF RowSound, Current
  <1>8. DoneSound'
    <2>1. \A c \in Clients : Grants(e, c, client[c].body) => c \in done'
      BY <1>1
    <2>2. ASSUME ~late', NEW c \in done' PROVE Grants(e, c, client[c].body)
      <3>1. ~late /\ Current(o)
        <4>1. ~late /\ ~(o.n < client[o.by].n)
          BY <1>1, <2>2
        <4> QED
          BY <1>0, <4>1 DEF Current
      <3>2. CASE c \in done
        <4>1. row # Null /\ row.body = client[c].body /\ (row.owner = c \/ kind = "offer")
          BY <3>1, <3>2 DEF Inv, DoneSound, Grants
        <4>2. kind \in Editable /\ row.owner = o.by
          BY <4>1 DEF Storing, Own
        <4>3. c = o.by /\ o.body = client[c].body
          BY <1>0, <3>1, <4>1, <4>2 DEF Editable
        <4> QED
          BY <1>1, <4>3 DEF Grants
      <3> QED
        BY <1>1, <3>2
    <2> HIDE DEF e
    <2> QED
      BY <1>1, <2>1, <2>2 DEF DoneSound, Grants
  <1> QED
    BY <1>4, <1>5, <1>6, <1>7, <1>8 DEF Inv

\* A client's new wish keeps the invariant: no copy of it is under way yet.
LEMMA WriteKeeps ==
  ASSUME Inv, NEW c \in Clients, NEW b \in Bodies, Write(c, b)
  PROVE  Inv'
  <1>0. /\ client[c].n \in Nat /\ client[c].n + 1 \in 0..MaxWrites
        /\ client' = [client EXCEPT ![c] = [n |-> client[c].n + 1, body |-> b,
                                            told |-> "nothing"]]
        /\ done' = IF Grants(row, c, b) THEN done \cup {c} ELSE done \ {c}
        /\ UNCHANGED <<kind, timed, twin, refs, row, copies, late>>
        /\ TypeOK
    BY UpsertsAssumption DEF Inv, TypeOK, Write, Given
  <1>1. TypeOK'
    BY <1>0 DEF TypeOK, Copy
  <1>2. ASSUME NEW k \in Copies PROVE CopySound(copies[k])'
    <2>1. copies[k] \in Copy /\ CopySound(copies[k])
      BY <1>0 DEF Inv, TypeOK
    <2>2. CASE copies[k].by = c /\ copies[k].pc # "free"
      <3>1. copies[k].n < client'[c].n
        BY <1>0, <2>1, <2>2, UpsertsAssumption DEF TypeOK, CopySound, Copy
      <3> QED
        BY <1>0, <2>1, <2>2, <3>1 DEF TypeOK, CopySound, Current, Copy
    <2>3. CASE copies[k].by # c \/ copies[k].pc = "free"
      <3>1. copies[k].pc = "free" => copies[k].answer = Null
        BY <2>1 DEF CopySound
      <3>2. copies[k].by \in done /\ copies[k].by # c => copies[k].by \in done'
        BY <1>0
      <3>3. copies[k].by \in Clients /\ copies[k].by # c
              => client'[copies[k].by] = client[copies[k].by]
        BY <1>0 DEF TypeOK
      <3> QED
        BY <1>0, <2>1, <2>3, <3>1, <3>2, <3>3, NullIsNone
           DEF CopySound, Current, Answers
    <2> QED
      BY <2>2, <2>3
  <1>3. (\A d \in Clients : ClientSound(d))'
    BY <1>0 DEF Inv, TypeOK, ClientSound
  <1>4. RowSound'
    BY <1>0 DEF Inv, TypeOK, RowSound, Row
  <1>5. DoneSound'
    BY <1>0 DEF Inv, TypeOK, DoneSound, Grants
  <1> QED
    BY <1>1, <1>2, <1>3, <1>4, <1>5 DEF Inv

\* The network brings, loses and delivers copies.
LEMMA FreeSound == Free \in Copy /\ CopySound(Free)
  <1>1. Free \in Copy
    BY UpsertsAssumption DEF Free, Copy
  <1>2. CopySound(Free)
    BY NullIsNone DEF Free, CopySound
  <1> QED
    BY <1>1, <1>2

\* A copy sent, first or again, carries the client's present wish.
LEMMA SendKeeps ==
  ASSUME Inv, NEW c \in Clients, NEW k \in Copies, Send(c, k)
  PROVE  Inv'
  <1> DEFINE q == [pc |-> "sent", by |-> c, n |-> client[c].n, body |-> client[c].body,
                   answer |-> Null]
  <1>0. /\ copies' = [copies EXCEPT ![k] = q]
        /\ UNCHANGED <<kind, timed, twin, refs, client, row, late, done>>
        /\ TypeOK /\ client[c].n > 0
    BY DEF Inv, Send, Given, Unwritten
  <1>1. q \in Copy
    BY <1>0 DEF TypeOK, Copy
  <1>2. CopySound(q)
    BY <1>0, NullIsNone DEF Inv, TypeOK, ClientSound, CopySound, Current
  <1> HIDE DEF q
  <1>3. TypeOK'
    BY <1>0, <1>1 DEF TypeOK, Copy
  <1>4. \A j \in Copies : CopySound(copies[j])'
    BY <1>0, <1>2 DEF Inv, TypeOK, CopySound, Current
  <1> QED
    BY <1>0, <1>3, <1>4 DEF Inv, ClientSound, RowSound, DoneSound, Grants

\* A lost copy leaves nothing that could be wrong.
LEMMA LoseKeeps ==
  ASSUME Inv, NEW k \in Copies, Lose(k)
  PROVE  Inv'
  <1>0. /\ copies' = [copies EXCEPT ![k] = Free]
        /\ UNCHANGED <<kind, timed, twin, refs, client, row, late, done>>
        /\ TypeOK
    BY DEF Inv, Lose, Given, Unwritten
  <1>1. TypeOK'
    BY <1>0, FreeSound DEF TypeOK, Copy
  <1>2. \A j \in Copies : CopySound(copies[j])'
    BY <1>0, FreeSound DEF Inv, TypeOK, CopySound, Current
  <1> QED
    BY <1>0, <1>1, <1>2 DEF Inv, ClientSound, RowSound, DoneSound, Grants

\* The answer a client takes is sound for what it asked.
LEMMA ReceiveKeeps ==
  ASSUME Inv, NEW k \in Copies, Receive(k)
  PROVE  Inv'
  <1> DEFINE q == copies[k]
  <1>0. /\ copies' = [copies EXCEPT ![k] = Free]
        /\ UNCHANGED <<kind, timed, twin, refs, row, late, done>>
        /\ TypeOK /\ q \in Copy /\ CopySound(q) /\ q.pc = "answered"
        /\ q.answer \in Answers /\ q.by \in Clients
    BY DEF Inv, TypeOK, Receive, Given, Unwritten, CopySound, Copy
  <1>1. /\ client' \in [Clients -> [n : 0..MaxWrites, body : Bodies \cup {Null},
                                    told : Answers \cup {"nothing"}]]
        /\ \A c \in Clients : client'[c].n = client[c].n /\ client'[c].body = client[c].body
        /\ \A c \in Clients : \/ client'[c].told = client[c].told
                              \/ c = q.by /\ Current(q) /\ client'[c].told = q.answer
    BY <1>0 DEF TypeOK, Receive, Current
  <1>2. TypeOK'
    BY <1>0, <1>1, FreeSound DEF TypeOK, Copy
  <1>3. \A j \in Copies : CopySound(copies[j])'
    <2>1. ASSUME NEW j \in Copies PROVE CopySound(copies'[j])
      BY <1>0, FreeSound DEF Inv, TypeOK
    <2>2. ASSUME NEW p, CopySound(p) PROVE CopySound(p)'
      BY <1>0, <1>1, <2>2, NullIsNone DEF CopySound, Current
    <2> QED
      BY <2>1, <2>2
  <1>4. ASSUME NEW c \in Clients PROVE ClientSound(c)'
    <2>1. CASE client'[c].told = client[c].told
      BY <1>0, <1>1, <2>1 DEF Inv, ClientSound
    <2>2. CASE c = q.by /\ Current(q) /\ client'[c].told = q.answer
      BY <1>0, <1>1, <2>2 DEF Inv, ClientSound, CopySound
    <2> QED
      BY <1>1, <2>1, <2>2
  <1>5. RowSound' /\ DoneSound'
    BY <1>0, <1>1 DEF Inv, TypeOK, RowSound, DoneSound, Grants, Row
  <1> QED
    BY <1>2, <1>3, <1>4, <1>5 DEF Inv

\* What the rest of the system does to the row changes neither owner nor body.
LEMMA OthersKeep ==
  ASSUME Inv, RefsAppear \/ RefsGo \/ Remove
  PROVE  Inv'
  <1>0. /\ UNCHANGED <<kind, timed, twin, client, copies, late, done>>
        /\ TypeOK /\ refs' \in {"missing", "found", "gone"}
    BY DEF Inv, TypeOK, RefsAppear, RefsGo, Remove, Given, Unwritten
  <1>1. /\ row' \in Row /\ (row' = Null <=> row = Null)
        /\ row # Null => row'.owner = row.owner /\ row'.body = row.body
    <2>1. CASE row' = row
      BY <1>0, <2>1 DEF TypeOK
    <2>2. CASE row # Null /\ row' = [row EXCEPT !.moved = TRUE]
      BY <1>0, <2>2, UpsertsAssumption DEF TypeOK, Row
    <2>3. CASE row # Null /\ row' = [row EXCEPT !.live = FALSE]
      BY <1>0, <2>3, UpsertsAssumption DEF TypeOK, Row
    <2> QED
      BY <2>1, <2>2, <2>3 DEF RefsAppear, RefsGo, Remove, Unwritten
  <1>2. TypeOK'
    BY <1>0, <1>1 DEF TypeOK, Copy
  <1>3. \A k \in Copies : CopySound(copies[k])'
    BY <1>0, <1>1 DEF Inv, CopySound, Current
  <1>4. (\A c \in Clients : ClientSound(c))' /\ RowSound' /\ DoneSound'
    BY <1>0, <1>1 DEF Inv, ClientSound, RowSound, DoneSound, Grants
  <1> QED
    BY <1>2, <1>3, <1>4 DEF Inv

\* Every step keeps the invariant.
LEMMA StepKeeps == Inv /\ [Next]_vars => Inv'
  <1> SUFFICES ASSUME Inv, [Next]_vars PROVE Inv'
    OBVIOUS
  <1>1. CASE UNCHANGED vars
    BY <1>1 DEF vars, Inv, TypeOK, Copy, CopySound, Current, ClientSound, RowSound,
                DoneSound, Grants
  <1>2. CASE Next
    BY <1>2, HandleCases, ReadingKeeps, StoringKeeps, WriteKeeps, SendKeeps, LoseKeeps,
       ReceiveKeeps, OthersKeep DEF Next
  <1> QED
    BY <1>1, <1>2

\* The invariant holds at the start.
LEMMA InitHolds == Init => Inv
  <1> SUFFICES ASSUME Init PROVE Inv
    OBVIOUS
  <1>1. TypeOK
    <2>1. kind \in Kinds /\ timed \in BOOLEAN /\ twin \in (Clients \X Bodies) \cup {Null}
      BY DEF Init
    <2>2. refs \in {"missing", "found", "gone"} /\ row \in Row /\ late \in BOOLEAN
          /\ done \subseteq Clients
      BY DEF Init, Row
    <2>3. client \in [Clients -> [n : 0..MaxWrites, body : Bodies \cup {Null},
                                 told : Answers \cup {"nothing"}]]
      BY UpsertsAssumption DEF Init
    <2>4. copies \in [Copies -> Copy]
      BY FreeSound DEF Init
    <2> QED
      BY <2>1, <2>2, <2>3, <2>4 DEF TypeOK
  <1>2. \A k \in Copies : CopySound(copies[k])
    BY FreeSound DEF Init
  <1>3. \A c \in Clients : ClientSound(c)
    BY DEF Init, ClientSound
  <1>4. RowSound /\ DoneSound
    BY DEF Init, RowSound, DoneSound, Grants
  <1> QED
    BY <1>1, <1>2, <1>3, <1>4 DEF Inv

\* What a handler knows when it answers stays true until the answer arrives,
\* whatever the other copies do meanwhile.
THEOREM Invariant == Spec => []Inv
  BY InitHolds, StepKeeps, PTL DEF Spec

\* The row, the copies under way and what each client holds keep their types.
THEOREM TypeCorrect == Spec => []TypeOK
  <1>1. Inv => TypeOK
    BY DEF Inv
  <1> QED
    BY Invariant, <1>1, PTL

\* What a client was last told is stored stays as it wrote it, unless a delayed
\* copy of an older write came after it (service/goods.go:69).
THEOREM LastWord == Spec => []LastWordStands
  <1>1. Inv => LastWordStands
    BY DEF Inv, ClientSound, DoneSound, LastWordStands
  <1> QED
    BY Invariant, <1>1, PTL

\* A conflict met by a client that alone uses the id and wrote it once is its own
\* copy: repeating the write is harmless (service/lists.go:168, pricing.go:41).
THEOREM OwnConflict == Spec => []ConflictIsOwnCopy
  <1>1. Inv => ConflictIsOwnCopy
    <2> SUFFICES ASSUME Inv, NEW c \in Clients, client[c].told = "conflict",
                        client[c].n = 1, twin = Null,
                        \A d \in Clients \ {c} : client[d].n = 0
                 PROVE  row # Null /\ row.owner = c /\ row.body = client[c].body
      BY DEF ConflictIsOwnCopy
    <2>1. client[c].body \in Bodies /\ row # Null
      <3>1. client[c].body \in Bodies
        BY DEF Inv, ClientSound
      <3>2. <<c, client[c].body>> # Null
        BY <3>1, NullIsNone
      <3> QED
        BY <3>1, <3>2 DEF Inv, ClientSound
    <2>2. row.owner \in Clients /\ client[row.owner].n > 0
      BY <2>1 DEF Inv, TypeOK, Row, RowSound
    <2> QED
      BY <2>1, <2>2 DEF Inv, RowSound
  <1> QED
    BY Invariant, <1>1, PTL

(***************************************************************************)
(* The refinement: one lemma per kind of step                              *)
(***************************************************************************)
\* The mapped row grants what the row grants.
LEMMA SameGrants ==
  ASSUME row \in Row, NEW c, NEW b
  PROVE  /\ Entry = Null <=> row = Null
         /\ row # Null => /\ Entry.owner = row.owner /\ Entry.body = row.body
                          /\ Entry.live = row.live
         /\ Promise!Grants(Entry, c, b) <=> Grants(row, c, b)
  <1>1. row # Null => /\ row.owner \in Clients /\ row.body \in Bodies /\ row.live \in BOOLEAN
                      /\ Entry # Null
    BY NullIsNone DEF Row, Entry
  <1> QED
    BY <1>1 DEF Entry, Promise!Grants, Grants

\* A write the table takes is the Register's Store.
LEMMA StoreStep ==
  ASSUME Inv, Inv', NEW k \in Copies, Storing(k)
  PROVE  Promise!Next
  <1> DEFINE c == copies[k].by
             b == copies[k].body
             e == [owner |-> c, body |-> b, live |-> TRUE, moved |-> FALSE]
  <1>1. c \in Clients /\ b \in Bodies
    BY DEF Inv, CopySound, Storing, AtWork
  <1>2. /\ UNCHANGED <<kind, twin, client>> /\ row' = e /\ e # Null /\ e \in Row /\ row \in Row
        /\ done' = done \cup {d \in Clients : Grants(e, d, client[d].body)}
    BY <1>1, NullIsNone DEF Storing, Writes, Given, Inv, TypeOK, Row
  <1>3. Entry' = [owner |-> c, body |-> b, live |-> TRUE]
    BY <1>2 DEF Entry
  <1>4. Entry # Null => (kind \in Editable) /\ Entry.live /\ Entry.owner = c
    BY <1>2, SameGrants DEF Storing, Own
  <1>5. Wishes' = Wishes /\ \A d \in Clients : Wishes[d].body = client[d].body
    BY <1>2 DEF Wishes
  <1>6. ASSUME NEW d \in Clients, NEW w
        PROVE  Promise!Grants(Entry', d, w) <=> Grants(e, d, w)
    <2>1. Entry' # Null /\ Entry'.owner = c /\ Entry'.body = b
      BY <1>1, <1>3, NullIsNone
    <2> QED
      BY <1>2, <2>1 DEF Promise!Grants, Grants
  <1>7. done' = Promise!DoneWith(Entry', Wishes)
    BY <1>2, <1>5, <1>6 DEF Promise!DoneWith
  <1>8. Promise!Store(c, b)
    BY <1>3, <1>4, <1>5, <1>7 DEF Promise!Store
  <1> QED
    BY <1>1, <1>2, <1>8 DEF Promise!Next

\* A client's new wish is a wish of the register.
LEMMA WishStep ==
  ASSUME Inv, NEW c \in Clients, NEW b \in Bodies, Write(c, b)
  PROVE  Promise!Next
  <1>1. /\ UNCHANGED <<kind, twin, row>> /\ row \in Row
        /\ client' = [client EXCEPT ![c] = [n |-> client[c].n + 1, body |-> b,
                                            told |-> "nothing"]]
        /\ client \in [Clients -> [n : 0..MaxWrites, body : Bodies \cup {Null},
                                   told : Answers \cup {"nothing"}]]
        /\ done' = IF Grants(row, c, b) THEN done \cup {c} ELSE done \ {c}
    BY DEF Inv, TypeOK, Write, Given
  <1>2. Entry' = Entry
    BY <1>1 DEF Entry
  <1>3. Wishes' = [Wishes EXCEPT ![c] = [body |-> b, told |-> "nothing"]]
    BY <1>1 DEF Wishes
  <1>4. done' = (done \ {c}) \cup {d \in {c} : Promise!Grants(Entry, c, b)}
    BY <1>1, SameGrants
  <1> QED
    BY <1>1, <1>2, <1>3, <1>4 DEF Promise!Next, Promise!Wish

\* An answer that the client still waits for is what the Register may tell it.
LEMMA TellStep ==
  ASSUME Inv, NEW k \in Copies, Receive(k)
  PROVE  Promise!Next \/ UNCHANGED Promise!vars
  <1> DEFINE q == copies[k]
  <1>1. /\ UNCHANGED <<kind, twin, row, done>> /\ row \in Row /\ CopySound(q)
        /\ q.by \in Clients /\ q.answer \in Answers
        /\ client \in [Clients -> [n : 0..MaxWrites, body : Bodies \cup {Null},
                                   told : Answers \cup {"nothing"}]]
    BY DEF Inv, TypeOK, Receive, Given, Unwritten, CopySound, Copy
  <1>2. Entry' = Entry
    BY <1>1 DEF Entry
  <1>3. CASE Current(q) /\ client[q.by].told = "nothing"
    <2>1. client' = [client EXCEPT ![q.by].told = q.answer]
      BY <1>3 DEF Receive, Current
    <2>2. Wishes' = [Wishes EXCEPT ![q.by].told = q.answer]
      BY <1>1, <2>1 DEF Wishes
    <2>3. Wishes[q.by].told = "nothing" /\ Wishes[q.by].body = client[q.by].body
      BY <1>1, <1>3 DEF Wishes
    <2>4. q.answer = "ok" => q.by \in done
      BY <1>1, <1>3 DEF CopySound
    <2>5. q.body = client[q.by].body
      BY <1>3 DEF Receive, Inv, CopySound
    <2>6. q.answer = "conflict" => Entry # Null \/ twin = <<q.by, Wishes[q.by].body>>
      BY <1>1, <2>3, <2>5, SameGrants DEF CopySound
    <2>7. Promise!Tell(q.by, q.answer)
      BY <1>1, <1>2, <2>2, <2>3, <2>4, <2>6 DEF Promise!Tell
    <2> QED
      BY <1>1, <2>7 DEF Promise!Next, Answers
  <1>4. CASE ~(Current(q) /\ client[q.by].told = "nothing")
    <2>1. client' = client
      BY <1>4 DEF Receive, Current
    <2> QED
      BY <1>1, <1>2, <2>1 DEF Promise!vars, Wishes
  <1> QED
    BY <1>3, <1>4

\* A removed entry, written as a record.
LEMMA EntryRemoved ==
  ASSUME NEW e \in [owner : Clients, body : Bodies, live : BOOLEAN]
  PROVE  [e EXCEPT !.live = FALSE] = [owner |-> e.owner, body |-> e.body, live |-> FALSE]
  <1> DEFINE E == [owner : Clients, body : Bodies, live : BOOLEAN]
  <1>1. [e EXCEPT !.live = FALSE] \in E
    OBVIOUS
  <1>2. [owner |-> e.owner, body |-> e.body, live |-> FALSE] \in E
    OBVIOUS
  <1>3. /\ [e EXCEPT !.live = FALSE].owner = e.owner
        /\ [e EXCEPT !.live = FALSE].body = e.body
        /\ [e EXCEPT !.live = FALSE].live = FALSE
    OBVIOUS
  <1>4. ASSUME NEW x \in E, NEW y \in E,
               x.owner = y.owner, x.body = y.body, x.live = y.live
        PROVE  x = y
    BY <1>4
  <1> QED
    BY <1>1, <1>2, <1>3, <1>4

\* A removal is a removal of the register.
LEMMA RemoveStep ==
  ASSUME Inv, Remove
  PROVE  Promise!Next
  <1>1. /\ row # Null /\ row' = [row EXCEPT !.live = FALSE] /\ row \in Row
        /\ UNCHANGED <<kind, twin, client, done>>
    BY DEF Inv, TypeOK, Remove, Given
  <1>2. row' # Null /\ row' \in Row
    BY <1>1, UpsertsAssumption DEF Row
  <1>3. Entry # Null /\ Entry' = [Entry EXCEPT !.live = FALSE]
    <2>1. /\ Entry = [owner |-> row.owner, body |-> row.body, live |-> row.live]
          /\ Entry' = [owner |-> row.owner, body |-> row.body, live |-> FALSE]
      BY <1>1, <1>2 DEF Entry, Row
    <2>2. Entry # Null
      BY <1>1, SameGrants
    <2>3. Entry \in [owner : Clients, body : Bodies, live : BOOLEAN]
      BY <1>1, <2>1 DEF Row
    <2>4. /\ Entry.owner = row.owner /\ Entry.body = row.body
      BY <2>1
    <2> QED
      BY <2>1, <2>2, <2>3, <2>4, EntryRemoved
  <1>4. Wishes' = Wishes
    BY <1>1 DEF Wishes
  <1> QED
    BY <1>1, <1>3, <1>4 DEF Promise!Next, Promise!Remove

\* Nothing the Register knows of changes.
LEMMA OtherSteps ==
  ASSUME Inv,
         \/ \E c \in Clients, k \in Copies : Send(c, k)
         \/ \E k \in Copies : Lose(k) \/ Reading(k)
         \/ RefsAppear \/ RefsGo \/ UNCHANGED vars
  PROVE  UNCHANGED Promise!vars
  <1>1. /\ UNCHANGED <<kind, twin, client, done>> /\ row \in Row
        /\ row' = row \/ (row # Null /\ row' = [row EXCEPT !.moved = TRUE])
    BY DEF Inv, TypeOK, Send, Lose, Reading, Reads, RefsAppear, RefsGo, Given, Unwritten, vars
  <1>2. Wishes' = Wishes
    BY <1>1 DEF Wishes
  <1>3. Entry' = Entry
    <2>1. CASE row' = row
      BY <2>1 DEF Entry
    <2>2. CASE row # Null /\ row' = [row EXCEPT !.moved = TRUE]
      <3>1. row' # Null
        BY <1>1, <2>2, UpsertsAssumption DEF Row
      <3> QED
        BY <1>1, <2>2, <3>1 DEF Entry, Row
    <2> QED
      BY <1>1, <2>1, <2>2
  <1> QED
    BY <1>1, <1>2, <1>3 DEF Promise!vars

\* Before the first write the register is empty.
LEMMA InitStep == Init => Promise!Init
  <1> SUFFICES ASSUME Init PROVE Promise!Init
    OBVIOUS
  <1>1. Entry = Null
    BY DEF Init, Entry
  <1>2. Wishes = [c \in Clients |-> Promise!NoWish]
    BY DEF Init, Wishes, Promise!NoWish
  <1>3. (kind \in Editable) \in BOOLEAN /\ (kind = "offer") \in BOOLEAN
    OBVIOUS
  <1> QED
    BY <1>1, <1>2, <1>3 DEF Init, Promise!Init

\* However often a request is repeated, lost or delayed, the id is a Register: no
\* client changes another's row, a recorded price or an offer is never rewritten,
\* "ok" is said only of a write the table has held since the client made it and
\* "conflict" only when the id is taken (service/goods.go:40, offers.go:62,
\* pricing.go:37).
THEOREM UpsertsImplementRegister == Spec => ImplementsRegister
  <1>1. Inv /\ [Next]_vars => [Promise!Next]_(Promise!vars)
    <2> SUFFICES ASSUME Inv, [Next]_vars
                 PROVE  Promise!Next \/ UNCHANGED Promise!vars
      OBVIOUS
    <2>1. Inv'
      BY StepKeeps
    <2> QED
      BY <2>1, HandleCases, StoreStep, WishStep, TellStep, RemoveStep, OtherSteps DEF Next
  <1> QED
    BY <1>1, InitStep, Invariant, PTL DEF Spec, ImplementsRegister, Promise!Spec
===============================================================================

--------------------------- MODULE SharingProofs ---------------------------
(***************************************************************************)
(* Theorems about Sharing, for every set of owners, lists, items, tokens   *)
(* and request slots.                                                      *)
(*                                                                         *)
(* SharingInv is inductive.  Most steps change one request and no table:   *)
(* OneRequestMoves says what such a step has to show, namely RequestInv of *)
(* the request as the step leaves it.  The steps that write a table are    *)
(* taken one by one.                                                       *)
(***************************************************************************)
EXTENDS Sharing, TLAPS

USE DEF Accepting

(***************************************************************************)
(* Types                                                                   *)
(***************************************************************************)
\* The empty patch is a patch and a new item has a body.
LEMMA NoPatchType == NoPatch \in Patches /\ NewBody \in Bodies
BY ConstantsAssumption DEF NoPatch, Patches, NewBody, Bodies

\* A whole body can be given as a patch.
LEMMA PatchTypes == \A b \in Bodies : b \in Patches
BY DEF Patches, Bodies

\* An idle slot satisfies what is asked of a request.
LEMMA IdleInv == Idle \in Request /\ RequestInv(Idle)
BY DEF Request, RequestInv

\* The rows that are not there have their type.
LEMMA NullRows ==
  /\ NoList \in ListRow /\ NoItem \in ItemRow /\ NoShare \in ShareRow /\ NoInv \in InvRow
  /\ NoList.st = "absent" /\ NoItem.st = "absent"
  /\ NoShare.st = "absent" /\ NoInv.st = "absent"
BY DEF NoList, ListRow, NoItem, ItemRow, NoShare, ShareRow, NoInv, InvRow

\* Empty tables and idle slots satisfy the invariant.
LEMMA InitInv == Init => SharingInv
<1> SUFFICES ASSUME Init PROVE SharingInv OBVIOUS
<1>1. TypeOK BY NoPatchType, IdleInv, NullRows DEF Init, TypeOK
<1>2. \A r \in Reqs : RequestInv(reqs[r]) BY IdleInv DEF Init
<1>3. RowsBelongToAuthor /\ AuthorIsNoMember /\ LinkTimes
  BY NullRows DEF Init, RowsBelongToAuthor, RowBelongs, AuthorIsNoMember, LinkTimes
<1> QED BY <1>1, <1>2, <1>3 DEF SharingInv

\* Rows that are there, and their columns.
LEMMA RowColumns ==
  ASSUME TypeOK
  PROVE  /\ \A l \in Lists : lists[l].st # "absent" =>
              lists[l].st \in {"active", "deleted"} /\ lists[l].owner \in Owners
              /\ lists[l].at \in Nat
         /\ \A i \in Items : items[i].st # "absent" =>
              items[i].st \in {"live", "deleted"} /\ items[i].owner \in Owners
              /\ items[i].list \in Lists /\ items[i].body \in Bodies /\ items[i].at \in Nat
         /\ \A l \in Lists, m \in Owners : shares[l][m].st # "absent" =>
              shares[l][m].st \in {"active", "revoked"} /\ shares[l][m].owner \in Owners
              /\ shares[l][m].access \in Access /\ shares[l][m].at \in Nat
         /\ \A t \in Tokens : invs[t].st # "absent" =>
              invs[t].st \in {"pending", "accepted", "revoked"} /\ invs[t].list \in Lists
              /\ invs[t].owner \in Owners /\ invs[t].access \in Access
              /\ invs[t].by \in Owners \cup {Null}
              /\ invs[t].created \in Nat /\ invs[t].expires \in Nat
<1>1. \A row \in ListRow : row.st # "absent" =>
        row.st \in {"active", "deleted"} /\ row.owner \in Owners /\ row.at \in Nat
  BY DEF ListRow, NoList
<1>2. \A row \in ItemRow : row.st # "absent" =>
        row.st \in {"live", "deleted"} /\ row.owner \in Owners
        /\ row.list \in Lists /\ row.body \in Bodies /\ row.at \in Nat
  BY DEF ItemRow, NoItem
<1>3. \A row \in ShareRow : row.st # "absent" =>
        row.st \in {"active", "revoked"} /\ row.owner \in Owners
        /\ row.access \in Access /\ row.at \in Nat
  BY DEF ShareRow, NoShare
<1>4. \A row \in InvRow : row.st # "absent" =>
        row.st \in {"pending", "accepted", "revoked"} /\ row.list \in Lists
        /\ row.owner \in Owners /\ row.access \in Access /\ row.by \in Owners \cup {Null}
        /\ row.created \in Nat /\ row.expires \in Nat
  BY DEF InvRow, NoInv
<1> QED BY <1>1, <1>2, <1>3, <1>4 DEF TypeOK

ListThere  == [st : {"active", "deleted"}, owner : Owners, at : Nat]
ShareThere == [st : {"active", "revoked"}, owner : Owners, access : Access, at : Nat]
InvThere   == [st : {"pending", "accepted", "revoked"}, list : Lists, owner : Owners,
               access : Access, by : Owners \cup {Null}, created : Nat, expires : Nat]

\* A row is the empty one or has every column.
LEMMA RowsThere ==
  /\ ListThere \subseteq ListRow /\ ShareThere \subseteq ShareRow
  /\ InvThere \subseteq InvRow
  /\ \A w \in ListRow : w.st # "absent" => w \in ListThere
  /\ \A s \in ShareRow : s.st # "absent" => s \in ShareThere
  /\ \A s \in ShareRow : s.st = "absent" => s = NoShare
  /\ \A v \in InvRow : v.st # "absent" => v \in InvThere
BY DEF ListThere, ShareThere, InvThere, ListRow, ShareRow, InvRow, NoList, NoShare, NoInv

\* The type of each field of a request that is not idle.
LEMMA RequestColumns ==
  ASSUME NEW q \in Request, q.pc # "idle"
  PROVE  /\ q # Idle /\ q.op \in AllOps /\ q.caller \in Owners
         /\ q.list \in Lists \cup {Null} /\ q.owner \in Owners \cup {Null}
         /\ q.item \in Items \cup {Null} /\ q.token \in Tokens \cup {Null}
         /\ q.member \in Owners \cup {Null} /\ q.access \in Access \cup {Null}
         /\ q.patch \in Patches /\ q.seen \in Patches /\ q.start \in Nat
BY DEF Request, Idle

(***************************************************************************)
(* Steps that move one request and write no table                          *)
(***************************************************************************)
\* A step that changes one request, and no table, need only show
\* RequestInv of that request.
LEMMA OneRequestMoves ==
  ASSUME SharingInv, UNCHANGED <<now, dbVars, editors, said>>,
         NEW r \in Reqs, NEW q \in Request, RequestInv(q),
         reqs' = [reqs EXCEPT ![r] = q]
  PROVE  SharingInv'
<1>1. TypeOK' BY DEF SharingInv, TypeOK, dbVars
<1>2. ASSUME NEW p \in Reqs PROVE RequestInv(reqs[p])'
  BY DEF SharingInv, TypeOK, RequestInv, Carries, HoldsList, HoldsToken, ListHeld, dbVars
<1>3. (RowsBelongToAuthor /\ AuthorIsNoMember /\ LinkTimes)'
  BY DEF SharingInv, RowsBelongToAuthor, RowBelongs, AuthorIsNoMember, LinkTimes, dbVars
<1> QED BY <1>1, <1>2, <1>3 DEF SharingInv

\* A request that ends without writing anything, failed or answered.
LEMMA FailInv ==
  ASSUME SharingInv, NEW r \in Reqs, End(r), UNCHANGED <<now, dbVars, editors, said>>
  PROVE  SharingInv'
BY OneRequestMoves, IdleInv DEF End

\* A request that arrives carries what the first statement gave it.
LEMMA BeginInv ==
  ASSUME SharingInv, UNCHANGED <<now, dbVars, editors, said>>,
         NEW r \in Reqs, NEW op, NEW req,
         Begin(r, op, req),
         LET q == [req EXCEPT !.op = op, !.start = now] IN
           q \in Request /\ RequestInv(q)
  PROVE  SharingInv'
BY OneRequestMoves DEF Begin

\* The handlers that run are among those of the API.
LEMMA OpsType == Ops \subseteq AllOps /\ MaxRequestAge \in Nat
BY ConstantsAssumption

\* Every first statement leaves a request that holds what it has read.
LEMMA ArriveInv ==
  ASSUME SharingInv, NEW r \in Reqs, Arrive(r)
  PROVE  SharingInv'
<1>0. TypeOK /\ now \in Nat BY DEF SharingInv, TypeOK
<1>a. ASSUME NEW op \in Ops PROVE op \in AllOps BY OpsType
<1>1. CASE \E o \in Owners, l \in Lists : UpsertListProbe(r, o, l)
  <2>1. PICK o \in Owners, l \in Lists : UpsertListProbe(r, o, l) BY <1>1
  <2> DEFINE q == [[Idle EXCEPT !.pc = "insertList", !.caller = o, !.list = l]
                     EXCEPT !.op = "upsertList", !.start = now]
  <2>2. q \in Request BY <1>0, IdleInv, NoPatchType DEF Request, Idle, AllOps
  <2>3. RequestInv(q) BY <1>0, OpsType DEF RequestInv, Carries, HoldsList, HoldsToken, Idle
  <2> QED BY <2>1, <2>2, <2>3, BeginInv DEF UpsertListProbe
<1>2. CASE \E o \in Owners, l \in Lists, a \in Access : CreateInvitationCheck(r, o, l, a)
  <2>1. PICK o \in Owners, l \in Lists, a \in Access : CreateInvitationCheck(r, o, l, a)
    BY <1>2
  <2> DEFINE q == [[[Idle EXCEPT !.pc = "insertInv", !.access = a]
                      EXCEPT !.caller = o, !.list = l]
                     EXCEPT !.op = "createInvitation", !.start = now]
  <2>2. q \in Request BY <1>0, IdleInv, NoPatchType DEF Request, Idle, AllOps
  <2>3. RequestInv(q)
    BY <1>0, <2>1, OpsType
    DEF RequestInv, Carries, HoldsList, HoldsToken, ListHeld, Idle,
        CreateInvitationCheck, RequireOwner, OwnsActive
  <2> QED BY <2>1, <2>2, <2>3, BeginInv DEF CreateInvitationCheck, RequireOwner
<1>3. CASE \E o, m \in Owners, l \in Lists : RevokeShareCheck(r, o, l, m)
  <2>1. PICK o \in Owners, m \in Owners, l \in Lists : RevokeShareCheck(r, o, l, m) BY <1>3
  <2> DEFINE q == [[[Idle EXCEPT !.pc = "endShare", !.member = m]
                      EXCEPT !.caller = o, !.list = l]
                     EXCEPT !.op = "revokeShare", !.start = now]
  <2>2. q \in Request BY <1>0, IdleInv, NoPatchType DEF Request, Idle, AllOps
  <2>3. RequestInv(q) BY <1>0, OpsType DEF RequestInv, Carries, HoldsList, HoldsToken, Idle
  <2> QED BY <2>1, <2>2, <2>3, BeginInv DEF RevokeShareCheck, RequireOwner
<1>4. CASE \E o, m \in Owners, l \in Lists, a \in Access : ChangeAccessCheck(r, o, l, m, a)
  <2>1. PICK o \in Owners, m \in Owners, l \in Lists, a \in Access :
          ChangeAccessCheck(r, o, l, m, a)
    BY <1>4
  <2> DEFINE q == [[[Idle EXCEPT !.pc = "setAccess", !.member = m, !.access = a]
                      EXCEPT !.caller = o, !.list = l]
                     EXCEPT !.op = "changeAccess", !.start = now]
  <2>2. q \in Request BY <1>0, IdleInv, NoPatchType DEF Request, Idle, AllOps
  <2>3. RequestInv(q) BY <1>0, OpsType DEF RequestInv, Carries, HoldsList, HoldsToken, Idle
  <2> QED BY <2>1, <2>2, <2>3, BeginInv DEF ChangeAccessCheck, RequireOwner
<1>5. CASE \E o \in Owners, l \in Lists, i \in Items : AddItemBegin(r, o, i, l)
  <2>1. PICK o \in Owners, l \in Lists, i \in Items : AddItemBegin(r, o, i, l) BY <1>5
  <2> DEFINE q == [[Idle EXCEPT !.pc = "author", !.caller = o, !.item = i, !.list = l]
                     EXCEPT !.op = "addItem", !.start = now]
  <2>2. q \in Request BY <1>0, IdleInv, NoPatchType DEF Request, Idle, AllOps
  <2>3. RequestInv(q) BY <1>0, OpsType DEF RequestInv, Carries, HoldsList, HoldsToken, Idle
  <2> QED BY <2>1, <2>2, <2>3, BeginInv DEF AddItemBegin
<1>6. CASE \E o \in Owners, t \in Tokens : AcceptBegin(r, o, t)
  <2>1. PICK o \in Owners, t \in Tokens : AcceptBegin(r, o, t) BY <1>6
  <2> DEFINE q == [[Idle EXCEPT !.pc = "begun", !.caller = o, !.token = t]
                     EXCEPT !.op = "acceptInvitation", !.start = now]
  <2>2. q \in Request BY <1>0, IdleInv, NoPatchType DEF Request, Idle, AllOps
  <2>3. RequestInv(q) BY <1>0, OpsType DEF RequestInv, Carries, HoldsList, HoldsToken, Idle
  <2> QED BY <2>1, <2>2, <2>3, BeginInv DEF AcceptBegin
<1>7. ASSUME NEW o \in Owners, NEW i \in Items, NEW p \in Patches, NEW op,
             op \in {"patchItem", "deleteItem"}, ItemRead(r, o, i, op, p)
      PROVE  SharingInv'
  <2>1. items[i].list \in Lists /\ items[i].owner \in Owners /\ items[i].body \in Patches
    BY <1>0, <1>7, RowColumns, PatchTypes DEF ItemRead
  <2> DEFINE q == [[Idle EXCEPT !.pc = "author", !.caller = o, !.item = i,
                                !.list = items[i].list, !.owner = items[i].owner,
                                !.patch = p, !.seen = items[i].body]
                     EXCEPT !.op = op, !.start = now]
  <2>2. q \in Request BY <1>0, <1>7, <2>1, IdleInv, NoPatchType DEF Request, Idle, AllOps
  <2>3. RequestInv(q)
    BY <1>0, <2>1, OpsType DEF RequestInv, Carries, HoldsList, HoldsToken, Idle
  <2> QED BY <1>7, <2>2, <2>3, BeginInv DEF ItemRead
<1> QED
  BY <1>1, <1>2, <1>3, <1>4, <1>5, <1>6, <1>7, NoPatchType
  DEF Arrive, PatchItemRead, DeleteItemRead

\* A request that goes on to another step, with no new data.
LEMMA GotoInv ==
  ASSUME SharingInv, UNCHANGED <<now, dbVars, editors, said>>,
         NEW r \in Reqs, NEW pc \in {"shareTaken", "listRead", "member", "owner", "write"},
         Goto(r, pc), reqs[r].pc # "idle",
         RequestInv([reqs[r] EXCEPT !.pc = pc])
  PROVE  SharingInv'
<1>1. \A q \in Request : q.pc # "idle" => [q EXCEPT !.pc = pc] \in Request
  BY RequestColumns DEF Request
<1>2. [reqs[r] EXCEPT !.pc = pc] \in Request BY <1>1 DEF SharingInv, TypeOK
<1> QED BY <1>2, OneRequestMoves DEF Goto, SharingInv, TypeOK

\* The accept copies the token's row into the request.
LEMMA AcceptTakeTokenInv ==
  ASSUME SharingInv, NEW r \in Reqs, AcceptTakeToken(r)
  PROVE  SharingInv'
<1> DEFINE t == reqs[r].token
<1>1. reqs[r] \in Request /\ RequestInv(reqs[r]) /\ reqs[r].pc = "begun" /\ TypeOK
  BY DEF SharingInv, TypeOK, AcceptTakeToken
<1>2. reqs[r] # Idle /\ Carries(reqs[r]) /\ t \in Tokens
  BY <1>1, RequestColumns DEF RequestInv, Carries
<1>3. CASE End(r) BY <1>3, FailInv DEF AcceptTakeToken
<1>4. CASE invs[t].st = "pending" /\ invs[t].expires > reqs[r].start /\ ~End(r)
  <2> DEFINE q == [reqs[r] EXCEPT !.pc = "tokenTaken", !.list = invs[t].list,
                                  !.owner = invs[t].owner, !.access = invs[t].access]
  <2>1. /\ invs[t].list \in Lists /\ invs[t].owner \in Owners /\ invs[t].access \in Access
    BY <1>1, <1>2, <1>4, RowColumns
  <2>2. \A p \in Request : p.pc # "idle" =>
          [p EXCEPT !.pc = "tokenTaken", !.list = invs[t].list,
                    !.owner = invs[t].owner, !.access = invs[t].access] \in Request
    BY <2>1, RequestColumns DEF Request
  <2>3. q \in Request BY <1>1, <2>2
  <2>4. q.pc = "tokenTaken" /\ q.token = t /\ q.list = invs[t].list
        /\ q.owner = invs[t].owner /\ q.access = invs[t].access /\ q.start = reqs[r].start
    BY <1>1, <1>2 DEF Request
  <2>5. RequestInv(q)
    BY <1>2, <1>4, <2>1, <2>4 DEF RequestInv, Carries, HoldsList, HoldsToken
  <2>6. reqs' = [reqs EXCEPT ![r] = q] BY <1>4 DEF AcceptTakeToken, SharingInv, TypeOK
  <2>7. UNCHANGED <<now, dbVars, editors, said>> BY DEF AcceptTakeToken
  <2> QED BY <2>3, <2>5, <2>6, <2>7, OneRequestMoves
<1> QED BY <1>3, <1>4 DEF AcceptTakeToken

\* From here on the accepting owner is not the author.
LEMMA AcceptTakeShareInv ==
  ASSUME SharingInv, NEW r \in Reqs, AcceptTakeShare(r)
  PROVE  SharingInv'
<1> DEFINE q == [reqs[r] EXCEPT !.pc = "shareTaken"]
<1>1. reqs[r] \in Request /\ RequestInv(reqs[r]) /\ reqs[r].pc = "tokenTaken"
  BY DEF SharingInv, TypeOK, AcceptTakeShare
<1>2. reqs[r] # Idle BY <1>1, RequestColumns
<1>3. CASE End(r) BY <1>3, FailInv DEF AcceptTakeShare
<1>4. CASE reqs[r].owner # reqs[r].caller /\ Goto(r, "shareTaken")
  <2>1. \A p \in Request : p.pc # "idle" =>
          LET g == [p EXCEPT !.pc = "shareTaken"] IN
          /\ g.pc = "shareTaken" /\ g.token = p.token /\ g.list = p.list
          /\ g.owner = p.owner /\ g.caller = p.caller /\ g.access = p.access
          /\ g.start = p.start
    BY RequestColumns DEF Request
  <2>2. RequestInv(q)
    BY <1>1, <1>2, <1>4, <2>1 DEF RequestInv, Carries, HoldsList, HoldsToken
  <2> QED BY <1>1, <1>4, <2>2, GotoInv DEF AcceptTakeShare
<1> QED BY <1>3, <1>4 DEF AcceptTakeShare

\* Reading the list adds nothing that must be remembered.
LEMMA AcceptReadListInv ==
  ASSUME SharingInv, NEW r \in Reqs, AcceptReadList(r)
  PROVE  SharingInv'
<1> DEFINE q == [reqs[r] EXCEPT !.pc = "listRead"]
<1>1. reqs[r] \in Request /\ RequestInv(reqs[r]) /\ reqs[r].pc = "shareTaken"
  BY DEF SharingInv, TypeOK, AcceptReadList
<1>2. reqs[r] # Idle BY <1>1, RequestColumns
<1>3. CASE End(r) BY <1>3, FailInv DEF AcceptReadList
<1>4. CASE Goto(r, "listRead")
  <2>1. \A p \in Request : p.pc # "idle" =>
          LET g == [p EXCEPT !.pc = "listRead"] IN
          /\ g.pc = "listRead" /\ g.token = p.token /\ g.list = p.list
          /\ g.owner = p.owner /\ g.caller = p.caller /\ g.access = p.access
          /\ g.start = p.start
    BY RequestColumns DEF Request
  <2>2. RequestInv(q)
    BY <1>1, <1>2, <1>4, <2>1 DEF RequestInv, Carries, HoldsList, HoldsToken
  <2> QED BY <1>1, <1>4, <2>2, GotoInv DEF AcceptReadList
<1> QED BY <1>3, <1>4 DEF AcceptReadList

\* The three reads of an item request before its write.
LEMMA ItemReadsInv ==
  ASSUME SharingInv, NEW r \in Reqs, ReadAuthor(r) \/ ReadMember(r) \/ ReadOwner(r)
  PROVE  SharingInv'
<1>1. reqs[r] \in Request /\ RequestInv(reqs[r]) /\ TypeOK
      /\ reqs[r].pc \in {"author", "member", "owner"}
  BY DEF SharingInv, TypeOK, ReadAuthor, ReadMember, ReadOwner
<1>2. reqs[r] # Idle /\ Carries(reqs[r]) /\ reqs[r].list \in Lists
  BY <1>1, RequestColumns DEF RequestInv, Carries
<1>3. UNCHANGED <<now, dbVars, editors, said>>
  BY DEF ReadAuthor, ReadMember, ReadOwner
<1>4. CASE End(r) BY <1>3, <1>4, FailInv
<1>5. ASSUME NEW pc \in {"member", "owner", "write"}, Goto(r, pc),
             pc = "write" => reqs[r].op # "addItem"
      PROVE  SharingInv'
  <2> DEFINE q == [reqs[r] EXCEPT !.pc = pc]
  <2>1. \A p \in Request : p.pc # "idle" =>
          LET g == [p EXCEPT !.pc = pc] IN
          /\ g.pc = pc /\ g.op = p.op /\ g.list = p.list /\ g.item = p.item
          /\ g.start = p.start
    BY RequestColumns DEF Request
  <2>2. RequestInv(q)
    BY <1>1, <1>2, <1>5, <2>1 DEF RequestInv, Carries, HoldsList, HoldsToken
  <2> QED BY <1>1, <1>3, <1>5, <2>2, GotoInv
<1>6. CASE Granted(r) BY <1>5, <1>6 DEF Granted
<1>7. CASE Goto(r, "member") BY <1>5, <1>7
<1>8. CASE ReadOwner(r) /\ ~End(r)
  <2> DEFINE l == reqs[r].list
             q == [reqs[r] EXCEPT !.pc = "write", !.owner = lists[l].owner]
  <2>1. lists[l].st = "active" /\ lists[l].owner \in Owners
        /\ reqs' = [reqs EXCEPT ![r].pc = "write", ![r].owner = lists[l].owner]
    BY <1>1, <1>2, <1>8, RowColumns DEF ReadOwner
  <2>2. \A p \in Request : p.pc # "idle" =>
          LET g == [p EXCEPT !.pc = "write", !.owner = lists[l].owner] IN
          /\ g \in Request /\ g.pc = "write" /\ g.owner = lists[l].owner
          /\ g.list = p.list /\ g.item = p.item /\ g.start = p.start
    BY <2>1, RequestColumns DEF Request
  <2>3. q \in Request BY <1>1, <2>2
  <2>4. RequestInv(q)
    BY <1>1, <1>2, <2>1, <2>2 DEF RequestInv, Carries, HoldsList, HoldsToken, ListHeld
  <2> QED BY <1>1, <1>3, <2>1, <2>3, <2>4, OneRequestMoves DEF TypeOK
<1> QED BY <1>4, <1>6, <1>7, <1>8 DEF ReadAuthor, ReadMember, ReadOwner

(***************************************************************************)
(* Steps that write a table                                                *)
(***************************************************************************)
\* A request that ends leaves its slot idle; of the others it is enough to know
\* that the step keeps what they hold.
LEMMA OneRequestEnds ==
  ASSUME SharingInv, NEW r \in Reqs, End(r), now' = now,
         \A q \in Request : HoldsList(q) /\ HoldsToken(q) /\ Carries(q)
           => HoldsList(q)' /\ HoldsToken(q)'
  PROVE  /\ reqs' \in [Reqs -> Request]
         /\ \A p \in Reqs : RequestInv(reqs[p])'
<1>1. reqs' \in [Reqs -> Request] BY IdleInv DEF End, SharingInv, TypeOK
<1>2. ASSUME NEW p \in Reqs, reqs'[p] # Idle PROVE RequestInv(reqs[p])'
  <2>1. p # r /\ reqs'[p] = reqs[p] /\ reqs[p] \in Request /\ RequestInv(reqs[p])
    BY <1>2 DEF End, SharingInv, TypeOK
  <2>2. Carries(reqs[p]) /\ HoldsList(reqs[p]) /\ HoldsToken(reqs[p])
    BY <1>2, <2>1 DEF RequestInv
  <2>3. HoldsList(reqs[p])' /\ HoldsToken(reqs[p])' /\ Carries(reqs[p])'
    BY <2>1, <2>2 DEF Carries
  <2> QED BY <2>1, <2>3 DEF RequestInv
<1> QED BY <1>1, <1>2 DEF RequestInv

\* A new list takes a free id: no row and no request refers to it.
LEMMA UpsertListInsertInv ==
  ASSUME SharingInv, NEW r \in Reqs, UpsertListInsert(r)
  PROVE  SharingInv'
<1> DEFINE l == reqs[r].list
           o == reqs[r].caller
<1>1. TypeOK /\ reqs[r].pc = "insertList" /\ reqs[r] \in Request /\ RequestInv(reqs[r])
  BY DEF SharingInv, TypeOK, UpsertListInsert
<1>2. reqs[r] # Idle /\ l \in Lists /\ o \in Owners
  BY <1>1, RequestColumns DEF RequestInv, Carries
<1>3. CASE UNCHANGED <<lists, editors>>
  BY <1>3, FailInv DEF UpsertListInsert, dbVars
<1>4. CASE /\ lists[l].st = "absent" /\ editors' = [editors EXCEPT ![l] = {o}]
           /\ lists' = [lists EXCEPT ![l] = [st |-> "active", owner |-> o, at |-> 0]]
  <2>0. UNCHANGED <<now, items, shares, invs, issued, said>> /\ End(r)
    BY DEF UpsertListInsert
  <2>1. [st |-> "active", owner |-> o, at |-> 0] \in ListRow BY <1>2 DEF ListRow
  <2>2. lists' \in [Lists -> ListRow] /\ editors' \in [Lists -> SUBSET Owners]
    BY <1>1, <1>2, <1>4, <2>1 DEF TypeOK
  <2>3. \A k \in Lists : k # l => lists'[k] = lists[k]
    BY <1>1, <1>4 DEF TypeOK
  <2>4. \A q \in Request : HoldsList(q) /\ HoldsToken(q) /\ Carries(q)
          => HoldsList(q)' /\ HoldsToken(q)'
    BY <1>4, <2>0, <2>3 DEF HoldsList, HoldsToken, ListHeld, Carries
  <2>5. reqs' \in [Reqs -> Request] /\ \A p \in Reqs : RequestInv(reqs[p])'
    BY <2>0, <2>4, OneRequestEnds
  <2>6. TypeOK' BY <1>1, <2>0, <2>2, <2>5 DEF TypeOK
  <2>7. RowsBelongToAuthor'
    BY <1>4, <2>0, <2>3 DEF SharingInv, RowsBelongToAuthor, RowBelongs
  <2>8. AuthorIsNoMember'
    BY <1>4, <2>0, <2>3 DEF SharingInv, RowsBelongToAuthor, RowBelongs, AuthorIsNoMember
  <2>9. LinkTimes'
    BY <1>4, <2>0, <2>3 DEF SharingInv, RowsBelongToAuthor, RowBelongs, LinkTimes
  <2> QED BY <2>5, <2>6, <2>7, <2>8, <2>9 DEF SharingInv
<1> QED BY <1>3, <1>4 DEF UpsertListInsert

\* A new link is written under a list that its maker still holds.
LEMMA CreateInvitationInsertInv ==
  ASSUME SharingInv, NEW r \in Reqs, CreateInvitationInsert(r)
  PROVE  SharingInv'
<1> DEFINE q == reqs[r]
<1>1. TypeOK /\ q.pc = "insertInv" /\ q \in Request /\ RequestInv(q)
  BY DEF SharingInv, TypeOK, CreateInvitationInsert
<1>2. q # Idle /\ q.list \in Lists /\ q.access \in Access /\ q.caller \in Owners
      /\ ListHeld(q.list, q.caller, q.start) /\ now <= q.start + MaxRequestAge
      /\ q.start \in Nat
  BY <1>1, RequestColumns DEF RequestInv, Carries, HoldsList
<1>3. CASE UNCHANGED <<invs, issued>>
  BY <1>3, FailInv DEF CreateInvitationInsert, dbVars
<1>4. ASSUME NEW t \in Tokens \ issued, issued' = issued \cup {t},
             invs' = [invs EXCEPT ![t] =
               [st |-> "pending", list |-> q.list, owner |-> q.caller,
                access |-> q.access, by |-> Null,
                created |-> now, expires |-> now + InvitationTTL]]
      PROVE  SharingInv'
  <2>0. UNCHANGED <<now, lists, items, shares, editors, said>> /\ End(r)
    BY DEF CreateInvitationInsert
  <2> DEFINE row == [st |-> "pending", list |-> q.list, owner |-> q.caller,
                     access |-> q.access, by |-> Null,
                     created |-> now, expires |-> now + InvitationTTL]
  <2>1. now \in Nat /\ row \in InvRow
    BY <1>1, <1>2, ConstantsAssumption DEF InvRow, TypeOK
  <2>2. invs' \in [Tokens -> InvRow] /\ issued' \in SUBSET Tokens
        /\ invs'[t] = row /\ \A u \in Tokens : u # t => invs'[u] = invs[u]
    BY <1>1, <1>4, <2>1 DEF TypeOK
  <2>3. invs[t].st = "absent" BY <1>4 DEF SharingInv, LinkTimes
  <2>4. \A p \in Request : HoldsList(p) /\ HoldsToken(p) /\ Carries(p)
          => HoldsList(p)' /\ HoldsToken(p)'
    BY <2>0, <2>2, <2>3 DEF HoldsList, HoldsToken, ListHeld, Carries
  <2>5. reqs' \in [Reqs -> Request] /\ \A p \in Reqs : RequestInv(reqs[p])'
    BY <2>0, <2>4, OneRequestEnds
  <2>6. TypeOK' BY <1>1, <2>0, <2>2, <2>5 DEF TypeOK
  <2>7. RowsBelongToAuthor'
    BY <1>2, <2>0, <2>2 DEF SharingInv, RowsBelongToAuthor, RowBelongs, ListHeld
  <2>8. AuthorIsNoMember' BY <2>0 DEF SharingInv, AuthorIsNoMember
  <2>9. LinkTimes'
    <3>1. lists[q.list].st = "deleted" => now <= lists[q.list].at + MaxRequestAge
      BY <1>1, <1>2, <2>1, RowColumns, ConstantsAssumption DEF ListHeld
    <3> QED BY <1>4, <2>0, <2>1, <2>2, <3>1 DEF SharingInv, LinkTimes
  <2> QED BY <2>5, <2>6, <2>7, <2>8, <2>9 DEF SharingInv
<1> QED BY <1>3, <1>4 DEF CreateInvitationInsert

\* The author's updates of a share: a member's row keeps its owner.
LEMMA ShareUpdateInv ==
  ASSUME SharingInv, NEW r \in Reqs, reqs[r].pc \in {"setAccess", "endShare"},
         NEW row, ShareUpdate(r, row), editors' \in [Lists -> SUBSET Owners],
         LET s == shares[reqs[r].list][reqs[r].member] IN
           s \in ShareRow /\ s.st = "active" =>
             row \in ShareRow /\ row.owner = s.owner
  PROVE  SharingInv'
<1> DEFINE l == reqs[r].list
           m == reqs[r].member
<1>1. TypeOK /\ reqs[r] \in Request /\ RequestInv(reqs[r])
  BY DEF SharingInv, TypeOK
<1>2. l \in Lists /\ m \in Owners
  BY <1>1, RequestColumns DEF RequestInv, Carries
<1>3. UNCHANGED <<now, lists, items, invs, issued, said>> /\ End(r)
  BY DEF ShareUpdate
<1>4. /\ shares' \in [Lists -> [Owners -> ShareRow]]
      /\ \A k \in Lists, n \in Owners : shares'[k][n].st # "absent" =>
           shares[k][n].st # "absent" /\ shares'[k][n].owner = shares[k][n].owner
  <2>1. CASE UNCHANGED shares BY <1>1, <2>1 DEF TypeOK
  <2>2. CASE ShareMatches(r) /\ shares' = [shares EXCEPT ![l][m] = row]
    <3>1. shares[l][m] \in ShareRow /\ shares[l][m].st = "active"
      BY <1>1, <1>2, <2>2 DEF TypeOK, ShareMatches
    <3>2. row \in ShareRow /\ row.owner = shares[l][m].owner BY <3>1
    <3>3. shares' \in [Lists -> [Owners -> ShareRow]]
      BY <1>1, <1>2, <2>2, <3>2 DEF TypeOK
    <3>4. \A k \in Lists, n \in Owners :
            shares'[k][n] = IF k = l /\ n = m THEN row ELSE shares[k][n]
      BY <1>1, <1>2, <2>2 DEF TypeOK
    <3> QED BY <3>1, <3>2, <3>3, <3>4
  <2> QED BY <2>1, <2>2 DEF ShareUpdate
<1>5. \A q \in Request : HoldsList(q) /\ HoldsToken(q) /\ Carries(q)
        => HoldsList(q)' /\ HoldsToken(q)'
  BY <1>3 DEF HoldsList, HoldsToken, ListHeld
<1>6. reqs' \in [Reqs -> Request] /\ \A p \in Reqs : RequestInv(reqs[p])'
  BY <1>3, <1>5, OneRequestEnds
<1>7. TypeOK' BY <1>1, <1>3, <1>4, <1>6 DEF TypeOK
<1>8. (RowsBelongToAuthor /\ AuthorIsNoMember /\ LinkTimes)'
  BY <1>3, <1>4 DEF SharingInv, RowsBelongToAuthor, RowBelongs, AuthorIsNoMember, LinkTimes
<1> QED BY <1>6, <1>7, <1>8 DEF SharingInv

\* The author's two updates of a membership.
LEMMA ShareUpdatesInv ==
  ASSUME SharingInv, NEW r \in Reqs, ChangeAccessUpdate(r) \/ RevokeShareUpdate(r)
  PROVE  SharingInv'
<1> DEFINE l == reqs[r].list
           m == reqs[r].member
           a == reqs[r].access
<1>1. TypeOK /\ reqs[r] \in Request /\ RequestInv(reqs[r])
      /\ reqs[r].pc \in {"setAccess", "endShare"} /\ now \in Nat
  BY DEF SharingInv, TypeOK, ChangeAccessUpdate, RevokeShareUpdate
<1>2. l \in Lists /\ m \in Owners
  BY <1>1, RequestColumns DEF RequestInv, Carries
<1>3. \A s \in ShareRow : s.st = "active" =>
        /\ \A x \in Access : [s EXCEPT !.access = x] \in ShareRow
                             /\ [s EXCEPT !.access = x].owner = s.owner
        /\ [s EXCEPT !.st = "revoked", !.at = now] \in ShareRow
        /\ [s EXCEPT !.st = "revoked", !.at = now].owner = s.owner
  <2> SUFFICES ASSUME NEW s \in ShareThere
               PROVE  /\ \A x \in Access : [s EXCEPT !.access = x] \in ShareThere
                                            /\ [s EXCEPT !.access = x].owner = s.owner
                      /\ [s EXCEPT !.st = "revoked", !.at = now] \in ShareThere
                      /\ [s EXCEPT !.st = "revoked", !.at = now].owner = s.owner
    BY RowsThere
  <2>1. \A x \in Access : [s EXCEPT !.access = x] \in ShareThere
    BY DEF ShareThere
  <2>2. \A x \in Access : [s EXCEPT !.access = x].owner = s.owner
    BY DEF ShareThere
  <2>3. [s EXCEPT !.st = "revoked", !.at = now] \in ShareThere
    BY <1>1 DEF ShareThere
  <2> QED BY <2>1, <2>2, <2>3 DEF ShareThere
<1>4. CASE ChangeAccessUpdate(r)
  <2>1. a \in Access
    BY <1>1, <1>4, RequestColumns DEF RequestInv, Carries, ChangeAccessUpdate
  <2>2. editors' \in [Lists -> SUBSET Owners]
    BY <1>1, <1>2, <1>4 DEF ChangeAccessUpdate, TypeOK
  <2> QED BY <1>1, <1>3, <1>4, <2>1, <2>2, ShareUpdateInv DEF ChangeAccessUpdate
<1>5. CASE RevokeShareUpdate(r)
  <2>1. editors' \in [Lists -> SUBSET Owners] BY <1>1, <1>5 DEF RevokeShareUpdate, TypeOK
  <2> QED BY <1>1, <1>3, <1>5, <2>1, ShareUpdateInv DEF RevokeShareUpdate
<1> QED BY <1>4, <1>5

\* The commit writes a membership under the author of the link's list.
LEMMA AcceptCommitInv ==
  ASSUME SharingInv, NEW r \in Reqs, AcceptCommit(r)
  PROVE  SharingInv'
<1> DEFINE q == reqs[r]
           l == q.list
           m == q.caller
           t == q.token
<1>1. TypeOK /\ q \in Request /\ RequestInv(q) /\ q.pc = "listRead"
  BY DEF SharingInv, TypeOK, AcceptCommit
<1>2. /\ q # Idle /\ l \in Lists /\ m \in Owners /\ t \in Tokens /\ q.access \in Access
      /\ invs[t].st # "absent" /\ invs[t].list = l /\ invs[t].owner = q.owner
      /\ q.owner # m
  BY <1>1, RequestColumns DEF RequestInv, Carries, HoldsToken
<1>3. lists[l].st # "absent" /\ lists[l].owner = q.owner /\ q.owner \in Owners
  BY <1>1, <1>2, RowColumns DEF SharingInv, RowsBelongToAuthor, RowBelongs
<1>4. UNCHANGED <<now, lists, items, issued, said>> /\ End(r)
      /\ invs' = [invs EXCEPT ![t].st = "accepted", ![t].by = m]
      /\ shares' = [shares EXCEPT ![l][m] = Joined(@, q.owner, q.access)]
  BY DEF AcceptCommit
<1>5. \A s \in ShareRow :
        /\ Joined(s, q.owner, q.access) \in ShareRow
        /\ Joined(s, q.owner, q.access).owner = IF s.st = "absent" THEN q.owner ELSE s.owner
  <2>1. [st |-> "active", owner |-> q.owner, access |-> q.access, at |-> 0] \in ShareThere
    BY <1>2, <1>3 DEF ShareThere
  <2>2. \A s \in ShareThere : [s EXCEPT !.st = "active", !.access = q.access, !.at = 0]
                                \in ShareThere
    BY <1>2 DEF ShareThere
  <2>3. \A s \in ShareThere : [s EXCEPT !.st = "active", !.access = q.access, !.at = 0].owner
                                = s.owner
    BY DEF ShareThere
  <2> QED BY <2>1, <2>2, <2>3, RowsThere DEF Joined
<1>6. /\ shares' \in [Lists -> [Owners -> ShareRow]]
      /\ \A k \in Lists, n \in Owners :
           \/ shares'[k][n] = shares[k][n]
           \/ k = l /\ n = m /\ shares'[k][n].owner =
                IF shares[k][n].st = "absent" THEN q.owner ELSE shares[k][n].owner
  <2>1. shares[l][m] \in ShareRow BY <1>1, <1>2 DEF TypeOK
  <2>2. shares' \in [Lists -> [Owners -> ShareRow]]
    BY <1>1, <1>2, <1>4, <1>5, <2>1 DEF TypeOK
  <2>3. \A k \in Lists, n \in Owners :
          shares'[k][n] = IF k = l /\ n = m THEN Joined(shares[l][m], q.owner, q.access)
                          ELSE shares[k][n]
    BY <1>1, <1>2, <1>4 DEF TypeOK
  <2> QED BY <1>5, <2>1, <2>2, <2>3
<1>7. \A v \in InvRow : v.st # "absent" =>
        LET w == [v EXCEPT !.st = "accepted", !.by = m] IN
        /\ w \in InvRow /\ w.st = "accepted" /\ w.list = v.list /\ w.owner = v.owner
        /\ w.created = v.created /\ w.expires = v.expires
  <2>1. \A v \in InvThere : [v EXCEPT !.st = "accepted", !.by = m] \in InvThere
    BY <1>2 DEF InvThere
  <2>2. \A v \in InvThere :
          LET w == [v EXCEPT !.st = "accepted", !.by = m] IN
          /\ w.st = "accepted" /\ w.list = v.list /\ w.owner = v.owner
          /\ w.created = v.created /\ w.expires = v.expires
    BY DEF InvThere
  <2> QED BY <2>1, <2>2, RowsThere
<1>8. /\ invs' \in [Tokens -> InvRow]
      /\ \A u \in Tokens :
           /\ invs'[u].st # "absent" <=> invs[u].st # "absent"
           /\ invs'[u].list = invs[u].list /\ invs'[u].owner = invs[u].owner
           /\ invs'[u].created = invs[u].created /\ invs'[u].expires = invs[u].expires
  <2>1. invs[t] \in InvRow BY <1>1, <1>2 DEF TypeOK
  <2>2. \A u \in Tokens :
          invs'[u] = IF u = t THEN [invs[t] EXCEPT !.st = "accepted", !.by = m] ELSE invs[u]
    BY <1>1, <1>2, <1>4 DEF TypeOK
  <2>3. invs' \in [Tokens -> InvRow] BY <1>1, <1>2, <1>4, <1>7, <2>1 DEF TypeOK
  <2> QED BY <1>2, <1>7, <2>1, <2>2, <2>3
<1>9. editors' \in [Lists -> SUBSET Owners]
  BY <1>1, <1>2 DEF AcceptCommit, TypeOK
<1>10. \A p \in Request : HoldsList(p) /\ HoldsToken(p) /\ Carries(p)
         => HoldsList(p)' /\ HoldsToken(p)'
  BY <1>4, <1>8 DEF HoldsList, HoldsToken, ListHeld, Carries
<1>11. reqs' \in [Reqs -> Request] /\ \A p \in Reqs : RequestInv(reqs[p])'
  BY <1>4, <1>10, OneRequestEnds
<1>12. TypeOK' BY <1>1, <1>4, <1>6, <1>8, <1>9, <1>11 DEF TypeOK
<1>13. RowsBelongToAuthor'
  <2>0. RowsBelongToAuthor BY DEF SharingInv
  <2>1. \A i \in Items : RowBelongs(items[i].st, items[i].list, items[i].owner)'
    BY <1>4, <2>0 DEF RowsBelongToAuthor, RowBelongs
  <2>2. \A u \in Tokens : RowBelongs(invs[u].st, invs[u].list, invs[u].owner)'
    BY <1>4, <1>8, <2>0 DEF RowsBelongToAuthor, RowBelongs
  <2>3. ASSUME NEW k \in Lists, NEW n \in Owners
        PROVE  RowBelongs(shares[k][n].st, k, shares[k][n].owner)'
    <3>1. RowBelongs(shares[k][n].st, k, shares[k][n].owner)
      BY <2>0 DEF RowsBelongToAuthor
    <3>2. CASE shares'[k][n] = shares[k][n] BY <1>4, <3>1, <3>2 DEF RowBelongs
    <3>3. CASE /\ k = l /\ n = m
               /\ shares'[k][n].owner =
                    IF shares[k][n].st = "absent" THEN q.owner ELSE shares[k][n].owner
      BY <1>2, <1>3, <1>4, <3>1, <3>3 DEF RowBelongs
    <3> QED BY <1>6, <3>2, <3>3
  <2> QED BY <2>1, <2>2, <2>3 DEF RowsBelongToAuthor
<1>14. AuthorIsNoMember'
  <2>1. ASSUME NEW k \in Lists, NEW n \in Owners, shares'[k][n].st # "absent"
        PROVE  lists[k].owner # n
    <3>1. CASE shares'[k][n] = shares[k][n] BY <2>1, <3>1 DEF SharingInv, AuthorIsNoMember
    <3>2. CASE k = l /\ n = m BY <1>2, <1>3, <3>2
    <3> QED BY <1>6, <3>1, <3>2
  <2> QED BY <1>4, <2>1 DEF AuthorIsNoMember
<1>15. LinkTimes' BY <1>4, <1>8 DEF SharingInv, LinkTimes
<1> QED BY <1>11, <1>12, <1>13, <1>14, <1>15 DEF SharingInv

\* Writes to an item: the row that is written belongs to its list's author.
LEMMA ItemWrite ==
  ASSUME SharingInv, NEW r \in Reqs, End(r),
         UNCHANGED <<now, lists, shares, invs, issued, editors>>,
         NEW i \in Items, NEW row \in ItemRow, NEW b \in Bodies,
         items' = [items EXCEPT ![i] = row], said' = [said EXCEPT ![i] = b],
         RowBelongs(row.st, row.list, row.owner)
  PROVE  SharingInv'
<1>1. TypeOK /\ RowsBelongToAuthor BY DEF SharingInv
<1>2. /\ items' \in [Items -> ItemRow] /\ said' \in [Items -> Bodies]
      /\ \A j \in Items : items'[j] = IF j = i THEN row ELSE items[j]
  BY <1>1 DEF TypeOK
<1>3. \A p \in Request : HoldsList(p) /\ HoldsToken(p) /\ Carries(p)
         => HoldsList(p)' /\ HoldsToken(p)'
  BY DEF HoldsList, HoldsToken, ListHeld
<1>4. reqs' \in [Reqs -> Request] /\ \A p \in Reqs : RequestInv(reqs[p])'
  BY <1>3, OneRequestEnds
<1>5. TypeOK' BY <1>1, <1>2, <1>4 DEF TypeOK
<1>6. RowsBelongToAuthor' BY <1>1, <1>2 DEF RowsBelongToAuthor, RowBelongs
<1>7. (AuthorIsNoMember /\ LinkTimes)' BY DEF SharingInv, AuthorIsNoMember, LinkTimes
<1> QED BY <1>4, <1>5, <1>6, <1>7 DEF SharingInv

\* The three writes to an item.
LEMMA ItemWritesInv ==
  ASSUME SharingInv, NEW r \in Reqs,
         AddItemInsert(r) \/ PatchItemUpdate(r) \/ DeleteItemUpdate(r)
  PROVE  SharingInv'
<1> DEFINE q == reqs[r]
           i == q.item
<1>1. TypeOK /\ RowsBelongToAuthor /\ q \in Request /\ RequestInv(q) /\ q.pc = "write"
      /\ now \in Nat
  BY DEF SharingInv, TypeOK, AddItemInsert, PatchItemUpdate, DeleteItemUpdate
<1>2. q # Idle /\ i \in Items /\ q.list \in Lists /\ q.patch \in Patches
  BY <1>1, RequestColumns DEF RequestInv, Carries
<1>3. UNCHANGED <<now, lists, shares, invs, issued, editors>> /\ End(r)
  BY DEF AddItemInsert, PatchItemUpdate, DeleteItemUpdate
<1>4. CASE UNCHANGED <<items, said>> BY <1>3, <1>4, FailInv DEF dbVars
<1>5. said \in [Items -> Bodies] /\ said = [said EXCEPT ![i] = said[i]] /\ said[i] \in Bodies
  BY <1>1, <1>2 DEF TypeOK
<1>6. items[i] \in ItemRow BY <1>1, <1>2 DEF TypeOK
<1>7. \A b \in Bodies :
        [f \in Fields |-> IF q.patch[f] = Null THEN b[f] ELSE q.patch[f]] \in Bodies
  BY <1>2, ConstantsAssumption DEF Bodies, Patches
<1>8. CASE AddItemInsert(r) /\ ~UNCHANGED <<items, said>>
  <2> DEFINE row == [st |-> "live", owner |-> q.owner, list |-> q.list,
                     body |-> NewBody, at |-> 0]
  <2>1. /\ lists[q.list].st # "absent" /\ q.op = "addItem"
        /\ items' = [items EXCEPT ![i] = row] /\ said' = [said EXCEPT ![i] = NewBody]
    BY <1>8 DEF AddItemInsert
  <2>2. lists[q.list].owner = q.owner
    BY <1>1, <1>2, <2>1 DEF RequestInv, HoldsList, ListHeld
  <2>3. q.owner \in Owners BY <1>1, <1>2, <2>1, <2>2, RowColumns
  <2>4. row \in ItemRow BY <1>2, <2>3, NoPatchType DEF ItemRow
  <2>5. RowBelongs(row.st, row.list, row.owner) BY <1>2, <2>1, <2>2 DEF RowBelongs
  <2> QED BY <1>2, <1>3, <2>1, <2>4, <2>5, NoPatchType, ItemWrite
<1>9. CASE (PatchItemUpdate(r) \/ DeleteItemUpdate(r)) /\ ~UNCHANGED <<items, said>>
  <2>1. items[i].st = "live" BY <1>9 DEF PatchItemUpdate, DeleteItemUpdate
  <2> DEFINE There == [st : {"live", "deleted"}, owner : Owners, list : Lists,
                       body : Bodies, at : Nat]
  <2>2. items[i] \in There BY <1>6, <2>1 DEF ItemRow, NoItem
  <2>3. RowBelongs(items[i].st, items[i].list, items[i].owner)
    BY <1>1, <1>2 DEF RowsBelongToAuthor
  <2>4. CASE PatchItemUpdate(r)
    <3> DEFINE b == Patched(items[i].body, q.patch, q.seen)
               row == [items[i] EXCEPT !.body = b]
               c == [f \in Fields |-> IF q.patch[f] = Null THEN said[i][f] ELSE q.patch[f]]
    <3>1. items' = [items EXCEPT ![i] = row] /\ said' = [said EXCEPT ![i] = c]
      BY <1>9, <2>4 DEF PatchItemUpdate
    <3>2. b \in Bodies /\ c \in Bodies BY <1>5, <1>7, <2>2 DEF Patched
    <3>3. \A v \in There : [v EXCEPT !.body = b] \in There
      BY <3>2
    <3>4. \A v \in There : LET w == [v EXCEPT !.body = b] IN
            w.st = v.st /\ w.list = v.list /\ w.owner = v.owner
      OBVIOUS
    <3>5. row \in There BY <2>2, <3>3
    <3>6. row \in ItemRow BY <3>5 DEF ItemRow
    <3>7. RowBelongs(row.st, row.list, row.owner) BY <2>2, <2>3, <3>4
    <3> HIDE DEF b, c, row
    <3> QED BY <1>2, <1>3, <3>1, <3>2, <3>6, <3>7, ItemWrite
  <2>5. CASE DeleteItemUpdate(r)
    <3> DEFINE row == [items[i] EXCEPT !.st = "deleted", !.at = now]
               b == said[i]
    <3>1. items' = [items EXCEPT ![i] = row]
      BY <1>9, <2>5 DEF DeleteItemUpdate
    <3>2. said' = [said EXCEPT ![i] = b] /\ b \in Bodies
      BY <1>5, <2>5 DEF DeleteItemUpdate
    <3>3. \A v \in There : [v EXCEPT !.st = "deleted", !.at = now] \in There
      BY <1>1
    <3>4. \A v \in There : LET w == [v EXCEPT !.st = "deleted", !.at = now] IN
            w.list = v.list /\ w.owner = v.owner
      OBVIOUS
    <3>5. row \in There BY <2>2, <3>3
    <3>6. row \in ItemRow BY <3>5 DEF ItemRow
    <3>7. RowBelongs(row.st, row.list, row.owner)
      BY <2>1, <2>2, <2>3, <3>4 DEF RowBelongs
    <3> HIDE DEF row, b
    <3> QED BY <1>2, <1>3, <3>1, <3>2, <3>6, <3>7, ItemWrite
  <2> QED BY <1>9, <2>4, <2>5
<1> QED BY <1>4, <1>8, <1>9 DEF AddItemInsert, PatchItemUpdate, DeleteItemUpdate

(***************************************************************************)
(* Steps of no request                                                     *)
(***************************************************************************)
\* Of a step that leaves the requests alone: what they hold must stay.
LEMMA NoRequestMoves ==
  ASSUME SharingInv, UNCHANGED <<now, reqs>>,
         \A p \in Reqs, q \in Request :
           q = reqs[p] /\ HoldsList(q) /\ HoldsToken(q) /\ Carries(q)
           => HoldsList(q)' /\ HoldsToken(q)'
  PROVE  \A p \in Reqs : RequestInv(reqs[p])'
BY DEF SharingInv, TypeOK, RequestInv, Carries

\* A list that is deleted now is deleted late enough for all who hold it.
LEMMA DeleteListInv ==
  ASSUME SharingInv, NEW o \in Owners, NEW l \in Lists, DeleteList(o, l)
  PROVE  SharingInv'
<1> DEFINE row == [lists[l] EXCEPT !.st = "deleted", !.at = now]
<1>1. TypeOK /\ now \in Nat BY DEF SharingInv, TypeOK
<1>2. lists[l].st = "active" /\ lists[l].owner = o /\ lists' = [lists EXCEPT ![l] = row]
      /\ UNCHANGED <<now, items, shares, invs, issued, reqs, editors, said>>
  BY DEF DeleteList, OwnsActive
<1>3. \A w \in ListThere :
        LET d == [w EXCEPT !.st = "deleted", !.at = now] IN
        d \in ListThere /\ d.st = "deleted" /\ d.owner = w.owner /\ d.at = now
  BY <1>1 DEF ListThere
<1>4. row \in ListRow /\ row.st = "deleted" /\ row.owner = o /\ row.at = now
  BY <1>1, <1>2, <1>3, RowsThere DEF TypeOK
<1>5. lists' \in [Lists -> ListRow]
      /\ \A k \in Lists : lists'[k] = IF k = l THEN row ELSE lists[k]
  BY <1>1, <1>2, <1>4 DEF TypeOK
<1> HIDE DEF row
<1>6. \A q \in Request : HoldsList(q) /\ HoldsToken(q) /\ Carries(q)
        => HoldsList(q)' /\ HoldsToken(q)'
  <2> SUFFICES ASSUME NEW q \in Request, HoldsList(q), HoldsToken(q), Carries(q)
               PROVE  HoldsList(q)' /\ HoldsToken(q)'
    OBVIOUS
  <2>1. \A k \in Lists, a \in Owners : ListHeld(k, a, q.start) => ListHeld(k, a, q.start)'
    BY <1>2, <1>4, <1>5 DEF ListHeld, Carries
  <2>2. ASSUME NEW k \in Lists, NEW a, ListHeld(k, a, q.start)
        PROVE  ListHeld(k, a, q.start)'
    BY <1>1, <2>1, <2>2, RowColumns DEF ListHeld
  <2>3. HoldsList(q)' BY <2>2 DEF HoldsList, Carries
  <2> QED BY <1>2, <2>3 DEF HoldsToken
<1>7. \A p \in Reqs : RequestInv(reqs[p])' BY <1>2, <1>6, NoRequestMoves
<1>8. TypeOK' BY <1>1, <1>2, <1>5 DEF TypeOK
<1>9. RowsBelongToAuthor'
  BY <1>2, <1>4, <1>5 DEF SharingInv, RowsBelongToAuthor, RowBelongs
<1>10. AuthorIsNoMember'
  BY <1>2, <1>4, <1>5 DEF SharingInv, AuthorIsNoMember
<1>11. LinkTimes'
  <2>1. ASSUME NEW t \in Tokens, invs[t].st # "absent"
        PROVE  /\ invs[t].created \in Nat /\ invs[t].list \in Lists
               /\ t \in issued /\ invs[t].created <= now
               /\ invs[t].expires = invs[t].created + InvitationTTL
               /\ lists'[invs[t].list].st = "deleted" =>
                    invs[t].created <= lists'[invs[t].list].at + MaxRequestAge
    BY <1>1, <1>4, <1>5, <2>1, RowColumns, ConstantsAssumption DEF SharingInv, LinkTimes
  <2> QED BY <1>2, <2>1 DEF LinkTimes
<1> QED BY <1>7, <1>8, <1>9, <1>10, <1>11 DEF SharingInv

\* The row of a revoked link keeps what an accept or the pruner would read.
LEMMA RevokeInvitationInv ==
  ASSUME SharingInv, NEW o \in Owners, NEW t \in Tokens, RevokeInvitation(o, t)
  PROVE  SharingInv'
<1>1. TypeOK BY DEF SharingInv
<1>2. UNCHANGED <<now, lists, items, shares, issued, reqs, editors, said>>
      /\ invs[t].st = "pending" /\ invs' = [invs EXCEPT ![t].st = "revoked"]
  BY DEF RevokeInvitation
<1>3. \A v \in InvRow : v.st # "absent" =>
        LET w == [v EXCEPT !.st = "revoked"] IN
        /\ w \in InvRow /\ w.st = "revoked" /\ w.list = v.list /\ w.owner = v.owner
        /\ w.created = v.created /\ w.expires = v.expires
  <2>1. \A v \in InvThere : [v EXCEPT !.st = "revoked"] \in InvThere BY DEF InvThere
  <2>2. \A v \in InvThere :
          LET w == [v EXCEPT !.st = "revoked"] IN
          /\ w.st = "revoked" /\ w.list = v.list /\ w.owner = v.owner
          /\ w.created = v.created /\ w.expires = v.expires
    BY DEF InvThere
  <2> QED BY <2>1, <2>2, RowsThere
<1>4. /\ invs' \in [Tokens -> InvRow]
      /\ \A u \in Tokens :
           /\ invs'[u].st # "absent" <=> invs[u].st # "absent"
           /\ invs'[u].list = invs[u].list /\ invs'[u].owner = invs[u].owner
           /\ invs'[u].created = invs[u].created /\ invs'[u].expires = invs[u].expires
  <2>1. invs[t] \in InvRow BY <1>1 DEF TypeOK
  <2>2. \A u \in Tokens :
          invs'[u] = IF u = t THEN [invs[t] EXCEPT !.st = "revoked"] ELSE invs[u]
    BY <1>1, <1>2 DEF TypeOK
  <2>3. invs' \in [Tokens -> InvRow] BY <1>1, <1>2, <1>3, <2>1 DEF TypeOK
  <2> QED BY <1>2, <1>3, <2>1, <2>2, <2>3
<1>5. \A q \in Request : HoldsList(q) /\ HoldsToken(q) /\ Carries(q)
        => HoldsList(q)' /\ HoldsToken(q)'
  BY <1>2, <1>4 DEF HoldsList, HoldsToken, ListHeld, Carries
<1>6. \A p \in Reqs : RequestInv(reqs[p])' BY <1>2, <1>5, NoRequestMoves
<1>7. TypeOK' BY <1>1, <1>2, <1>4 DEF TypeOK
<1>8. (RowsBelongToAuthor /\ AuthorIsNoMember /\ LinkTimes)'
  BY <1>2, <1>4 DEF SharingInv, RowsBelongToAuthor, RowBelongs, AuthorIsNoMember, LinkTimes
<1> QED BY <1>6, <1>7, <1>8 DEF SharingInv

\* A step that changes the shares only: a row keeps its owner or goes.
LEMMA SharesInv ==
  ASSUME SharingInv, shares' \in [Lists -> [Owners -> ShareRow]],
         UNCHANGED <<now, lists, items, invs, issued, reqs, editors, said>>,
         \A k \in Lists, n \in Owners : shares'[k][n].st # "absent" =>
           shares[k][n].st # "absent" /\ shares'[k][n].owner = shares[k][n].owner
  PROVE  SharingInv'
<1>1. \A q \in Request : HoldsList(q) /\ HoldsToken(q) /\ Carries(q)
        => HoldsList(q)' /\ HoldsToken(q)'
  BY DEF HoldsList, HoldsToken, ListHeld
<1>2. \A p \in Reqs : RequestInv(reqs[p])' BY <1>1, NoRequestMoves
<1>3. TypeOK' BY DEF SharingInv, TypeOK
<1>4. (RowsBelongToAuthor /\ AuthorIsNoMember /\ LinkTimes)'
  BY DEF SharingInv, RowsBelongToAuthor, RowBelongs, AuthorIsNoMember, LinkTimes
<1> QED BY <1>2, <1>3, <1>4 DEF SharingInv

\* A member who leaves keeps the row, revoked.
LEMMA LeaveListInv ==
  ASSUME SharingInv, NEW m \in Owners, NEW l \in Lists, LeaveList(m, l)
  PROVE  SharingInv'
<1> DEFINE row == [shares[l][m] EXCEPT !.st = "revoked", !.at = now]
<1>1. TypeOK /\ now \in Nat BY DEF SharingInv, TypeOK
<1>2. shares[l][m].st = "active" /\ shares' = [shares EXCEPT ![l][m] = row]
      /\ UNCHANGED <<now, lists, items, invs, issued, reqs, editors, said>>
  BY DEF LeaveList
<1>3. \A s \in ShareThere : LET w == [s EXCEPT !.st = "revoked", !.at = now] IN
        w \in ShareThere /\ w.owner = s.owner
  BY <1>1 DEF ShareThere
<1>4. shares[l][m] \in ShareThere BY <1>1, <1>2, RowsThere DEF TypeOK
<1>5. row \in ShareRow /\ row.owner = shares[l][m].owner BY <1>3, <1>4, RowsThere
<1> HIDE DEF row
<1>6. shares' \in [Lists -> [Owners -> ShareRow]]
  BY <1>1, <1>2, <1>5 DEF TypeOK
<1>7. \A k \in Lists, n \in Owners :
        shares'[k][n] = IF k = l /\ n = m THEN row ELSE shares[k][n]
  BY <1>1, <1>2 DEF TypeOK
<1> QED BY <1>2, <1>5, <1>6, <1>7, SharesInv

\* The sweep of the revoked memberships.
LEMMA PruneSharesInv ==
  ASSUME SharingInv, PruneShares
  PROVE  SharingInv'
<1>1. TypeOK BY DEF SharingInv
<1>2. /\ shares' \in [Lists -> [Owners -> ShareRow]]
      /\ \A k \in Lists, n \in Owners :
           shares'[k][n] = IF SharePrunable(k, n) THEN NoShare ELSE shares[k][n]
  BY <1>1, NullRows DEF PruneShares, TypeOK
<1> QED BY <1>2, NullRows, SharesInv DEF PruneShares

\* The sweep of the deleted items.
LEMMA PruneItemsInv ==
  ASSUME SharingInv, PruneItems
  PROVE  SharingInv'
<1> DEFINE gone == {i \in Items : items[i].st = "deleted" /\ Expired(items[i].at)}
<1>1. TypeOK BY DEF SharingInv
<1>2. UNCHANGED <<now, lists, shares, invs, issued, reqs, editors>>
      /\ items' = [i \in Items |-> IF i \in gone THEN NoItem ELSE items[i]]
      /\ said' = [i \in Items |-> IF i \in gone THEN NewBody ELSE said[i]]
  BY DEF PruneItems
<1> HIDE DEF gone
<1>3. items' \in [Items -> ItemRow] /\ said' \in [Items -> Bodies]
  BY <1>1, <1>2, NullRows, NoPatchType DEF TypeOK
<1>4. \A q \in Request : HoldsList(q) /\ HoldsToken(q) /\ Carries(q)
        => HoldsList(q)' /\ HoldsToken(q)'
  BY <1>2 DEF HoldsList, HoldsToken, ListHeld
<1>5. \A p \in Reqs : RequestInv(reqs[p])' BY <1>2, <1>4, NoRequestMoves
<1>6. TypeOK' BY <1>1, <1>2, <1>3 DEF TypeOK
<1>7. (RowsBelongToAuthor /\ AuthorIsNoMember /\ LinkTimes)'
  BY <1>2, NullRows
  DEF SharingInv, RowsBelongToAuthor, RowBelongs, AuthorIsNoMember, LinkTimes
<1> QED BY <1>5, <1>6, <1>7 DEF SharingInv

\* The row of a token that an open accept holds is locked against the sweep.
LEMMA PruneInvitationsInv ==
  ASSUME SharingInv, PruneInvitations
  PROVE  SharingInv'
<1> DEFINE gone == {t \in Tokens : InvPrunable(t)}
<1>1. TypeOK BY DEF SharingInv
<1>2. UNCHANGED <<now, lists, items, shares, issued, reqs, editors, said>>
      /\ invs' = [t \in Tokens |-> IF t \in gone THEN NoInv ELSE invs[t]]
      /\ \A t \in gone : ~TokenLocked(t)
  BY DEF PruneInvitations
<1> HIDE DEF gone
<1>3. invs' \in [Tokens -> InvRow]
      /\ \A u \in Tokens : invs'[u].st # "absent" => invs'[u] = invs[u]
  BY <1>1, <1>2, NullRows DEF TypeOK
<1>4. ASSUME NEW p \in Reqs, NEW q \in Request, q = reqs[p],
             HoldsList(q), HoldsToken(q), Carries(q)
      PROVE  HoldsList(q)' /\ HoldsToken(q)'
  <2>1. HoldsList(q)' BY <1>2, <1>4 DEF HoldsList, ListHeld
  <2>2. CASE q.pc \in Accepting
    <3>1. q.token \in Tokens /\ TokenLocked(q.token)
      BY <1>4, <2>2 DEF TokenLocked, Carries
    <3>2. invs'[q.token] = invs[q.token] BY <1>2, <3>1
    <3> QED BY <1>4, <2>1, <2>2, <3>2 DEF HoldsToken
  <2>3. CASE q.pc \notin Accepting BY <2>1, <2>3 DEF HoldsToken
  <2> QED BY <2>2, <2>3
<1>5. \A p \in Reqs : RequestInv(reqs[p])' BY <1>2, <1>4, NoRequestMoves
<1>6. TypeOK' BY <1>1, <1>2, <1>3 DEF TypeOK
<1>7. (RowsBelongToAuthor /\ AuthorIsNoMember /\ LinkTimes)'
  BY <1>2, <1>3
  DEF SharingInv, RowsBelongToAuthor, RowBelongs, AuthorIsNoMember, LinkTimes
<1> QED BY <1>5, <1>6, <1>7 DEF SharingInv

\* A list that a handler in flight has seen is not due.
LEMMA HeldListStays ==
  ASSUME TypeOK, NEW l \in Lists, NEW o, NEW start \in Nat,
         ListHeld(l, o, start), now <= start + MaxRequestAge
  PROVE  ~ListPrunable(l)
<1>1. lists[l].st = "deleted" => lists[l].at \in Nat /\ lists[l].at >= start
  BY RowColumns DEF ListHeld
<1>2. now \in Nat /\ MaxRequestAge \in Nat /\ TombstoneRetention >= MaxRequestAge
      /\ TombstoneRetention \in Nat
  BY ConstantsAssumption, RetentionAssumption DEF TypeOK
<1> QED BY <1>1, <1>2 DEF ListPrunable, Expired

\* The sweep of the deleted lists and of all that hangs on them: no handler in
\* flight holds one of those.
LEMMA PruneListsInv ==
  ASSUME SharingInv, PruneLists
  PROVE  SharingInv'
<1> DEFINE gone == {l \in Lists : ListPrunable(l)}
<1>1. TypeOK /\ RowsBelongToAuthor BY DEF SharingInv
<1>2. /\ UNCHANGED <<now, issued, reqs>>
      /\ \A t \in Tokens : invs[t].list \in gone => ~TokenLocked(t)
      /\ lists' = [l \in Lists |-> IF l \in gone THEN NoList ELSE lists[l]]
      /\ items' = [i \in Items |-> IF items[i].list \in gone THEN NoItem ELSE items[i]]
      /\ shares' = [l \in Lists |-> IF l \in gone THEN [m \in Owners |-> NoShare]
                                    ELSE shares[l]]
      /\ invs' = [t \in Tokens |-> IF invs[t].list \in gone THEN NoInv ELSE invs[t]]
      /\ editors' = [l \in Lists |-> IF l \in gone THEN {} ELSE editors[l]]
      /\ said' = [i \in Items |-> IF items[i].list \in gone THEN NewBody ELSE said[i]]
  BY DEF PruneLists
<1>3. \A l \in Lists : l \in gone => ListPrunable(l) OBVIOUS
<1> HIDE DEF gone
<1>4. /\ lists' \in [Lists -> ListRow] /\ items' \in [Items -> ItemRow]
      /\ shares' \in [Lists -> [Owners -> ShareRow]] /\ invs' \in [Tokens -> InvRow]
      /\ editors' \in [Lists -> SUBSET Owners] /\ said' \in [Items -> Bodies]
  BY <1>1, <1>2, NullRows, NoPatchType DEF TypeOK
<1>5. ASSUME NEW p \in Reqs, NEW q \in Request, q = reqs[p],
             HoldsList(q), HoldsToken(q), Carries(q)
      PROVE  HoldsList(q)' /\ HoldsToken(q)'
  <2>0. q.start \in Nat \/ q = Idle BY RequestColumns DEF Request
  <2>1. ASSUME NEW l \in Lists, NEW o, ListHeld(l, o, q.start), q # Idle
        PROVE  ListHeld(l, o, q.start)'
    <3>1. l \notin gone BY <1>1, <1>3, <1>5, <2>0, <2>1, HeldListStays DEF Carries
    <3> QED BY <1>2, <2>1, <3>1 DEF ListHeld
  <2>2. HoldsList(q)' BY <1>5, <2>1 DEF HoldsList, Carries, Idle
  <2>3. CASE q.pc \in Accepting
    <3>1. q.token \in Tokens /\ TokenLocked(q.token)
      BY <1>5, <2>3 DEF TokenLocked, Carries
    <3>2. invs'[q.token] = invs[q.token] BY <1>2, <3>1
    <3> QED BY <1>5, <2>2, <2>3, <3>2 DEF HoldsToken
  <2>4. CASE q.pc \notin Accepting BY <2>2, <2>4 DEF HoldsToken
  <2> QED BY <2>3, <2>4
<1>6. \A p \in Reqs : RequestInv(reqs[p])' BY <1>2, <1>5, NoRequestMoves
<1>7. TypeOK' BY <1>1, <1>2, <1>4 DEF TypeOK
<1>8. RowsBelongToAuthor'
  <2>1. ASSUME NEW i \in Items
        PROVE  RowBelongs(items[i].st, items[i].list, items[i].owner)'
    BY <1>1, <1>2, NullRows DEF RowsBelongToAuthor, RowBelongs
  <2>2. ASSUME NEW t \in Tokens
        PROVE  RowBelongs(invs[t].st, invs[t].list, invs[t].owner)'
    BY <1>1, <1>2, NullRows DEF RowsBelongToAuthor, RowBelongs
  <2>3. ASSUME NEW l \in Lists, NEW m \in Owners
        PROVE  RowBelongs(shares[l][m].st, l, shares[l][m].owner)'
    BY <1>1, <1>2, NullRows DEF RowsBelongToAuthor, RowBelongs
  <2> QED BY <2>1, <2>2, <2>3 DEF RowsBelongToAuthor
<1>9. AuthorIsNoMember'
  BY <1>2, NullRows DEF SharingInv, AuthorIsNoMember
<1>10. LinkTimes'
  BY <1>1, <1>2, NullRows DEF SharingInv, LinkTimes, RowsBelongToAuthor, RowBelongs
<1> QED BY <1>6, <1>7, <1>8, <1>9, <1>10 DEF SharingInv

\* The clock waits for a request that has reached its greatest age.
LEMMA TickInv ==
  ASSUME SharingInv, Tick
  PROVE  SharingInv'
<1>1. TypeOK /\ now \in Nat /\ now' = now + 1 /\ UNCHANGED <<dbVars, reqs, editors, said>>
      /\ MaxRequestAge \in Nat
  BY ConstantsAssumption DEF SharingInv, TypeOK, Tick
<1>2. ASSUME NEW p \in Reqs, reqs[p] # Idle
      PROVE  Carries(reqs[p])' /\ HoldsList(reqs[p])' /\ HoldsToken(reqs[p])'
  <2>1. RequestInv(reqs[p]) /\ reqs[p].start \in Nat
    BY <1>1, <1>2 DEF SharingInv, TypeOK, Request
  <2>2. now - reqs[p].start < MaxRequestAge BY <1>2 DEF Tick
  <2>3. Carries(reqs[p])' BY <1>1, <1>2, <2>1, <2>2 DEF RequestInv, Carries
  <2>4. HoldsList(reqs[p])' /\ HoldsToken(reqs[p])'
    BY <1>1, <1>2, <2>1 DEF RequestInv, HoldsList, HoldsToken, ListHeld, dbVars
  <2> QED BY <2>3, <2>4
<1>3. \A p \in Reqs : RequestInv(reqs[p])' BY <1>1, <1>2 DEF RequestInv
<1>4. TypeOK' BY <1>1 DEF TypeOK, dbVars
<1>5. (RowsBelongToAuthor /\ AuthorIsNoMember)'
  BY <1>1 DEF SharingInv, RowsBelongToAuthor, RowBelongs, AuthorIsNoMember, dbVars
<1>6. LinkTimes'
  <2>1. \A t \in Tokens : invs[t].st # "absent" => invs[t].created \in Nat
    BY <1>1, RowColumns
  <2> QED BY <1>1, <2>1 DEF SharingInv, LinkTimes, dbVars
<1> QED BY <1>3, <1>4, <1>5, <1>6 DEF SharingInv

(***************************************************************************)
(* The invariant, and what follows from it                                 *)
(***************************************************************************)
\* Nothing changes.
LEMMA StutterInv ==
  ASSUME SharingInv, UNCHANGED vars
  PROVE  SharingInv'
<1>1. TypeOK' BY DEF SharingInv, TypeOK, vars
<1>2. \A p \in Reqs : RequestInv(reqs[p])'
  BY DEF SharingInv, RequestInv, Carries, HoldsList, HoldsToken, ListHeld, vars
<1>3. (RowsBelongToAuthor /\ AuthorIsNoMember /\ LinkTimes)'
  BY DEF SharingInv, RowsBelongToAuthor, RowBelongs, AuthorIsNoMember, LinkTimes, vars
<1> QED BY <1>1, <1>2, <1>3 DEF SharingInv

\* Every further statement of a handler.
LEMMA AdvanceInv ==
  ASSUME SharingInv, NEW r \in Reqs, Advance(r)
  PROVE  SharingInv'
BY UpsertListInsertInv, CreateInvitationInsertInv, ShareUpdatesInv, AcceptTakeTokenInv,
   AcceptTakeShareInv, AcceptReadListInv, AcceptCommitInv, ItemReadsInv, ItemWritesInv
DEF Advance

\* SharingInv is inductive.
LEMMA NextInv == SharingInv /\ [Next]_vars => SharingInv'
<1> SUFFICES ASSUME SharingInv, [Next]_vars PROVE SharingInv' OBVIOUS
<1>1. CASE UNCHANGED vars BY <1>1, StutterInv
<1>2. ASSUME NEW r \in Reqs, Arrive(r) \/ Advance(r) \/ Fail(r) PROVE SharingInv'
  BY <1>2, ArriveInv, AdvanceInv, FailInv DEF Fail
<1>3. CASE SingleStatement
  BY <1>3, DeleteListInv, LeaveListInv, RevokeInvitationInv DEF SingleStatement
<1>4. CASE Prune
  BY <1>4, PruneListsInv, PruneItemsInv, PruneInvitationsInv, PruneSharesInv DEF Prune
<1>5. CASE Tick BY <1>5, TickInv
<1> QED BY <1>1, <1>2, <1>3, <1>4, <1>5 DEF Next

\* SharingInv holds of every run of the service: what a handler in flight has
\* read of a list or a link it is about to write by is still true of the tables.
THEOREM InvariantHolds == Spec => []SharingInv
BY InitInv, NextInv, PTL DEF Spec

\* Every table and every request in flight keeps its type, whatever the
\* handlers, the pruner and the failures do.
THEOREM TypeCorrect == Spec => []TypeOK
<1>1. SharingInv => TypeOK BY DEF SharingInv
<1> QED BY <1>1, InvariantHolds, PTL

\* Items, shares and invitations belong to the author of their list, although
\* the handlers carry the owner from one statement to the next and the pruner
\* frees ids that another owner may take (service/lists.go:103).
THEOREM RowsBelong == Spec => []RowsBelongToAuthor
<1>1. SharingInv => RowsBelongToAuthor BY DEF SharingInv
<1> QED BY <1>1, InvariantHolds, PTL

\* No author becomes a member of the own list, not even by a link that was made
\* before the list's id was pruned and taken again (service/sharing.go:84).
THEOREM AuthorStaysOut == Spec => []AuthorIsNoMember
<1>1. SharingInv => AuthorIsNoMember BY DEF SharingInv
<1> QED BY <1>1, InvariantHolds, PTL

\* An open accept and the sweep that deletes its list never wait for each other:
\* a link that still opens is younger than the deletion of its list allows the
\* pruner to act on (app/pruner.go:15, service/sharing.go:41).
THEOREM NoWaitForPruner == Spec => []PrunerMeetsNoOpenAccept
<1>1. SharingInv => PrunerMeetsNoOpenAccept
  <2> SUFFICES ASSUME SharingInv, NEW t \in Tokens, TokenLocked(t),
                      ListPrunable(invs[t].list)
               PROVE  FALSE
    BY DEF PrunerMeetsNoOpenAccept
  <2> DEFINE v == invs[t]
             at == lists[v.list].at
  <2>1. PICK r \in Reqs : reqs[r].token = t /\ reqs[r].pc \in Accepting
    BY DEF TokenLocked
  <2> DEFINE q == reqs[r]
  <2>2. TypeOK /\ q # Idle /\ Carries(q) /\ HoldsToken(q) /\ q.start \in Nat
    BY <2>1, RequestColumns DEF SharingInv, TypeOK, RequestInv, Idle
  <2>3. v.st # "absent" /\ v.expires > q.start BY <2>1, <2>2 DEF HoldsToken
  <2>4. v.list \in Lists /\ v.created \in Nat /\ v.expires = v.created + InvitationTTL
        /\ (lists[v.list].st = "deleted" => v.created <= at + MaxRequestAge)
    BY <2>2, <2>3, RowColumns DEF SharingInv, LinkTimes
  <2>5. lists[v.list].st = "deleted" /\ at < now - TombstoneRetention /\ at \in Nat
    BY <2>2, <2>4, RowColumns DEF ListPrunable, Expired
  <2>6. now <= q.start + MaxRequestAge /\ now \in Nat BY <2>2 DEF Carries, TypeOK
  <2> HIDE DEF v, at, q
  <2> QED BY <2>2, <2>3, <2>4, <2>5, <2>6, ConstantsAssumption, RetentionAssumption
<1> QED BY <1>1, InvariantHolds, PTL

\* Tombstones keep: no handler brings a deleted list or item back to life, and
\* the sweeps remove one only after TombstoneRetention (app/pruner.go:11).
THEOREM TombstonesStay == Spec => TombstonesKept
<1> DEFINE Kept ==
      /\ \A l \in Lists : lists[l].st = "deleted" /\ lists'[l] # lists[l] =>
           Expired(lists[l].at)
      /\ \A i \in Items : items[i].st = "deleted" /\ items'[i] # items[i] =>
           Expired(items[i].at) \/ ListPrunable(items[i].list)
<1>1. SharingInv /\ [Next]_vars => [Kept]_vars
  <2> SUFFICES ASSUME SharingInv, Next PROVE Kept OBVIOUS
  <2>1. TypeOK BY DEF SharingInv
  <2>2. ASSUME UNCHANGED <<lists, items>> PROVE Kept BY <2>2
  <2>3. ASSUME NEW r \in Reqs, Arrive(r) \/ Fail(r) PROVE Kept
    BY <2>2, <2>3
    DEF Arrive, Fail, UpsertListProbe, CreateInvitationCheck, RevokeShareCheck,
        ChangeAccessCheck, RequireOwner, AddItemBegin, AcceptBegin, PatchItemRead,
        DeleteItemRead, ItemRead, dbVars
  <2>4. ASSUME NEW r \in Reqs, Advance(r) PROVE Kept
    <3>1. CASE UpsertListInsert(r)
      <4>1. reqs[r].list \notin Lists => UNCHANGED lists
        BY <2>1, <3>1 DEF UpsertListInsert, TypeOK
      <4> QED BY <2>1, <3>1, <4>1 DEF UpsertListInsert, TypeOK
    <3>2. CASE AddItemInsert(r) BY <2>1, <3>2 DEF AddItemInsert, TypeOK
    <3>3. CASE PatchItemUpdate(r) BY <2>1, <3>3 DEF PatchItemUpdate, TypeOK
    <3>4. CASE DeleteItemUpdate(r) BY <2>1, <3>4 DEF DeleteItemUpdate, TypeOK
    <3> QED
      BY <2>2, <2>4, <3>1, <3>2, <3>3, <3>4
      DEF Advance, CreateInvitationInsert, ChangeAccessUpdate, RevokeShareUpdate,
          ShareUpdate, AcceptTakeToken, AcceptTakeShare, AcceptReadList, AcceptCommit,
          ReadAuthor, ReadMember, ReadOwner, dbVars
  <2>5. ASSUME NEW o \in Owners, NEW l \in Lists, DeleteList(o, l) PROVE Kept
    BY <2>1, <2>5 DEF DeleteList, OwnsActive, TypeOK
  <2>6. CASE SingleStatement
    BY <2>2, <2>5, <2>6 DEF SingleStatement, LeaveList, RevokeInvitation
  <2>7. CASE PruneLists BY <2>7 DEF PruneLists, ListPrunable
  <2>8. CASE PruneItems BY <2>8 DEF PruneItems
  <2>9. CASE Prune BY <2>2, <2>7, <2>8, <2>9 DEF Prune, PruneInvitations, PruneShares
  <2>10. CASE Tick BY <2>2, <2>10 DEF Tick, dbVars
  <2> QED BY <2>3, <2>4, <2>6, <2>9, <2>10 DEF Next
<1> QED BY <1>1, InvariantHolds, PTL DEF Spec, TombstonesKept
=============================================================================

------------------------------ MODULE Sharing ------------------------------
(***************************************************************************)
(* Shopping lists that several owners use together: the lists, their       *)
(* items, the memberships (list_shares) and the one-time invitations, as   *)
(* the HTTP handlers and the tombstone pruner change them.                 *)
(*                                                                         *)
(* PostgreSQL runs at READ COMMITTED.  A handler is a sequence of          *)
(* autocommitted statements, so it is modelled by a request slot with a    *)
(* program counter: every statement is one step, and the steps of          *)
(* different requests interleave.  Accepting an invitation is the one      *)
(* handler with a transaction: its writes are invisible until it commits,  *)
(* and the rows it has written stay locked until then.  A handler that     *)
(* consists of one statement is one step and needs no slot.  A handler     *)
(* whose first statement finds nothing changes nothing: no step is given   *)
(* to it.                                                                  *)
(*                                                                         *)
(* Left out: names and display names, timestamps other than those a guard  *)
(* reads, and the goods and offers an item refers to (a failed good or     *)
(* offer check is one of the ways a request ends in Fail).                 *)
(***************************************************************************)
EXTENDS Integers

CONSTANTS
  Owners,              \* owner ids, one per user
  Lists, Items,        \* list and item ids: chosen by the clients, reusable
  Tokens,              \* invitation tokens: 128 random bits, never reused
  Reqs,                \* request slots: how many handlers run at once
  Fields, Values,      \* the patchable columns of an item and their values
  Default,             \* the value a column has in a new item
  Null,                \* SQL NULL, and "no value" in a row that is not there
  InvitationTTL,       \* service/sharing.go:41
  TombstoneRetention,  \* app/pruner.go:15
  MaxRequestAge,       \* how much older than its arrival a request may grow
  MaxTime,             \* bound on the clock
  Ops                  \* the handlers that run

Access == {"view", "edit"}

AllOps == {"upsertList", "deleteList", "createInvitation", "revokeInvitation",
           "acceptInvitation", "changeAccess", "revokeShare", "leaveList",
           "addItem", "patchItem", "deleteItem"}

ASSUME ConstantsAssumption ==
  /\ Null \notin Owners \cup Lists \cup Items \cup Tokens \cup Values \cup Access
  /\ Default \in Values
  /\ Ops \subseteq AllOps
  /\ InvitationTTL \in Nat /\ MaxRequestAge \in Nat /\ MaxTime \in Nat
  /\ TombstoneRetention \in Nat

\* A link made by a request that outlived its list, and the accept that takes
\* the link at its last moment, are both over before the list is pruned: seven
\* days and two requests against thirty days.
ASSUME RetentionAssumption ==
  InvitationTTL + 2 * MaxRequestAge <= TombstoneRetention

VARIABLES
  now,       \* the clock of the server and of the database
  lists,     \* shopping_lists
  items,     \* list_items
  shares,    \* list_shares, by list and member
  invs,      \* list_invitations
  issued,    \* the tokens drawn so far
  reqs,      \* the handlers in flight
  editors,   \* history: who ever had edit access to the list now in this row
  said       \* history: the value last given for each column of an item

dbVars  == <<lists, items, shares, invs, issued>>
vars    == <<now, lists, items, shares, invs, issued, reqs, editors, said>>

(***************************************************************************)
(* Rows                                                                    *)
(***************************************************************************)
Bodies  == [Fields -> Values]
Patches == [Fields -> Values \cup {Null}]
NoPatch == [f \in Fields |-> Null]
NewBody == [f \in Fields |-> Default]

NoList  == [st |-> "absent", owner |-> Null, at |-> 0]
NoItem  == [st |-> "absent", owner |-> Null, list |-> Null,
            body |-> NewBody, at |-> 0]
NoShare == [st |-> "absent", owner |-> Null, access |-> Null, at |-> 0]
NoInv   == [st |-> "absent", list |-> Null, owner |-> Null, access |-> Null,
            by |-> Null, created |-> 0, expires |-> 0]

\* A row that is there has all its columns (NOT NULL).
ListRow  == {NoList} \cup [st : {"active", "deleted"}, owner : Owners, at : Nat]
ItemRow  == {NoItem} \cup [st : {"live", "deleted"}, owner : Owners,
                           list : Lists, body : Bodies, at : Nat]
ShareRow == {NoShare} \cup [st : {"active", "revoked"}, owner : Owners,
                            access : Access, at : Nat]
InvRow   == {NoInv} \cup [st : {"pending", "accepted", "revoked"},
                          list : Lists, owner : Owners, access : Access,
                          by : Owners \cup {Null}, created : Nat, expires : Nat]

Idle == [pc |-> "idle", op |-> Null, caller |-> Null, list |-> Null,
         owner |-> Null, item |-> Null, token |-> Null, member |-> Null,
         access |-> Null, patch |-> NoPatch, seen |-> NoPatch, start |-> 0]

\* The steps of an accept after it has written the token and before it commits.
Accepting == {"tokenTaken", "shareTaken", "listRead"}

Request == {Idle} \cup
  [pc : {"insertList", "insertInv", "setAccess", "endShare", "begun",
         "author", "member", "owner", "write"} \cup Accepting,
   op : AllOps, caller : Owners,
   list : Lists \cup {Null}, owner : Owners \cup {Null},
   item : Items \cup {Null}, token : Tokens \cup {Null},
   member : Owners \cup {Null}, access : Access \cup {Null},
   patch : Patches, seen : Patches, start : Nat]

TypeOK ==
  /\ now \in Nat
  /\ lists \in [Lists -> ListRow]
  /\ items \in [Items -> ItemRow]
  /\ shares \in [Lists -> [Owners -> ShareRow]]
  /\ invs \in [Tokens -> InvRow]
  /\ issued \in SUBSET Tokens
  /\ reqs \in [Reqs -> Request]
  /\ editors \in [Lists -> SUBSET Owners]
  /\ said \in [Items -> Bodies]

Init ==
  /\ now = 0
  /\ lists = [l \in Lists |-> NoList]
  /\ items = [i \in Items |-> NoItem]
  /\ shares = [l \in Lists |-> [o \in Owners |-> NoShare]]
  /\ invs = [t \in Tokens |-> NoInv]
  /\ issued = {}
  /\ reqs = [r \in Reqs |-> Idle]
  /\ editors = [l \in Lists |-> {}]
  /\ said = [i \in Items |-> NewBody]

\* GetShoppingList: the caller's own list, not deleted.
OwnsActive(o, l) == lists[l].st = "active" /\ lists[l].owner = o

\* The rows that an open accept transaction has written and not committed.
TokenLocked(t) ==
  \E r \in Reqs : /\ reqs[r].token = t
                  /\ reqs[r].pc \in Accepting
ShareLocked(l, m) ==
  \E r \in Reqs : /\ reqs[r].list = l /\ reqs[r].caller = m
                  /\ reqs[r].pc \in {"shareTaken", "listRead"}

Begin(r, op, req) ==
  /\ reqs[r] = Idle
  /\ op \in Ops
  /\ reqs' = [reqs EXCEPT ![r] = [req EXCEPT !.op = op, !.start = now]]
Goto(r, pc) == reqs' = [reqs EXCEPT ![r].pc = pc]
End(r)      == reqs' = [reqs EXCEPT ![r] = Idle]

(***************************************************************************)
(* Lists                                                                   *)
(***************************************************************************)
\* POST /lists: the probe found no active list of the caller.  (When it
\* finds one the handler only rewrites the name.)
UpsertListProbe(r, o, l) ==
  /\ ~OwnsActive(o, l)
  /\ Begin(r, "upsertList", [Idle EXCEPT !.pc = "insertList",
                                         !.caller = o, !.list = l])
  /\ UNCHANGED <<now, dbVars, editors, said>>

\* The insert: the primary key refuses an id that any row, of any owner and
\* even deleted, still has.
UpsertListInsert(r) ==
  LET l == reqs[r].list  o == reqs[r].caller IN
  /\ reqs[r].pc = "insertList"
  /\ \/ /\ lists[l].st = "absent"
        /\ lists' = [lists EXCEPT ![l] = [st |-> "active", owner |-> o, at |-> 0]]
        /\ editors' = [editors EXCEPT ![l] = {o}]
     \/ lists[l].st # "absent" /\ UNCHANGED <<lists, editors>>
  /\ End(r)
  /\ UNCHANGED <<now, items, shares, invs, issued, said>>

\* DELETE /lists/{id}: one guarded update.
DeleteList(o, l) ==
  /\ "deleteList" \in Ops
  /\ OwnsActive(o, l)
  /\ lists' = [lists EXCEPT ![l].st = "deleted", ![l].at = now]
  /\ UNCHANGED <<now, items, shares, invs, issued, reqs, editors, said>>

(***************************************************************************)
(* Invitations and memberships                                             *)
(***************************************************************************)
\* requireOwner, the first statement of three handlers of the list's author.
RequireNobody(r, o, l, op, req) ==  \* mutant: the answer is not looked at
  /\ Begin(r, op, [req EXCEPT !.caller = o, !.list = l])
  /\ UNCHANGED <<now, dbVars, editors, said>>

RequireOwner(r, o, l, op, req) ==
  /\ OwnsActive(o, l)
  /\ Begin(r, op, [req EXCEPT !.caller = o, !.list = l])
  /\ UNCHANGED <<now, dbVars, editors, said>>

CreateInvitationCheck(r, o, l, a) ==
  RequireOwner(r, o, l, "createInvitation",
               [Idle EXCEPT !.pc = "insertInv", !.access = a])

\* The foreign key refuses the row when the list is gone; a list that was only
\* marked deleted since the check is accepted.  Tokens is a bound: when all are
\* drawn the request ends.
CreateInvitationInsert(r) ==
  LET q == reqs[r] IN
  /\ q.pc = "insertInv"
  /\ \/ /\ lists[q.list].st # "absent"
        /\ \E t \in Tokens \ issued :
             /\ issued' = issued \cup {t}
             /\ invs' = [invs EXCEPT ![t] =
                  [st |-> "pending", list |-> q.list, owner |-> q.caller,
                   access |-> q.access, by |-> Null,
                   created |-> now, expires |-> now + InvitationTTL]]
     \/ /\ lists[q.list].st = "absent" \/ issued = Tokens
        /\ UNCHANGED <<invs, issued>>
  /\ End(r)
  /\ UNCHANGED <<now, lists, items, shares, editors, said>>

\* DELETE /invitations/{token}: one guarded update, which waits for an open
\* accept of the token.
RevokeInvitation(o, t) ==
  /\ "revokeInvitation" \in Ops
  /\ invs[t].st = "pending" /\ invs[t].owner = o
  /\ ~TokenLocked(t)
  /\ invs' = [invs EXCEPT ![t].st = "revoked"]
  /\ UNCHANGED <<now, lists, items, shares, issued, reqs, editors, said>>

\* The update of a share row that its WHERE clause matches waits for the row's
\* lock; when it matches no row the handler answers "not found".
ShareMatches(r) ==
  LET s == shares[reqs[r].list][reqs[r].member] IN
  s.st = "active" /\ s.owner = reqs[r].caller

ShareUpdate(r, row) ==
  LET l == reqs[r].list  m == reqs[r].member IN
  /\ \/ ShareMatches(r) /\ ~ShareLocked(l, m) /\ shares' = [shares EXCEPT ![l][m] = row]
     \/ ~ShareMatches(r) /\ UNCHANGED shares
  /\ End(r)
  /\ UNCHANGED <<now, lists, items, invs, issued, said>>

ChangeAccessCheck(r, o, l, m, a) ==
  RequireOwner(r, o, l, "changeAccess",
               [Idle EXCEPT !.pc = "setAccess", !.member = m, !.access = a])

ChangeAccessUpdate(r) ==
  LET l == reqs[r].list  m == reqs[r].member  a == reqs[r].access IN
  /\ reqs[r].pc = "setAccess"
  /\ ShareUpdate(r, [shares[l][m] EXCEPT !.access = a])
  /\ editors' = IF ShareMatches(r) /\ a = "edit"
                THEN [editors EXCEPT ![l] = @ \cup {m}] ELSE editors

RevokeShareCheck(r, o, l, m) ==
  RequireOwner(r, o, l, "revokeShare", [Idle EXCEPT !.pc = "endShare", !.member = m])

RevokeShareUpdate(r) ==
  LET l == reqs[r].list  m == reqs[r].member IN
  /\ reqs[r].pc = "endShare"
  /\ ShareUpdate(r, [shares[l][m] EXCEPT !.st = "revoked", !.at = now])
  /\ UNCHANGED editors

\* DELETE /lists/{id}/membership: one guarded update.
LeaveList(m, l) ==
  /\ "leaveList" \in Ops
  /\ shares[l][m].st = "active"
  /\ ~ShareLocked(l, m)
  /\ shares' = [shares EXCEPT ![l][m].st = "revoked", ![l][m].at = now]
  /\ UNCHANGED <<now, lists, items, invs, issued, reqs, editors, said>>

(***************************************************************************)
(* POST /invitations/{token}/accept: one transaction                       *)
(***************************************************************************)
\* BEGIN: the transaction's now() is the time of this step.
AcceptBegin(r, m, t) ==
  /\ Begin(r, "acceptInvitation", [Idle EXCEPT !.pc = "begun",
                                               !.caller = m, !.token = t])
  /\ UNCHANGED <<now, dbVars, editors, said>>

\* The conditional update of the token: it waits for another open accept, and
\* looks at what that one left.  When it matches nothing the answer is "not
\* found" or "conflict".
AcceptTakeAnyToken(r) ==  \* mutant: the update does not ask for "pending"
  LET t == reqs[r].token IN
  /\ reqs[r].pc = "begun"
  /\ \/ /\ invs[t].st # "absent" /\ ~TokenLocked(t)
        /\ reqs' = [reqs EXCEPT ![r].pc = "tokenTaken",
                                ![r].list = invs[t].list,
                                ![r].owner = invs[t].owner,
                                ![r].access = invs[t].access]
     \/ invs[t].st = "absent" /\ End(r)
  /\ UNCHANGED <<now, dbVars, editors, said>>

AcceptTakeExpiredToken(r) ==  \* mutant: the update does not ask for the expiry
  LET t == reqs[r].token IN
  /\ reqs[r].pc = "begun"
  /\ \/ /\ invs[t].st = "pending" /\ ~TokenLocked(t)
        /\ reqs' = [reqs EXCEPT ![r].pc = "tokenTaken",
                                ![r].list = invs[t].list,
                                ![r].owner = invs[t].owner,
                                ![r].access = invs[t].access]
     \/ invs[t].st # "pending" /\ End(r)
  /\ UNCHANGED <<now, dbVars, editors, said>>

AcceptTakeTokenOnPool(r) ==  \* mutant: the update runs outside the transaction
  LET t == reqs[r].token IN
  /\ reqs[r].pc = "begun"
  /\ invs[t].st = "pending" /\ invs[t].expires > reqs[r].start
  /\ reqs' = [reqs EXCEPT ![r].pc = "tokenTaken", ![r].list = invs[t].list,
                          ![r].owner = invs[t].owner, ![r].access = invs[t].access]
  /\ invs' = [invs EXCEPT ![t].st = "accepted", ![t].by = reqs[r].caller]
  /\ UNCHANGED <<now, lists, items, shares, issued, editors, said>>

AcceptTakeToken(r) ==
  LET t == reqs[r].token IN
  /\ reqs[r].pc = "begun"
  /\ \/ /\ invs[t].st = "pending" /\ invs[t].expires > reqs[r].start
        /\ ~TokenLocked(t)
        /\ reqs' = [reqs EXCEPT ![r].pc = "tokenTaken",
                                ![r].list = invs[t].list,
                                ![r].owner = invs[t].owner,
                                ![r].access = invs[t].access]
     \/ ~(invs[t].st = "pending" /\ invs[t].expires > reqs[r].start) /\ End(r)
  /\ UNCHANGED <<now, dbVars, editors, said>>

\* The author's own link is rolled back; otherwise the share is upserted.
AcceptTakeShareOfOwnLink(r) ==  \* mutant: the author's own link is not refused
  /\ reqs[r].pc = "tokenTaken"
  /\ ~ShareLocked(reqs[r].list, reqs[r].caller)
  /\ Goto(r, "shareTaken")
  /\ UNCHANGED <<now, dbVars, editors, said>>

AcceptTakeShare(r) ==
  /\ reqs[r].pc = "tokenTaken"
  /\ \/ reqs[r].owner = reqs[r].caller /\ End(r)
     \/ /\ reqs[r].owner # reqs[r].caller
        /\ ~ShareLocked(reqs[r].list, reqs[r].caller)
        /\ Goto(r, "shareTaken")
  /\ UNCHANGED <<now, dbVars, editors, said>>

\* The list is read as the author; a list that is not active rolls back.
AcceptReadListNoRollback(r) ==  \* mutant: the early return leaves the transaction open
  /\ reqs[r].pc = "shareTaken"
  /\ \/ OwnsActive(reqs[r].owner, reqs[r].list) /\ Goto(r, "listRead")
     \/ ~OwnsActive(reqs[r].owner, reqs[r].list) /\ UNCHANGED reqs
  /\ UNCHANGED <<now, dbVars, editors, said>>

AcceptReadList(r) ==
  /\ reqs[r].pc = "shareTaken"
  /\ \/ OwnsActive(reqs[r].owner, reqs[r].list) /\ Goto(r, "listRead")
     \/ ~OwnsActive(reqs[r].owner, reqs[r].list) /\ End(r)
  /\ UNCHANGED <<now, dbVars, editors, said>>

\* What the upsert leaves in the row: a new row, or the old one active again
\* with the access of this link and the owner it had.
JoinedAsAccepted(s, owner, access) ==  \* mutant: a status of the other table
  [st |-> "accepted", owner |-> owner, access |-> access, at |-> 0]

Joined(s, owner, access) ==
  IF s.st = "absent"
  THEN [st |-> "active", owner |-> owner, access |-> access, at |-> 0]
  ELSE [s EXCEPT !.st = "active", !.access = access, !.at = 0]

AcceptCommit(r) ==
  LET q == reqs[r]  l == reqs[r].list  m == reqs[r].caller IN
  /\ q.pc = "listRead"
  /\ invs' = [invs EXCEPT ![q.token].st = "accepted", ![q.token].by = m]
  /\ shares' = [shares EXCEPT ![l][m] = Joined(@, q.owner, q.access)]
  /\ editors' = IF q.access = "edit" THEN [editors EXCEPT ![l] = @ \cup {m}]
                ELSE editors
  /\ End(r)
  /\ UNCHANGED <<now, lists, items, issued, said>>

(***************************************************************************)
(* Items                                                                   *)
(***************************************************************************)
AddItemBegin(r, o, i, l) ==
  /\ Begin(r, "addItem", [Idle EXCEPT !.pc = "author", !.caller = o,
                                      !.item = i, !.list = l])
  /\ UNCHANGED <<now, dbVars, editors, said>>

\* GetListItemByID: the item is live and its list is active.
ItemRead(r, o, i, op, p) ==
  /\ items[i].st = "live" /\ lists[items[i].list].st = "active"
  /\ Begin(r, op, [Idle EXCEPT !.pc = "author", !.caller = o, !.item = i,
                               !.list = items[i].list, !.owner = items[i].owner,
                               !.patch = p, !.seen = items[i].body])
  /\ UNCHANGED <<now, dbVars, editors, said>>
PatchItemRead(r, o, i, p) == ItemRead(r, o, i, "patchItem", p)
DeleteItemRead(r, o, i)   == ItemRead(r, o, i, "deleteItem", NoPatch)

\* Where a request goes once AccessForOwner has said "edit".
Granted(r) == Goto(r, IF reqs[r].op = "addItem" THEN "owner" ELSE "write")

\* AccessForOwner, first statement: the author of an active list may edit, the
\* rest are looked up among the members.
ReadAuthorOfAnyone(r) ==  \* mutant: everyone passes as the author
  LET l == reqs[r].list IN
  /\ reqs[r].pc = "author"
  /\ \/ lists[l].st # "active" /\ End(r)
     \/ lists[l].st = "active" /\ Granted(r)
  /\ UNCHANGED <<now, dbVars, editors, said>>

ReadAuthor(r) ==
  LET l == reqs[r].list IN
  /\ reqs[r].pc = "author"
  /\ \/ lists[l].st # "active" /\ End(r)
     \/ lists[l].st = "active" /\ lists[l].owner = reqs[r].caller /\ Granted(r)
     \/ lists[l].st = "active" /\ lists[l].owner # reqs[r].caller /\ Goto(r, "member")
  /\ UNCHANGED <<now, dbVars, editors, said>>

\* AccessForOwner, second statement: an active share with edit access.
ReadMemberEvenRevoked(r) ==  \* mutant: the query forgets revoked_at IS NULL
  LET s == shares[reqs[r].list][reqs[r].caller] IN
  /\ reqs[r].pc = "member"
  /\ \/ s.access = "edit" /\ Granted(r)
     \/ s.access # "edit" /\ End(r)
  /\ UNCHANGED <<now, dbVars, editors, said>>

ReadMember(r) ==
  LET s == shares[reqs[r].list][reqs[r].caller] IN
  /\ reqs[r].pc = "member"
  /\ \/ s.st = "active" /\ s.access = "edit" /\ Granted(r)
     \/ ~(s.st = "active" /\ s.access = "edit") /\ End(r)
  /\ UNCHANGED <<now, dbVars, editors, said>>

\* GetListOwner, in AddListItem only.
ReadOwner(r) ==
  LET l == reqs[r].list IN
  /\ reqs[r].pc = "owner"
  /\ \/ lists[l].st # "active" /\ End(r)
     \/ /\ lists[l].st = "active"
        /\ reqs' = [reqs EXCEPT ![r].pc = "write", ![r].owner = lists[l].owner]
  /\ UNCHANGED <<now, dbVars, editors, said>>

\* InsertListItem: refused by the primary key while the id is in any row, and
\* by the foreign key when the list is gone.
AddItemInsertOverTombstone(r) ==  \* mutant: a deleted row gives way to a new one
  LET q == reqs[r]  i == reqs[r].item
      fits == items[i].st # "live" /\ lists[q.list].st # "absent" IN
  /\ q.pc = "write" /\ q.op = "addItem"
  /\ \/ /\ fits
        /\ items' = [items EXCEPT ![i] = [st |-> "live", owner |-> q.owner,
                       list |-> q.list, body |-> NewBody, at |-> 0]]
        /\ said' = [said EXCEPT ![i] = NewBody]
     \/ ~fits /\ UNCHANGED <<items, said>>
  /\ End(r)
  /\ UNCHANGED <<now, lists, shares, invs, issued, editors>>

AddItemInsert(r) ==
  LET q == reqs[r]  i == reqs[r].item
      fits == items[i].st = "absent" /\ lists[q.list].st # "absent" IN
  /\ q.pc = "write" /\ q.op = "addItem"
  /\ \/ /\ fits
        /\ items' = [items EXCEPT ![i] = [st |-> "live", owner |-> q.owner,
                       list |-> q.list, body |-> NewBody, at |-> 0]]
        /\ said' = [said EXCEPT ![i] = NewBody]
     \/ ~fits /\ UNCHANGED <<items, said>>
  /\ End(r)
  /\ UNCHANGED <<now, lists, shares, invs, issued, editors>>

\* COALESCE: a column the patch does not give keeps the value it has.
PatchedFromCopy(body, patch, seen) ==  \* mutant: the copy read earlier is written back
  [f \in Fields |-> IF patch[f] = Null THEN seen[f] ELSE patch[f]]

Patched(body, patch, seen) ==
  [f \in Fields |-> IF patch[f] = Null THEN body[f] ELSE patch[f]]

\* PatchListItem: one update, of a live item of an active list.
PatchItemUpdate(r) ==
  LET q == reqs[r]  i == reqs[r].item
      fits == /\ items[i].st = "live" /\ items[i].owner = q.owner
              /\ lists[items[i].list].st = "active" IN
  /\ q.pc = "write" /\ q.op = "patchItem"
  /\ \/ /\ fits
        /\ items' = [items EXCEPT ![i].body = Patched(@, q.patch, q.seen)]
        /\ said' = [said EXCEPT ![i] = [f \in Fields |->
                      IF q.patch[f] = Null THEN @[f] ELSE q.patch[f]]]
     \/ ~fits /\ UNCHANGED <<items, said>>
  /\ End(r)
  /\ UNCHANGED <<now, lists, shares, invs, issued, editors>>

\* SoftDeleteListItem: one update, of a live item.
DeleteItemUpdate(r) ==
  LET q == reqs[r]  i == reqs[r].item
      fits == items[i].st = "live" /\ items[i].owner = q.owner IN
  /\ q.pc = "write" /\ q.op = "deleteItem"
  /\ \/ fits /\ items' = [items EXCEPT ![i].st = "deleted", ![i].at = now]
     \/ ~fits /\ UNCHANGED items
  /\ End(r)
  /\ UNCHANGED <<now, lists, shares, invs, issued, editors, said>>

(***************************************************************************)
(* The pruner.  A failed statement is skipped, so over several sweeps the  *)
(* four statements run in any order.                                       *)
(***************************************************************************)
ExpiredAtOnce(at) == at <= now  \* mutant: the cutoff forgets the retention
Expired(at) == at < now - TombstoneRetention

ListPrunable(l) == lists[l].st = "deleted" /\ Expired(lists[l].at)

\* Deletes the lists and, by the foreign keys, all their rows; it waits for an
\* open accept that holds one of those.
PruneLists ==
  LET gone == {l \in Lists : ListPrunable(l)} IN
  /\ gone # {}
  /\ \A t \in Tokens : invs[t].list \in gone => ~TokenLocked(t)
  /\ lists' = [l \in Lists |-> IF l \in gone THEN NoList ELSE lists[l]]
  /\ items' = [i \in Items |-> IF items[i].list \in gone THEN NoItem ELSE items[i]]
  /\ shares' = [l \in Lists |-> IF l \in gone THEN [m \in Owners |-> NoShare]
                                ELSE shares[l]]
  /\ invs' = [t \in Tokens |-> IF invs[t].list \in gone THEN NoInv ELSE invs[t]]
  /\ editors' = [l \in Lists |-> IF l \in gone THEN {} ELSE editors[l]]
  /\ said' = [i \in Items |-> IF items[i].list \in gone THEN NewBody ELSE said[i]]
  /\ UNCHANGED <<now, issued, reqs>>

PruneItems ==
  LET gone == {i \in Items : items[i].st = "deleted" /\ Expired(items[i].at)} IN
  /\ gone # {}
  /\ items' = [i \in Items |-> IF i \in gone THEN NoItem ELSE items[i]]
  /\ said' = [i \in Items |-> IF i \in gone THEN NewBody ELSE said[i]]
  /\ UNCHANGED <<now, lists, shares, invs, issued, reqs, editors>>

InvPrunable(t) ==
  /\ invs[t].st # "absent" /\ Expired(invs[t].created)
  /\ invs[t].st # "pending" \/ invs[t].expires < now

PruneInvitations ==
  LET gone == {t \in Tokens : InvPrunable(t)} IN
  /\ gone # {}
  /\ \A t \in gone : ~TokenLocked(t)
  /\ invs' = [t \in Tokens |-> IF t \in gone THEN NoInv ELSE invs[t]]
  /\ UNCHANGED <<now, lists, items, shares, issued, reqs, editors, said>>

SharePrunable(l, m) == shares[l][m].st = "revoked" /\ Expired(shares[l][m].at)

PruneShares ==
  /\ \E l \in Lists, m \in Owners : SharePrunable(l, m)
  /\ \A l \in Lists, m \in Owners : SharePrunable(l, m) => ~ShareLocked(l, m)
  /\ shares' = [l \in Lists |-> [m \in Owners |->
                  IF SharePrunable(l, m) THEN NoShare ELSE shares[l][m]]]
  /\ UNCHANGED <<now, lists, items, invs, issued, reqs, editors, said>>

(***************************************************************************)
(* Failures and time                                                       *)
(***************************************************************************)
\* A statement fails, the client hangs up or the process dies: the request is
\* over, and an open transaction is rolled back.
Fail(r) ==
  /\ reqs[r] # Idle
  /\ End(r)
  /\ UNCHANGED <<now, dbVars, editors, said>>

\* No request is older than MaxRequestAge: a handler is a few statements long.
Tick ==
  /\ now < MaxTime
  /\ \A r \in Reqs : reqs[r] # Idle => now - reqs[r].start < MaxRequestAge
  /\ now' = now + 1
  /\ UNCHANGED <<dbVars, reqs, editors, said>>

(***************************************************************************)
(* The specification                                                       *)
(***************************************************************************)
Arrive(r) ==
  \E o \in Owners :
    \/ \E l \in Lists :
         \/ UpsertListProbe(r, o, l)
         \/ \E a \in Access : CreateInvitationCheck(r, o, l, a)
         \/ \E m \in Owners : \/ RevokeShareCheck(r, o, l, m)
                              \/ \E a \in Access : ChangeAccessCheck(r, o, l, m, a)
         \/ \E i \in Items : AddItemBegin(r, o, i, l)
    \/ \E t \in Tokens : AcceptBegin(r, o, t)
    \/ \E i \in Items : \/ \E p \in Patches \ {NoPatch} : PatchItemRead(r, o, i, p)
                        \/ DeleteItemRead(r, o, i)

Advance(r) ==
  \/ UpsertListInsert(r) \/ CreateInvitationInsert(r)
  \/ ChangeAccessUpdate(r) \/ RevokeShareUpdate(r)
  \/ AcceptTakeToken(r) \/ AcceptTakeShare(r) \/ AcceptReadList(r) \/ AcceptCommit(r)
  \/ ReadAuthor(r) \/ ReadMember(r) \/ ReadOwner(r)
  \/ AddItemInsert(r) \/ PatchItemUpdate(r) \/ DeleteItemUpdate(r)

SingleStatement ==
  \E o \in Owners : \/ \E l \in Lists : DeleteList(o, l) \/ LeaveList(o, l)
                    \/ \E t \in Tokens : RevokeInvitation(o, t)

Prune == PruneLists \/ PruneItems \/ PruneInvitations \/ PruneShares

Next ==
  \/ \E r \in Reqs : Arrive(r) \/ Advance(r) \/ Fail(r)
  \/ SingleStatement
  \/ Prune
  \/ Tick

Spec == Init /\ [][Next]_vars

\* A handler that runs takes its next step: PostgreSQL answers the statement.
\* Strong fairness, because a row lock is granted to the waiter at the head of
\* its queue: a waiter is not passed over each time the lock is free.
FairSpec == Spec /\ \A r \in Reqs : SF_vars(Advance(r))

(***************************************************************************)
(* Properties                                                              *)
(***************************************************************************)
\* Every row that hangs on a list belongs to the list's author: the items, by
\* whoever added them, since the owner's sync and every write to an item join
\* on it (service/lists.go:103); the shares and the invitations, since an
\* update of the author finds them by it.  Ids are chosen by clients and become
\* free again when a list is pruned, so a handler that carries an owner from
\* one statement to the next could write it under another author's list.
RowBelongs(st, l, o) == st # "absent" =>
  l \in Lists /\ lists[l].st # "absent" /\ lists[l].owner = o

RowsBelongToAuthor ==
  /\ \A i \in Items : RowBelongs(items[i].st, items[i].list, items[i].owner)
  /\ \A t \in Tokens : RowBelongs(invs[t].st, invs[t].list, invs[t].owner)
  /\ \A l \in Lists, m \in Owners : RowBelongs(shares[l][m].st, l, shares[l][m].owner)

\* The author of a list is never one of its members (service/sharing.go:84):
\* the author's access does not come from a share somebody could revoke.
AuthorIsNoMember ==
  \A l \in Lists, m \in Owners : shares[l][m].st # "absent" => lists[l].owner # m

\* A used link made a member of the one who used it: token and membership
\* commit together (repository/invitation.go:62), whatever fails in between.
\* Only the pruner separates them, when the link itself is due.
UsedLinkMadeMember ==
  \A t \in Tokens : invs[t].st = "accepted" =>
    \/ shares[invs[t].list][invs[t].by].st # "absent"
    \/ InvPrunable(t)

\* Members that patch different columns of an item at the same time do not
\* undo each other's patch: a column has the value last given for it
\* (repository/listitem.go:134).
NoPatchIsLost ==
  \A i \in Items : items[i].st # "absent" => items[i].body = said[i]

\* A handler checks the access in one statement and writes in a later one.
\* Still, who adds, patches or deletes an item was at some time an editor of
\* the list the item is in; and a membership that was over before the request
\* arrived is not enough.
MayEdit(o, l, start) ==
  /\ o \in editors[l]
  /\ lists[l].owner = o \/ shares[l][o].st = "active" \/ shares[l][o].at >= start

Edited(i) == items'[i].st # "absent" /\ items'[i] # items[i]

EditsWereAuthorised ==
  [][\A i \in Items : Edited(i) =>
       \E r \in Reqs : /\ reqs[r].pc = "write" /\ reqs[r].item = i
                       /\ reqs'[r] = Idle
                       /\ MayEdit(reqs[r].caller, items'[i].list, reqs[r].start)]_vars

\* The pruner's delete of a list cascades to its invitations, and an accept
\* that holds one of those waits for the list's row when it inserts the share:
\* each would wait for the other.  It cannot happen, because no link of a list
\* still opens when the list is due (RetentionAssumption).
PrunerMeetsNoOpenAccept ==
  \A t \in Tokens : TokenLocked(t) => ~ListPrunable(invs[t].list)

\* A deletion stays visible for TombstoneRetention, so that a device that was
\* offline learns of it (app/pruner.go:11): no late write brings a deleted list
\* or item back and no sweep removes it early.  The tombstone of an item may go
\* with the older one of its list.
TombstonesKept ==
  [][/\ \A l \in Lists : lists[l].st = "deleted" /\ lists'[l] # lists[l] =>
          Expired(lists[l].at)
     /\ \A i \in Items : items[i].st = "deleted" /\ items'[i] # items[i] =>
          Expired(items[i].at) \/ ListPrunable(items[i].list)]_vars

\* Why these hold (the inductive invariant).  A handler in flight carries what
\* its next steps need and is no older than MaxRequestAge.
Carries(q) ==
  /\ q.start <= now /\ now <= q.start + MaxRequestAge
  /\ q.pc # "begun" => q.list \in Lists
  /\ q.pc \in Accepting \cup {"begun"} => q.token \in Tokens
  /\ q.pc \in Accepting \cup {"insertInv", "setAccess"} => q.access \in Access
  /\ q.pc \in {"setAccess", "endShare"} => q.member \in Owners
  /\ q.pc \in {"author", "member", "owner", "write"} => q.item \in Items

\* A list that a handler has seen is still there, under the same author: if it
\* was deleted since, that is too recent for the pruner.
ListHeld(l, o, start) ==
  /\ lists[l].st # "absent" /\ lists[l].owner = o
  /\ lists[l].st = "deleted" => lists[l].at >= start

HoldsList(q) ==
  /\ q.pc = "insertInv" => ListHeld(q.list, q.caller, q.start)
  /\ q.pc = "write" /\ q.op = "addItem" => ListHeld(q.list, q.owner, q.start)

\* The row of a token that an accept has locked stays as the accept has read it.
HoldsToken(q) == q.pc \in Accepting =>
  /\ invs[q.token].st # "absent" /\ invs[q.token].expires > q.start
  /\ invs[q.token].list = q.list /\ invs[q.token].owner = q.owner
  /\ q.pc # "tokenTaken" => q.owner # q.caller

RequestInv(q) == q # Idle => Carries(q) /\ HoldsList(q) /\ HoldsToken(q)

\* A link is no younger than the deletion of its list, but for the handler that
\* was creating it meanwhile.
LinkTimes ==
  \A t \in Tokens : LET v == invs[t] IN v.st # "absent" =>
    /\ t \in issued
    /\ v.created <= now /\ v.expires = v.created + InvitationTTL
    /\ lists[v.list].st = "deleted" => v.created <= lists[v.list].at + MaxRequestAge

\* All of this holds together: what a handler in flight has read of a list or of
\* a link it is going to write by stays true until it writes.
SharingInv ==
  /\ TypeOK
  /\ \A r \in Reqs : RequestInv(reqs[r])
  /\ RowsBelongToAuthor /\ AuthorIsNoMember /\ LinkTimes

\* What the other properties rest on besides.  A link that an open accept has
\* taken is its alone, and still as it was taken.
TakenLink(r) == reqs[r].pc \in Accepting =>
  /\ invs[reqs[r].token].st = "pending"
  /\ invs[reqs[r].token].access = reqs[r].access
  /\ \A p \in Reqs \ {r} : ~(reqs[p].pc \in Accepting /\ reqs[p].token = reqs[r].token)

\* The row that a patch or a delete has read stays, at the worst as a tombstone
\* too young for the pruner.
ItemHeld(q) ==
  /\ items[q.item].st # "absent" /\ items[q.item].list = q.list
  /\ items[q.item].st = "deleted" => items[q.item].at >= q.start

\* Who was let through stays known as an editor, and the membership that let
\* him through has not been over for longer than the request runs.
Standing(o, l, start) ==
  /\ o \in editors[l]
  /\ \/ lists[l].owner = o \/ shares[l][o].st = "active"
     \/ shares[l][o].st = "revoked" /\ shares[l][o].at >= start

EditorRequest(q) ==
  /\ \/ q.pc \in {"member", "owner", "write"}
     \/ q.pc = "author" /\ q.op # "addItem"
     => ListHeld(q.list, lists[q.list].owner, q.start)
  /\ q.pc \in {"author", "member", "owner", "write"} /\ q.op # "addItem" => ItemHeld(q)
  /\ q.pc \in {"owner", "write"} => Standing(q.caller, q.list, q.start)

EditorsKnown == \A l \in Lists :
  /\ lists[l].st # "absent" => lists[l].owner \in editors[l]
  /\ \A m \in Owners : shares[l][m].st = "active" /\ shares[l][m].access = "edit"
                        => m \in editors[l]

\* A membership outlives its link: it ended after the link was made.
UsedLink(v) == v.st = "accepted" =>
  /\ v.by \in Owners
  /\ \/ shares[v.list][v.by].st = "active"
     \/ shares[v.list][v.by].st = "revoked" /\ v.created <= shares[v.list][v.by].at
     \/ Expired(v.created)

StandingInv ==
  /\ \A r \in Reqs : TakenLink(r) /\ EditorRequest(reqs[r])
  /\ EditorsKnown
  /\ \A t \in Tokens : UsedLink(invs[t])

\* A handler in flight ends, whatever locks the others take.
RequestsEnd ==
  \A r \in Reqs : reqs[r] # Idle ~> reqs[r] = Idle

\* The tables implement Membership.  A ticket is open while its row is pending;
\* what an open transaction has written does not count before it commits.
MembershipImpl == INSTANCE Membership WITH
  author <- [l \in Lists |-> lists[l].owner],
  role <- [l \in Lists |-> [m \in Owners |->
             IF shares[l][m].st = "active" THEN shares[l][m].access ELSE "none"]],
  ticket <- [t \in Tokens |->
             [st |-> IF invs[t].st = "pending" THEN "open"
                     ELSE IF t \in issued THEN "spent" ELSE "unused",
              list |-> IF invs[t].st = "pending" THEN invs[t].list ELSE Null,
              role |-> IF invs[t].st = "pending" THEN invs[t].access ELSE Null]]

\* Nobody becomes a member, or a member again after being put out, but by
\* spending a link of that list that nobody has spent before, and then with the
\* access the author wrote on it.
ImplementsMembership == MembershipImpl!Spec
=============================================================================

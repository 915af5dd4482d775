--------------------------- MODULE StandingProofs ---------------------------
(***************************************************************************)
(* More theorems about Sharing: who edits an item was let through, a used  *)
(* link made a member, no patch is lost.  They rest on StandingInv, which  *)
(* is inductive together with SharingInv.                                  *)
(*                                                                         *)
(* The steps are of two kinds.  One moves a request and leaves the tables  *)
(* alone: OneMoves.  The other writes tables and ends at most a request:   *)
(* TablesStep says what can become of a row in such a step, whichever      *)
(* action it is, and from that alone the invariant is kept: TablesInv.     *)
(***************************************************************************)
EXTENDS SharingProofs

USE DEF Accepting

(***************************************************************************)
(* What can become of a row                                                *)
(***************************************************************************)
ListStep(l) ==
  \/ lists'[l] = lists[l]
  \/ lists[l].st = "absent" /\ lists'[l].owner \in editors'[l]
  \/ /\ lists[l].st = "active" /\ lists'[l].st = "deleted"
     /\ lists'[l].owner = lists[l].owner /\ lists'[l].at = now
  \/ ListPrunable(l) /\ lists'[l].st = "absent"

ItemStep(i) ==
  \/ items'[i] = items[i]
  \/ items[i].st = "absent"
  \/ /\ items[i].st = "live" /\ items'[i].st \in {"live", "deleted"}
     /\ items'[i].list = items[i].list
     /\ items'[i].st = "deleted" => items'[i].at = now
  \/ items[i].st = "deleted" /\ Expired(items[i].at)
  \/ ListPrunable(items[i].list)

ShareStep(l, m) ==
  \/ shares'[l][m] = shares[l][m]
  \/ shares'[l][m].st = "active" /\ (shares'[l][m].access = "edit" => m \in editors'[l])
  \/ shares[l][m].st = "active" /\ shares'[l][m].st = "revoked" /\ shares'[l][m].at = now
  \/ SharePrunable(l, m) /\ shares'[l][m].st = "absent"
  \/ ListPrunable(l) /\ lists'[l].st = "absent" /\ shares'[l][m].st = "absent"

EditorStep(l) ==
  \/ editors[l] \subseteq editors'[l]
  \/ lists[l].st = "absent"
  \/ ListPrunable(l) /\ lists'[l].st = "absent"

\* A link is taken from an open accept only by that accept, when it commits.
LinkStep(t) ==
  \/ invs'[t] = invs[t]
  \/ ~TokenLocked(t) /\ invs'[t].st # "accepted"
  \/ /\ invs'[t].list = invs[t].list /\ invs'[t].created = invs[t].created
     /\ invs'[t].by \in Owners /\ shares'[invs[t].list][invs'[t].by].st = "active"
     /\ \E r \in Reqs : reqs[r].pc = "listRead" /\ reqs[r].token = t /\ reqs'[r] = Idle

TablesStep ==
  /\ now' = now
  /\ \A r \in Reqs : reqs'[r] = reqs[r] \/ reqs'[r] = Idle
  /\ \A l \in Lists : ListStep(l) /\ EditorStep(l)
  /\ \A l \in Lists, m \in Owners : ShareStep(l, m)
  /\ \A i \in Items : ItemStep(i)
  /\ \A t \in Tokens : LinkStep(t)

\* A request that ends, or stays.
LEMMA Ends ==
  ASSUME TypeOK, NEW r \in Reqs, End(r)
  PROVE  \A p \in Reqs : reqs'[p] = IF p = r THEN Idle ELSE reqs[p]
BY DEF TypeOK, End

\* The handlers' writes to a list and to a link.
LEMMA ListAndLinkSteps ==
  ASSUME SharingInv, NEW r \in Reqs, UpsertListInsert(r) \/ CreateInvitationInsert(r)
  PROVE  TablesStep
<1> DEFINE q == reqs[r]
<1>1. TypeOK /\ q \in Request /\ RequestInv(q) /\ q.pc \in {"insertList", "insertInv"}
      /\ End(r)
  BY DEF SharingInv, TypeOK, UpsertListInsert, CreateInvitationInsert
<1>2. q # Idle /\ q.list \in Lists /\ q.caller \in Owners
  BY <1>1, RequestColumns DEF RequestInv, Carries
<1>3. \A p \in Reqs : reqs'[p] = reqs[p] \/ reqs'[p] = Idle BY <1>1, Ends
<1>4. CASE UpsertListInsert(r)
  <2>1. UNCHANGED <<now, items, shares, invs>> BY <1>4 DEF UpsertListInsert
  <2>2. ASSUME NEW l \in Lists PROVE ListStep(l) /\ EditorStep(l)
    BY <1>1, <1>2, <1>4 DEF UpsertListInsert, ListStep, EditorStep, TypeOK
  <2> QED BY <1>3, <2>1, <2>2 DEF TablesStep, ShareStep, ItemStep, LinkStep
<1>5. CASE CreateInvitationInsert(r)
  <2>1. UNCHANGED <<now, lists, items, shares, editors>> BY <1>5 DEF CreateInvitationInsert
  <2>2. ASSUME NEW t \in Tokens PROVE LinkStep(t)
    <3>1. CASE invs'[t] = invs[t] BY <3>1 DEF LinkStep
    <3>2. CASE invs'[t] # invs[t]
      <4>1. invs'[t].st = "pending" /\ t \notin issued
        BY <1>1, <1>5, <3>2 DEF CreateInvitationInsert, TypeOK
      <4>2. invs[t].st = "absent" BY <4>1 DEF SharingInv, LinkTimes
      <4>3. ASSUME NEW p \in Reqs, reqs[p].token = t, reqs[p].pc \in Accepting PROVE FALSE
        BY <4>2, <4>3 DEF SharingInv, RequestInv, HoldsToken, Idle
      <4> QED BY <4>1, <4>3 DEF LinkStep, TokenLocked
    <3> QED BY <3>1, <3>2
  <2> QED BY <1>3, <2>1, <2>2 DEF TablesStep, ListStep, EditorStep, ShareStep, ItemStep
<1> QED BY <1>4, <1>5

\* The author's updates of a membership, and the member's leaving.
LEMMA ShareSteps ==
  ASSUME SharingInv,
         \/ \E r \in Reqs : ChangeAccessUpdate(r) \/ RevokeShareUpdate(r)
         \/ \E m \in Owners, l \in Lists : LeaveList(m, l)
  PROVE  TablesStep
<1>1. TypeOK /\ now \in Nat BY DEF SharingInv, TypeOK
<1>2. \A s \in ShareRow : s.st = "active" =>
        /\ \A a \in Access : LET w == [s EXCEPT !.access = a] IN
             w.st = "active" /\ w.access = a
        /\ LET w == [s EXCEPT !.st = "revoked", !.at = now] IN w.st = "revoked" /\ w.at = now
  BY RowsThere DEF ShareThere
<1>3. UNCHANGED <<now, lists, items, invs>>
  BY DEF ChangeAccessUpdate, RevokeShareUpdate, ShareUpdate, LeaveList
<1>4. ASSUME NEW r \in Reqs, ChangeAccessUpdate(r) PROVE TablesStep
  <2> DEFINE l == reqs[r].list
             m == reqs[r].member
             a == reqs[r].access
  <2>1. reqs[r] \in Request /\ RequestInv(reqs[r]) /\ reqs[r].pc = "setAccess"
    BY <1>4 DEF SharingInv, TypeOK, ChangeAccessUpdate
  <2>2. l \in Lists /\ m \in Owners /\ a \in Access /\ shares[l][m] \in ShareRow
    BY <1>1, <2>1, RequestColumns DEF RequestInv, Carries, TypeOK
  <2>3. ASSUME NEW k \in Lists, NEW n \in Owners PROVE ShareStep(k, n) /\ EditorStep(k)
    <3>1. CASE UNCHANGED shares
      BY <1>1, <1>4, <2>2, <3>1 DEF ShareStep, EditorStep, ChangeAccessUpdate, TypeOK
    <3>2. CASE ShareMatches(r) /\ shares' = [shares EXCEPT ![l][m] = [@ EXCEPT !.access = a]]
      <4>1. shares[l][m].st = "active" BY <3>2 DEF ShareMatches
      <4>2. editors' = IF a = "edit" THEN [editors EXCEPT ![l] = @ \cup {m}] ELSE editors
        BY <1>4, <3>2 DEF ChangeAccessUpdate
      <4> DEFINE row == [shares[l][m] EXCEPT !.access = a]
      <4>3. shares'[k][n] = IF k = l /\ n = m THEN row ELSE shares[k][n]
        BY <1>1, <2>2, <3>2 DEF TypeOK
      <4>4. row.st = "active" /\ row.access = a BY <1>2, <2>2, <4>1
      <4>5. a = "edit" => m \in editors'[l] BY <1>1, <2>2, <4>2 DEF TypeOK
      <4>6. EditorStep(k) BY <1>1, <2>2, <4>2 DEF EditorStep, TypeOK
      <4> HIDE DEF l, m, a, row
      <4>7. CASE k = l /\ n = m BY <4>3, <4>4, <4>5, <4>6, <4>7 DEF ShareStep
      <4>8. CASE ~(k = l /\ n = m) BY <4>3, <4>6, <4>8 DEF ShareStep
      <4> QED BY <4>7, <4>8
    <3> QED BY <1>4, <3>1, <3>2 DEF ChangeAccessUpdate, ShareUpdate
  <2>4. \A p \in Reqs : reqs'[p] = reqs[p] \/ reqs'[p] = Idle
    BY <1>1, <1>4, Ends DEF ChangeAccessUpdate, ShareUpdate
  <2>5. \A k \in Lists : EditorStep(k) BY <2>2, <2>3
  <2> QED BY <1>3, <2>3, <2>4, <2>5 DEF TablesStep, ListStep, ItemStep, LinkStep
<1>5. ASSUME NEW l \in Lists, NEW m \in Owners, shares[l][m].st = "active", UNCHANGED editors,
             shares' = [shares EXCEPT ![l][m].st = "revoked", ![l][m].at = now],
             \A p \in Reqs : reqs'[p] = reqs[p] \/ reqs'[p] = Idle
      PROVE  TablesStep
  <2> DEFINE row == [shares[l][m] EXCEPT !.st = "revoked", !.at = now]
  <2>1. shares[l][m] \in ShareRow BY <1>1 DEF TypeOK
  <2>2. row.st = "revoked" /\ row.at = now BY <1>2, <1>5, <2>1
  <2>3. \A k \in Lists, n \in Owners :
          shares'[k][n] = IF k = l /\ n = m THEN row ELSE shares[k][n]
    BY <1>1, <1>5 DEF TypeOK
  <2> HIDE DEF row
  <2>4. ASSUME NEW k \in Lists, NEW n \in Owners PROVE ShareStep(k, n)
    <3>1. CASE k = l /\ n = m
      <4>1. shares[k][n].st = "active" /\ shares'[k][n] = row BY <1>5, <2>3, <3>1
      <4> QED BY <2>2, <4>1 DEF ShareStep
    <3>2. CASE ~(k = l /\ n = m) BY <2>3, <3>2 DEF ShareStep
    <3> QED BY <3>1, <3>2
  <2> QED BY <1>3, <1>5, <2>4 DEF TablesStep, ListStep, EditorStep, ItemStep, LinkStep
<1>6. ASSUME NEW r \in Reqs, RevokeShareUpdate(r) PROVE TablesStep
  <2> DEFINE l == reqs[r].list
             m == reqs[r].member
  <2>1. reqs[r] \in Request /\ RequestInv(reqs[r]) /\ reqs[r].pc = "endShare"
    BY <1>6 DEF SharingInv, TypeOK, RevokeShareUpdate
  <2>2. l \in Lists /\ m \in Owners
    BY <1>1, <2>1, RequestColumns DEF RequestInv, Carries
  <2>3. \A p \in Reqs : reqs'[p] = reqs[p] \/ reqs'[p] = Idle
    BY <1>1, <1>6, Ends DEF RevokeShareUpdate, ShareUpdate
  <2>4. UNCHANGED editors BY <1>6 DEF RevokeShareUpdate
  <2>5. CASE UNCHANGED shares
    BY <1>3, <2>3, <2>4, <2>5
    DEF TablesStep, ListStep, EditorStep, ItemStep, LinkStep, ShareStep
  <2>6. CASE /\ ShareMatches(r)
             /\ shares' = [shares EXCEPT ![l][m] = [@ EXCEPT !.st = "revoked", !.at = now]]
    <3>1. shares[l][m].st = "active" BY <2>6 DEF ShareMatches
    <3> QED BY <1>5, <2>2, <2>3, <2>4, <2>6, <3>1
  <2> QED BY <1>6, <2>5, <2>6 DEF RevokeShareUpdate, ShareUpdate
<1>7. ASSUME NEW m \in Owners, NEW l \in Lists, LeaveList(m, l) PROVE TablesStep
  BY <1>5, <1>7 DEF LeaveList
<1> QED BY <1>4, <1>6, <1>7

\* The commit of an accept.
LEMMA CommitStep ==
  ASSUME SharingInv, NEW r \in Reqs, AcceptCommit(r)
  PROVE  TablesStep
<1> DEFINE q == reqs[r]
           l == q.list
           m == q.caller
           t == q.token
<1>1. TypeOK /\ q \in Request /\ RequestInv(q) /\ q.pc = "listRead" /\ End(r)
  BY DEF SharingInv, TypeOK, AcceptCommit
<1>2. /\ l \in Lists /\ m \in Owners /\ t \in Tokens /\ q.access \in Access
      /\ invs[t].st # "absent" /\ invs[t].list = l
  BY <1>1, RequestColumns DEF RequestInv, Carries, HoldsToken
<1>3. UNCHANGED <<now, lists, items>>
      /\ invs' = [invs EXCEPT ![t].st = "accepted", ![t].by = m]
      /\ shares' = [shares EXCEPT ![l][m] = Joined(@, q.owner, q.access)]
      /\ editors' = IF q.access = "edit" THEN [editors EXCEPT ![l] = @ \cup {m}] ELSE editors
  BY DEF AcceptCommit
<1>4. \A p \in Reqs : reqs'[p] = IF p = r THEN Idle ELSE reqs[p] BY <1>1, Ends
<1> DEFINE row == Joined(shares[l][m], q.owner, q.access)
           link == [invs[t] EXCEPT !.st = "accepted", !.by = m]
<1>5. row.st = "active" /\ row.access = q.access
  <2>1. \A s \in ShareThere : LET w == [s EXCEPT !.st = "active", !.access = q.access, !.at = 0]
                              IN  w.st = "active" /\ w.access = q.access
    BY DEF ShareThere
  <2>2. shares[l][m] \in ShareRow BY <1>1, <1>2 DEF TypeOK
  <2> QED BY <2>1, <2>2, RowsThere DEF Joined
<1>6. link.list = l /\ link.created = invs[t].created /\ link.by = m
  <2>1. \A v \in InvThere : LET w == [v EXCEPT !.st = "accepted", !.by = m]
                            IN  w.list = v.list /\ w.created = v.created /\ w.by = m
    BY DEF InvThere
  <2>2. invs[t] \in InvThere BY <1>1, <1>2, RowsThere DEF TypeOK
  <2> QED BY <1>2, <2>1, <2>2
<1>7. \A k \in Lists, n \in Owners : shares'[k][n] = IF k = l /\ n = m THEN row ELSE shares[k][n]
  BY <1>1, <1>2, <1>3 DEF TypeOK
<1>8. \A u \in Tokens : invs'[u] = IF u = t THEN link ELSE invs[u]
  BY <1>1, <1>2, <1>3 DEF TypeOK
<1>9. \A k \in Lists : editors[k] \subseteq editors'[k]
  BY <1>1, <1>2, <1>3 DEF TypeOK
<1>10. q.access = "edit" => m \in editors'[l] BY <1>1, <1>2, <1>3 DEF TypeOK
<1> HIDE DEF row, link
<1>11. ASSUME NEW k \in Lists, NEW n \in Owners PROVE ShareStep(k, n)
  <2>1. CASE k = l /\ n = m
    <3>1. shares'[k][n] = row BY <1>7, <2>1
    <3> QED BY <1>5, <1>10, <2>1, <3>1 DEF ShareStep
  <2>2. CASE ~(k = l /\ n = m) BY <1>7, <2>2 DEF ShareStep
  <2> QED BY <2>1, <2>2
<1>12. ASSUME NEW u \in Tokens PROVE LinkStep(u)
  <2>1. CASE u = t
    <3>1. invs'[t] = link BY <1>2, <1>8
    <3>2. shares'[l][m] = row BY <1>2, <1>7
    <3>3. reqs'[r] = Idle BY <1>4
    <3> QED BY <1>1, <1>2, <1>5, <1>6, <2>1, <3>1, <3>2, <3>3 DEF LinkStep
  <2>2. CASE u # t BY <1>8, <2>2 DEF LinkStep
  <2> QED BY <2>1, <2>2
<1> QED BY <1>3, <1>4, <1>9, <1>11, <1>12 DEF TablesStep, ListStep, EditorStep, ItemStep

\* The three writes to an item, each a request's last step.
LEMMA ItemSteps ==
  ASSUME SharingInv, NEW r \in Reqs,
         AddItemInsert(r) \/ PatchItemUpdate(r) \/ DeleteItemUpdate(r)
  PROVE  TablesStep
<1> DEFINE q == reqs[r]
           i == q.item
<1>1. TypeOK /\ now \in Nat /\ q \in Request /\ RequestInv(q) /\ q.pc = "write" /\ End(r)
      /\ UNCHANGED <<now, lists, shares, invs, editors>>
  BY DEF SharingInv, TypeOK, AddItemInsert, PatchItemUpdate, DeleteItemUpdate
<1>2. i \in Items BY <1>1, RequestColumns DEF RequestInv, Carries
<1>3. \A p \in Reqs : reqs'[p] = reqs[p] \/ reqs'[p] = Idle BY <1>1, Ends
<1>4. \A x \in ItemRow : x.st = "live" =>
        /\ \A b : LET w == [x EXCEPT !.body = b] IN w.st = "live" /\ w.list = x.list
        /\ LET w == [x EXCEPT !.st = "deleted", !.at = now] IN
             w.st = "deleted" /\ w.list = x.list /\ w.at = now
  BY DEF ItemRow, NoItem
<1>5. items[i] \in ItemRow BY <1>1, <1>2 DEF TypeOK
<1>6. ASSUME NEW j \in Items PROVE ItemStep(j)
  <2>1. CASE UNCHANGED items BY <2>1 DEF ItemStep
  <2>2. CASE AddItemInsert(r) BY <1>1, <1>2, <2>2 DEF AddItemInsert, ItemStep, TypeOK
  <2>3. CASE PatchItemUpdate(r) /\ ~UNCHANGED items
    <3> DEFINE row == [items[i] EXCEPT !.body = Patched(items[i].body, q.patch, q.seen)]
    <3>1. items[i].st = "live" /\ items'[j] = IF j = i THEN row ELSE items[j]
      BY <1>1, <1>2, <2>3 DEF PatchItemUpdate, TypeOK
    <3>2. row.st = "live" /\ row.list = items[i].list BY <1>4, <1>5, <3>1
    <3> HIDE DEF row, i
    <3> QED BY <3>1, <3>2 DEF ItemStep
  <2>4. CASE DeleteItemUpdate(r) /\ ~UNCHANGED items
    <3> DEFINE row == [items[i] EXCEPT !.st = "deleted", !.at = now]
    <3>1. items[i].st = "live" /\ items'[j] = IF j = i THEN row ELSE items[j]
      BY <1>1, <1>2, <2>4 DEF DeleteItemUpdate, TypeOK
    <3>2. row.st = "deleted" /\ row.list = items[i].list /\ row.at = now
      BY <1>4, <1>5, <3>1
    <3> HIDE DEF row, i
    <3> QED BY <3>1, <3>2 DEF ItemStep
  <2> QED BY <2>1, <2>2, <2>3, <2>4
<1> QED BY <1>1, <1>3, <1>6 DEF TablesStep, ListStep, EditorStep, ShareStep, LinkStep

\* The single statements of the author: a list deleted, a link revoked.
LEMMA AuthorSteps ==
  ASSUME SharingInv,
         \/ \E o \in Owners, l \in Lists : DeleteList(o, l)
         \/ \E o \in Owners, t \in Tokens : RevokeInvitation(o, t)
  PROVE  TablesStep
<1>1. TypeOK /\ now \in Nat BY DEF SharingInv, TypeOK
<1>2. ASSUME NEW o \in Owners, NEW l \in Lists, DeleteList(o, l) PROVE TablesStep
  <2> DEFINE row == [lists[l] EXCEPT !.st = "deleted", !.at = now]
  <2>1. lists[l].st = "active" /\ lists' = [lists EXCEPT ![l] = row]
        /\ UNCHANGED <<now, items, shares, invs, reqs, editors>>
    BY <1>2 DEF DeleteList, OwnsActive
  <2>2. row.st = "deleted" /\ row.owner = lists[l].owner /\ row.at = now
    <3>1. \A w \in ListThere : LET d == [w EXCEPT !.st = "deleted", !.at = now] IN
            d.st = "deleted" /\ d.owner = w.owner /\ d.at = now
      BY DEF ListThere
    <3>2. lists[l] \in ListThere BY <1>1, <2>1, RowsThere DEF TypeOK
    <3> QED BY <3>1, <3>2
  <2>3. \A k \in Lists : lists'[k] = IF k = l THEN row ELSE lists[k] BY <1>1, <2>1 DEF TypeOK
  <2> HIDE DEF row
  <2>4. \A k \in Lists : ListStep(k) BY <2>1, <2>2, <2>3 DEF ListStep
  <2> QED BY <2>1, <2>4 DEF TablesStep, EditorStep, ItemStep, ShareStep, LinkStep
<1>3. ASSUME NEW o \in Owners, NEW t \in Tokens, RevokeInvitation(o, t) PROVE TablesStep
  <2>1. UNCHANGED <<now, lists, items, shares, reqs, editors>> BY <1>3 DEF RevokeInvitation
  <2>2. \A v \in InvRow : v.st = "pending" => [v EXCEPT !.st = "revoked"].st = "revoked"
    BY RowsThere DEF InvThere
  <2>3. ASSUME NEW u \in Tokens PROVE LinkStep(u)
    <3>1. invs'[u] = IF u = t THEN [invs[t] EXCEPT !.st = "revoked"] ELSE invs[u]
      BY <1>1, <1>3 DEF RevokeInvitation, TypeOK
    <3>2. invs[t] \in InvRow /\ invs[t].st = "pending" /\ ~TokenLocked(t)
      BY <1>1, <1>3 DEF RevokeInvitation, TypeOK
    <3> QED BY <2>2, <3>1, <3>2 DEF LinkStep
  <2> QED BY <2>1, <2>3 DEF TablesStep, ListStep, EditorStep, ItemStep, ShareStep
<1> QED BY <1>2, <1>3

\* The four sweeps.
LEMMA PruneSteps ==
  ASSUME SharingInv, Prune
  PROVE  TablesStep
<1>1. TypeOK BY DEF SharingInv
<1>2. UNCHANGED <<now, reqs>>
  BY DEF Prune, PruneLists, PruneItems, PruneInvitations, PruneShares
<1>3. CASE PruneLists
  <2>1. \A l \in Lists : ListStep(l) /\ EditorStep(l)
    BY <1>3, NullRows DEF PruneLists, ListStep, EditorStep
  <2>2. \A i \in Items : ItemStep(i) BY <1>3 DEF PruneLists, ItemStep
  <2>3. \A l \in Lists, m \in Owners : ShareStep(l, m)
    BY <1>3, NullRows DEF PruneLists, ShareStep
  <2>4. \A t \in Tokens : LinkStep(t) BY <1>3, NullRows DEF PruneLists, LinkStep
  <2> QED BY <1>2, <2>1, <2>2, <2>3, <2>4 DEF TablesStep
<1>4. CASE PruneItems
  <2>1. \A i \in Items : ItemStep(i) BY <1>4 DEF PruneItems, ItemStep
  <2>2. UNCHANGED <<lists, shares, invs, editors>> BY <1>4 DEF PruneItems
  <2> QED BY <1>2, <2>1, <2>2 DEF TablesStep, ListStep, EditorStep, ShareStep, LinkStep
<1>5. CASE PruneInvitations
  <2>1. \A t \in Tokens : LinkStep(t) BY <1>5, NullRows DEF PruneInvitations, LinkStep
  <2>2. UNCHANGED <<lists, shares, items, editors>> BY <1>5 DEF PruneInvitations
  <2> QED BY <1>2, <2>1, <2>2 DEF TablesStep, ListStep, EditorStep, ShareStep, ItemStep
<1>6. CASE PruneShares
  <2>1. \A l \in Lists, m \in Owners : ShareStep(l, m)
    BY <1>6, NullRows DEF PruneShares, ShareStep
  <2>2. UNCHANGED <<lists, invs, items, editors>> BY <1>6 DEF PruneShares
  <2> QED BY <1>2, <2>1, <2>2 DEF TablesStep, ListStep, EditorStep, LinkStep, ItemStep
<1> QED BY <1>3, <1>4, <1>5, <1>6 DEF Prune

(***************************************************************************)
(* The invariant                                                           *)
(***************************************************************************)
\* What a running handler of an item relies on stays: its list and its item are
\* too young for the pruner, and so is a membership that ended meanwhile.
LEMMA EditorRequestStays ==
  ASSUME TypeOK, TablesStep, NEW q \in Request, q # Idle, Carries(q), EditorRequest(q)
  PROVE  EditorRequest(q)'
<1> DEFINE l == q.list
           i == q.item
           o == q.caller
           Held == ListHeld(l, lists[l].owner, q.start)
<1>1. /\ now \in Nat /\ q.start \in Nat /\ q.start <= now /\ now <= q.start + MaxRequestAge
      /\ MaxRequestAge \in Nat /\ TombstoneRetention \in Nat
      /\ MaxRequestAge <= TombstoneRetention
  BY ConstantsAssumption, RetentionAssumption, RequestColumns
  DEF TypeOK, Carries, Request, Idle
<1>2. \A at \in Nat : at >= q.start => ~Expired(at) BY <1>1 DEF Expired
<1>3. q.pc \in {"author", "member", "owner", "write"} => l \in Lists /\ i \in Items
      /\ o \in Owners
  BY RequestColumns DEF Carries
<1>4. ASSUME l \in Lists, Held
      PROVE  Held' /\ lists'[l].owner = lists[l].owner /\ ~ListPrunable(l)
  <2>1. ~ListPrunable(l) BY <1>1, <1>4, HeldListStays
  <2>2. ListStep(l) BY <1>4 DEF TablesStep
  <2> QED BY <1>1, <1>4, <2>1, <2>2 DEF ListHeld, ListStep
<1>5. ASSUME l \in Lists, i \in Items, Held, ItemHeld(q) PROVE ItemHeld(q)'
  <2>1. ~ListPrunable(l) BY <1>4, <1>5
  <2>2. ItemStep(i) BY <1>5 DEF TablesStep
  <2>3. items[i].st = "deleted" => ~Expired(items[i].at)
    BY <1>2, <1>5, RowColumns DEF ItemHeld
  <2> QED BY <1>1, <1>5, <2>1, <2>2, <2>3 DEF ItemHeld, ItemStep
<1>6. ASSUME l \in Lists, o \in Owners, Held, Standing(o, l, q.start)
      PROVE  Standing(o, l, q.start)'
  <2>1. ~ListPrunable(l) /\ lists'[l].owner = lists[l].owner /\ lists[l].st # "absent"
    BY <1>4, <1>6 DEF ListHeld
  <2>2. ShareStep(l, o) /\ EditorStep(l) BY <1>6 DEF TablesStep
  <2>3. o \in editors'[l] BY <1>6, <2>1, <2>2 DEF EditorStep, Standing
  <2>4. shares[l][o].st = "revoked" /\ shares[l][o].at >= q.start => ~SharePrunable(l, o)
    BY <1>2, <1>6, RowColumns DEF SharePrunable
  <2>5. shares[l][o].st = "active" => ~SharePrunable(l, o) BY DEF SharePrunable
  <2> QED BY <1>1, <1>6, <2>1, <2>2, <2>3, <2>4, <2>5 DEF Standing, ShareStep
<1> QED BY <1>3, <1>4, <1>5, <1>6 DEF EditorRequest

\* A step that writes tables keeps the invariant.
LEMMA TablesInv ==
  ASSUME SharingInv, SharingInv', StandingInv, TablesStep
  PROVE  StandingInv'
<1>1. TypeOK /\ TypeOK' /\ now \in Nat /\ RowsBelongToAuthor /\ RowsBelongToAuthor'
  BY DEF SharingInv, TypeOK
<1>2. \A p \in Reqs : reqs'[p] = reqs[p] \/ reqs'[p] = Idle BY DEF TablesStep
<1>3. ASSUME NEW r \in Reqs PROVE EditorRequest(reqs[r])'
  <2>1. CASE reqs'[r] = Idle BY <2>1 DEF EditorRequest, Idle
  <2>2. CASE reqs'[r] = reqs[r] /\ reqs[r] # Idle
    <3>1. EditorRequest(reqs[r]) /\ Carries(reqs[r]) /\ reqs[r] \in Request
      BY <2>2 DEF StandingInv, SharingInv, RequestInv, TypeOK
    <3> DEFINE q == reqs[r]
    <3> HIDE DEF q
    <3>2. \A x : x = q /\ x \in Request /\ x # Idle /\ Carries(x) /\ EditorRequest(x)
                 => EditorRequest(x)'
      BY <1>1, EditorRequestStays
    <3> QED BY <2>2, <3>1, <3>2 DEF q
  <2> QED BY <1>2, <2>1, <2>2
<1>4. ASSUME NEW r \in Reqs PROVE TakenLink(r)'
  <2>1. CASE reqs'[r] = Idle BY <2>1 DEF TakenLink, Idle
  <2>2. CASE reqs'[r] = reqs[r] /\ reqs[r] # Idle /\ reqs[r].pc \in Accepting
    <3> DEFINE t == reqs[r].token
    <3>1. TakenLink(r) /\ t \in Tokens /\ TokenLocked(t)
      BY <2>2 DEF StandingInv, SharingInv, RequestInv, Carries, TokenLocked
    <3>2. \A p \in Reqs \ {r} : ~(reqs'[p].pc \in Accepting /\ reqs'[p].token = t)
      BY <1>2, <2>2, <3>1 DEF TakenLink, Idle
    <3>3. LinkStep(t) BY <3>1 DEF TablesStep
    <3>4. ASSUME NEW p \in Reqs, reqs[p].pc = "listRead", reqs[p].token = t, reqs'[p] = Idle
          PROVE  FALSE
      BY <2>2, <3>1, <3>4 DEF TakenLink
    <3>5. invs'[t] = invs[t] BY <3>1, <3>3, <3>4 DEF LinkStep
    <3> QED BY <2>2, <3>1, <3>2, <3>5 DEF TakenLink
  <2>3. CASE reqs'[r] = reqs[r] /\ reqs[r].pc \notin Accepting BY <2>3 DEF TakenLink
  <2> QED BY <1>2, <2>1, <2>2, <2>3
<1>5. EditorsKnown'
  <2>1. ASSUME NEW l \in Lists, lists'[l].st # "absent" PROVE lists'[l].owner \in editors'[l]
    <3>1. ListStep(l) /\ EditorStep(l) BY DEF TablesStep
    <3>2. lists[l].st # "absent" => lists[l].owner \in editors[l]
      BY DEF StandingInv, EditorsKnown
    <3> QED BY <2>1, <3>1, <3>2 DEF ListStep, EditorStep
  <2>2. ASSUME NEW l \in Lists, NEW m \in Owners,
               shares'[l][m].st = "active", shares'[l][m].access = "edit"
        PROVE  m \in editors'[l]
    <3>1. ShareStep(l, m) /\ EditorStep(l) BY DEF TablesStep
    <3>2. lists'[l].st # "absent" BY <1>1, <2>2 DEF RowsBelongToAuthor, RowBelongs
    <3>3. CASE shares'[l][m] = shares[l][m]
      <4>1. m \in editors[l] BY <2>2, <3>3 DEF StandingInv, EditorsKnown
      <4>2. lists[l].st # "absent" BY <1>1, <2>2, <3>3 DEF RowsBelongToAuthor, RowBelongs
      <4> QED BY <3>1, <3>2, <4>1, <4>2 DEF EditorStep
    <3> QED BY <2>2, <3>1, <3>2, <3>3 DEF ShareStep
  <2> QED BY <2>1, <2>2 DEF EditorsKnown
<1>6. ASSUME NEW t \in Tokens PROVE UsedLink(invs[t])'
  <2> SUFFICES ASSUME invs'[t].st = "accepted" PROVE UsedLink(invs[t])' BY DEF UsedLink
  <2> DEFINE l == invs[t].list
             m == invs[t].by
  <2>1. now' = now /\ LinkStep(t) BY DEF TablesStep
  <2>2. CASE invs'[t] = invs[t]
    <3>1. UsedLink(invs[t]) /\ m \in Owners BY <2>2 DEF StandingInv, UsedLink
    <3>2. /\ l \in Lists /\ lists'[l].st # "absent"
          /\ invs[t].created \in Nat /\ invs[t].created <= now
      BY <1>1, <2>2, RowColumns DEF SharingInv, LinkTimes, RowsBelongToAuthor, RowBelongs
    <3>3. ShareStep(l, m) BY <3>1, <3>2 DEF TablesStep
    <3>4. Expired(invs[t].created) => Expired(invs[t].created)'
      BY <2>1, <2>2 DEF Expired
    <3>5. SharePrunable(l, m) => shares[l][m].at \in Nat
      BY <1>1, <3>1, <3>2, RowColumns DEF SharePrunable
    <3>6. SharePrunable(l, m) /\ invs[t].created <= shares[l][m].at => Expired(invs[t].created)
      BY <1>1, <3>2, <3>5, ConstantsAssumption DEF SharePrunable, Expired
    <3>7. SharePrunable(l, m) => shares[l][m].st = "revoked" BY DEF SharePrunable
    <3> QED
      BY <2>2, <3>1, <3>2, <3>3, <3>4, <3>6, <3>7 DEF ShareStep, UsedLink
  <2>3. CASE invs'[t].list = l /\ invs'[t].by \in Owners
             /\ shares'[l][invs'[t].by].st = "active"
    BY <2>3 DEF UsedLink
  <2> QED BY <2>1, <2>2, <2>3 DEF LinkStep
<1> QED BY <1>3, <1>4, <1>5, <1>6 DEF StandingInv

\* A step that moves one request and writes no table has to show what is asked
\* of that request.
LEMMA OneMoves ==
  ASSUME SharingInv, StandingInv, UNCHANGED <<now, dbVars, editors, said>>,
         NEW r \in Reqs, NEW q, reqs' = [reqs EXCEPT ![r] = q], EditorRequest(q),
         q.pc \in Accepting =>
           /\ invs[q.token].st = "pending" /\ invs[q.token].access = q.access
           /\ \A p \in Reqs \ {r} : ~(reqs[p].pc \in Accepting /\ reqs[p].token = q.token)
  PROVE  StandingInv'
<1>1. \A p \in Reqs : reqs'[p] = IF p = r THEN q ELSE reqs[p] BY DEF SharingInv, TypeOK
<1>2. ASSUME NEW x, EditorRequest(x) PROVE EditorRequest(x)'
  BY <1>2 DEF EditorRequest, ItemHeld, Standing, ListHeld, dbVars
<1>3. \A p \in Reqs : EditorRequest(reqs[p]) BY DEF StandingInv
<1>4. \A p \in Reqs : EditorRequest(reqs'[p]) BY <1>1, <1>3
<1>5. \A p \in Reqs : EditorRequest(reqs[p])' BY <1>2, <1>4
<1>6. ASSUME NEW p \in Reqs PROVE TakenLink(p)'
  <2>1. CASE p = r BY <1>1, <2>1 DEF TakenLink, dbVars
  <2>2. CASE p # r BY <1>1, <2>2 DEF StandingInv, TakenLink, dbVars
  <2> QED BY <2>1, <2>2
<1>7. EditorsKnown' BY DEF StandingInv, EditorsKnown, dbVars
<1>8. \A t \in Tokens : UsedLink(invs[t])' BY DEF StandingInv, UsedLink, Expired, dbVars
<1> QED BY <1>5, <1>6, <1>7, <1>8 DEF StandingInv

\* A request that ends without writing.
LEMMA FailStands ==
  ASSUME SharingInv, StandingInv, NEW r \in Reqs, End(r),
         UNCHANGED <<now, dbVars, editors, said>>
  PROVE  StandingInv'
<1>1. EditorRequest(Idle) /\ Idle.pc \notin Accepting BY DEF EditorRequest, Idle
<1> QED BY <1>1, OneMoves DEF End

\* The first statements.  Only a patch and a delete have read something by then.
LEMMA ArriveStands ==
  ASSUME SharingInv, StandingInv, NEW r \in Reqs, Arrive(r)
  PROVE  StandingInv'
<1>1. TypeOK BY DEF SharingInv
<1>2. ASSUME NEW op, NEW req, Begin(r, op, req), UNCHANGED <<now, dbVars, editors, said>>,
             LET q == [req EXCEPT !.op = op, !.start = now] IN
               /\ q.pc \notin Accepting \cup {"member", "owner", "write"}
               /\ q.pc = "author" => op = "addItem" /\ q.op = op
      PROVE  StandingInv'
  <2> DEFINE q == [req EXCEPT !.op = op, !.start = now]
  <2>1. EditorRequest(q) BY <1>2 DEF EditorRequest
  <2>2. reqs' = [reqs EXCEPT ![r] = q] BY <1>2 DEF Begin
  <2> QED BY <1>2, <2>1, <2>2, OneMoves
<1>3. ASSUME NEW o \in Owners, NEW i \in Items, NEW p \in Patches,
             NEW op \in {"patchItem", "deleteItem"}, ItemRead(r, o, i, op, p)
      PROVE  StandingInv'
  <2> DEFINE q == [[Idle EXCEPT !.pc = "author", !.caller = o, !.item = i,
                                !.list = items[i].list, !.owner = items[i].owner,
                                !.patch = p, !.seen = items[i].body]
                     EXCEPT !.op = op, !.start = now]
  <2>1. q.pc = "author" /\ q.item = i /\ q.list = items[i].list /\ q.start = now BY DEF Idle
  <2>2. items[i].st = "live" /\ lists[items[i].list].st = "active"
        /\ UNCHANGED <<now, dbVars, editors, said>>
    BY <1>3 DEF ItemRead
  <2>3. reqs' = [reqs EXCEPT ![r] = q] BY <1>3 DEF ItemRead, Begin
  <2> HIDE DEF q
  <2>4. EditorRequest(q) BY <2>1, <2>2 DEF EditorRequest, ItemHeld, ListHeld
  <2> QED BY <2>1, <2>2, <2>3, <2>4, OneMoves
<1>4. ASSUME NEW o \in Owners, NEW l \in Lists,
             \/ UpsertListProbe(r, o, l)
             \/ \E a \in Access : CreateInvitationCheck(r, o, l, a)
             \/ \E m \in Owners : \/ RevokeShareCheck(r, o, l, m)
                                  \/ \E a \in Access : ChangeAccessCheck(r, o, l, m, a)
             \/ \E i \in Items : AddItemBegin(r, o, i, l)
      PROVE  StandingInv'
  <2>1. CASE UpsertListProbe(r, o, l) BY <1>2, <2>1 DEF UpsertListProbe, Idle
  <2>2. ASSUME NEW a \in Access, CreateInvitationCheck(r, o, l, a) PROVE StandingInv'
    BY <1>2, <2>2 DEF CreateInvitationCheck, RequireOwner, Idle
  <2>3. ASSUME NEW m \in Owners, RevokeShareCheck(r, o, l, m) PROVE StandingInv'
    BY <1>2, <2>3 DEF RevokeShareCheck, RequireOwner, Idle
  <2>4. ASSUME NEW m \in Owners, NEW a \in Access, ChangeAccessCheck(r, o, l, m, a)
        PROVE  StandingInv'
    BY <1>2, <2>4 DEF ChangeAccessCheck, RequireOwner, Idle
  <2>5. ASSUME NEW i \in Items, AddItemBegin(r, o, i, l) PROVE StandingInv'
    BY <1>2, <2>5 DEF AddItemBegin, Idle
  <2> QED BY <1>4, <2>1, <2>2, <2>3, <2>4, <2>5
<1>5. ASSUME NEW o \in Owners, NEW t \in Tokens, AcceptBegin(r, o, t) PROVE StandingInv'
  BY <1>2, <1>5 DEF AcceptBegin, Idle
<1> QED BY <1>3, <1>4, <1>5, NoPatchType DEF Arrive, PatchItemRead, DeleteItemRead

\* The steps of an accept before its commit.
LEMMA AcceptStands ==
  ASSUME SharingInv, StandingInv, NEW r \in Reqs,
         AcceptTakeToken(r) \/ AcceptTakeShare(r) \/ AcceptReadList(r)
  PROVE  StandingInv'
<1>1. reqs[r] \in Request /\ reqs[r].pc # "idle" /\ UNCHANGED <<now, dbVars, editors, said>>
  BY DEF SharingInv, TypeOK, AcceptTakeToken, AcceptTakeShare, AcceptReadList
<1>2. CASE End(r) BY <1>1, <1>2, FailStands
<1>3. CASE AcceptTakeToken(r) /\ ~End(r)
  <2> DEFINE t == reqs[r].token
             q == [reqs[r] EXCEPT !.pc = "tokenTaken", !.list = invs[t].list,
                                  !.owner = invs[t].owner, !.access = invs[t].access]
  <2>1. \A p \in Request : p.pc # "idle" =>
          LET g == [p EXCEPT !.pc = "tokenTaken", !.list = invs[t].list,
                             !.owner = invs[t].owner, !.access = invs[t].access] IN
          g.pc = "tokenTaken" /\ g.token = p.token /\ g.access = invs[t].access
    BY DEF Request, Idle
  <2>2. q.pc = "tokenTaken" /\ q.token = t /\ q.access = invs[t].access BY <1>1, <2>1
  <2>3. invs[t].st = "pending" /\ ~TokenLocked(t) /\ reqs' = [reqs EXCEPT ![r] = q]
    BY <1>3 DEF AcceptTakeToken, SharingInv, TypeOK
  <2> HIDE DEF q
  <2>4. EditorRequest(q) BY <2>2 DEF EditorRequest
  <2> QED BY <1>1, <2>2, <2>3, <2>4, OneMoves DEF TokenLocked
<1>4. ASSUME NEW pc \in {"shareTaken", "listRead"}, Goto(r, pc), reqs[r].pc \in Accepting
      PROVE  StandingInv'
  <2> DEFINE q == [reqs[r] EXCEPT !.pc = pc]
  <2>1. \A p \in Request : p.pc # "idle" =>
          LET g == [p EXCEPT !.pc = pc] IN
          g.pc = pc /\ g.token = p.token /\ g.access = p.access
    BY DEF Request, Idle
  <2>2. q.pc = pc /\ q.token = reqs[r].token /\ q.access = reqs[r].access BY <1>1, <2>1
  <2>3. reqs' = [reqs EXCEPT ![r] = q] BY <1>4 DEF Goto
  <2> HIDE DEF q
  <2>4. EditorRequest(q) BY <2>2 DEF EditorRequest
  <2>5. TakenLink(r) BY DEF StandingInv
  <2> QED BY <1>1, <1>4, <2>2, <2>3, <2>4, <2>5, OneMoves DEF TakenLink
<1> QED BY <1>2, <1>3, <1>4 DEF AcceptTakeShare, AcceptReadList

\* The access check: author first, then member; and the read of the owner.
LEMMA ReadsStand ==
  ASSUME SharingInv, StandingInv, NEW r \in Reqs,
         ReadAuthor(r) \/ ReadMember(r) \/ ReadOwner(r)
  PROVE  StandingInv'
<1> DEFINE q == reqs[r]
           l == q.list
           o == q.caller
<1>1. q \in Request /\ q.pc \in {"author", "member", "owner"} /\ RequestInv(q)
      /\ UNCHANGED <<now, dbVars, editors, said>> /\ EditorRequest(q) /\ EditorsKnown
  BY DEF SharingInv, StandingInv, TypeOK, ReadAuthor, ReadMember, ReadOwner
<1>2. l \in Lists /\ o \in Owners
  BY <1>1, RequestColumns DEF RequestInv, Carries, Idle
<1>3. CASE End(r) BY <1>1, <1>3, FailStands
<1>4. ASSUME NEW pc \in {"member", "owner", "write"}, NEW p,
             reqs' = [reqs EXCEPT ![r] = p],
             p.pc = pc /\ p.op = q.op /\ p.caller = o /\ p.list = l /\ p.item = q.item
             /\ p.start = q.start,
             ListHeld(l, lists[l].owner, q.start),
             pc # "member" => Standing(o, l, q.start)
      PROVE  StandingInv'
  <2>1. EditorRequest(p) BY <1>1, <1>4 DEF EditorRequest, ItemHeld
  <2> QED BY <1>1, <1>4, <2>1, OneMoves
<1>5. \A pc \in {"member", "owner", "write"} : \A p \in Request : p.pc # "idle" =>
        LET g == [p EXCEPT !.pc = pc] IN
        /\ g.pc = pc /\ g.op = p.op /\ g.caller = p.caller /\ g.list = p.list
        /\ g.item = p.item /\ g.start = p.start
  BY DEF Request, Idle
<1>6. ASSUME NEW pc \in {"member", "owner", "write"}, Goto(r, pc),
             ListHeld(l, lists[l].owner, q.start), pc # "member" => Standing(o, l, q.start)
      PROVE  StandingInv'
  <2> DEFINE p == [reqs[r] EXCEPT !.pc = pc]
  <2>1. p.pc = pc /\ p.op = q.op /\ p.caller = o /\ p.list = l /\ p.item = q.item
        /\ p.start = q.start
    BY <1>1, <1>5
  <2>2. reqs' = [reqs EXCEPT ![r] = p] BY <1>6 DEF Goto
  <2> HIDE DEF p
  <2> QED BY <1>4, <1>6, <2>1, <2>2
<1>7. CASE ReadAuthor(r) /\ ~End(r)
  <2>1. lists[l].st = "active" /\ ListHeld(l, lists[l].owner, q.start)
    BY <1>7 DEF ReadAuthor, ListHeld
  <2>2. lists[l].owner = o => Standing(o, l, q.start)
    BY <1>1, <1>2, <2>1 DEF Standing, EditorsKnown
  <2> QED BY <1>6, <1>7, <2>1, <2>2 DEF ReadAuthor, Granted
<1>8. CASE ReadMember(r) /\ ~End(r)
  <2>1. ListHeld(l, lists[l].owner, q.start) BY <1>1, <1>8 DEF EditorRequest, ReadMember
  <2>2. Standing(o, l, q.start)
    BY <1>1, <1>2, <1>8 DEF Standing, EditorsKnown, ReadMember
  <2> QED BY <1>6, <1>8, <2>1, <2>2 DEF ReadMember, Granted
<1>9. CASE ReadOwner(r) /\ ~End(r)
  <2> DEFINE p == [reqs[r] EXCEPT !.pc = "write", !.owner = lists[l].owner]
  <2>1. ListHeld(l, lists[l].owner, q.start) /\ Standing(o, l, q.start)
    BY <1>1, <1>9 DEF EditorRequest, ReadOwner
  <2>2. reqs' = [reqs EXCEPT ![r] = p] BY <1>9 DEF ReadOwner, SharingInv, TypeOK
  <2>3. \A x \in Request : x.pc # "idle" =>
          LET g == [x EXCEPT !.pc = "write", !.owner = lists[l].owner] IN
          /\ g.pc = "write" /\ g.op = x.op /\ g.caller = x.caller /\ g.list = x.list
          /\ g.item = x.item /\ g.start = x.start
    BY DEF Request, Idle
  <2>4. p.pc = "write" /\ p.op = q.op /\ p.caller = o /\ p.list = l /\ p.item = q.item
        /\ p.start = q.start
    BY <1>1, <2>3
  <2> HIDE DEF p
  <2> QED BY <1>4, <2>1, <2>2, <2>4
<1> QED BY <1>3, <1>7, <1>8, <1>9

\* Time only makes expired what is about to be pruned.
LEMMA TickStands ==
  ASSUME SharingInv, StandingInv, Tick
  PROVE  StandingInv'
<1>1. TypeOK /\ now \in Nat /\ now' = now + 1 /\ UNCHANGED <<dbVars, reqs, editors>>
  BY DEF SharingInv, TypeOK, Tick
<1>2. \A at \in Nat : Expired(at) => Expired(at)'
  BY <1>1, ConstantsAssumption DEF Expired
<1>3. \A r \in Reqs : (TakenLink(r) /\ EditorRequest(reqs[r]))'
  BY <1>1
  DEF StandingInv, TakenLink, EditorRequest, ItemHeld, Standing, ListHeld, dbVars
<1>4. EditorsKnown' BY <1>1 DEF StandingInv, EditorsKnown, dbVars
<1>5. ASSUME NEW t \in Tokens PROVE UsedLink(invs[t])'
  <2>1. invs[t].st = "accepted" => invs[t].created \in Nat BY <1>1, RowColumns
  <2> QED BY <1>1, <1>2, <2>1 DEF StandingInv, UsedLink, dbVars
<1> QED BY <1>3, <1>4, <1>5 DEF StandingInv

\* StandingInv is inductive where SharingInv holds.
LEMMA StandingNext == SharingInv /\ StandingInv /\ [Next]_vars => StandingInv'
<1> SUFFICES ASSUME SharingInv, StandingInv, [Next]_vars PROVE StandingInv' OBVIOUS
<1>1. SharingInv' BY NextInv
<1>2. CASE UNCHANGED vars
  <2>1. \A r \in Reqs : (TakenLink(r) /\ EditorRequest(reqs[r]))'
    BY <1>2 DEF StandingInv, TakenLink, EditorRequest, ItemHeld, Standing, ListHeld, vars
  <2>2. EditorsKnown' BY <1>2 DEF StandingInv, EditorsKnown, vars
  <2>3. \A t \in Tokens : UsedLink(invs[t])' BY <1>2 DEF StandingInv, UsedLink, Expired, vars
  <2> QED BY <2>1, <2>2, <2>3 DEF StandingInv
<1>3. ASSUME NEW r \in Reqs, Arrive(r) \/ Fail(r) PROVE StandingInv'
  BY <1>3, ArriveStands, FailStands DEF Fail
<1>4. ASSUME NEW r \in Reqs, Advance(r) PROVE StandingInv'
  BY <1>1, <1>4, AcceptStands, ReadsStand, TablesInv, ListAndLinkSteps, ShareSteps,
     CommitStep, ItemSteps
  DEF Advance
<1>5. CASE SingleStatement
  BY <1>1, <1>5, TablesInv, ShareSteps, AuthorSteps DEF SingleStatement
<1>6. CASE Prune BY <1>1, <1>6, TablesInv, PruneSteps
<1>7. CASE Tick BY <1>7, TickStands
<1> QED BY <1>2, <1>3, <1>4, <1>5, <1>6, <1>7 DEF Next

\* In the empty database nobody has a claim to anything.
LEMMA StandingInit == Init => StandingInv
<1> SUFFICES ASSUME Init PROVE StandingInv OBVIOUS
<1>1. \A r \in Reqs : TakenLink(r) /\ EditorRequest(reqs[r])
  BY DEF Init, TakenLink, EditorRequest, Idle
<1>2. EditorsKnown BY NullRows DEF Init, EditorsKnown
<1>3. \A t \in Tokens : UsedLink(invs[t]) BY NullRows DEF Init, UsedLink
<1> QED BY <1>1, <1>2, <1>3 DEF StandingInv

\* StandingInv holds of every run of the service: the grounds on which a
\* handler was let through, and the membership a link has made, are kept until
\* they are due.
THEOREM StandingHolds == Spec => []StandingInv
BY InvariantHolds, StandingInit, StandingNext, PTL DEF Spec

(***************************************************************************)
(* What follows                                                            *)
(***************************************************************************)
\* Whoever used a link was made a member of its list by it: the token and the
\* membership commit together, and the pruner does not take the membership
\* before the link is due (repository/invitation.go:62, app/pruner.go:15).
THEOREM LinksMakeMembers == Spec => []UsedLinkMadeMember
<1>1. SharingInv /\ StandingInv => UsedLinkMadeMember
  BY DEF StandingInv, UsedLink, UsedLinkMadeMember, InvPrunable
<1> QED BY <1>1, InvariantHolds, StandingHolds, PTL

\* Items are written with a body of which each column was given to them.
LEMMA SaidNext == SharingInv /\ NoPatchIsLost /\ [Next]_vars => NoPatchIsLost'
<1> SUFFICES ASSUME SharingInv, NoPatchIsLost, [Next]_vars PROVE NoPatchIsLost' OBVIOUS
<1>1. TypeOK BY DEF SharingInv
<1>2. CASE UNCHANGED <<items, said>> BY <1>2 DEF NoPatchIsLost
<1>3. \A x \in ItemRow : x.st = "live" =>
        /\ \A b : LET w == [x EXCEPT !.body = b] IN w.body = b
        /\ LET w == [x EXCEPT !.st = "deleted", !.at = now] IN w.body = x.body
  BY DEF ItemRow, NoItem
<1>4. ASSUME NEW r \in Reqs, AddItemInsert(r) PROVE NoPatchIsLost'
  BY <1>1, <1>2, <1>4 DEF AddItemInsert, NoPatchIsLost, TypeOK
<1>5. ASSUME NEW r \in Reqs, PatchItemUpdate(r), ~UNCHANGED <<items, said>>,
             NEW i \in Items, items'[i].st # "absent"
      PROVE  items'[i].body = said'[i]
  <2> DEFINE q == reqs[r]
             row == [items[q.item] EXCEPT !.body = Patched(items[q.item].body, q.patch, q.seen)]
  <2>1. CASE i = q.item
    <3>1. items[i].st = "live" /\ items[i] \in ItemRow /\ items'[i] = row
          /\ said'[i] = [f \in Fields |-> IF q.patch[f] = Null THEN said[i][f] ELSE q.patch[f]]
      BY <1>1, <1>5, <2>1 DEF PatchItemUpdate, TypeOK
    <3>2. row.body = Patched(items[i].body, q.patch, q.seen) BY <1>3, <2>1, <3>1
    <3>3. items[i].body = said[i] BY <3>1 DEF NoPatchIsLost
    <3> QED BY <3>1, <3>2, <3>3 DEF Patched
  <2>2. CASE i # q.item
    <3>1. items'[i] = items[i] /\ said'[i] = said[i]
      BY <1>1, <1>5, <2>2 DEF PatchItemUpdate, TypeOK
    <3> QED BY <1>5, <3>1 DEF NoPatchIsLost
  <2> QED BY <2>1, <2>2
<1>6. ASSUME NEW r \in Reqs, DeleteItemUpdate(r), ~UNCHANGED <<items, said>>,
             NEW i \in Items, items'[i].st # "absent"
      PROVE  items'[i].body = said'[i]
  <2> DEFINE k == reqs[r].item
             row == [items[k] EXCEPT !.st = "deleted", !.at = now]
  <2>1. UNCHANGED said /\ items' = [items EXCEPT ![k] = row] /\ items[k].st = "live"
    BY <1>6 DEF DeleteItemUpdate
  <2>2. CASE i = k
    <3>1. items'[i] = row /\ items[i] \in ItemRow BY <1>1, <2>1, <2>2 DEF TypeOK
    <3>2. row.body = items[i].body BY <1>3, <2>1, <2>2, <3>1
    <3> QED BY <2>1, <2>2, <3>1, <3>2 DEF NoPatchIsLost
  <2>3. CASE i # k
    <3>1. items'[i] = items[i] BY <1>1, <2>1, <2>3 DEF TypeOK
    <3> QED BY <1>6, <2>1, <3>1 DEF NoPatchIsLost
  <2> QED BY <2>2, <2>3
<1>7. CASE PruneLists
  BY <1>7, NullRows DEF PruneLists, NoPatchIsLost
<1>8. CASE PruneItems
  BY <1>8, NullRows DEF PruneItems, NoPatchIsLost
<1>9. ASSUME NEW r \in Reqs, Arrive(r) \/ Fail(r) PROVE NoPatchIsLost'
  BY <1>2, <1>9
  DEF Arrive, Fail, UpsertListProbe, CreateInvitationCheck, RevokeShareCheck,
      ChangeAccessCheck, RequireOwner, AddItemBegin, AcceptBegin, PatchItemRead,
      DeleteItemRead, ItemRead, dbVars
<1>10. ASSUME NEW r \in Reqs, Advance(r) PROVE NoPatchIsLost'
  <2>1. CASE PatchItemUpdate(r) \/ DeleteItemUpdate(r)
    BY <1>2, <1>5, <1>6, <2>1 DEF NoPatchIsLost
  <2> QED
    BY <1>2, <1>4, <1>10, <2>1
    DEF Advance, UpsertListInsert, CreateInvitationInsert, ChangeAccessUpdate,
        RevokeShareUpdate, ShareUpdate, AcceptTakeToken, AcceptTakeShare, AcceptReadList,
        AcceptCommit, ReadAuthor, ReadMember, ReadOwner, dbVars
<1>11. CASE SingleStatement
  BY <1>2, <1>11 DEF SingleStatement, DeleteList, LeaveList, RevokeInvitation
<1>12. CASE Prune BY <1>2, <1>7, <1>8, <1>12 DEF Prune, PruneInvitations, PruneShares
<1>13. CASE Tick \/ UNCHANGED vars BY <1>2, <1>13 DEF Tick, dbVars, vars
<1> QED BY <1>9, <1>10, <1>11, <1>12, <1>13 DEF Next

\* No patch undoes another: every column of an item has the value last given for
\* it, whichever stale copies the members started from
\* (repository/listitem.go:134).
THEOREM PatchesKept == Spec => []NoPatchIsLost
<1>1. Init => NoPatchIsLost BY NullRows DEF Init, NoPatchIsLost
<1> QED BY <1>1, InvariantHolds, SaidNext, PTL DEF Spec

\* Whoever adds, patches or deletes an item was let through as an editor of the
\* list the item is in, and not on a membership that had ended before the
\* request came, although check and write are different statements
\* (service/lists.go:103, service/sharing.go:152).
THEOREM EditorsEdit == Spec => EditsWereAuthorised
<1> DEFINE Authorised ==
      \A i \in Items : Edited(i) =>
        \E r \in Reqs : /\ reqs[r].pc = "write" /\ reqs[r].item = i
                        /\ reqs'[r] = Idle
                        /\ MayEdit(reqs[r].caller, items'[i].list, reqs[r].start)
<1>1. SharingInv /\ StandingInv /\ [Next]_vars => [Authorised]_vars
  <2> SUFFICES ASSUME SharingInv, StandingInv, Next PROVE Authorised OBVIOUS
  <2>1. TypeOK BY DEF SharingInv
  <2>2. CASE UNCHANGED items BY <2>2 DEF Edited
  <2>3. ASSUME NEW r \in Reqs, AddItemInsert(r) \/ PatchItemUpdate(r) \/ DeleteItemUpdate(r),
               NEW i \in Items, Edited(i)
        PROVE  /\ reqs[r].pc = "write" /\ reqs[r].item = i /\ reqs'[r] = Idle
               /\ MayEdit(reqs[r].caller, items'[i].list, reqs[r].start)
    <3> DEFINE q == reqs[r]
    <3>1. q.pc = "write" /\ End(r) /\ q \in Request /\ items'[i] # items[i]
      BY <2>1, <2>3 DEF AddItemInsert, PatchItemUpdate, DeleteItemUpdate, TypeOK, Edited
    <3>2. reqs'[r] = Idle /\ q.item = i
      BY <2>1, <2>3, <3>1
      DEF AddItemInsert, PatchItemUpdate, DeleteItemUpdate, TypeOK, End
    <3>3. EditorRequest(q) /\ Standing(q.caller, q.list, q.start)
      BY <3>1 DEF StandingInv, EditorRequest
    <3>4. items'[i].list = q.list
      <4>1. CASE AddItemInsert(r)
        BY <2>1, <3>1, <3>2, <4>1 DEF AddItemInsert, TypeOK
      <4>2. CASE PatchItemUpdate(r) \/ DeleteItemUpdate(r)
        <5>1. items[i].list = q.list /\ items[i].st = "live" /\ items[i] \in ItemRow
          BY <2>1, <3>1, <3>2, <3>3, <4>2
          DEF EditorRequest, ItemHeld, PatchItemUpdate, DeleteItemUpdate, TypeOK
        <5>2. \A x \in ItemRow : x.st = "live" =>
                /\ \A b : [x EXCEPT !.body = b].list = x.list
                /\ [x EXCEPT !.st = "deleted", !.at = now].list = x.list
          BY DEF ItemRow, NoItem
        <5>3. CASE PatchItemUpdate(r)
          <6> DEFINE b == Patched(items[i].body, q.patch, q.seen)
          <6>1. items'[i] = [items[i] EXCEPT !.body = b]
            BY <2>1, <3>1, <3>2, <5>3 DEF PatchItemUpdate, TypeOK
          <6> HIDE DEF b
          <6> QED BY <5>1, <5>2, <6>1
        <5>4. CASE DeleteItemUpdate(r)
          <6>1. items'[i] = [items[i] EXCEPT !.st = "deleted", !.at = now]
            BY <2>1, <3>1, <3>2, <5>4 DEF DeleteItemUpdate, TypeOK
          <6> QED BY <5>1, <5>2, <6>1
        <5> QED BY <4>2, <5>3, <5>4
      <4> QED BY <2>3, <4>1, <4>2
    <3> QED BY <3>1, <3>2, <3>3, <3>4 DEF Standing, MayEdit
  <2>4. ASSUME NEW r \in Reqs, Arrive(r) \/ Fail(r) PROVE Authorised
    BY <2>2, <2>4
    DEF Arrive, Fail, UpsertListProbe, CreateInvitationCheck, RevokeShareCheck,
        ChangeAccessCheck, RequireOwner, AddItemBegin, AcceptBegin, PatchItemRead,
        DeleteItemRead, ItemRead, dbVars
  <2>5. ASSUME NEW r \in Reqs, Advance(r) PROVE Authorised
    BY <2>2, <2>3, <2>5
    DEF Advance, UpsertListInsert, CreateInvitationInsert, ChangeAccessUpdate,
        RevokeShareUpdate, ShareUpdate, AcceptTakeToken, AcceptTakeShare, AcceptReadList,
        AcceptCommit, ReadAuthor, ReadMember, ReadOwner, dbVars
  <2>6. CASE SingleStatement
    BY <2>2, <2>6 DEF SingleStatement, DeleteList, LeaveList, RevokeInvitation
  <2>7. CASE PruneLists \/ PruneItems
    BY <2>7, NullRows DEF PruneLists, PruneItems, Edited
  <2>8. CASE Prune BY <2>2, <2>7, <2>8 DEF Prune, PruneInvitations, PruneShares
  <2>9. CASE Tick BY <2>2, <2>9 DEF Tick, dbVars
  <2> QED BY <2>4, <2>5, <2>6, <2>8, <2>9 DEF Next
<1> QED BY <1>1, InvariantHolds, StandingHolds, PTL DEF Spec, EditsWereAuthorised
=============================================================================

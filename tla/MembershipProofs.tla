-------------------------- MODULE MembershipProofs --------------------------
(***************************************************************************)
(* Sharing implements Membership: the refinement mapping of                *)
(* MembershipImpl takes every step of the service to a step of the         *)
(* abstract specification or to none.                                      *)
(*                                                                         *)
(* Author, Role and Ticket are the three mapped variables.  The abstract   *)
(* actions are restated with them once, and each step of Sharing is then   *)
(* compared with the one it implements.                                    *)
(***************************************************************************)
EXTENDS StandingProofs

USE DEF Accepting

RoleOf(s) == IF s.st = "active" THEN s.access ELSE "none"

TicketOf(v, drawn) ==
  [st |-> IF v.st = "pending" THEN "open" ELSE IF drawn THEN "spent" ELSE "unused",
   list |-> IF v.st = "pending" THEN v.list ELSE Null,
   role |-> IF v.st = "pending" THEN v.access ELSE Null]

Author == [l \in Lists |-> lists[l].owner]
Role   == [l \in Lists |-> [m \in Owners |-> RoleOf(shares[l][m])]]
Ticket == [t \in Tokens |-> TicketOf(invs[t], t \in issued)]

NoRoles      == [m \in Owners |-> "none"]
OpenFor(l, a) == [st |-> "open", list |-> l, role |-> a]
Unused       == [st |-> "unused", list |-> Null, role |-> Null]
Spent        == [st |-> "spent", list |-> Null, role |-> Null]

(***************************************************************************)
(* The abstract actions, read through the mapping                          *)
(***************************************************************************)
\* A list comes to be.
LEMMA CreateStep ==
  ASSUME NEW l \in Lists, NEW o \in Owners, Author[l] = Null,
         Author' = [Author EXCEPT ![l] = o], UNCHANGED <<Role, Ticket>>
  PROVE  MembershipImpl!Next
<1>1. MembershipImpl!Create(l, o)
  BY DEF MembershipImpl!Create, Author, Role, Ticket, RoleOf, TicketOf
<1> QED BY <1>1 DEF MembershipImpl!Next

\* A ticket is written.
LEMMA IssueStep ==
  ASSUME NEW t \in Tokens, NEW l \in Lists, NEW a \in Access, Ticket[t] = Unused,
         Author[l] # Null, Ticket' = [Ticket EXCEPT ![t] = OpenFor(l, a)],
         UNCHANGED <<Author, Role>>
  PROVE  MembershipImpl!Next
<1>1. MembershipImpl!Issue(t, l, a)
  BY DEF MembershipImpl!Issue, MembershipImpl!Unused, MembershipImpl!Open,
         Author, Role, Ticket, RoleOf, TicketOf, Unused, OpenFor
<1> QED BY <1>1 DEF MembershipImpl!Next, MembershipImpl!Roles, Access

\* A ticket is spent and makes a member.
LEMMA JoinStep ==
  ASSUME NEW t \in Tokens, NEW l \in Lists, NEW m \in Owners, NEW a \in Access,
         Ticket[t] = OpenFor(l, a), Author[l] \notin {Null, m},
         Role' = [Role EXCEPT ![l][m] = a], Ticket' = [Ticket EXCEPT ![t] = Spent],
         UNCHANGED Author
  PROVE  MembershipImpl!Next
<1>1. MembershipImpl!Join(t, l, m, a)
  BY DEF MembershipImpl!Join, MembershipImpl!Spent, MembershipImpl!Open,
         Author, Role, Ticket, RoleOf, TicketOf, Spent, OpenFor
<1> QED BY <1>1 DEF MembershipImpl!Next, MembershipImpl!Roles, Access

\* A member's role changes.
LEMMA ChangeRoleStep ==
  ASSUME NEW l \in Lists, NEW m \in Owners, NEW a \in Access, Role[l][m] # "none",
         Role' = [Role EXCEPT ![l][m] = a], UNCHANGED <<Author, Ticket>>
  PROVE  MembershipImpl!Next
<1>1. MembershipImpl!ChangeRole(l, m, a)
  BY DEF MembershipImpl!ChangeRole, Author, Role, Ticket, RoleOf, TicketOf
<1> QED BY <1>1 DEF MembershipImpl!Next, MembershipImpl!Roles, Access

\* A member goes.
LEMMA LeaveStep ==
  ASSUME NEW l \in Lists, NEW m \in Owners, Role' = [Role EXCEPT ![l][m] = "none"],
         UNCHANGED <<Author, Ticket>>
  PROVE  MembershipImpl!Next
<1>1. MembershipImpl!Leave(l, m)
  BY DEF MembershipImpl!Leave, Author, Role, Ticket, RoleOf, TicketOf
<1> QED BY <1>1 DEF MembershipImpl!Next

\* Tickets become void.
LEMMA VoidStep ==
  ASSUME NEW T \in SUBSET Tokens, \A t \in T : Ticket[t] # Unused,
         Ticket' = [t \in Tokens |-> IF t \in T THEN Spent ELSE Ticket[t]],
         UNCHANGED <<Author, Role>>
  PROVE  MembershipImpl!Next
<1>1. MembershipImpl!Void(T)
  BY DEF MembershipImpl!Void, MembershipImpl!Unused, MembershipImpl!Spent,
         Author, Role, Ticket, RoleOf, TicketOf, Unused, Spent
<1> QED BY <1>1 DEF MembershipImpl!Next

\* Lists are forgotten.
LEMMA ForgetStep ==
  ASSUME NEW L \in SUBSET Lists,
         Author' = [l \in Lists |-> IF l \in L THEN Null ELSE Author[l]],
         Role' = [l \in Lists |-> IF l \in L THEN NoRoles ELSE Role[l]],
         Ticket' = [t \in Tokens |-> IF Ticket[t].list \in L THEN Spent ELSE Ticket[t]]
  PROVE  MembershipImpl!Next
<1>1. MembershipImpl!Forget(L)
  BY DEF MembershipImpl!Forget, MembershipImpl!NoRoles, MembershipImpl!Spent,
         Author, Role, Ticket, RoleOf, TicketOf, NoRoles, Spent
<1> QED BY <1>1 DEF MembershipImpl!Next

\* Nothing that Membership speaks of changes.
LEMMA NoStep ==
  ASSUME UNCHANGED <<Author, Role, Ticket>>
  PROVE  UNCHANGED MembershipImpl!vars
BY DEF MembershipImpl!vars, Author, Role, Ticket, RoleOf, TicketOf

(***************************************************************************)
(* The steps of the service                                                *)
(***************************************************************************)
\* What the step means to Membership, and to nobody else.
Implements == MembershipImpl!Next \/ UNCHANGED MembershipImpl!vars

\* The mapped state, row by row, before and after a step.
LEMMA MappedRows ==
  /\ (\A l \in Lists : lists'[l].owner = lists[l].owner) => UNCHANGED Author
  /\ (\A l \in Lists, m \in Owners : RoleOf(shares'[l][m]) = RoleOf(shares[l][m]))
       => UNCHANGED Role
  /\ (\A t \in Tokens : TicketOf(invs'[t], t \in issued') = TicketOf(invs[t], t \in issued))
       => UNCHANGED Ticket
<1>1. (\A l \in Lists : lists'[l].owner = lists[l].owner) => UNCHANGED Author
  BY DEF Author
<1>2. ASSUME \A l \in Lists, m \in Owners : RoleOf(shares'[l][m]) = RoleOf(shares[l][m])
      PROVE  UNCHANGED Role
  <2> HIDE DEF RoleOf
  <2>1. \A l \in Lists : [m \in Owners |-> RoleOf(shares'[l][m])]
                         = [m \in Owners |-> RoleOf(shares[l][m])]
    BY <1>2
  <2>2. Role' = [l \in Lists |-> [m \in Owners |-> RoleOf(shares'[l][m])]]
    BY DEF Role, RoleOf
  <2> QED BY <2>1, <2>2 DEF Role
<1>3. ASSUME \A t \in Tokens :
               TicketOf(invs'[t], t \in issued') = TicketOf(invs[t], t \in issued)
      PROVE  UNCHANGED Ticket
  <2>1. Ticket' = [t \in Tokens |-> TicketOf(invs'[t], t \in issued')]
    BY DEF Ticket, TicketOf
  <2> HIDE DEF TicketOf
  <2> QED BY <1>3, <2>1 DEF Ticket
<1> QED BY <1>1, <1>2, <1>3

\* Steps that change no list, no share and no link, or an item only.
LEMMA Stutters ==
  ASSUME UNCHANGED <<lists, shares, invs, issued>>
  PROVE  Implements
<1>1. UNCHANGED <<Author, Role, Ticket>> BY DEF Author, Role, Ticket, RoleOf, TicketOf
<1> QED BY <1>1, NoStep DEF Implements

\* A new row of shopping_lists creates a list; a refused one is nothing.
LEMMA UpsertListImpl ==
  ASSUME SharingInv, NEW r \in Reqs, UpsertListInsert(r)
  PROVE  Implements
<1> DEFINE l == reqs[r].list
           o == reqs[r].caller
<1>1. TypeOK /\ reqs[r] \in Request /\ RequestInv(reqs[r]) /\ reqs[r].pc = "insertList"
      /\ UNCHANGED <<shares, invs, issued>>
  BY DEF SharingInv, TypeOK, UpsertListInsert
<1>2. l \in Lists /\ o \in Owners BY <1>1, RequestColumns DEF RequestInv, Carries, Idle
<1>3. CASE UNCHANGED lists BY <1>1, <1>3, Stutters
<1>4. CASE /\ lists[l].st = "absent"
           /\ lists' = [lists EXCEPT ![l] = [st |-> "active", owner |-> o, at |-> 0]]
  <2>1. lists[l].owner = Null BY <1>1, <1>2, <1>4 DEF TypeOK, ListRow, NoList
  <2>2. Author[l] = Null /\ Author' = [Author EXCEPT ![l] = o]
    BY <1>1, <1>2, <1>4, <2>1 DEF Author, TypeOK
  <2>3. UNCHANGED <<Role, Ticket>> BY <1>1 DEF Role, Ticket, RoleOf, TicketOf
  <2> QED BY <1>2, <2>2, <2>3, CreateStep DEF Implements
<1> QED BY <1>3, <1>4 DEF UpsertListInsert

\* A new row of list_invitations issues a ticket for a list that has an author.
LEMMA CreateInvitationImpl ==
  ASSUME SharingInv, NEW r \in Reqs, CreateInvitationInsert(r)
  PROVE  Implements
<1> DEFINE q == reqs[r]
           l == q.list
           a == q.access
<1>1. TypeOK /\ q \in Request /\ RequestInv(q) /\ q.pc = "insertInv"
      /\ UNCHANGED <<lists, shares>>
  BY DEF SharingInv, TypeOK, CreateInvitationInsert
<1>2. l \in Lists /\ a \in Access /\ lists[l].st # "absent"
  BY <1>1, RequestColumns DEF RequestInv, Carries, HoldsList, ListHeld, Idle
<1>3. CASE UNCHANGED <<invs, issued>> BY <1>1, <1>3, Stutters
<1>4. ASSUME NEW t \in Tokens \ issued, issued' = issued \cup {t},
             invs' = [invs EXCEPT ![t] =
               [st |-> "pending", list |-> l, owner |-> q.caller, access |-> a,
                by |-> Null, created |-> now, expires |-> now + InvitationTTL]]
      PROVE  Implements
  <2> DEFINE row == [st |-> "pending", list |-> l, owner |-> q.caller, access |-> a,
                     by |-> Null, created |-> now, expires |-> now + InvitationTTL]
  <2>1. invs[t].st = "absent" BY <1>4 DEF SharingInv, LinkTimes
  <2>2. Ticket[t] = Unused BY <1>4, <2>1 DEF Ticket, TicketOf, Unused
  <2>3. Author[l] # Null
    BY <1>1, <1>2, RowColumns, ConstantsAssumption DEF Author
  <2>4. TicketOf(row, TRUE) = OpenFor(l, a) BY DEF TicketOf, OpenFor
  <2>5. \A u \in Tokens : /\ invs'[u] = IF u = t THEN row ELSE invs[u]
                          /\ u \in issued' <=> u = t \/ u \in issued
    BY <1>1, <1>4 DEF TypeOK
  <2> HIDE DEF row
  <2>6. Ticket' = [u \in Tokens |-> TicketOf(invs'[u], u \in issued')]
    BY DEF Ticket, TicketOf
  <2>7. Ticket' = [Ticket EXCEPT ![t] = OpenFor(l, a)]
    <3>1. ASSUME NEW u \in Tokens
          PROVE  TicketOf(invs'[u], u \in issued')
                 = IF u = t THEN OpenFor(l, a) ELSE Ticket[u]
      BY <2>4, <2>5 DEF Ticket, TicketOf
    <3> HIDE DEF l, a
    <3> QED BY <2>6, <3>1 DEF Ticket
  <2>8. UNCHANGED <<Author, Role>> BY <1>1 DEF Author, Role, RoleOf
  <2> QED BY <1>2, <2>2, <2>3, <2>7, <2>8, IssueStep DEF Implements
<1> QED BY <1>3, <1>4 DEF CreateInvitationInsert

\* One row of list_shares changes: the role is what the row says.
LEMMA RoleAfter ==
  ASSUME TypeOK, NEW l \in Lists, NEW m \in Owners, NEW row,
         shares' = [shares EXCEPT ![l][m] = row]
  PROVE  Role' = [Role EXCEPT ![l][m] = RoleOf(row)]
<1>1. Role' = [k \in Lists |-> [n \in Owners |-> RoleOf(shares'[k][n])]]
  BY DEF Role, RoleOf
<1>2. \A k \in Lists, n \in Owners :
        shares'[k][n] = IF k = l /\ n = m THEN row ELSE shares[k][n]
  BY DEF TypeOK
<1> HIDE DEF RoleOf
<1> DEFINE After(k) == [n \in Owners |-> IF k = l /\ n = m THEN RoleOf(row)
                                        ELSE RoleOf(shares[k][n])]
<1>3. \A k \in Lists : [n \in Owners |-> RoleOf(shares'[k][n])] = After(k)
  BY <1>2
<1>4. Role' = [k \in Lists |-> After(k)] BY <1>1, <1>3
<1>5. \A k \in Lists : Role[k] = [n \in Owners |-> RoleOf(shares[k][n])] BY DEF Role
<1>6. [Role[l] EXCEPT ![m] = RoleOf(row)] = After(l) BY <1>5
<1>7. \A k \in Lists : k # l => Role[k] = After(k) BY <1>5
<1>8. [Role EXCEPT ![l][m] = RoleOf(row)]
        = [k \in Lists |-> IF k = l THEN [Role[l] EXCEPT ![m] = RoleOf(row)] ELSE Role[k]]
  BY DEF Role
<1> HIDE DEF After
<1> QED BY <1>4, <1>6, <1>7, <1>8

\* The author changes a membership that is there, or ends it.
LEMMA SharesImpl ==
  ASSUME SharingInv, NEW r \in Reqs, ChangeAccessUpdate(r) \/ RevokeShareUpdate(r)
  PROVE  Implements
<1> DEFINE l == reqs[r].list
           m == reqs[r].member
           a == reqs[r].access
<1>1. TypeOK /\ reqs[r] \in Request /\ RequestInv(reqs[r])
      /\ reqs[r].pc \in {"setAccess", "endShare"} /\ UNCHANGED <<lists, invs, issued>>
  BY DEF SharingInv, TypeOK, ChangeAccessUpdate, RevokeShareUpdate, ShareUpdate
<1>2. l \in Lists /\ m \in Owners
  BY <1>1, RequestColumns DEF RequestInv, Carries, Idle
<1>3. UNCHANGED <<Author, Ticket>> BY <1>1 DEF Author, Ticket, TicketOf
<1>4. shares[l][m] \in ShareRow BY <1>1, <1>2 DEF TypeOK
<1>5. \A s \in ShareRow : s.st = "active" =>
        /\ RoleOf(s) # "none"
        /\ \A x \in Access : RoleOf([s EXCEPT !.access = x]) = x
        /\ RoleOf([s EXCEPT !.st = "revoked", !.at = now]) = "none"
  BY RowsThere DEF ShareThere, RoleOf, Access
<1>6. CASE UNCHANGED shares BY <1>1, <1>6, Stutters
<1>7. CASE ChangeAccessUpdate(r) /\ ~UNCHANGED shares
  <2> DEFINE row == [shares[l][m] EXCEPT !.access = a]
  <2>1. shares[l][m].st = "active" /\ shares' = [shares EXCEPT ![l][m] = row]
    BY <1>7 DEF ChangeAccessUpdate, ShareUpdate, ShareMatches
  <2>2. a \in Access
    BY <1>1, <1>7, RequestColumns DEF RequestInv, Carries, Idle, ChangeAccessUpdate
  <2>3. RoleOf(row) = a /\ Role[l][m] # "none"
    BY <1>2, <1>4, <1>5, <2>1, <2>2 DEF Role
  <2>4. Role' = [Role EXCEPT ![l][m] = RoleOf(row)]
    BY <1>1, <1>2, <2>1, RoleAfter
  <2> QED BY <1>2, <1>3, <2>2, <2>3, <2>4, ChangeRoleStep DEF Implements
<1>8. CASE RevokeShareUpdate(r) /\ ~UNCHANGED shares
  <2> DEFINE row == [shares[l][m] EXCEPT !.st = "revoked", !.at = now]
  <2>1. shares[l][m].st = "active" /\ shares' = [shares EXCEPT ![l][m] = row]
    BY <1>8 DEF RevokeShareUpdate, ShareUpdate, ShareMatches
  <2>2. RoleOf(row) = "none" BY <1>4, <1>5, <2>1
  <2>3. Role' = [Role EXCEPT ![l][m] = RoleOf(row)]
    BY <1>1, <1>2, <2>1, RoleAfter
  <2> QED BY <1>2, <1>3, <2>2, <2>3, LeaveStep DEF Implements
<1> QED BY <1>6, <1>7, <1>8

\* A member leaves.
LEMMA LeaveImpl ==
  ASSUME SharingInv, NEW m \in Owners, NEW l \in Lists, LeaveList(m, l)
  PROVE  Implements
<1> DEFINE row == [shares[l][m] EXCEPT !.st = "revoked", !.at = now]
<1>1. TypeOK BY DEF SharingInv
<1>2. UNCHANGED <<lists, invs, issued>> /\ shares[l][m].st = "active"
      /\ shares' = [shares EXCEPT ![l][m] = row]
  BY DEF LeaveList
<1>3. UNCHANGED <<Author, Ticket>> BY <1>2 DEF Author, Ticket, TicketOf
<1>4. \A s \in ShareRow : s.st = "active" =>
        RoleOf([s EXCEPT !.st = "revoked", !.at = now]) = "none"
  BY RowsThere DEF ShareThere, RoleOf
<1>5. RoleOf(row) = "none" BY <1>1, <1>2, <1>4 DEF TypeOK
<1> HIDE DEF row
<1>6. Role' = [Role EXCEPT ![l][m] = RoleOf(row)] BY <1>1, <1>2, RoleAfter
<1> QED BY <1>3, <1>5, <1>6, LeaveStep DEF Implements

\* The commit of an accept spends the ticket, which is still open and still
\* gives what it gave when it was taken, and makes the member.
LEMMA CommitImpl ==
  ASSUME SharingInv, StandingInv, NEW r \in Reqs, AcceptCommit(r)
  PROVE  Implements
<1> DEFINE q == reqs[r]
           l == q.list
           m == q.caller
           t == q.token
           a == q.access
<1>1. TypeOK /\ q \in Request /\ RequestInv(q) /\ q.pc = "listRead" /\ TakenLink(r)
  BY DEF SharingInv, StandingInv, TypeOK, AcceptCommit
<1>2. /\ l \in Lists /\ m \in Owners /\ t \in Tokens /\ a \in Access
      /\ invs[t].st = "pending" /\ invs[t].list = l /\ invs[t].owner = q.owner
      /\ invs[t].access = a /\ q.owner # m
  BY <1>1, RequestColumns DEF RequestInv, Carries, HoldsToken, TakenLink, Idle
<1>3. lists[l].owner = q.owner /\ q.owner \in Owners /\ t \in issued
  BY <1>1, <1>2, RowColumns DEF SharingInv, RowsBelongToAuthor, RowBelongs, LinkTimes
<1>4. Author[l] \notin {Null, m} BY <1>2, <1>3, ConstantsAssumption DEF Author
<1>5. Ticket[t] = OpenFor(l, a) BY <1>2 DEF Ticket, TicketOf, OpenFor
<1>6. UNCHANGED <<lists, issued>>
      /\ invs' = [invs EXCEPT ![t].st = "accepted", ![t].by = m]
      /\ shares' = [shares EXCEPT ![l][m] = Joined(@, q.owner, a)]
  BY DEF AcceptCommit
<1> DEFINE row == Joined(shares[l][m], q.owner, a)
           link == [invs[t] EXCEPT !.st = "accepted", !.by = m]
<1>7. RoleOf(row) = a
  <2>1. \A s \in ShareThere : RoleOf([s EXCEPT !.st = "active", !.access = a, !.at = 0]) = a
    BY DEF ShareThere, RoleOf
  <2>2. shares[l][m] \in ShareRow BY <1>1, <1>2 DEF TypeOK
  <2> QED BY <2>1, <2>2, RowsThere DEF Joined, RoleOf
<1>8. TicketOf(link, TRUE) = Spent
  <2>1. \A v \in InvThere : [v EXCEPT !.st = "accepted", !.by = m].st = "accepted"
    BY DEF InvThere
  <2>2. invs[t] \in InvThere BY <1>1, <1>2, RowsThere DEF TypeOK
  <2> QED BY <2>1, <2>2 DEF TicketOf, Spent
<1>9. \A u \in Tokens : invs'[u] = IF u = t THEN link ELSE invs[u]
  BY <1>1, <1>2, <1>6 DEF TypeOK
<1>10. shares' = [shares EXCEPT ![l][m] = row] BY <1>6
<1> HIDE DEF row, link, a, l, m
<1>11. Ticket' = [Ticket EXCEPT ![t] = Spent]
  <2>1. Ticket' = [u \in Tokens |-> TicketOf(invs'[u], u \in issued')]
    BY DEF Ticket, TicketOf
  <2>2. ASSUME NEW u \in Tokens
        PROVE  TicketOf(invs'[u], u \in issued') = IF u = t THEN Spent ELSE Ticket[u]
    BY <1>3, <1>6, <1>8, <1>9 DEF Ticket, TicketOf
  <2> HIDE DEF t
  <2> QED BY <2>1, <2>2 DEF Ticket
<1>12. Role' = [Role EXCEPT ![l][m] = a] BY <1>1, <1>2, <1>7, <1>10, RoleAfter
<1>13. UNCHANGED Author BY <1>6 DEF Author
<1> QED BY <1>2, <1>4, <1>5, <1>11, <1>12, <1>13, JoinStep DEF Implements

\* Links that are revoked, or swept away, are void and stay so: their tokens
\* are never drawn again.
LEMMA VoidImpl ==
  ASSUME SharingInv, NEW T \in SUBSET Tokens, UNCHANGED <<lists, shares, issued>>,
         \A t \in T : t \in issued /\ invs'[t].st # "pending",
         \A t \in Tokens \ T : invs'[t] = invs[t]
  PROVE  Implements
<1>1. \A t \in T : Ticket[t] # Unused
  BY DEF Ticket, TicketOf, Unused
<1>2. Ticket' = [t \in Tokens |-> TicketOf(invs'[t], t \in issued')]
  BY DEF Ticket, TicketOf
<1>3. \A t \in Tokens :
        TicketOf(invs'[t], t \in issued') = IF t \in T THEN Spent ELSE Ticket[t]
  BY DEF Ticket, TicketOf, Spent
<1>4. Ticket' = [t \in Tokens |-> IF t \in T THEN Spent ELSE Ticket[t]]
  BY <1>2, <1>3
<1>5. UNCHANGED <<Author, Role>> BY DEF Author, Role, RoleOf
<1> QED BY <1>1, <1>4, <1>5, VoidStep DEF Implements

\* A link revoked by the author.
LEMMA RevokeInvitationImpl ==
  ASSUME SharingInv, NEW o \in Owners, NEW t \in Tokens, RevokeInvitation(o, t)
  PROVE  Implements
<1>1. TypeOK /\ invs[t].st = "pending" /\ UNCHANGED <<lists, shares, issued>>
      /\ invs' = [invs EXCEPT ![t].st = "revoked"]
  BY DEF SharingInv, RevokeInvitation
<1>2. \A v \in InvThere : [v EXCEPT !.st = "revoked"].st = "revoked" BY DEF InvThere
<1>3. invs[t] \in InvThere /\ t \in issued
  BY <1>1, RowsThere DEF TypeOK, SharingInv, LinkTimes
<1>4. invs'[t].st = "revoked" /\ \A u \in Tokens \ {t} : invs'[u] = invs[u]
  BY <1>1, <1>2, <1>3 DEF TypeOK
<1>5. {t} \in SUBSET Tokens OBVIOUS
<1> QED BY <1>1, <1>3, <1>4, <1>5, VoidImpl

\* The sweeps of the revoked memberships and of old links.
LEMMA SweepImpl ==
  ASSUME SharingInv, PruneShares \/ PruneInvitations
  PROVE  Implements
<1>1. TypeOK BY DEF SharingInv
<1>2. CASE PruneShares
  <2>1. UNCHANGED <<lists, invs, issued>>
        /\ \A l \in Lists, m \in Owners : shares'[l][m] =
             IF SharePrunable(l, m) THEN NoShare ELSE shares[l][m]
    BY <1>2 DEF PruneShares
  <2>2. \A l \in Lists, m \in Owners : RoleOf(shares'[l][m]) = RoleOf(shares[l][m])
    BY <2>1, NullRows DEF RoleOf, SharePrunable
  <2>3. UNCHANGED <<Author, Ticket>> BY <2>1 DEF Author, Ticket, TicketOf
  <2>4. UNCHANGED Role BY <2>2, MappedRows
  <2> QED BY <2>3, <2>4, NoStep DEF Implements
<1>3. CASE PruneInvitations
  <2> DEFINE gone == {t \in Tokens : InvPrunable(t)}
  <2>1. UNCHANGED <<lists, shares, issued>>
        /\ invs' = [t \in Tokens |-> IF t \in gone THEN NoInv ELSE invs[t]]
    BY <1>3 DEF PruneInvitations
  <2>2. \A t \in gone : t \in issued BY DEF InvPrunable, SharingInv, LinkTimes
  <2>3. gone \in SUBSET Tokens OBVIOUS
  <2> HIDE DEF gone
  <2>4. \A t \in gone : invs'[t].st # "pending" BY <2>1, <2>3, NullRows
  <2>5. \A t \in Tokens \ gone : invs'[t] = invs[t] BY <2>1
  <2> QED BY <2>1, <2>2, <2>3, <2>4, <2>5, VoidImpl
<1> QED BY <1>2, <1>3

\* The sweep of the deleted lists takes their members and their links along.
LEMMA PruneListsImpl ==
  ASSUME SharingInv, PruneLists
  PROVE  Implements
<1> DEFINE gone == {l \in Lists : ListPrunable(l)}
<1>1. TypeOK BY DEF SharingInv
<1>2. /\ lists' = [l \in Lists |-> IF l \in gone THEN NoList ELSE lists[l]]
      /\ shares' = [l \in Lists |-> IF l \in gone THEN [m \in Owners |-> NoShare]
                                    ELSE shares[l]]
      /\ invs' = [t \in Tokens |-> IF invs[t].list \in gone THEN NoInv ELSE invs[t]]
      /\ issued' = issued
  BY DEF PruneLists
<1>3. gone \in SUBSET Lists OBVIOUS
<1> HIDE DEF gone
<1>4. Null \notin gone BY <1>3, ConstantsAssumption
<1>5. Author' = [l \in Lists |-> IF l \in gone THEN Null ELSE Author[l]]
  BY <1>2 DEF Author, NoList
<1>6. Role' = [l \in Lists |-> IF l \in gone THEN NoRoles ELSE Role[l]]
  <2>1. Role' = [l \in Lists |-> [m \in Owners |-> RoleOf(shares'[l][m])]]
    BY DEF Role, RoleOf
  <2>2. ASSUME NEW l \in Lists
        PROVE  [m \in Owners |-> RoleOf(shares'[l][m])]
               = IF l \in gone THEN NoRoles ELSE Role[l]
    <3>1. CASE l \in gone
      <4>1. \A m \in Owners : RoleOf(shares'[l][m]) = "none"
        BY <1>2, <3>1, NullRows DEF RoleOf
      <4> QED BY <3>1, <4>1 DEF NoRoles
    <3>2. CASE l \notin gone
      <4>1. shares'[l] = shares[l] BY <1>2, <3>2
      <4> QED BY <3>2, <4>1 DEF Role
    <3> QED BY <3>1, <3>2
  <2> QED BY <2>1, <2>2
<1>7. Ticket' = [t \in Tokens |-> IF Ticket[t].list \in gone THEN Spent ELSE Ticket[t]]
  <2>1. Ticket' = [t \in Tokens |-> TicketOf(invs'[t], t \in issued')]
    BY DEF Ticket, TicketOf
  <2>2. ASSUME NEW t \in Tokens
        PROVE  TicketOf(invs'[t], t \in issued')
               = IF Ticket[t].list \in gone THEN Spent ELSE Ticket[t]
    <3>1. Ticket[t] = TicketOf(invs[t], t \in issued) BY DEF Ticket
    <3>2. CASE invs[t].list \in gone
      <4>1. invs[t].st # "absent" BY <1>1, <1>4, <3>2 DEF TypeOK, InvRow, NoInv
      <4>2. t \in issued /\ invs'[t] = NoInv
        BY <1>2, <3>2, <4>1 DEF SharingInv, LinkTimes
      <4> QED BY <1>2, <1>4, <3>1, <3>2, <4>2, NullRows DEF TicketOf, Spent
    <3>3. CASE invs[t].list \notin gone
      <4>1. invs'[t] = invs[t] BY <1>2, <3>3
      <4> QED BY <1>2, <1>4, <3>1, <3>3, <4>1 DEF TicketOf
    <3> QED BY <3>2, <3>3
  <2> QED BY <2>1, <2>2
<1> QED BY <1>3, <1>5, <1>6, <1>7, ForgetStep DEF Implements

\* Every step of the service is a step of Membership, or none.
LEMMA NextImpl == SharingInv /\ StandingInv /\ [Next]_vars => Implements
<1> SUFFICES ASSUME SharingInv, StandingInv, [Next]_vars PROVE Implements OBVIOUS
<1>1. CASE UNCHANGED vars \/ Tick BY <1>1, Stutters DEF vars, Tick, dbVars
<1>2. ASSUME NEW r \in Reqs, Arrive(r) \/ Fail(r) PROVE Implements
  BY <1>2, Stutters
  DEF Arrive, Fail, UpsertListProbe, CreateInvitationCheck, RevokeShareCheck,
      ChangeAccessCheck, RequireOwner, AddItemBegin, AcceptBegin, PatchItemRead,
      DeleteItemRead, ItemRead, dbVars
<1>3. ASSUME NEW r \in Reqs, Advance(r) PROVE Implements
  <2>1. CASE AcceptTakeToken(r) \/ AcceptTakeShare(r) \/ AcceptReadList(r)
             \/ ReadAuthor(r) \/ ReadMember(r) \/ ReadOwner(r)
             \/ AddItemInsert(r) \/ PatchItemUpdate(r) \/ DeleteItemUpdate(r)
    BY <2>1, Stutters
    DEF AcceptTakeToken, AcceptTakeShare, AcceptReadList, ReadAuthor, ReadMember, ReadOwner,
        AddItemInsert, PatchItemUpdate, DeleteItemUpdate, dbVars
  <2> QED
    BY <1>3, <2>1, UpsertListImpl, CreateInvitationImpl, SharesImpl, CommitImpl DEF Advance
<1>4. ASSUME NEW o \in Owners, NEW l \in Lists, DeleteList(o, l) PROVE Implements
  <2> DEFINE row == [lists[l] EXCEPT !.st = "deleted", !.at = now]
  <2>1. TypeOK /\ lists[l].st = "active" /\ lists' = [lists EXCEPT ![l] = row]
        /\ UNCHANGED <<shares, invs, issued>>
    BY <1>4 DEF SharingInv, DeleteList, OwnsActive
  <2>2. \A w \in ListThere : [w EXCEPT !.st = "deleted", !.at = now].owner = w.owner
    BY DEF ListThere
  <2>3. row.owner = lists[l].owner BY <2>1, <2>2, RowsThere DEF TypeOK
  <2> HIDE DEF row
  <2>4. \A k \in Lists : lists'[k].owner = lists[k].owner BY <2>1, <2>3 DEF TypeOK
  <2>5. UNCHANGED <<Role, Ticket>> BY <2>1 DEF Role, Ticket, RoleOf, TicketOf
  <2> QED BY <2>4, <2>5, MappedRows, NoStep DEF Implements
<1>5. CASE SingleStatement
  BY <1>4, <1>5, LeaveImpl, RevokeInvitationImpl DEF SingleStatement
<1>6. CASE PruneItems BY <1>6, Stutters DEF PruneItems
<1>7. CASE Prune BY <1>6, <1>7, SweepImpl, PruneListsImpl DEF Prune
<1> QED BY <1>1, <1>2, <1>3, <1>5, <1>7 DEF Next

\* The empty database maps to no lists, no roles and unused tickets.
LEMMA InitImpl == Init => MembershipImpl!Init
<1> SUFFICES ASSUME Init PROVE MembershipImpl!Init OBVIOUS
<1>1. Author = [l \in Lists |-> Null] BY DEF Init, Author, NoList
<1>2. Role = [l \in Lists |-> NoRoles] BY DEF Init, Role, RoleOf, NoRoles, NoShare
<1>3. Ticket = [t \in Tokens |-> Unused] BY DEF Init, Ticket, TicketOf, Unused, NoInv
<1> QED
  BY <1>1, <1>2, <1>3
  DEF MembershipImpl!Init, MembershipImpl!NoRoles, MembershipImpl!Unused,
      Author, Role, Ticket, RoleOf, TicketOf, NoRoles, Unused

\* The tables implement Membership: nobody becomes a member, or one again, but
\* by spending a link of that list that nobody has spent before, with the access
\* the author wrote on it (service/sharing.go:70, repository/invitation.go:62).
THEOREM SharingImplementsMembership == Spec => ImplementsMembership
<1>1. SharingInv /\ StandingInv /\ [Next]_vars
        => [MembershipImpl!Next]_(MembershipImpl!vars)
  BY NextImpl DEF Implements
<1> QED
  BY <1>1, InitImpl, InvariantHolds, StandingHolds, PTL
  DEF Spec, ImplementsMembership, MembershipImpl!Spec
=============================================================================

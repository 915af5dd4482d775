----------------------------- MODULE Membership -----------------------------
(***************************************************************************)
(* What list sharing promises, with no tables, statements or locks in it.  *)
(* A list has one author for as long as it exists.  An owner who is not    *)
(* the author gets a role on it in one way only: by spending a ticket of   *)
(* that list, which can be spent once and gives the role written on it.    *)
(* The author may change the role of a member, never give one to somebody  *)
(* who has none.  Sharing implements this specification.                   *)
(***************************************************************************)
CONSTANTS Owners, Lists, Tokens, Null

VARIABLES
  author,   \* the author of each list; Null where there is no list
  role,     \* "none", "view" or "edit" for each list and owner
  ticket    \* whether each ticket is unused, open or spent, and what it gives

vars == <<author, role, ticket>>

Roles   == {"view", "edit"}
NoRoles == [m \in Owners |-> "none"]
Open(l, a) == [st |-> "open", list |-> l, role |-> a]
Unused == [st |-> "unused", list |-> Null, role |-> Null]
Spent  == [st |-> "spent", list |-> Null, role |-> Null]

Init ==
  /\ author = [l \in Lists |-> Null]
  /\ role = [l \in Lists |-> NoRoles]
  /\ ticket = [t \in Tokens |-> Unused]

Create(l, o) ==
  /\ author[l] = Null
  /\ author' = [author EXCEPT ![l] = o]
  /\ UNCHANGED <<role, ticket>>

\* A ticket is written for a list that exists.
Issue(t, l, a) ==
  /\ ticket[t] = Unused /\ author[l] # Null
  /\ ticket' = [ticket EXCEPT ![t] = Open(l, a)]
  /\ UNCHANGED <<author, role>>

\* The ticket is spent and the role given in the same step.
Join(t, l, m, a) ==
  /\ ticket[t] = Open(l, a)
  /\ author[l] \notin {Null, m}
  /\ role' = [role EXCEPT ![l][m] = a]
  /\ ticket' = [ticket EXCEPT ![t] = Spent]
  /\ UNCHANGED author

ChangeRole(l, m, a) ==
  /\ role[l][m] # "none"
  /\ role' = [role EXCEPT ![l][m] = a]
  /\ UNCHANGED <<author, ticket>>

\* The author puts a member out, or the member leaves.
Leave(l, m) ==
  /\ role' = [role EXCEPT ![l][m] = "none"]
  /\ UNCHANGED <<author, ticket>>

\* Open tickets are revoked, or forgotten after they have expired.
Void(T) ==
  /\ \A t \in T : ticket[t] # Unused
  /\ ticket' = [t \in Tokens |-> IF t \in T THEN Spent ELSE ticket[t]]
  /\ UNCHANGED <<author, role>>

\* Deleted lists are forgotten with all their members and tickets.
Forget(L) ==
  /\ author' = [l \in Lists |-> IF l \in L THEN Null ELSE author[l]]
  /\ role' = [l \in Lists |-> IF l \in L THEN NoRoles ELSE role[l]]
  /\ ticket' = [t \in Tokens |->
       IF ticket[t].list \in L THEN Spent ELSE ticket[t]]

Next ==
  \/ \E l \in Lists :
       \/ \E o \in Owners : Create(l, o) \/ Leave(l, o)
       \/ \E m \in Owners, a \in Roles : ChangeRole(l, m, a)
       \/ \E t \in Tokens, a \in Roles : Issue(t, l, a)
       \/ \E t \in Tokens, m \in Owners, a \in Roles : Join(t, l, m, a)
  \/ \E T \in SUBSET Tokens : Void(T)
  \/ \E L \in SUBSET Lists : Forget(L)

Spec == Init /\ [][Next]_vars
=============================================================================

----------------------------- MODULE SyncProofs -----------------------------
(***************************************************************************)
(* Proofs about Sync: for any lists, items, goods and writers, a device    *)
(* that keeps asking from the time it was told has everything the caller   *)
(* can see of what was settled by then, unless a write was committed       *)
(* behind a sync's back.                                                   *)
(***************************************************************************)
EXTENDS Sync, TLAPS

Phases == {"idle", "goods", "lists", "items", "deletedItems", "deletedLists",
           "shares", "answer"}
AfterGoods == Phases \ {"idle", "goods"}
AfterLists == AfterGoods \ {"lists"}
AfterItems == AfterLists \ {"items"}
AfterDeletedItems == AfterItems \ {"deletedItems"}
AfterDeletedLists == AfterDeletedItems \ {"deletedLists"}

\* An item is on a list that exists, and a membership is of another's.
Refs ==
  /\ \A l \in Lists : share[l].st # "absent" => lists[l].st # "absent" /\ ~lists[l].mine
  /\ \A i \in Items : items[i].st # "absent" => lists[items[i].list].st # "absent"

\* Every reading of the clock is another: no write under way began when a sync did.
Clocks ==
  /\ DOMAIN sync = DOMAIN NoSync
  /\ \A w \in Writers : writes[w] # 0 =>
       /\ writes[w] <= now /\ writes[w] # device.since /\ writes[w] # sync.stamp

(***************************************************************************)
(* What copies made up to t are worth, when what is gone has been asked    *)
(* for up to d only.  On a device the two are one.  A list that was        *)
(* renamed since, or that the caller had no part in, must not blur what is *)
(* known of its items.                                                     *)
(***************************************************************************)
ListKnown(copies, l, t, d) ==
  /\ CanSee(l) /\ lists[l].at <= t /\ share[l].at <= t => copies[l] = CopyOfList(l)
  /\ ~MineOrShared(l) /\ share[l].at <= t => copies[l] = Null \/ share[l].at > d
  /\ lists[l].st = "deleted" /\ lists[l].at <= t /\ share[l].at <= t
       => copies[l] = Null \/ lists[l].at > d \/ share[l].at > d

ItemKnown(copies, i, t, d) ==
  LET l == items[i].list IN
  /\ copies[i] # Null => items[i].st # "absent" /\ copies[i].list = l
  /\ items[i].st # "absent" =>
       /\ items[i].st = "live" /\ CanSee(l) /\ items[i].at <= t /\ share[l].at <= t
            => copies[i] = CopyOfItem(i)
       /\ items[i].st = "deleted" /\ items[i].at <= t /\ share[l].at <= t
            => copies[i] = Null \/ items[i].at > d \/ share[l].at > d
       /\ ~MineOrShared(l) /\ share[l].at <= t => copies[i] = Null \/ share[l].at > d
       /\ lists[l].st = "deleted" /\ lists[l].at <= t /\ share[l].at <= t
            => copies[i] = Null \/ lists[l].at > d \/ share[l].at > d

GoodKnown(copies, i, t) ==
  LET l == items[i].list IN
  items[i].st = "live" /\ CanSee(l) /\ items[i].at <= t /\ share[l].at <= t
    /\ goods[items[i].good] <= t => copies[items[i].good] = goods[items[i].good]

DeviceKnows ==
  /\ \A l \in Lists : ListKnown(device.lists, l, device.since, device.since)
  /\ \A i \in Items : /\ ItemKnown(device.items, i, device.since, device.since)
                      /\ GoodKnown(device.goods, i, device.since)

(***************************************************************************)
(* What a sync under way will make of it.  Once a table has been read, its *)
(* copies are right up to the stamp, but for what a later query, which     *)
(* looks from the watermark on, will take away again.                      *)
(***************************************************************************)
ListRead(l) ==
  ListKnown(Newer(sync.lists, device.lists), l, sync.stamp, device.since)
ItemRead(i) ==
  ItemKnown(Newer(sync.items, device.items), i, sync.stamp, device.since)
GoodRead(i) == GoodKnown(Newer(sync.goods, device.goods), i, sync.stamp)

DeletedItemRead(i) ==
  LET l == items[i].list IN
  /\ i \in sync.deletedItems => items[i].st = "deleted"
  /\ items[i].st = "deleted" /\ MineOrShared(l) /\ items[i].at <= sync.stamp
       /\ share[l].at <= sync.stamp
       /\ (items[i].at > device.since \/ share[l].at > device.since)
       => i \in sync.deletedItems

DeletedListRead(l) ==
  /\ l \in sync.deletedLists => lists[l].st = "deleted"
  /\ lists[l].st = "deleted" /\ (lists[l].mine \/ share[l].st # "absent")
       /\ lists[l].at <= sync.stamp /\ share[l].at <= sync.stamp
       /\ (lists[l].at > device.since \/ share[l].at > device.since)
       => l \in sync.deletedLists

ShareRead(l) ==
  /\ l \in sync.revoked => share[l].st = "revoked" \/ share[l].at > sync.stamp
  /\ share[l].st = "revoked" /\ share[l].at <= sync.stamp /\ share[l].at > device.since
       => l \in sync.revoked

SyncSound ==
  /\ sync.pc \in AfterGoods => \A i \in Items : GoodRead(i)
  /\ sync.pc \in AfterLists => \A l \in Lists : ListRead(l)
  /\ sync.pc \in AfterItems => \A i \in Items : ItemRead(i)
  /\ sync.pc \in AfterDeletedItems => \A i \in Items : DeletedItemRead(i)
  /\ sync.pc \in AfterDeletedLists => \A l \in Lists : DeletedListRead(l)
  /\ sync.pc = "answer" => \A l \in Lists : ShareRead(l)

Inv == /\ TypeOK /\ Refs /\ Clocks
       /\ late \/ (DeviceKnows /\ SyncSound)

(***************************************************************************)
(* Rows                                                                    *)
(***************************************************************************)
\* What the tables hold, row by row.
LEMMA Rows ==
  ASSUME TypeOK
  PROVE  /\ now \in Nat /\ device.since \in Nat /\ sync.stamp \in Nat /\ sync.pc \in Phases
         /\ device.since <= now /\ sync.stamp <= now
         /\ \A l \in Lists :
              /\ lists[l].st \in {"absent", "active", "deleted"} /\ lists[l].at \in Nat
              /\ lists[l].mine \in BOOLEAN
              /\ lists[l].st = "absent" => ~lists[l].mine /\ lists[l].at = 0
              /\ share[l].st \in {"absent", "active", "revoked"} /\ share[l].at \in Nat
              /\ share[l].st = "absent" => share[l].at = 0
              /\ share[l].st # "absent" => share[l].access \in Access
         /\ \A i \in Items :
              /\ items[i].st \in {"absent", "live", "deleted"} /\ items[i].at \in Nat
              /\ items[i].st # "absent" => items[i].list \in Lists /\ items[i].good \in Goods
         /\ \A g \in Goods : goods[g] \in Nat
         /\ \A w \in Writers : writes[w] \in Nat
  <1>1. /\ now \in Nat /\ device.since \in Nat /\ sync.stamp \in Nat /\ sync.pc \in Phases
        /\ device.since <= now /\ sync.stamp <= now
    BY DEF TypeOK, SyncTypeOK, Phases
  <1>2. ASSUME NEW l \in Lists
        PROVE  /\ lists[l].st \in {"absent", "active", "deleted"} /\ lists[l].at \in Nat
               /\ lists[l].mine \in BOOLEAN
               /\ lists[l].st = "absent" => ~lists[l].mine /\ lists[l].at = 0
    <2>1. lists[l] \in ListRow
      BY DEF TypeOK
    <2>2. CASE lists[l] = NoList
      BY <2>2 DEF NoList
    <2>3. CASE lists[l] \in [st : {"active", "deleted"}, mine : BOOLEAN, at : Nat]
      BY <2>3
    <2> QED
      BY <2>1, <2>2, <2>3 DEF ListRow
  <1>3. ASSUME NEW l \in Lists
        PROVE  /\ share[l].st \in {"absent", "active", "revoked"} /\ share[l].at \in Nat
               /\ share[l].st = "absent" => share[l].at = 0
               /\ share[l].st # "absent" => share[l].access \in Access
    BY DEF TypeOK, ShareRow, NoShare
  <1>4. ASSUME NEW i \in Items
        PROVE  /\ items[i].st \in {"absent", "live", "deleted"} /\ items[i].at \in Nat
               /\ items[i].st # "absent" => items[i].list \in Lists /\ items[i].good \in Goods
    BY DEF TypeOK, ItemRow, NoItem
  <1> QED
    BY <1>1, <1>2, <1>3, <1>4 DEF TypeOK

(***************************************************************************)
(* Writes                                                                  *)
(***************************************************************************)
\* What the commit of a write that began at b may do to a row.
ListMoves(l, b) ==
  \/ lists'[l] = lists[l] /\ share'[l] = share[l]
  \/ /\ share'[l] = share[l] /\ lists'[l].at = b
     /\ \/ lists[l].st = "absent" /\ lists'[l].st = "active"
        \/ /\ lists[l].st = "active" /\ lists'[l].st \in {"active", "deleted"}
           /\ lists'[l].mine = lists[l].mine
  \/ /\ lists'[l] = lists[l] /\ share'[l].at = b /\ share'[l].st \in {"active", "revoked"}
     /\ lists[l].st # "absent" /\ ~lists[l].mine

ItemMoves(i, b) ==
  \/ items'[i] = items[i]
  \/ /\ items'[i].at = b /\ items[i].st = "absent" /\ items'[i].st = "live"
     /\ lists[items'[i].list].st # "absent"
  \/ /\ items'[i].at = b /\ items'[i].list = items[i].list
     /\ \/ items[i].st = "live" /\ items'[i].st \in {"live", "deleted"}
        \/ items[i].st = "deleted" /\ items'[i].st = "deleted"

Moves(b) ==
  /\ \A l \in Lists : ListMoves(l, b)
  /\ \A i \in Items : ItemMoves(i, b)
  /\ \A g \in Goods : goods'[g] \in {goods[g], b}

\* A write that is not late began after the watermark and, once the first query
\* has run, after the stamp.
LEMMA WriteIs ==
  ASSUME Inv, NEW w \in Writers, Write(w)
  PROVE  /\ writes[w] \in Nat /\ writes[w] <= now
         /\ writes' \in [Writers -> Nat]
         /\ UNCHANGED <<now, sync, device>> /\ late' \in BOOLEAN
         /\ \A v \in Writers : writes'[v] # 0 => writes'[v] = writes[v]
         /\ ~late' => /\ ~late /\ writes[w] > device.since
                      /\ sync.pc \in AfterGoods => writes[w] > sync.stamp
  <1>1. /\ writes[w] \in Nat /\ writes[w] # 0 /\ writes[w] <= now
        /\ writes[w] # device.since /\ writes[w] # sync.stamp
        /\ device.since \in Nat /\ sync.stamp \in Nat /\ sync.pc \in Phases
        /\ writes \in [Writers -> Nat] /\ late \in BOOLEAN
    BY Rows DEF Inv, Clocks, Write, TypeOK
  <1>2. /\ writes' = [writes EXCEPT ![w] = 0] /\ UNCHANGED <<now, sync, device>>
        /\ late' = (late \/ Overtaken(writes[w]))
    BY DEF Write
  <1>3. writes' \in [Writers -> Nat] /\ \A v \in Writers : writes'[v] # 0 => writes'[v] = writes[v]
    BY <1>1, <1>2
  <1>4. late' \in BOOLEAN
    BY <1>1, <1>2 DEF Overtaken
  <1>5. ~late' => /\ ~late /\ writes[w] > device.since
                  /\ sync.pc \in AfterGoods => writes[w] > sync.stamp
    <2> SUFFICES ASSUME ~late'
                 PROVE  /\ ~late /\ writes[w] > device.since
                        /\ sync.pc \in AfterGoods => writes[w] > sync.stamp
      OBVIOUS
    <2>1. ~late /\ ~Overtaken(writes[w])
      BY <1>2, Zenon
    <2>2. ~(writes[w] < device.since)
          /\ (sync.pc \in AfterGoods => ~(writes[w] < sync.stamp))
      BY <2>1 DEF Overtaken, AfterGoods
    <2> QED
      BY <1>1, <2>1, <2>2
  <1> QED
    BY <1>1, <1>2, <1>3, <1>4, <1>5

\* The tables after each of the writes.
LEMMA WriteAnyMoves ==
  ASSUME Inv, NEW w \in Writers, WriteAny(w)
  PROVE  /\ Write(w) /\ Moves(writes[w])
         /\ lists' \in [Lists -> ListRow] /\ items' \in [Items -> ItemRow]
         /\ share' \in [Lists -> ShareRow] /\ goods' \in [Goods -> Nat]
  <1> DEFINE b == writes[w]
             Tables == /\ lists' \in [Lists -> ListRow] /\ items' \in [Items -> ItemRow]
                       /\ share' \in [Lists -> ShareRow] /\ goods' \in [Goods -> Nat]
  <1>0. /\ lists \in [Lists -> ListRow] /\ items \in [Items -> ItemRow]
        /\ share \in [Lists -> ShareRow] /\ goods \in [Goods -> Nat] /\ b \in Nat
    BY DEF Inv, TypeOK
  <1>R. /\ \A l \in Lists : lists[l].st = "active" =>
             lists[l] \in [st : {"active"}, mine : BOOLEAN, at : Nat]
        /\ \A l \in Lists : share[l].st = "active" =>
             share[l] \in [st : {"active"}, access : Access, at : Nat]
        /\ \A i \in Items : items[i].st = "live" =>
             items[i] \in [st : {"live"}, list : Lists, good : Goods, at : Nat]
    BY <1>0 DEF ListRow, ShareRow, ItemRow, NoList, NoShare, NoItem
  <1>1. ASSUME NEW l \in Lists, NEW mine \in BOOLEAN, PutList(w, l, mine)
        PROVE  Write(w) /\ Moves(b) /\ Tables
    <2>1. /\ lists' = [lists EXCEPT ![l] = [st |-> "active", mine |-> mine, at |-> b]]
          /\ UNCHANGED <<items, share, goods>> /\ Write(w)
          /\ lists[l].st = "absent" \/ (lists[l].st = "active" /\ lists[l].mine = mine)
      BY <1>1 DEF PutList
    <2>2. [st |-> "active", mine |-> mine, at |-> b] \in ListRow
      BY <1>0 DEF ListRow
    <2> QED
      BY <1>0, <2>1, <2>2 DEF Moves, ListMoves, ItemMoves
  <1>2. ASSUME NEW l \in Lists, DropList(w, l)
        PROVE  Write(w) /\ Moves(b) /\ Tables
    <2>1. /\ lists' = [lists EXCEPT ![l] = [lists[l] EXCEPT !.st = "deleted", !.at = b]]
          /\ UNCHANGED <<items, share, goods>> /\ Write(w) /\ lists[l].st = "active"
      BY <1>0, <1>2 DEF DropList
    <2>2. [lists[l] EXCEPT !.st = "deleted", !.at = b] \in ListRow
      BY <1>0, <1>R, <2>1 DEF ListRow
    <2> QED
      BY <1>0, <1>R, <2>1, <2>2 DEF Moves, ListMoves, ItemMoves
  <1>3. ASSUME NEW l \in Lists, NEW i \in Items, NEW g \in Goods, AddItem(w, i, l, g)
        PROVE  Write(w) /\ Moves(b) /\ Tables
    <2>1. /\ items' = [items EXCEPT ![i] = [st |-> "live", list |-> l, good |-> g, at |-> b]]
          /\ UNCHANGED <<lists, share, goods>> /\ Write(w)
          /\ items[i].st = "absent" /\ lists[l].st # "absent"
      BY <1>3 DEF AddItem
    <2>2. [st |-> "live", list |-> l, good |-> g, at |-> b] \in ItemRow
      BY <1>0 DEF ItemRow
    <2> QED
      BY <1>0, <2>1, <2>2 DEF Moves, ListMoves, ItemMoves
  <1>4. ASSUME NEW i \in Items, PatchItem(w, i)
        PROVE  Write(w) /\ Moves(b) /\ Tables
    <2>1. /\ items' = [items EXCEPT ![i] = [items[i] EXCEPT !.at = b]]
          /\ UNCHANGED <<lists, share, goods>> /\ Write(w) /\ items[i].st = "live"
      BY <1>0, <1>4 DEF PatchItem
    <2>2. [items[i] EXCEPT !.at = b] \in ItemRow
      BY <1>0, <1>R, <2>1 DEF ItemRow
    <2> QED
      BY <1>0, <1>R, <2>1, <2>2 DEF Moves, ListMoves, ItemMoves
  <1>5. ASSUME NEW i \in Items, DropItem(w, i)
        PROVE  Write(w) /\ Moves(b) /\ Tables
    <2>1. /\ items' = [items EXCEPT ![i] = [items[i] EXCEPT !.st = "deleted", !.at = b]]
          /\ UNCHANGED <<lists, share, goods>> /\ Write(w) /\ items[i].st = "live"
      BY <1>0, <1>5 DEF DropItem
    <2>2. [items[i] EXCEPT !.st = "deleted", !.at = b] \in ItemRow
      BY <1>0, <1>R, <2>1 DEF ItemRow
    <2> QED
      BY <1>0, <1>R, <2>1, <2>2 DEF Moves, ListMoves, ItemMoves
  <1>6. ASSUME NEW l \in Lists, NEW a \in Access, Join(w, l, a)
        PROVE  Write(w) /\ Moves(b) /\ Tables
    <2>1. /\ share' = [share EXCEPT ![l] = [st |-> "active", access |-> a, at |-> b]]
          /\ UNCHANGED <<lists, items, goods>> /\ Write(w)
          /\ lists[l].st # "absent" /\ ~lists[l].mine
      BY <1>6 DEF Join
    <2>2. [st |-> "active", access |-> a, at |-> b] \in ShareRow
      BY <1>0 DEF ShareRow
    <2> QED
      BY <1>0, <2>1, <2>2 DEF Moves, ListMoves, ItemMoves
  <1>7. ASSUME NEW l \in Lists, NEW a \in Access, ChangeAccess(w, l, a)
        PROVE  Write(w) /\ Moves(b) /\ Tables
    <2>1. /\ share' = [share EXCEPT ![l] = [share[l] EXCEPT !.access = a, !.at = b]]
          /\ UNCHANGED <<lists, items, goods>> /\ Write(w) /\ share[l].st = "active"
          /\ lists[l].st # "absent" /\ ~lists[l].mine
      BY <1>0, <1>7 DEF ChangeAccess, Inv, Refs
    <2>2. [share[l] EXCEPT !.access = a, !.at = b] \in ShareRow
      BY <1>0, <1>R, <2>1 DEF ShareRow
    <2> QED
      BY <1>0, <1>R, <2>1, <2>2 DEF Moves, ListMoves, ItemMoves
  <1>8. ASSUME NEW l \in Lists, Leave(w, l)
        PROVE  Write(w) /\ Moves(b) /\ Tables
    <2>1. /\ share' = [share EXCEPT ![l] = [share[l] EXCEPT !.st = "revoked", !.at = b]]
          /\ UNCHANGED <<lists, items, goods>> /\ Write(w) /\ share[l].st = "active"
          /\ lists[l].st # "absent" /\ ~lists[l].mine
      BY <1>0, <1>8 DEF Leave, Inv, Refs
    <2>2. [share[l] EXCEPT !.st = "revoked", !.at = b] \in ShareRow
      BY <1>0, <1>R, <2>1 DEF ShareRow
    <2> QED
      BY <1>0, <1>R, <2>1, <2>2 DEF Moves, ListMoves, ItemMoves
  <1>9. ASSUME NEW g \in Goods, TouchGood(w, g)
        PROVE  Write(w) /\ Moves(b) /\ Tables
    BY <1>0, <1>9 DEF TouchGood, Moves, ListMoves, ItemMoves
  <1>10. ASSUME NEW from \in Goods, NEW to \in Goods,
                NEW authored \in SUBSET {l \in Lists : ~lists[l].mine},
                MergeGoods(w, from, to, authored)
         PROVE  Write(w) /\ Moves(b) /\ Tables
    <2>1. /\ goods' = [goods EXCEPT ![from] = b, ![to] = b]
          /\ UNCHANGED <<lists, share>> /\ Write(w)
      BY <1>10 DEF MergeGoods
    <2>2. ASSUME NEW i \in Items
          PROVE  ItemMoves(i, b) /\ items'[i] \in ItemRow
      <3>1. CASE items[i].good = from /\ items[i].list \in authored
        <4>1. items[i] \in [st : {"live", "deleted"}, list : Lists, good : Goods, at : Nat]
          BY <1>0, <3>1, SyncAssumption DEF ItemRow, NoItem
        <4>2. items'[i] = [items[i] EXCEPT !.good = to, !.at = b]
          BY <1>10, <3>1 DEF MergeGoods
        <4> QED
          BY <1>0, <4>1, <4>2 DEF ItemMoves, ItemRow
      <3>2. CASE ~(items[i].good = from /\ items[i].list \in authored)
        <4>1. items'[i] = items[i]
          BY <1>10, <3>2 DEF MergeGoods
        <4> QED
          BY <1>0, <4>1 DEF ItemMoves
      <3> QED
        BY <3>1, <3>2
    <2>3. items' \in [Items -> ItemRow]
      BY <1>10, <2>2 DEF MergeGoods
    <2>4. goods' \in [Goods -> Nat] /\ \A g \in Goods : goods'[g] \in {goods[g], b}
      BY <1>0, <2>1
    <2>5. \A l \in Lists : ListMoves(l, b)
      BY <2>1 DEF ListMoves
    <2> QED
      BY <1>0, <2>1, <2>2, <2>3, <2>4, <2>5 DEF Moves
  <1> QED
    BY <1>1, <1>2, <1>3, <1>4, <1>5, <1>6, <1>7, <1>8, <1>9, <1>10 DEF WriteAny

\* What is known of a list stays known when rows move to a later time.
LEMMA ListStays ==
  ASSUME TypeOK, TypeOK', NEW l \in Lists, NEW b \in Nat, ListMoves(l, b),
         share[l].st # "absent" => lists[l].st # "absent" /\ ~lists[l].mine,
         NEW t \in Nat, b > t, NEW d, NEW c, ListKnown(c, l, t, d)
  PROVE  ListKnown(c, l, t, d)'
  <1>1. /\ lists[l].st \in {"absent", "active", "deleted"} /\ lists[l].at \in Nat
        /\ lists[l].st = "absent" => ~lists[l].mine /\ lists[l].at = 0
        /\ share[l].st \in {"absent", "active", "revoked"} /\ share[l].at \in Nat
        /\ share[l].st = "absent" => share[l].at = 0
    BY Rows
  <1>2. CASE lists'[l] = lists[l] /\ share'[l] = share[l]
    BY <1>2 DEF ListKnown, CanSee, MineOrShared, CopyOfList
  <1>3. CASE share'[l] = share[l] /\ lists'[l].at = b /\ lists[l].st = "absent"
             /\ lists'[l].st = "active"
    BY <1>1, <1>3 DEF ListKnown, CanSee, MineOrShared, CopyOfList
  <1>4. CASE /\ share'[l] = share[l] /\ lists'[l].at = b
             /\ lists[l].st = "active" /\ lists'[l].st \in {"active", "deleted"}
             /\ lists'[l].mine = lists[l].mine
    BY <1>1, <1>4 DEF ListKnown, CanSee, MineOrShared, CopyOfList
  <1>5. CASE /\ lists'[l] = lists[l] /\ share'[l].at = b
             /\ lists[l].st # "absent" /\ ~lists[l].mine
    BY <1>1, <1>5 DEF ListKnown, CanSee, MineOrShared, CopyOfList
  <1> QED
    BY <1>2, <1>3, <1>4, <1>5 DEF ListMoves

\* And so does what is known of an item, whatever becomes of its list.
LEMMA ItemStays ==
  ASSUME TypeOK, TypeOK', Refs, NEW i \in Items, NEW b \in Nat, ItemMoves(i, b),
         \A l \in Lists : ListMoves(l, b),
         NEW t \in Nat, b > t, NEW d, NEW c, ItemKnown(c, i, t, d)
  PROVE  ItemKnown(c, i, t, d)'
  <1> DEFINE l == items[i].list
  <1>0. /\ items[i].st \in {"absent", "live", "deleted"}
        /\ items[i].st # "absent" => /\ l \in Lists /\ lists[l].st # "absent"
                                     /\ ListMoves(l, b)
    BY Rows DEF Refs
  <1>1. ASSUME items[i].st # "absent"
        PROVE  /\ lists[l].st \in {"active", "deleted"} /\ lists[l].at \in Nat
               /\ \/ lists'[l] = lists[l] /\ share'[l] = share[l]
                  \/ /\ share'[l] = share[l] /\ lists'[l].at = b
                     /\ lists[l].st = "active" /\ lists'[l].st \in {"active", "deleted"}
                     /\ lists'[l].mine = lists[l].mine
                  \/ /\ lists'[l] = lists[l] /\ share'[l].at = b /\ ~lists[l].mine
    BY <1>0, <1>1, Rows DEF ListMoves
  <1>2. CASE items'[i] = items[i] /\ items[i].st = "absent"
    BY <1>2 DEF ItemKnown
  <1>3. CASE items'[i] = items[i] /\ items[i].st # "absent"
    BY <1>1, <1>3 DEF ItemKnown, CanSee, MineOrShared, CopyOfItem
  <1>4. CASE /\ items'[i].at = b /\ items[i].st = "absent" /\ items'[i].st = "live"
             /\ lists[items'[i].list].st # "absent"
    <2> DEFINE k == items'[i].list
    <2>0. k \in Lists
      BY <1>4 DEF TypeOK, ItemRow, NoItem
    <2>1. ListMoves(k, b) /\ lists[k].at \in Nat /\ share[k].at \in Nat
      BY <1>4, <2>0, Rows
    <2>2. c[i] = Null
      BY <1>4 DEF ItemKnown
    <2> QED
      BY <1>4, <2>0, <2>1, <2>2 DEF ItemKnown
  <1>5. CASE /\ items'[i].at = b /\ items'[i].list = items[i].list
             /\ \/ items[i].st = "live" /\ items'[i].st \in {"live", "deleted"}
                \/ items[i].st = "deleted" /\ items'[i].st = "deleted"
    BY <1>1, <1>5 DEF ItemKnown, CanSee, MineOrShared, CopyOfItem
  <1> QED
    BY <1>2, <1>3, <1>4, <1>5 DEF ItemMoves

\* And of its good.
LEMMA GoodStays ==
  ASSUME TypeOK, TypeOK', Refs, NEW i \in Items, NEW b \in Nat, Moves(b),
         NEW t \in Nat, b > t, NEW c, GoodKnown(c, i, t)
  PROVE  GoodKnown(c, i, t)'
  <1> DEFINE l == items[i].list
             g == items[i].good
  <1>0. /\ items[i].st \in {"absent", "live", "deleted"} /\ ItemMoves(i, b)
        /\ items[i].st # "absent" => /\ l \in Lists /\ lists[l].st # "absent" /\ g \in Goods
                                     /\ ListMoves(l, b) /\ goods'[g] \in {goods[g], b}
    BY Rows DEF Refs, Moves
  <1>1. CASE items'[i] = items[i] /\ items[i].st # "live"
    BY <1>1 DEF GoodKnown
  <1>2. CASE items'[i] = items[i] /\ items[i].st = "live"
    <2>1. /\ lists[l].st \in {"active", "deleted"} /\ lists[l].at \in Nat
          /\ \/ lists'[l] = lists[l] /\ share'[l] = share[l]
             \/ /\ share'[l] = share[l] /\ lists'[l].at = b
                /\ lists[l].st = "active" /\ lists'[l].st \in {"active", "deleted"}
                /\ lists'[l].mine = lists[l].mine
             \/ /\ lists'[l] = lists[l] /\ share'[l].at = b /\ ~lists[l].mine
      BY <1>0, <1>2, Rows DEF ListMoves
    <2>2. goods'[g] = goods[g] \/ goods'[g] = b
      BY <1>0, <1>2
    <2> QED
      BY <1>2, <2>1, <2>2 DEF GoodKnown, CanSee, MineOrShared
  <1>3. CASE items'[i].at = b
    BY <1>3 DEF GoodKnown
  <1> QED
    BY <1>0, <1>1, <1>2, <1>3 DEF ItemMoves

\* What the later queries have read stays true as well.
LEMMA GoneStays ==
  ASSUME TypeOK, TypeOK', Refs, NEW b \in Nat, Moves(b), b > sync.stamp,
         UNCHANGED <<sync, device>>
  PROVE  /\ \A i \in Items : DeletedItemRead(i) => DeletedItemRead(i)'
         /\ \A l \in Lists : DeletedListRead(l) => DeletedListRead(l)'
         /\ \A l \in Lists : ShareRead(l) => ShareRead(l)'
  <1>0. sync.stamp \in Nat
    BY Rows
  <1>1. ASSUME NEW i \in Items, DeletedItemRead(i) PROVE DeletedItemRead(i)'
    <2> DEFINE l == items[i].list
    <2>1. ItemMoves(i, b) /\ items[i].st \in {"absent", "live", "deleted"}
      BY Rows DEF Moves
    <2>2. CASE items'[i] = items[i] /\ items[i].st # "deleted"
      BY <1>1, <2>2 DEF DeletedItemRead
    <2>3. CASE items'[i] = items[i] /\ items[i].st = "deleted"
      <3>1. l \in Lists /\ lists[l].st # "absent" /\ ListMoves(l, b)
        BY <2>3, Rows DEF Refs, Moves
      <3>2. \/ share'[l] = share[l] /\ lists'[l].mine = lists[l].mine
            \/ share'[l].at = b
        BY <3>1 DEF ListMoves
      <3> QED
        BY <1>0, <1>1, <2>3, <3>2 DEF DeletedItemRead, MineOrShared
    <2>4. CASE items'[i].at = b /\ (items[i].st = "deleted" => items'[i].st = "deleted")
      BY <1>0, <1>1, <2>4 DEF DeletedItemRead
    <2> QED
      BY <2>1, <2>2, <2>3, <2>4 DEF ItemMoves
  <1>2. ASSUME NEW l \in Lists, DeletedListRead(l) PROVE DeletedListRead(l)'
    <2>1. ListMoves(l, b)
      BY DEF Moves
    <2>2. \/ share'[l] = share[l] /\ lists'[l] = lists[l]
          \/ lists'[l].at = b /\ lists[l].st # "deleted"
          \/ lists'[l] = lists[l] /\ share'[l].at = b
      BY <2>1, Rows DEF ListMoves
    <2>3. sync' = sync /\ device' = device
      OBVIOUS
    <2>4. CASE share'[l] = share[l] /\ lists'[l] = lists[l]
      BY <1>2, <2>3, <2>4 DEF DeletedListRead
    <2>5. CASE lists'[l].at = b /\ lists[l].st # "deleted"
      BY <1>0, <1>2, <2>3, <2>5 DEF DeletedListRead
    <2>6. CASE lists'[l] = lists[l] /\ share'[l].at = b
      BY <1>0, <1>2, <2>3, <2>6 DEF DeletedListRead
    <2> QED
      BY <2>2, <2>4, <2>5, <2>6
  <1>3. ASSUME NEW l \in Lists, ShareRead(l) PROVE ShareRead(l)'
    <2>1. share'[l] = share[l] \/ share'[l].at = b
      BY DEF Moves, ListMoves
    <2> QED
      BY <1>0, <1>3, <2>1 DEF ShareRead
  <1> QED
    BY <1>1, <1>2, <1>3

\* A commit keeps the invariant, or is late.
LEMMA WriteKeeps ==
  ASSUME Inv, NEW w \in Writers, WriteAny(w)
  PROVE  Inv'
  <1> DEFINE b == writes[w]
  <1>1. /\ Write(w) /\ Moves(b)
        /\ lists' \in [Lists -> ListRow] /\ items' \in [Items -> ItemRow]
        /\ share' \in [Lists -> ShareRow] /\ goods' \in [Goods -> Nat]
    BY WriteAnyMoves
  <1>2. /\ b \in Nat /\ b <= now /\ writes' \in [Writers -> Nat]
        /\ now' = now /\ sync' = sync /\ device' = device /\ late' \in BOOLEAN
        /\ \A v \in Writers : writes'[v] # 0 => writes'[v] = writes[v]
        /\ ~late' => /\ ~late /\ b > device.since
                     /\ sync.pc \in AfterGoods => b > sync.stamp
    BY <1>1, WriteIs
  <1>3. TypeOK'
    BY <1>1, <1>2 DEF Inv, TypeOK, SyncTypeOK
  <1>4. Refs'
    <2>1. ASSUME NEW l \in Lists, share'[l].st # "absent"
          PROVE  lists'[l].st # "absent" /\ ~lists'[l].mine
      BY <1>1, <2>1, Rows DEF Inv, Refs, Moves, ListMoves
    <2>2. ASSUME NEW i \in Items, items'[i].st # "absent"
          PROVE  lists'[items'[i].list].st # "absent"
      <3>1. items'[i].list \in Lists
        BY <1>1, <2>2 DEF ItemRow, NoItem
      <3>2. lists[items'[i].list].st # "absent"
        BY <1>1, <2>2 DEF Inv, Refs, Moves, ItemMoves
      <3> QED
        BY <1>1, <3>1, <3>2 DEF Moves, ListMoves
    <2> QED
      BY <2>1, <2>2 DEF Refs
  <1>5. Clocks'
    BY <1>2 DEF Inv, Clocks
  <1>6. ASSUME ~late' PROVE DeviceKnows' /\ SyncSound'
    <2>1. TypeOK /\ Refs /\ DeviceKnows /\ SyncSound /\ b > device.since
      BY <1>2, <1>6 DEF Inv
    <2>2. device.since \in Nat /\ sync.stamp \in Nat
      BY <2>1, Rows
    <2>3. ASSUME NEW l \in Lists
          PROVE  ListMoves(l, b) /\ (share[l].st # "absent" => lists[l].st # "absent"
                                                              /\ ~lists[l].mine)
      BY <1>1, <2>1 DEF Moves, Refs
    <2>4. ASSUME NEW t \in Nat, b > t, NEW d, NEW c
          PROVE  /\ \A l \in Lists : ListKnown(c, l, t, d) => ListKnown(c, l, t, d)'
                 /\ \A i \in Items : ItemKnown(c, i, t, d) => ItemKnown(c, i, t, d)'
                 /\ \A i \in Items : GoodKnown(c, i, t) => GoodKnown(c, i, t)'
      <3>1. \A l \in Lists : ListKnown(c, l, t, d) => ListKnown(c, l, t, d)'
        BY <1>2, <1>3, <2>1, <2>3, <2>4, ListStays
      <3>2. \A i \in Items : ItemKnown(c, i, t, d) => ItemKnown(c, i, t, d)'
        BY <1>1, <1>2, <1>3, <2>1, <2>3, <2>4, ItemStays DEF Moves
      <3>3. \A i \in Items : GoodKnown(c, i, t) => GoodKnown(c, i, t)'
        BY <1>1, <1>2, <1>3, <2>1, <2>4, GoodStays
      <3> QED
        BY <3>1, <3>2, <3>3
    <2>5. PICK D, S : D = device /\ S = sync /\ D = device' /\ S = sync'
      BY <1>2
    <2>6. D.since \in Nat /\ b > D.since /\ S.stamp \in Nat
          /\ (S.pc \in AfterGoods => b > S.stamp)
      BY <1>2, <1>6, <2>2, <2>5
    <2>7. DeviceKnows'
      <3>1. /\ \A l \in Lists : ListKnown(D.lists, l, D.since, D.since)
            /\ \A i \in Items : ItemKnown(D.items, i, D.since, D.since)
            /\ \A i \in Items : GoodKnown(D.goods, i, D.since)
        BY <2>1, <2>5 DEF DeviceKnows
      <3>2. \A l \in Lists : ListKnown(D.lists, l, D.since, D.since)'
        BY <2>4, <2>6, <3>1
      <3>3. \A i \in Items : ItemKnown(D.items, i, D.since, D.since)'
        BY <2>4, <2>6, <3>1
      <3>4. \A i \in Items : GoodKnown(D.goods, i, D.since)'
        BY <2>4, <2>6, <3>1
      <3>5. \A l \in Lists : ListKnown(device.lists, l, device.since, device.since)'
        BY <2>5, <3>2 DEF ListKnown
      <3>6. \A i \in Items : ItemKnown(device.items, i, device.since, device.since)'
        BY <2>5, <3>3 DEF ItemKnown
      <3>7. \A i \in Items : GoodKnown(device.goods, i, device.since)'
        BY <2>5, <3>4 DEF GoodKnown
      <3> QED
        BY <3>5, <3>6, <3>7 DEF DeviceKnows
    <2>8. SyncSound'
      <3>1. CASE S.pc \notin AfterGoods
        <4>1. /\ S.pc \notin AfterLists /\ S.pc \notin AfterItems
              /\ S.pc \notin AfterDeletedItems /\ S.pc \notin AfterDeletedLists
              /\ S.pc # "answer"
          BY <3>1 DEF AfterGoods, AfterLists, AfterItems, AfterDeletedItems, AfterDeletedLists,
                      Phases
        <4> QED
          BY <2>5, <3>1, <4>1 DEF SyncSound
      <3>2. CASE S.pc \in AfterGoods
        <4>1. b > S.stamp
          BY <2>6, <3>2
        <4>2. \A i \in Items : GoodRead(i)'
          <5> DEFINE c == Newer(S.goods, D.goods)
          <5>1. \A i \in Items : GoodKnown(c, i, S.stamp)
            BY <2>1, <2>5, <3>2 DEF SyncSound, GoodRead
          <5> HIDE DEF c
          <5>2. \A i \in Items : GoodKnown(c, i, S.stamp)'
            BY <2>4, <2>6, <4>1, <5>1
          <5> QED
            BY <2>5, <5>2 DEF GoodRead, GoodKnown, c
        <4>3. ASSUME S.pc \in AfterLists PROVE \A l \in Lists : ListRead(l)'
          <5> DEFINE c == Newer(S.lists, D.lists)
          <5>1. \A l \in Lists : ListKnown(c, l, S.stamp, D.since)
            BY <2>1, <2>5, <4>3 DEF SyncSound, ListRead
          <5> HIDE DEF c
          <5>2. \A l \in Lists : ListKnown(c, l, S.stamp, D.since)'
            BY <2>4, <2>6, <4>1, <5>1
          <5> QED
            BY <2>5, <5>2 DEF ListRead, ListKnown, c
        <4>4. ASSUME S.pc \in AfterItems PROVE \A i \in Items : ItemRead(i)'
          <5> DEFINE c == Newer(S.items, D.items)
          <5>1. \A i \in Items : ItemKnown(c, i, S.stamp, D.since)
            BY <2>1, <2>5, <4>4 DEF SyncSound, ItemRead
          <5> HIDE DEF c
          <5>2. \A i \in Items : ItemKnown(c, i, S.stamp, D.since)'
            BY <2>4, <2>6, <4>1, <5>1
          <5> QED
            BY <2>5, <5>2 DEF ItemRead, ItemKnown, c
        <4>5. /\ \A i \in Items : DeletedItemRead(i) => DeletedItemRead(i)'
              /\ \A l \in Lists : DeletedListRead(l) => DeletedListRead(l)'
              /\ \A l \in Lists : ShareRead(l) => ShareRead(l)'
          BY <1>1, <1>2, <1>3, <2>1, <2>5, <4>1, GoneStays
        <4> QED
          BY <2>1, <2>5, <4>2, <4>3, <4>4, <4>5 DEF SyncSound
      <3> QED
        BY <3>1, <3>2
    <2> QED
      BY <2>7, <2>8
  <1> QED
    BY <1>3, <1>4, <1>5, <1>6 DEF Inv

(***************************************************************************)
(* The sync                                                                *)
(***************************************************************************)
\* Nothing that was read is forgotten as long as stamp and device stand still.
LEMMA Stays ==
  ASSUME UNCHANGED <<dbVars, device>>, sync'.stamp = sync.stamp
  PROVE  /\ DeviceKnows => DeviceKnows'
         /\ sync'.goods = sync.goods => \A i \in Items : GoodRead(i) => GoodRead(i)'
         /\ sync'.lists = sync.lists => \A l \in Lists : ListRead(l) => ListRead(l)'
         /\ sync'.items = sync.items => \A i \in Items : ItemRead(i) => ItemRead(i)'
         /\ sync'.deletedItems = sync.deletedItems =>
              \A i \in Items : DeletedItemRead(i) => DeletedItemRead(i)'
         /\ sync'.deletedLists = sync.deletedLists =>
              \A l \in Lists : DeletedListRead(l) => DeletedListRead(l)'
  <1> USE DEF dbVars, CanSee, MineOrShared, CopyOfList, CopyOfItem
  <1>1. DeviceKnows => DeviceKnows'
    BY DEF DeviceKnows, ListKnown, ItemKnown, GoodKnown
  <1>2. sync'.goods = sync.goods => \A i \in Items : GoodRead(i) => GoodRead(i)'
    BY DEF GoodRead, GoodKnown
  <1>3. sync'.lists = sync.lists => \A l \in Lists : ListRead(l) => ListRead(l)'
    BY DEF ListRead, ListKnown
  <1>4. sync'.items = sync.items => \A i \in Items : ItemRead(i) => ItemRead(i)'
    BY DEF ItemRead, ItemKnown
  <1>5. sync'.deletedItems = sync.deletedItems =>
          \A i \in Items : DeletedItemRead(i) => DeletedItemRead(i)'
    BY DEF DeletedItemRead
  <1>6. sync'.deletedLists = sync.deletedLists =>
          \A l \in Lists : DeletedListRead(l) => DeletedListRead(l)'
    BY DEF DeletedListRead
  <1> QED
    BY <1>1, <1>2, <1>3, <1>4, <1>5, <1>6

\* The copy that came, or the one that was there.
LEMMA NewerIs ==
  ASSUME NEW answer, NEW old, NEW x \in DOMAIN old
  PROVE  Newer(answer, old)[x] = IF x \in DOMAIN answer THEN answer[x] ELSE old[x]
  BY DEF Newer

\* What each query finds makes its table right up to the stamp.
LEMMA QueriesFind ==
  ASSUME Inv, DeviceKnows
  PROVE  LET t == device.since IN
         /\ \A i \in Items :
              GoodKnown(Newer([g \in GoodsSince(t) |-> goods[g]], device.goods), i, sync.stamp)
         /\ \A l \in Lists :
              ListKnown(Newer([m \in ListsSince(t) |-> CopyOfList(m)], device.lists),
                        l, sync.stamp, t)
         /\ \A i \in Items :
              ItemKnown(Newer([j \in ItemsSince(t) |-> CopyOfItem(j)], device.items),
                        i, sync.stamp, t)
  <1> DEFINE t == device.since
  <1>0. /\ t \in Nat /\ sync.stamp \in Nat /\ Refs
        /\ DOMAIN device.goods = Goods /\ DOMAIN device.lists = Lists
        /\ DOMAIN device.items = Items
    BY Rows DEF Inv, TypeOK
  <1>1. ASSUME NEW i \in Items
        PROVE  GoodKnown(Newer([g \in GoodsSince(t) |-> goods[g]], device.goods), i, sync.stamp)
    <2> DEFINE h == [g \in GoodsSince(t) |-> goods[g]]
               l == items[i].list
               k == items[i].good
    <2> SUFFICES ASSUME items[i].st = "live", CanSee(l), share[l].at <= sync.stamp
                 PROVE  Newer(h, device.goods)[k] = goods[k]
      BY DEF GoodKnown
    <2>1. /\ l \in Lists /\ k \in Goods /\ items[i].at \in Nat /\ share[l].at \in Nat
          /\ goods[k] \in Nat /\ (share[l].st = "absent" => share[l].at = 0)
          /\ (share[l].st # "absent" => ~lists[l].mine)
      BY <1>0, Rows DEF Inv, Refs
    <2>2. Newer(h, device.goods)[k] = IF k \in DOMAIN h THEN h[k] ELSE device.goods[k]
      BY <1>0, <2>1, NewerIs
    <2>3. CASE k \in GoodsSince(t)
      BY <2>2, <2>3
    <2>4. CASE k \notin GoodsSince(t)
      <3>1. ~(goods[k] > t) /\ ~(items[i].at > t) /\ ~JoinedSince(l, t)
        BY <2>1, <2>4 DEF GoodsSince
      <3>2. share[l].at <= t
        BY <1>0, <2>1, <3>1 DEF JoinedSince, CanSee, MineOrShared
      <3>3. device.goods[k] = goods[k]
        BY <1>0, <2>1, <3>1, <3>2 DEF DeviceKnows, GoodKnown
      <3> QED
        BY <2>2, <2>4, <3>3
    <2> QED
      BY <2>3, <2>4
  <1>2. ASSUME NEW l \in Lists
        PROVE  ListKnown(Newer([m \in ListsSince(t) |-> CopyOfList(m)], device.lists),
                         l, sync.stamp, t)
    <2> DEFINE h == [m \in ListsSince(t) |-> CopyOfList(m)]
               c == Newer(h, device.lists)
    <2> SUFFICES ListKnown(c, l, sync.stamp, t)
      OBVIOUS
    <2>1. /\ lists[l].at \in Nat /\ share[l].at \in Nat
          /\ (share[l].st = "absent" => share[l].at = 0)
          /\ (share[l].st # "absent" => ~lists[l].mine)
          /\ share[l].st \in {"absent", "active", "revoked"}
      BY <1>0, Rows DEF Inv, Refs
    <2>2. c[l] = IF l \in ListsSince(t) THEN CopyOfList(l) ELSE device.lists[l]
      BY <1>0, NewerIs
    <2>3. ListKnown(device.lists, l, t, t)
      BY DEF DeviceKnows
    <2> HIDE DEF c
    <2>4. CASE l \in ListsSince(t)
      BY <2>2, <2>4 DEF ListKnown, ListsSince, CanSee
    <2>5. CASE l \notin ListsSince(t)
      <3>1. CanSee(l) => lists[l].at <= t /\ share[l].at <= t
        BY <1>0, <2>1, <2>5 DEF ListsSince, JoinedSince, CanSee, MineOrShared
      <3>2. c[l] = device.lists[l]
        BY <2>2, <2>5
      <3> QED
        BY <1>0, <2>1, <2>3, <3>1, <3>2 DEF ListKnown
    <2> QED
      BY <2>4, <2>5
  <1>3. ASSUME NEW i \in Items
        PROVE  ItemKnown(Newer([j \in ItemsSince(t) |-> CopyOfItem(j)], device.items),
                         i, sync.stamp, t)
    <2> DEFINE h == [j \in ItemsSince(t) |-> CopyOfItem(j)]
               c == Newer(h, device.items)
               l == items[i].list
    <2> SUFFICES ItemKnown(c, i, sync.stamp, t)
      OBVIOUS
    <2>1. /\ items[i].at \in Nat
          /\ items[i].st # "absent" =>
               /\ lists[l].at \in Nat /\ share[l].at \in Nat
               /\ (share[l].st = "absent" => share[l].at = 0)
               /\ (share[l].st # "absent" => ~lists[l].mine)
      BY <1>0, Rows DEF Inv, Refs
    <2>2. c[i] = IF i \in ItemsSince(t) THEN CopyOfItem(i) ELSE device.items[i]
      BY <1>0, NewerIs
    <2>3. ItemKnown(device.items, i, t, t)
      BY DEF DeviceKnows
    <2> HIDE DEF c
    <2>4. CASE i \in ItemsSince(t)
      <3>1. items[i].st = "live" /\ CanSee(l) /\ c[i] = CopyOfItem(i)
        BY <2>2, <2>4 DEF ItemsSince
      <3> QED
        BY <3>1 DEF ItemKnown, CanSee, CopyOfItem
    <2>5. CASE i \notin ItemsSince(t)
      <3>1. items[i].st = "live" /\ CanSee(l) => items[i].at <= t /\ share[l].at <= t
        BY <1>0, <2>1, <2>5 DEF ItemsSince, JoinedSince, CanSee, MineOrShared
      <3>2. c[i] = device.items[i]
        BY <2>2, <2>5
      <3> QED
        BY <1>0, <2>1, <2>3, <3>1, <3>2 DEF ItemKnown
    <2> QED
      BY <2>4, <2>5
  <1> QED
    BY <1>1, <1>2, <1>3

\* What the three queries for what is gone find, they find all of.
LEMMA QueriesFindGone ==
  ASSUME Inv
  PROVE  LET t == device.since IN
         /\ \A i \in DeletedItemsSince(t) : items[i].st = "deleted"
         /\ \A i \in Items :
              items[i].st = "deleted" /\ MineOrShared(items[i].list)
              /\ (items[i].at > t \/ share[items[i].list].at > t)
              => i \in DeletedItemsSince(t)
         /\ \A l \in DeletedListsSince(t) : lists[l].st = "deleted"
         /\ \A l \in Lists :
              lists[l].st = "deleted" /\ (lists[l].mine \/ share[l].st # "absent")
              /\ (lists[l].at > t \/ share[l].at > t) => l \in DeletedListsSince(t)
  <1> DEFINE t == device.since
  <1>0. t \in Nat /\ TypeOK /\ Refs
    BY Rows DEF Inv
  <1>1. ASSUME NEW i \in Items, items[i].st = "deleted", MineOrShared(items[i].list),
               items[i].at > t \/ share[items[i].list].at > t
        PROVE  i \in DeletedItemsSince(t)
    <2> DEFINE l == items[i].list
    <2>1. /\ l \in Lists /\ share[l].at \in Nat
          /\ (share[l].st = "absent" => share[l].at = 0)
          /\ (share[l].st # "absent" => ~lists[l].mine)
      BY <1>0, <1>1, Rows DEF Refs
    <2>2. share[l].at > t => JoinedSince(l, t)
      BY <1>0, <1>1, <2>1 DEF JoinedSince, MineOrShared
    <2> QED
      BY <1>1, <2>2 DEF DeletedItemsSince
  <1> QED
    BY <1>1 DEF DeletedItemsSince, DeletedListsSince

\* The parts of the invariant that a step of the sync has to look after.
LEMMA SyncKeeps ==
  ASSUME Inv, SyncOnly, UNCHANGED now, SyncTypeOK', DOMAIN sync' = DOMAIN NoSync,
         device' \in [since : Nat, lists : [Lists -> ListCopy \cup {Null}],
                      items : [Items -> ItemCopy \cup {Null}], goods : [Goods -> Nat]],
         device'.since \in {device.since, sync.stamp}, sync'.stamp \in {0, sync.stamp},
         ~late => DeviceKnows' /\ SyncSound'
  PROVE  Inv'
  <1>1. TypeOK'
    BY Rows DEF Inv, TypeOK, SyncOnly, dbVars
  <1>2. Refs' /\ Clocks'
    BY DEF Inv, Refs, Clocks, SyncOnly, dbVars
  <1>3. late' = late /\ late \in BOOLEAN
    BY DEF SyncOnly, Inv, TypeOK
  <1> QED
    BY <1>1, <1>2, <1>3 DEF Inv

\* A query: what came is added to the answer, and the rest stands.
LEMMA ReadIs ==
  ASSUME Inv, NEW pc, NEW next, NEW answer, Read(pc, next, answer),
         DOMAIN answer = DOMAIN sync
  PROVE  /\ sync.pc = pc /\ DOMAIN sync' = DOMAIN NoSync /\ sync'.pc = next
         /\ \A f \in DOMAIN NoSync \ {"pc"} : sync'[f] = answer[f]
         /\ SyncOnly /\ UNCHANGED <<now, device>>
         /\ device' \in [since : Nat, lists : [Lists -> ListCopy \cup {Null}],
                         items : [Items -> ItemCopy \cup {Null}], goods : [Goods -> Nat]]
  BY DEF Read, Inv, Clocks, NoSync, TypeOK

\* The query of the goods keeps the invariant: with what it returns, the
\* goods are known up to the stamp.
LEMMA ReadGoodsKeeps ==
  ASSUME Inv, ReadGoods
  PROVE  Inv'
  <1> DEFINE found == [g \in GoodsSince(device.since) |-> goods[g]]
  <1>1. /\ sync.pc = "goods" /\ DOMAIN sync' = DOMAIN NoSync
        /\ sync'.pc = "lists" /\ sync'.goods = found /\ sync'.stamp = sync.stamp
        /\ sync'.lists = sync.lists /\ sync'.items = sync.items
        /\ sync'.deletedItems = sync.deletedItems
        /\ sync'.deletedLists = sync.deletedLists /\ sync'.revoked = sync.revoked
        /\ SyncOnly /\ UNCHANGED <<now, device>>
        /\ device' \in [since : Nat, lists : [Lists -> ListCopy \cup {Null}],
                        items : [Items -> ItemCopy \cup {Null}], goods : [Goods -> Nat]]
    BY ReadIs DEF ReadGoods, Inv, Clocks, NoSync
  <1>2. Told(found, Goods, Nat)
    BY DEF Told, GoodsSince, Inv, TypeOK
  <1>3. SyncTypeOK'
    BY <1>1, <1>2 DEF Inv, TypeOK, SyncTypeOK, Told
  <1>4. ASSUME ~late PROVE DeviceKnows' /\ SyncSound'
    <2>1. DeviceKnows'
      BY <1>1, <1>4, Stays DEF Inv, SyncOnly
    <2>2. \A i \in Items : GoodRead(i)'
      BY <1>1, <1>4, QueriesFind DEF Inv, GoodRead, GoodKnown, CanSee, MineOrShared, SyncOnly,
                                     dbVars
    <2> QED
      BY <1>1, <2>1, <2>2 DEF SyncSound, AfterLists, AfterItems, AfterDeletedItems,
                              AfterDeletedLists
  <1> QED
    BY <1>1, <1>3, <1>4, SyncKeeps

\* The query of the lists keeps the invariant: those it does not return are known.
LEMMA ReadListsKeeps ==
  ASSUME Inv, ReadLists
  PROVE  Inv'
  <1> DEFINE found == [l \in ListsSince(device.since) |-> CopyOfList(l)]
  <1>1. /\ sync.pc = "lists" /\ DOMAIN sync' = DOMAIN NoSync
        /\ sync'.pc = "items" /\ sync'.lists = found /\ sync'.stamp = sync.stamp
        /\ sync'.goods = sync.goods /\ sync'.items = sync.items
        /\ sync'.deletedItems = sync.deletedItems /\ sync'.deletedLists = sync.deletedLists
        /\ sync'.revoked = sync.revoked
        /\ SyncOnly /\ UNCHANGED <<now, device>>
        /\ device' \in [since : Nat, lists : [Lists -> ListCopy \cup {Null}],
                        items : [Items -> ItemCopy \cup {Null}], goods : [Goods -> Nat]]
    BY ReadIs DEF ReadLists, Inv, Clocks, NoSync
  <1>2. Told(found, Lists, ListCopy)
    BY Rows DEF Inv, TypeOK, Told, ListsSince, CopyOfList, ListCopy, CanSee, MineOrShared
  <1>3. SyncTypeOK'
    BY <1>1, <1>2 DEF Inv, TypeOK, SyncTypeOK, Told
  <1>4. ASSUME ~late PROVE DeviceKnows' /\ SyncSound'
    <2>0. DeviceKnows /\ SyncSound
      BY <1>4 DEF Inv
    <2>1. /\ DeviceKnows'
          /\ \A i \in Items : GoodRead(i)'
      BY <1>1, <2>0, Stays DEF SyncOnly, SyncSound, AfterGoods, AfterLists, AfterItems,
                                   AfterDeletedItems, AfterDeletedLists, Phases
    <2>2. \A l \in Lists : ListRead(l)'
      BY <1>1, <2>0, QueriesFind DEF ListRead, ListKnown, CanSee, MineOrShared, CopyOfList,
                                     SyncOnly, dbVars
    <2> QED
      BY <1>1, <2>1, <2>2 DEF SyncSound, AfterGoods, AfterLists, AfterItems, AfterDeletedItems,
                              AfterDeletedLists
  <1> QED
    BY <1>1, <1>3, <1>4, SyncKeeps

\* The query of the items keeps it, whatever the lists were when they were read.
LEMMA ReadItemsKeeps ==
  ASSUME Inv, ReadItems
  PROVE  Inv'
  <1> DEFINE found == [i \in ItemsSince(device.since) |-> CopyOfItem(i)]
  <1>1. /\ sync.pc = "items" /\ DOMAIN sync' = DOMAIN NoSync
        /\ sync'.pc = "deletedItems" /\ sync'.items = found /\ sync'.stamp = sync.stamp
        /\ sync'.goods = sync.goods /\ sync'.lists = sync.lists
        /\ sync'.deletedItems = sync.deletedItems /\ sync'.deletedLists = sync.deletedLists
        /\ sync'.revoked = sync.revoked
        /\ SyncOnly /\ UNCHANGED <<now, device>>
        /\ device' \in [since : Nat, lists : [Lists -> ListCopy \cup {Null}],
                        items : [Items -> ItemCopy \cup {Null}], goods : [Goods -> Nat]]
    BY ReadIs DEF ReadItems, Inv, Clocks, NoSync
  <1>2. Told(found, Items, ItemCopy)
    BY Rows DEF Inv, Told, ItemsSince, CopyOfItem, ItemCopy
  <1>3. SyncTypeOK'
    BY <1>1, <1>2 DEF Inv, TypeOK, SyncTypeOK, Told
  <1>4. ASSUME ~late PROVE DeviceKnows' /\ SyncSound'
    <2>0. DeviceKnows /\ SyncSound
      BY <1>4 DEF Inv
    <2>1. /\ DeviceKnows'
          /\ \A i \in Items : GoodRead(i)'
          /\ \A l \in Lists : ListRead(l)'
      BY <1>1, <2>0, Stays DEF SyncOnly, SyncSound, AfterGoods, AfterLists, AfterItems,
                                   AfterDeletedItems, AfterDeletedLists, Phases
    <2>2. \A i \in Items : ItemRead(i)'
      <3>1. PICK c, t, d : c = Newer(found, device.items) /\ t = sync.stamp /\ d = device.since
        OBVIOUS
      <3>2. \A i \in Items : ItemKnown(c, i, t, d)
        BY <2>0, <3>1, QueriesFind
      <3>3. c = Newer(sync'.items, device'.items) /\ t = sync'.stamp /\ d = device'.since
            /\ UNCHANGED dbVars
        BY <1>1, <3>1 DEF SyncOnly
      <3>4. \A i \in Items : ItemKnown(c, i, t, d)'
        BY <3>2, <3>3 DEF ItemKnown, CanSee, MineOrShared, CopyOfItem, dbVars
      <3> QED
        BY <3>3, <3>4 DEF ItemRead, ItemKnown
    <2> QED
      BY <1>1, <2>1, <2>2 DEF SyncSound, AfterGoods, AfterLists, AfterItems, AfterDeletedItems,
                              AfterDeletedLists
  <1> QED
    BY <1>1, <1>3, <1>4, SyncKeeps

\* The query of the deleted items keeps it: what ended before the watermark is gone
\* from the device already.
LEMMA ReadDeletedItemsKeeps ==
  ASSUME Inv, ReadDeletedItems
  PROVE  Inv'
  <1> DEFINE found == DeletedItemsSince(device.since)
  <1>1. /\ sync.pc = "deletedItems" /\ DOMAIN sync' = DOMAIN NoSync
        /\ sync'.pc = "deletedLists" /\ sync'.deletedItems = found /\ sync'.stamp = sync.stamp
        /\ sync'.goods = sync.goods /\ sync'.lists = sync.lists
        /\ sync'.items = sync.items /\ sync'.deletedLists = sync.deletedLists
        /\ sync'.revoked = sync.revoked
        /\ SyncOnly /\ UNCHANGED <<now, device>>
        /\ device' \in [since : Nat, lists : [Lists -> ListCopy \cup {Null}],
                        items : [Items -> ItemCopy \cup {Null}], goods : [Goods -> Nat]]
    BY ReadIs DEF ReadDeletedItems, Inv, Clocks, NoSync
  <1>2. found \subseteq Items
    BY DEF DeletedItemsSince
  <1>3. SyncTypeOK'
    BY <1>1, <1>2 DEF Inv, TypeOK, SyncTypeOK, Told
  <1>4. ASSUME ~late PROVE DeviceKnows' /\ SyncSound'
    <2>0. DeviceKnows /\ SyncSound
      BY <1>4 DEF Inv
    <2>1. /\ DeviceKnows'
          /\ \A i \in Items : GoodRead(i)'
          /\ \A l \in Lists : ListRead(l)'
          /\ \A i \in Items : ItemRead(i)'
      BY <1>1, <2>0, Stays DEF SyncOnly, SyncSound, AfterGoods, AfterLists, AfterItems,
                                   AfterDeletedItems, AfterDeletedLists, Phases
    <2>2. \A i \in Items : DeletedItemRead(i)'
      BY <1>1, QueriesFindGone DEF DeletedItemRead, MineOrShared, SyncOnly, dbVars
    <2> QED
      BY <1>1, <2>1, <2>2 DEF SyncSound, AfterGoods, AfterLists, AfterItems, AfterDeletedItems,
                              AfterDeletedLists
  <1> QED
    BY <1>1, <1>3, <1>4, SyncKeeps

\* The query of the deleted lists keeps it, for the same reason.
LEMMA ReadDeletedListsKeeps ==
  ASSUME Inv, ReadDeletedLists
  PROVE  Inv'
  <1> DEFINE found == DeletedListsSince(device.since)
  <1>1. /\ sync.pc = "deletedLists" /\ DOMAIN sync' = DOMAIN NoSync
        /\ sync'.pc = "shares" /\ sync'.deletedLists = found /\ sync'.stamp = sync.stamp
        /\ sync'.goods = sync.goods /\ sync'.lists = sync.lists
        /\ sync'.items = sync.items /\ sync'.deletedItems = sync.deletedItems
        /\ sync'.revoked = sync.revoked
        /\ SyncOnly /\ UNCHANGED <<now, device>>
        /\ device' \in [since : Nat, lists : [Lists -> ListCopy \cup {Null}],
                        items : [Items -> ItemCopy \cup {Null}], goods : [Goods -> Nat]]
    BY ReadIs DEF ReadDeletedLists, Inv, Clocks, NoSync
  <1>2. found \subseteq Lists
    BY DEF DeletedListsSince
  <1>3. SyncTypeOK'
    BY <1>1, <1>2 DEF Inv, TypeOK, SyncTypeOK, Told
  <1>4. ASSUME ~late PROVE DeviceKnows' /\ SyncSound'
    <2>0. DeviceKnows /\ SyncSound
      BY <1>4 DEF Inv
    <2>1. /\ DeviceKnows'
          /\ \A i \in Items : GoodRead(i)'
          /\ \A l \in Lists : ListRead(l)'
          /\ \A i \in Items : ItemRead(i)'
          /\ \A i \in Items : DeletedItemRead(i)'
      BY <1>1, <2>0, Stays DEF SyncOnly, SyncSound, AfterGoods, AfterLists, AfterItems,
                                   AfterDeletedItems, AfterDeletedLists, Phases
    <2>2. \A l \in Lists : DeletedListRead(l)'
      BY <1>1, QueriesFindGone DEF DeletedListRead, SyncOnly, dbVars
    <2> QED
      BY <1>1, <2>1, <2>2 DEF SyncSound, AfterGoods, AfterLists, AfterItems, AfterDeletedItems,
                              AfterDeletedLists
  <1> QED
    BY <1>1, <1>3, <1>4, SyncKeeps

\* The query of the revoked memberships, the last, completes the answer.
LEMMA ReadSharesKeeps ==
  ASSUME Inv, ReadShares
  PROVE  Inv'
  <1> DEFINE found == {l \in Lists : share[l].st = "revoked" /\ share[l].at > device.since}
  <1>1. /\ sync.pc = "shares" /\ DOMAIN sync' = DOMAIN NoSync
        /\ sync'.pc = "answer" /\ sync'.revoked = found /\ sync'.stamp = sync.stamp
        /\ sync'.goods = sync.goods /\ sync'.lists = sync.lists
        /\ sync'.items = sync.items /\ sync'.deletedItems = sync.deletedItems
        /\ sync'.deletedLists = sync.deletedLists
        /\ SyncOnly /\ UNCHANGED <<now, device>>
        /\ device' \in [since : Nat, lists : [Lists -> ListCopy \cup {Null}],
                        items : [Items -> ItemCopy \cup {Null}], goods : [Goods -> Nat]]
    BY ReadIs DEF ReadShares, Inv, Clocks, NoSync
  <1>2. found \subseteq Lists
    OBVIOUS
  <1>3. SyncTypeOK'
    BY <1>1, <1>2 DEF Inv, TypeOK, SyncTypeOK, Told
  <1>4. ASSUME ~late PROVE DeviceKnows' /\ SyncSound'
    <2>0. DeviceKnows /\ SyncSound
      BY <1>4 DEF Inv
    <2>1. /\ DeviceKnows'
          /\ \A i \in Items : GoodRead(i)'
          /\ \A l \in Lists : ListRead(l)'
          /\ \A i \in Items : ItemRead(i)'
          /\ \A i \in Items : DeletedItemRead(i)'
          /\ \A l \in Lists : DeletedListRead(l)'
      BY <1>1, <2>0, Stays DEF SyncOnly, SyncSound, AfterGoods, AfterLists, AfterItems,
                                   AfterDeletedItems, AfterDeletedLists, Phases
    <2>2. \A l \in Lists : ShareRead(l)'
      BY <1>1 DEF ShareRead, SyncOnly, dbVars
    <2> QED
      BY <1>1, <2>1, <2>2 DEF SyncSound, AfterGoods, AfterLists, AfterItems, AfterDeletedItems,
                              AfterDeletedLists
  <1> QED
    BY <1>1, <1>3, <1>4, SyncKeeps

\* The clock is read: at the start of a write, or of a sync.
LEMMA ClockKeeps ==
  ASSUME Inv, (\E w \in Writers : WriteBegin(w)) \/ SyncBegin
  PROVE  Inv'
  <1>0. /\ now \in Nat /\ now' = now + 1 /\ now' \in Nat /\ device.since <= now
        /\ sync.stamp <= now /\ device.since \in Nat /\ sync.stamp \in Nat
        /\ writes \in [Writers -> Nat]
        /\ UNCHANGED <<dbVars, device, late>>
    BY Rows DEF Inv, TypeOK, WriteBegin, SyncBegin, ReadClock, SyncOnly
  <1>1. CASE SyncBegin
    <2>1. /\ sync' = [NoSync EXCEPT !.pc = "goods", !.stamp = now'] /\ writes' = writes
      BY <1>1 DEF SyncBegin, SyncOnly
    <2>2. TypeOK'
      BY <1>0, <2>1 DEF Inv, TypeOK, SyncTypeOK, dbVars, NoSync, Nothing, Told
    <2>3. Refs'
      BY <1>0 DEF Inv, Refs, dbVars
    <2>4. Clocks'
      BY <1>0, <2>1 DEF Inv, Clocks, NoSync
    <2>5. late \/ (DeviceKnows' /\ SyncSound')
      <3>1. DeviceKnows => DeviceKnows'
        BY <1>0 DEF DeviceKnows, ListKnown, ItemKnown, GoodKnown, dbVars, CanSee, MineOrShared,
                    CopyOfList, CopyOfItem
      <3>2. sync'.pc = "goods"
        BY <2>1 DEF NoSync
      <3> QED
        BY <3>1, <3>2 DEF Inv, SyncSound, AfterGoods, AfterLists, AfterItems,
                          AfterDeletedItems, AfterDeletedLists
    <2> QED
      BY <1>0, <2>2, <2>3, <2>4, <2>5 DEF Inv
  <1>2. ASSUME NEW w \in Writers, WriteBegin(w) PROVE Inv'
    <2>1. sync' = sync /\ writes' = [writes EXCEPT ![w] = now + 1]
      BY <1>0, <1>2 DEF WriteBegin
    <2>2. TypeOK'
      BY <1>0, <2>1 DEF Inv, TypeOK, SyncTypeOK, dbVars
    <2>3. Refs'
      BY <1>0 DEF Inv, Refs, dbVars
    <2>4. Clocks'
      BY <1>0, <2>1 DEF Inv, Clocks
    <2>5. DeviceKnows /\ SyncSound => DeviceKnows' /\ SyncSound'
      BY <1>0, <2>1, Stays DEF SyncSound, ShareRead, dbVars
    <2> QED
      BY <1>0, <2>2, <2>3, <2>4, <2>5 DEF Inv
  <1> QED
    BY <1>1, <1>2

\* A sync that failed leaves the device as it was.
LEMMA SyncFailKeeps ==
  ASSUME Inv, SyncFail
  PROVE  Inv'
  <1>1. sync' = NoSync /\ UNCHANGED <<now, device>> /\ SyncOnly
    BY DEF SyncFail
  <1>2. SyncTypeOK' /\ DOMAIN sync' = DOMAIN NoSync /\ sync'.stamp = 0 /\ sync'.pc = "idle"
    BY <1>1, Rows DEF Inv, SyncTypeOK, NoSync, Nothing, Told
  <1>3. DeviceKnows => DeviceKnows'
    BY <1>1 DEF DeviceKnows, ListKnown, ItemKnown, GoodKnown, dbVars, CanSee, MineOrShared,
                CopyOfList, CopyOfItem, SyncOnly
  <1>4. SyncSound'
    BY <1>2 DEF SyncSound, AfterGoods, AfterLists, AfterItems, AfterDeletedItems,
                AfterDeletedLists
  <1> QED
    BY <1>1, <1>2, <1>3, <1>4, SyncKeeps DEF Inv, TypeOK

\* The device once it has taken the answer.
LEMMA Taken ==
  ASSUME Inv, SyncAnswer
  PROVE  LET gone == sync.deletedLists \cup sync.revoked
             cameL == Newer(sync.lists, device.lists)
             cameI == Newer(sync.items, device.items)
         IN
         /\ device'.since = sync.stamp
         /\ device'.goods = Newer(sync.goods, device.goods)
         /\ device'.lists = [l \in Lists |-> IF l \in gone THEN Null ELSE cameL[l]]
         /\ device'.items = [i \in Items |->
              IF i \in sync.deletedItems \/ (cameI[i] # Null /\ cameI[i].list \in gone)
              THEN Null ELSE cameI[i]]
         /\ device' \in [since : Nat, lists : [Lists -> ListCopy \cup {Null}],
                         items : [Items -> ItemCopy \cup {Null}], goods : [Goods -> Nat]]
  <1> DEFINE gone == sync.deletedLists \cup sync.revoked
             cameL == Newer(sync.lists, device.lists)
             cameI == Newer(sync.items, device.items)
             cameG == Newer(sync.goods, device.goods)
             dl == [l \in Lists |-> IF l \in gone THEN Null ELSE cameL[l]]
             di == [i \in Items |->
                IF i \in sync.deletedItems \/ (cameI[i] # Null /\ cameI[i].list \in gone)
                THEN Null ELSE cameI[i]]
  <1>0. /\ device \in [since : Nat, lists : [Lists -> ListCopy \cup {Null}],
                       items : [Items -> ItemCopy \cup {Null}], goods : [Goods -> Nat]]
        /\ Told(sync.goods, Goods, Nat) /\ Told(sync.lists, Lists, ListCopy)
        /\ Told(sync.items, Items, ItemCopy) /\ sync.stamp \in Nat
    BY Rows DEF Inv, TypeOK, SyncTypeOK
  <1>1. cameL \in [Lists -> ListCopy \cup {Null}]
    BY <1>0 DEF Newer, Told
  <1>2. cameI \in [Items -> ItemCopy \cup {Null}]
    BY <1>0 DEF Newer, Told
  <1>3. cameG \in [Goods -> Nat]
    BY <1>0 DEF Newer, Told
  <1>4. device' = [[device EXCEPT !.goods = cameG, !.lists = dl, !.items = di]
                     EXCEPT !.since = sync.stamp]
    BY DEF SyncAnswer, Applied
  <1> HIDE DEF cameL, cameI, cameG
  <1>5. dl \in [Lists -> ListCopy \cup {Null}] /\ di \in [Items -> ItemCopy \cup {Null}]
    BY <1>1, <1>2
  <1> HIDE DEF dl, di
  <1>6. /\ device'.since = sync.stamp /\ device'.goods = cameG
        /\ device'.lists = dl /\ device'.items = di
        /\ device' \in [since : Nat, lists : [Lists -> ListCopy \cup {Null}],
                        items : [Items -> ItemCopy \cup {Null}], goods : [Goods -> Nat]]
    BY <1>0, <1>3, <1>4, <1>5
  <1> QED
    BY <1>6 DEF cameL, cameI, cameG, dl, di

\* After the answer the device knows everything up to the stamp.
LEMMA SyncAnswerKeeps ==
  ASSUME Inv, SyncAnswer
  PROVE  Inv'
  <1> DEFINE t == sync.stamp
             d == device.since
             gone == sync.deletedLists \cup sync.revoked
             cameL == Newer(sync.lists, device.lists)
             cameI == Newer(sync.items, device.items)
             cameG == Newer(sync.goods, device.goods)
             dl == [l \in Lists |-> IF l \in gone THEN Null ELSE cameL[l]]
             di == [i \in Items |->
                IF i \in sync.deletedItems \/ (cameI[i] # Null /\ cameI[i].list \in gone)
                THEN Null ELSE cameI[i]]
  <1>1. /\ device'.since = t /\ device'.goods = cameG
        /\ device'.lists = dl /\ device'.items = di
        /\ device' \in [since : Nat, lists : [Lists -> ListCopy \cup {Null}],
                        items : [Items -> ItemCopy \cup {Null}], goods : [Goods -> Nat]]
    BY Taken
  <1>2. sync.pc = "answer" /\ sync' = NoSync /\ now' = now /\ SyncOnly
    BY DEF SyncAnswer
  <1>3. SyncTypeOK' /\ DOMAIN sync' = DOMAIN NoSync /\ sync'.stamp = 0 /\ sync'.pc = "idle"
    BY <1>2, Rows DEF Inv, SyncTypeOK, NoSync, Nothing, Told
  <1>4. SyncSound'
    BY <1>3 DEF SyncSound, AfterGoods, AfterLists, AfterItems, AfterDeletedItems,
                AfterDeletedLists
  <1>5. ASSUME ~late PROVE DeviceKnows'
    <2>0. /\ Refs /\ t \in Nat /\ d \in Nat
          /\ \A i \in Items : GoodKnown(cameG, i, t) /\ ItemKnown(cameI, i, t, d)
                              /\ DeletedItemRead(i)
          /\ \A l \in Lists : ListKnown(cameL, l, t, d) /\ DeletedListRead(l) /\ ShareRead(l)
      BY <1>2, <1>5, Rows DEF Inv, SyncSound, GoodRead, ItemRead, ListRead, AfterGoods,
           AfterLists, AfterItems, AfterDeletedItems, AfterDeletedLists, Phases
    <2> HIDE DEF cameL, cameI, cameG
    <2>1. ASSUME NEW l \in Lists
          PROVE  /\ lists[l].at \in Nat /\ share[l].at \in Nat
                 /\ share[l].st \in {"absent", "active", "revoked"}
                 /\ lists[l].st \in {"absent", "active", "deleted"}
                 /\ (share[l].st = "absent" => share[l].at = 0)
                 /\ (share[l].st # "absent" => ~lists[l].mine)
                 /\ CanSee(l) /\ share[l].at <= t => l \notin gone
                 /\ ~MineOrShared(l) /\ share[l].at <= t /\ share[l].at > d => l \in gone
                 /\ lists[l].st = "deleted" /\ lists[l].at <= t /\ share[l].at <= t
                    /\ (lists[l].at > d \/ share[l].at > d)
                    /\ (MineOrShared(l) \/ share[l].st # "absent") => l \in gone
      <3>1. /\ lists[l].at \in Nat /\ share[l].at \in Nat
            /\ share[l].st \in {"absent", "active", "revoked"}
            /\ lists[l].st \in {"absent", "active", "deleted"}
            /\ (share[l].st = "absent" => share[l].at = 0)
            /\ (share[l].st # "absent" => ~lists[l].mine)
        BY <2>0, Rows DEF Inv, Refs
      <3>2. DeletedListRead(l) /\ ShareRead(l)
        BY <2>0
      <3>3. CanSee(l) /\ share[l].at <= t => l \notin gone
        BY <2>0, <3>1, <3>2 DEF DeletedListRead, ShareRead, CanSee, MineOrShared
      <3>4. ~MineOrShared(l) /\ share[l].at <= t /\ share[l].at > d => l \in gone
        BY <2>0, <3>1, <3>2 DEF ShareRead, MineOrShared
      <3>5. lists[l].st = "deleted" /\ lists[l].at <= t /\ share[l].at <= t
            /\ (lists[l].at > d \/ share[l].at > d)
            /\ (MineOrShared(l) \/ share[l].st # "absent") => l \in gone
        BY <3>1, <3>2 DEF DeletedListRead, MineOrShared
      <3> QED
        BY <3>1, <3>3, <3>4, <3>5
    <2> HIDE DEF gone
    <2>2. ASSUME NEW l \in Lists PROVE ListKnown(dl, l, t, t)
      <3>1. dl[l] = IF l \in gone THEN Null ELSE cameL[l]
        OBVIOUS
      <3>2. ListKnown(cameL, l, t, d)
        BY <2>0
      <3> HIDE DEF dl
      <3>3. CanSee(l) /\ lists[l].at <= t /\ share[l].at <= t => dl[l] = CopyOfList(l)
        BY <2>1, <3>1, <3>2 DEF ListKnown
      <3>4. ~MineOrShared(l) /\ share[l].at <= t => dl[l] = Null
        BY <2>1, <3>1, <3>2 DEF ListKnown
      <3>5. lists[l].st = "deleted" /\ lists[l].at <= t /\ share[l].at <= t => dl[l] = Null
        <4> SUFFICES ASSUME lists[l].st = "deleted", lists[l].at <= t, share[l].at <= t,
                            l \notin gone
                     PROVE  dl[l] = Null
          BY <3>1
        <4>1. cameL[l] = Null \/ lists[l].at > d \/ share[l].at > d
          BY <3>2 DEF ListKnown
        <4>2. CASE lists[l].at > d \/ share[l].at > d
          <5>1. ~MineOrShared(l) /\ share[l].st = "absent" /\ share[l].at = 0
            BY <2>1, <4>2
          <5> QED
            BY <2>0, <2>1, <3>4, <5>1
        <4> QED
          BY <3>1, <4>1, <4>2
      <3> QED
        BY <2>0, <2>1, <3>3, <3>4, <3>5 DEF ListKnown
    <2>3. ASSUME NEW i \in Items PROVE ItemKnown(di, i, t, t)
      <3> DEFINE l == items[i].list
      <3>1. di[i] = IF i \in sync.deletedItems \/ (cameI[i] # Null /\ cameI[i].list \in gone)
                    THEN Null ELSE cameI[i]
        OBVIOUS
      <3>2. ItemKnown(cameI, i, t, d) /\ DeletedItemRead(i)
        BY <2>0
      <3>3. items[i].at \in Nat /\ (items[i].st # "absent" => l \in Lists)
        BY Rows DEF Inv
      <3> HIDE DEF di
      <3>4. di[i] # Null => items[i].st # "absent" /\ di[i].list = l
        BY <3>1, <3>2 DEF ItemKnown
      <3>5. ASSUME items[i].st # "absent", l \in Lists
            PROVE  /\ items[i].st = "live" /\ CanSee(l) /\ items[i].at <= t /\ share[l].at <= t
                        => di[i] = CopyOfItem(i)
                   /\ ~MineOrShared(l) /\ share[l].at <= t => di[i] = Null
                   /\ items[i].st = "deleted" /\ items[i].at <= t /\ share[l].at <= t
                        => di[i] = Null
                   /\ lists[l].st = "deleted" /\ lists[l].at <= t /\ share[l].at <= t
                        => di[i] = Null
        <4>0. cameI[i] # Null => cameI[i].list = l
          BY <3>2 DEF ItemKnown
        <4>1. items[i].st = "live" /\ CanSee(l) /\ items[i].at <= t /\ share[l].at <= t
                => di[i] = CopyOfItem(i)
          BY <2>1, <3>1, <3>2, <3>5, <4>0 DEF ItemKnown, DeletedItemRead
        <4>2. ~MineOrShared(l) /\ share[l].at <= t => di[i] = Null
          BY <2>1, <3>1, <3>2, <3>5, <4>0 DEF ItemKnown
        <4>3. items[i].st = "deleted" /\ items[i].at <= t /\ share[l].at <= t => di[i] = Null
          BY <3>1, <3>2, <3>5, <4>2 DEF ItemKnown, DeletedItemRead
        <4>4. lists[l].st = "deleted" /\ lists[l].at <= t /\ share[l].at <= t => di[i] = Null
          <5> SUFFICES ASSUME lists[l].st = "deleted", lists[l].at <= t, share[l].at <= t,
                              l \notin gone
                       PROVE  di[i] = Null
            BY <3>1, <4>0
          <5>1. cameI[i] = Null \/ lists[l].at > d \/ share[l].at > d
            BY <3>2, <3>5 DEF ItemKnown
          <5>2. CASE lists[l].at > d \/ share[l].at > d
            <6>1. ~MineOrShared(l) /\ share[l].st = "absent" /\ share[l].at = 0
              BY <2>1, <3>5, <5>2
            <6> QED
              BY <2>0, <4>2, <6>1
          <5> QED
            BY <3>1, <5>1, <5>2
        <4> QED
          BY <4>1, <4>2, <4>3, <4>4
      <3> QED
        BY <3>3, <3>4, <3>5 DEF ItemKnown
    <2> HIDE DEF dl, di
    <2>4. PICK L, I, G, T : L = dl /\ I = di /\ G = cameG /\ T = t
      OBVIOUS
    <2>5. /\ \A l \in Lists : ListKnown(L, l, T, T)
          /\ \A i \in Items : ItemKnown(I, i, T, T) /\ GoodKnown(G, i, T)
      BY <2>0, <2>2, <2>3, <2>4
    <2>6. /\ \A l \in Lists : ListKnown(L, l, T, T)'
          /\ \A i \in Items : ItemKnown(I, i, T, T)' /\ GoodKnown(G, i, T)'
      <3> USE <1>2, <2>5 DEF SyncOnly, dbVars, CanSee, MineOrShared
      <3>1. \A l \in Lists : ListKnown(L, l, T, T)'
        BY DEF ListKnown, CopyOfList
      <3>2. \A i \in Items : ItemKnown(I, i, T, T)'
        BY DEF ItemKnown, CopyOfItem
      <3>3. \A i \in Items : GoodKnown(G, i, T)'
        BY DEF GoodKnown
      <3> QED
        BY <3>1, <3>2, <3>3
    <2>7. L = device'.lists /\ I = device'.items /\ G = device'.goods /\ T = device'.since
      BY <1>1, <2>4
    <2> QED
      BY <2>6, <2>7 DEF DeviceKnows, ListKnown, ItemKnown, GoodKnown
  <1> QED
    BY <1>1, <1>2, <1>3, <1>4, <1>5, SyncKeeps

(***************************************************************************)
(* Theorems                                                                *)
(***************************************************************************)
\* A device that has never synced, before the first write.
LEMMA InitHolds == Init => Inv
  <1> SUFFICES ASSUME Init PROVE Inv
    OBVIOUS
  <1>0. /\ now = 1 /\ late = FALSE /\ sync = NoSync
        /\ lists = [l \in Lists |-> NoList] /\ items = [i \in Items |-> NoItem]
        /\ share = [l \in Lists |-> NoShare] /\ goods = [g \in Goods |-> 1]
        /\ writes = [w \in Writers |-> 0]
        /\ device = [since |-> 0, lists |-> [l \in Lists |-> Null],
                     items |-> [i \in Items |-> Null], goods |-> [g \in Goods |-> 0]]
    BY DEF Init
  <1>1. SyncTypeOK
    BY <1>0 DEF SyncTypeOK, NoSync, Nothing, Told
  <1>2. TypeOK
    <2>1. NoList \in ListRow /\ NoItem \in ItemRow /\ NoShare \in ShareRow
      BY DEF ListRow, ItemRow, ShareRow
    <2>2. /\ lists \in [Lists -> ListRow] /\ items \in [Items -> ItemRow]
          /\ share \in [Lists -> ShareRow] /\ goods \in [Goods -> Nat]
          /\ writes \in [Writers -> Nat]
      BY <1>0, <2>1
    <2>3. device \in [since : Nat, lists : [Lists -> ListCopy \cup {Null}],
                     items : [Items -> ItemCopy \cup {Null}], goods : [Goods -> Nat]]
      BY <1>0
    <2>4. late \in BOOLEAN
      BY <1>0
    <2>5. device.since = 0
      BY <1>0
    <2>6. now \in Nat /\ device.since <= now
      BY <1>0, <2>5
    <2> QED
      BY <1>1, <2>2, <2>3, <2>4, <2>6 DEF TypeOK
  <1>3. Refs /\ Clocks
    BY <1>0 DEF Refs, Clocks, NoShare, NoItem
  <1>4. DeviceKnows
    <2>1. /\ \A l \in Lists : lists[l].st = "absent" /\ share[l].st = "absent"
                              /\ ~lists[l].mine /\ device.lists[l] = Null
          /\ \A i \in Items : items[i].st = "absent" /\ device.items[i] = Null
      BY <1>0 DEF NoList, NoShare, NoItem
    <2> QED
      BY <2>1 DEF DeviceKnows, ListKnown, ItemKnown, GoodKnown, CanSee
  <1>5. SyncSound
    BY <1>0 DEF SyncSound, NoSync, AfterGoods, AfterLists, AfterItems, AfterDeletedItems,
                AfterDeletedLists
  <1> QED
    BY <1>2, <1>3, <1>4, <1>5 DEF Inv

\* Every step keeps the invariant.
LEMMA StepKeeps == Inv /\ [Next]_vars => Inv'
  <1> SUFFICES ASSUME Inv, [Next]_vars PROVE Inv'
    OBVIOUS
  <1>1. CASE UNCHANGED vars
    <2>1. TypeOK'
      BY <1>1 DEF vars, Inv, TypeOK, SyncTypeOK
    <2>2. Refs' /\ Clocks' /\ late' = late
      BY <1>1 DEF vars, Inv, Refs, Clocks
    <2>3. DeviceKnows /\ SyncSound => DeviceKnows' /\ SyncSound'
      BY <1>1, Stays DEF vars, dbVars, SyncSound, ShareRead
    <2> QED
      BY <2>1, <2>2, <2>3 DEF Inv, TypeOK
  <1>2. CASE \E w \in Writers : WriteBegin(w) \/ WriteAny(w)
    BY <1>2, ClockKeeps, WriteKeeps
  <1>3. CASE SyncStep
    BY <1>3, ClockKeeps, ReadGoodsKeeps, ReadListsKeeps, ReadItemsKeeps, ReadDeletedItemsKeeps,
       ReadDeletedListsKeeps, ReadSharesKeeps, SyncAnswerKeeps, SyncFailKeeps DEF SyncStep
  <1> QED
    BY <1>1, <1>2, <1>3 DEF Next

\* What the device knows is what the three promises ask of it.
LEMMA KnowsIsRight ==
  ASSUME Inv, ~late
  PROVE  ListsRight /\ ItemsRight /\ GoodsRight
  <1>0. DeviceKnows /\ Refs /\ device.since \in Nat /\ Null \notin Lists
    BY Rows, SyncAssumption DEF Inv
  <1>1. ASSUME NEW l \in Lists, Settled(l)
        PROVE  /\ lists[l].at <= device.since /\ share[l].at <= device.since
               /\ lists[l].at \in Nat /\ share[l].at \in Nat
               /\ lists[l].st \in {"absent", "active", "deleted"}
               /\ (lists[l].st = "absent" => ~lists[l].mine /\ share[l].st = "absent")
    BY <1>0, <1>1, Rows DEF Inv, Refs, Settled
  <1>2. ASSUME NEW l \in Lists, Settled(l)
        PROVE  device.lists[l] = IF CanSee(l) THEN CopyOfList(l) ELSE Null
    <2>1. ListKnown(device.lists, l, device.since, device.since)
      BY <1>0 DEF DeviceKnows
    <2> QED
      BY <1>0, <1>1, <1>2, <2>1 DEF ListKnown, CanSee, MineOrShared
  <1>3. ASSUME NEW i \in Items, items[i].at < device.since, Settled(items[i].list)
        PROVE  device.items[i] = IF items[i].st = "live" /\ CanSee(items[i].list)
                                 THEN CopyOfItem(i) ELSE Null
    <2> DEFINE l == items[i].list
    <2>1. ItemKnown(device.items, i, device.since, device.since)
      BY <1>0 DEF DeviceKnows
    <2>2. /\ items[i].st \in {"absent", "live", "deleted"} /\ items[i].at \in Nat
          /\ items[i].st # "absent" => l \in Lists
      BY Rows DEF Inv
    <2>3. CASE items[i].st = "absent"
      BY <2>1, <2>3 DEF ItemKnown
    <2>4. CASE items[i].st # "absent"
      <3>1. /\ l \in Lists
            /\ lists[l].at <= device.since /\ share[l].at <= device.since
            /\ lists[l].at \in Nat /\ share[l].at \in Nat
            /\ lists[l].st \in {"absent", "active", "deleted"}
            /\ (lists[l].st = "absent" => ~lists[l].mine /\ share[l].st = "absent")
        BY <1>1, <1>3, <2>2, <2>4
      <3> QED
        BY <1>0, <1>3, <2>1, <2>2, <2>4, <3>1 DEF ItemKnown, CanSee, MineOrShared
    <2> QED
      BY <2>3, <2>4
  <1>4. ASSUME NEW i \in Items, items[i].st = "live", CanSee(items[i].list),
               items[i].at < device.since, Settled(items[i].list),
               goods[items[i].good] < device.since
        PROVE  device.goods[items[i].good] = goods[items[i].good]
    <2>1. /\ items[i].list \in Lists /\ items[i].good \in Goods /\ items[i].at \in Nat
          /\ goods[items[i].good] \in Nat
      BY <1>4, Rows DEF Inv
    <2>2. GoodKnown(device.goods, i, device.since)
      BY <1>0 DEF DeviceKnows
    <2>3. share[items[i].list].at <= device.since
      BY <1>1, <1>4, <2>1
    <2> QED
      BY <1>0, <1>4, <2>1, <2>2, <2>3 DEF GoodKnown
  <1> QED
    BY <1>2, <1>3, <1>4 DEF ListsRight, ItemsRight, GoodsRight

\* Inv is inductive: while a sync reads table after table and others write, what
\* it has read of each stays right up to its stamp.
THEOREM Invariant == Spec => []Inv
  <1>1. Init => Inv
    BY InitHolds
  <1>2. Inv /\ [Next]_vars => Inv'
    BY StepKeeps
  <1> QED
    BY <1>1, <1>2, PTL DEF Spec

\* Tables, sync and device keep their types, and no watermark is ahead of the clock.
THEOREM TypeCorrect == Spec => []TypeOK
  <1>1. Inv => TypeOK
    BY DEF Inv
  <1> QED
    BY <1>1, Invariant, PTL

\* Whatever settled before a device's watermark is on the device, and nothing
\* else: each list with the caller's access (handlers/api.go:1115)...
THEOREM ListsFollow == Spec => []ListsCatchUp
  <1>1. Inv => ListsCatchUp
    BY KnowsIsRight DEF ListsCatchUp
  <1> QED
    BY <1>1, Invariant, PTL

\* ...each item of those lists, which come and go with a membership although they
\* have not changed themselves (repository/accessible.go:25)...
THEOREM ItemsFollow == Spec => []ItemsCatchUp
  <1>1. Inv => ItemsCatchUp
    BY KnowsIsRight DEF ItemsCatchUp
  <1> QED
    BY <1>1, Invariant, PTL

\* ...and the good of each of those items, of whatever owner
\* (repository/accessible.go:140).
THEOREM GoodsFollow == Spec => []GoodsCatchUp
  <1>1. Inv => GoodsCatchUp
    BY KnowsIsRight DEF GoodsCatchUp
  <1> QED
    BY <1>1, Invariant, PTL
=============================================================================

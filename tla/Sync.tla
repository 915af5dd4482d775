-------------------------------- MODULE Sync --------------------------------
(***************************************************************************)
(* Incremental sync: one device of one caller, which keeps a copy of every *)
(* list the caller can see and brings it up to date with POST /sync/batch, *)
(* while the caller's other devices and other owners write.                *)
(*                                                                         *)
(* A row carries updated_at, which is now(), the time its statement (or    *)
(* transaction) began; it can be read once the statement has committed.    *)
(* So a write is two steps, and a sync may run between them.  A sync takes *)
(* the time, runs one query after the other, and answers; the device asks  *)
(* again from the time it was told.  Every reading of the clock gives      *)
(* another time.                                                           *)
(*                                                                         *)
(* A row's time of its last write stands for its columns.  The catalogue   *)
(* rows of other owners are here as goods; their offers, stores and prices *)
(* are queried by the same rule.  No tombstone is pruned: the device syncs *)
(* within the retention.  A device that has never synced asks from a time  *)
(* before all rows, 0.                                                     *)
(***************************************************************************)
EXTENDS Integers

CONSTANTS
  Lists, Items,
  Goods,       \* goods of other owners
  Writers,     \* the writes under way at a time
  Null,
  MaxTime      \* bound on the clock

ASSUME SyncAssumption ==
  /\ Null \notin Lists \cup Goods
  /\ MaxTime \in Nat

VARIABLES
  now,        \* the clock of the server and of the database
  lists,      \* shopping_lists; mine: the caller is the author
  items,      \* list_items
  share,      \* the caller's rows of list_shares, by list
  goods,      \* updated_at of each good
  writes,     \* when each write under way began; 0 for none
  sync,       \* the sync under way: what it has read so far
  device,     \* the copies on the device and the watermark it has
  late        \* history: a write was committed behind a sync's back

dbVars == <<lists, items, share, goods>>
vars == <<now, lists, items, share, goods, writes, sync, device, late>>

Access == {"view", "edit"}
NoList  == [st |-> "absent", mine |-> FALSE, at |-> 0]
NoItem  == [st |-> "absent", list |-> Null, good |-> Null, at |-> 0]
NoShare == [st |-> "absent", access |-> Null, at |-> 0]
ListRow  == {NoList} \cup [st : {"active", "deleted"}, mine : BOOLEAN, at : Nat]
ItemRow  == {NoItem} \cup [st : {"live", "deleted"}, list : Lists, good : Goods, at : Nat]
ShareRow == {NoShare} \cup [st : {"active", "revoked"}, access : Access, at : Nat]

\* What a device is told of a row.
ListCopy == [access : Access \cup {"owner"}, at : Nat]
ItemCopy == [list : Lists, good : Goods, at : Nat]

Nothing == [x \in {} |-> Null]
NoSync == [pc |-> "idle", stamp |-> 0, goods |-> Nothing, lists |-> Nothing,
           items |-> Nothing, deletedItems |-> {}, deletedLists |-> {}, revoked |-> {}]

Told(told, Rows, Copy) ==
  DOMAIN told \subseteq Rows /\ \A x \in DOMAIN told : told[x] \in Copy
SyncTypeOK ==
  /\ sync.pc \in {"idle", "goods", "lists", "items", "deletedItems",
                 "deletedLists", "shares", "answer"}
  /\ sync.stamp \in 0..now
  /\ Told(sync.goods, Goods, Nat)
  /\ Told(sync.lists, Lists, ListCopy)
  /\ Told(sync.items, Items, ItemCopy)
  /\ sync.deletedItems \subseteq Items
  /\ sync.deletedLists \cup sync.revoked \subseteq Lists

\* No watermark is ahead of the clock.
TypeOK ==
  /\ now \in Nat
  /\ lists \in [Lists -> ListRow]
  /\ items \in [Items -> ItemRow]
  /\ share \in [Lists -> ShareRow]
  /\ goods \in [Goods -> Nat]
  /\ writes \in [Writers -> Nat]
  /\ SyncTypeOK
  /\ device \in [since : Nat, lists : [Lists -> ListCopy \cup {Null}],
                 items : [Items -> ItemCopy \cup {Null}], goods : [Goods -> Nat]]
  /\ device.since <= now
  /\ late \in BOOLEAN

Init ==
  /\ now = 1
  /\ lists = [l \in Lists |-> NoList]
  /\ items = [i \in Items |-> NoItem]
  /\ share = [l \in Lists |-> NoShare]
  /\ goods = [g \in Goods |-> 1]
  /\ writes = [w \in Writers |-> 0]
  /\ sync = NoSync
  /\ device = [since |-> 0, lists |-> [l \in Lists |-> Null],
               items |-> [i \in Items |-> Null], goods |-> [g \in Goods |-> 0]]
  /\ late = FALSE

ReadClock == now < MaxTime /\ now' = now + 1

(***************************************************************************)
(* Writes                                                                  *)
(***************************************************************************)
WriteBegin(w) ==
  /\ writes[w] = 0
  /\ ReadClock
  /\ writes' = [writes EXCEPT ![w] = now']
  /\ UNCHANGED <<dbVars, sync, device, late>>

\* A write that began before a sync took the time, and of which some query of
\* that sync knew nothing.
Overtaken(began) == \/ began < device.since
                    \/ began < sync.stamp /\ sync.pc # "goods"

Write(w) == /\ writes[w] # 0
            /\ writes' = [writes EXCEPT ![w] = 0]
            /\ late' = (late \/ Overtaken(writes[w]))
            /\ UNCHANGED <<now, sync, device>>

\* A list is created, or renamed by its author.
PutList(w, l, mine) ==
  /\ Write(w)
  /\ lists[l].st = "absent" \/ (lists[l].st = "active" /\ lists[l].mine = mine)
  /\ lists' = [lists EXCEPT ![l] = [st |-> "active", mine |-> mine, at |-> writes[w]]]
  /\ UNCHANGED <<items, share, goods>>

DropList(w, l) ==
  /\ Write(w)
  /\ lists[l].st = "active"
  /\ lists' = [lists EXCEPT ![l].st = "deleted", ![l].at = writes[w]]
  /\ UNCHANGED <<items, share, goods>>

\* The handler has read the list in an earlier statement; it may be gone by now.
AddItem(w, i, l, g) ==
  /\ Write(w)
  /\ items[i].st = "absent" /\ lists[l].st # "absent"
  /\ items' = [items EXCEPT ![i] = [st |-> "live", list |-> l, good |-> g,
                                    at |-> writes[w]]]
  /\ UNCHANGED <<lists, share, goods>>

PatchItem(w, i) ==
  /\ Write(w)
  /\ items[i].st = "live" /\ lists[items[i].list].st = "active"
  /\ items' = [items EXCEPT ![i].at = writes[w]]
  /\ UNCHANGED <<lists, share, goods>>

DropItem(w, i) ==
  /\ Write(w)
  /\ items[i].st = "live"
  /\ items' = [items EXCEPT ![i].st = "deleted", ![i].at = writes[w]]
  /\ UNCHANGED <<lists, share, goods>>

\* The caller accepts an invitation, again perhaps.  The list was read before the
\* commit and may be gone by now.
Join(w, l, a) ==
  /\ Write(w)
  /\ lists[l].st # "absent" /\ ~lists[l].mine
  /\ share' = [share EXCEPT ![l] = [st |-> "active", access |-> a, at |-> writes[w]]]
  /\ UNCHANGED <<lists, items, goods>>

ChangeAccess(w, l, a) ==
  /\ Write(w)
  /\ share[l].st = "active"
  /\ share' = [share EXCEPT ![l].access = a, ![l].at = writes[w]]
  /\ UNCHANGED <<lists, items, goods>>

Leave(w, l) ==
  /\ Write(w)
  /\ share[l].st = "active"
  /\ share' = [share EXCEPT ![l].st = "revoked", ![l].at = writes[w]]
  /\ UNCHANGED <<lists, items, goods>>

TouchGood(w, g) ==
  /\ Write(w)
  /\ goods' = [goods EXCEPT ![g] = writes[w]]
  /\ UNCHANGED <<lists, items, share>>

\* Another owner merges two goods: all items of the one, deleted ones and those of
\* deleted lists too, become items of the other, on the lists the merging owner
\* has authored.
MergeGoods(w, from, to, authored) ==
  /\ Write(w)
  /\ from # to
  /\ goods' = [goods EXCEPT ![from] = writes[w], ![to] = writes[w]]
  /\ items' = [i \in Items |->
       IF items[i].good = from /\ items[i].list \in authored
       THEN [items[i] EXCEPT !.good = to, !.at = writes[w]] ELSE items[i]]
  /\ UNCHANGED <<lists, share>>

(***************************************************************************)
(* POST /sync/batch                                                        *)
(***************************************************************************)
MineOrShared(l) == lists[l].mine \/ share[l].st = "active"
CanSee(l) == lists[l].st = "active" /\ MineOrShared(l)
CopyOfList(l) == [access |-> IF lists[l].mine THEN "owner" ELSE share[l].access,
                  at |-> lists[l].at]
CopyOfItem(i) == [list |-> items[i].list, good |-> items[i].good, at |-> items[i].at]
JoinedSince(l, t) == share[l].st = "active" /\ share[l].at > t

GoodsSinceOwnOnly(t) ==  \* mutant: only a change of the good itself counts
  {g \in Goods : goods[g] > t /\ \E i \in Items :
     items[i].st = "live" /\ items[i].good = g /\ CanSee(items[i].list)}

GoodsSince(t) ==
  {g \in Goods : \E i \in Items :
     /\ items[i].st = "live" /\ items[i].good = g /\ CanSee(items[i].list)
     /\ goods[g] > t \/ items[i].at > t \/ JoinedSince(items[i].list, t)}

ListsSince(t) ==
  {l \in Lists : CanSee(l) /\ (lists[l].at > t \/ JoinedSince(l, t))}

ItemsSinceOwnOnly(t) ==  \* mutant: a fresh membership does not count
  {i \in Items : /\ items[i].st = "live" /\ CanSee(items[i].list)
                 /\ items[i].at > t}

ItemsSince(t) ==
  {i \in Items : /\ items[i].st = "live" /\ CanSee(items[i].list)
                 /\ items[i].at > t \/ JoinedSince(items[i].list, t)}

DeletedItemsSince(t) ==
  {i \in Items : /\ items[i].st = "deleted" /\ MineOrShared(items[i].list)
                 /\ items[i].at > t \/ JoinedSince(items[i].list, t)}

\* The membership counts even when it has ended.
DeletedListsSince(t) ==
  {l \in Lists : /\ lists[l].st = "deleted"
                 /\ lists[l].mine \/ share[l].st # "absent"
                 /\ lists[l].at > t \/ share[l].at > t}

SyncOnly == UNCHANGED <<dbVars, writes, late>>
Read(pc, next, answer) ==
  /\ sync.pc = pc
  /\ sync' = [answer EXCEPT !.pc = next]
  /\ UNCHANGED <<now, device>> /\ SyncOnly

SyncBegin ==
  /\ sync.pc = "idle"
  /\ ReadClock
  /\ sync' = [NoSync EXCEPT !.pc = "goods", !.stamp = now']
  /\ UNCHANGED device /\ SyncOnly

ReadGoods == Read("goods", "lists",
  [sync EXCEPT !.goods = [g \in GoodsSince(device.since) |-> goods[g]]])
ReadLists == Read("lists", "items",
  [sync EXCEPT !.lists = [l \in ListsSince(device.since) |-> CopyOfList(l)]])
ReadItems == Read("items", "deletedItems",
  [sync EXCEPT !.items = [i \in ItemsSince(device.since) |-> CopyOfItem(i)]])
ReadDeletedItems == Read("deletedItems", "deletedLists",
  [sync EXCEPT !.deletedItems = DeletedItemsSince(device.since)])
ReadDeletedLists == Read("deletedLists", "shares",
  [sync EXCEPT !.deletedLists = DeletedListsSince(device.since)])
ReadShares == Read("shares", "answer",
  [sync EXCEPT !.revoked = {l \in Lists : share[l].st = "revoked"
                                          /\ share[l].at > device.since}])

\* The device takes what came, then drops what is deleted or no longer shared.
Newer(answer, old) ==
  [x \in DOMAIN old |-> IF x \in DOMAIN answer THEN answer[x] ELSE old[x]]

Applied ==
  LET gone == sync.deletedLists \cup sync.revoked
      came == Newer(sync.items, device.items) IN
  [device EXCEPT
    !.goods = Newer(sync.goods, @),
    !.lists = [l \in Lists |-> IF l \in gone THEN Null ELSE Newer(sync.lists, @)[l]],
    !.items = [i \in Items |->
      IF i \in sync.deletedItems \/ (came[i] # Null /\ came[i].list \in gone)
      THEN Null ELSE came[i]]]

SyncAnswerLateStamp ==  \* mutant: the time is taken after the queries
  /\ sync.pc = "answer"
  /\ device' = [Applied EXCEPT !.since = now]
  /\ sync' = NoSync
  /\ UNCHANGED now /\ SyncOnly

SyncAnswerRoundedUp ==  \* mutant: the time is rounded up
  /\ sync.pc = "answer"
  /\ device' = [Applied EXCEPT !.since = sync.stamp + 1]
  /\ sync' = NoSync
  /\ UNCHANGED now /\ SyncOnly

SyncAnswer ==
  /\ sync.pc = "answer"
  /\ device' = [Applied EXCEPT !.since = sync.stamp]
  /\ sync' = NoSync
  /\ UNCHANGED now /\ SyncOnly

\* A query fails or the answer is lost: the device keeps its watermark.
SyncFail ==
  /\ sync.pc # "idle"
  /\ sync' = NoSync
  /\ UNCHANGED <<now, device>> /\ SyncOnly

(***************************************************************************)
(* The specification                                                       *)
(***************************************************************************)
WriteAny(w) ==
  \/ \E l \in Lists : \/ \E mine \in BOOLEAN : PutList(w, l, mine)
                      \/ DropList(w, l) \/ Leave(w, l)
                      \/ \E a \in Access : Join(w, l, a) \/ ChangeAccess(w, l, a)
                      \/ \E i \in Items, g \in Goods : AddItem(w, i, l, g)
  \/ \E i \in Items : DropItem(w, i) \/ PatchItem(w, i)
  \/ \E g \in Goods :
       \/ TouchGood(w, g)
       \/ \E to \in Goods, authored \in SUBSET {l \in Lists : ~lists[l].mine} :
            MergeGoods(w, g, to, authored)

SyncStep ==
  \/ SyncBegin \/ ReadGoods \/ ReadLists \/ ReadItems \/ ReadDeletedItems
  \/ ReadDeletedLists \/ ReadShares \/ SyncAnswer \/ SyncFail

Next == (\E w \in Writers : WriteBegin(w) \/ WriteAny(w)) \/ SyncStep

Spec == Init /\ [][Next]_vars

(***************************************************************************)
(* Properties                                                              *)
(***************************************************************************)
\* Nothing about the list has changed since the watermark.
Settled(l) == l = Null \/ (lists[l].at < device.since /\ share[l].at < device.since)

\* The device has each list the caller can see, with the caller's access, and
\* no other, as soon as a sync began after the last change of the list and of
\* the membership.
ListsRight ==
  \A l \in Lists : Settled(l) =>
    device.lists[l] = IF CanSee(l) THEN CopyOfList(l) ELSE Null

\* The same of the items of such a list, which come and go with the membership
\* although they themselves have not changed (repository/accessible.go:25).
ItemsRight ==
  \A i \in Items : items[i].at < device.since /\ Settled(items[i].list) =>
    device.items[i] =
      IF items[i].st = "live" /\ CanSee(items[i].list) THEN CopyOfItem(i) ELSE Null

\* And it has the good of each of those items, of whomever it is
\* (repository/accessible.go:140).
GoodsRight ==
  \A i \in Items : /\ items[i].st = "live" /\ CanSee(items[i].list)
                   /\ items[i].at < device.since /\ Settled(items[i].list)
                   /\ goods[items[i].good] < device.since
    => device.goods[items[i].good] = goods[items[i].good]

\* What a sync does not deliver is delivered by the next, whatever is written
\* meanwhile (handlers/api.go:1115)...
DeviceCatchesUp == ListsRight /\ ItemsRight /\ GoodsRight

\* ...and indeed it is, but for writes that began before a sync took the time
\* and were committed behind its back.
ListsCatchUp == late \/ ListsRight
ItemsCatchUp == late \/ ItemsRight
GoodsCatchUp == late \/ GoodsRight
=============================================================================

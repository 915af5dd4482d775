------------------------------ MODULE Catalog ------------------------------
(***************************************************************************)
(* The catalogue: goods and their merges, the offers of a good in a store, *)
(* the price records of an offer and the external codes of a good.         *)
(*                                                                         *)
(* As in Sharing, a handler is a request slot whose statements interleave  *)
(* with those of the others.  Merging two goods is a transaction: it locks *)
(* the rows of the two goods one after the other, and what it writes is    *)
(* seen when it commits.  The statements it runs between its last lock and *)
(* its commit wait for nobody and nobody sees them, so they are one step   *)
(* with the commit.                                                        *)
(*                                                                         *)
(* The goods are there from the start (nothing is said here about their    *)
(* names and categories), stores are ids (the code never merges one), and  *)
(* the goods of list items are left out: they are resolved when read.      *)
(***************************************************************************)
EXTENDS Integers

CONSTANTS
  Owners,
  Goods, GoodOwner,    \* the goods, and who made each of them
  Stores, Offers, Prices, Codes,
  Reqs,                \* request slots
  Null,
  MaxDepth,            \* how many merges a resolve follows (canonical.go:25)
  Ops                  \* the handlers that run

ASSUME CatalogAssumption ==
  /\ GoodOwner \in [Goods -> Owners]
  /\ Null \notin Owners \cup Goods \cup Stores \cup Offers \cup Prices
  /\ Null \notin Goods \X Stores
  /\ MaxDepth \in Nat \ {0}
  /\ Ops \subseteq {"merge", "offer", "price", "identity"}

VARIABLES
  merged,   \* goods.merged_into
  offers,   \* offers
  prices,   \* price_records
  idents,   \* good_identities: the good of each owner and code
  reqs,     \* the handlers in flight
  outdated  \* history: whether a handler has written for a good or an offer
            \* that a merge had taken away since the handler read it

vars == <<merged, offers, prices, idents, reqs, outdated>>

NoOffer == [st |-> "absent", owner |-> Null, good |-> Null, store |-> Null]
NoPrice == [owner |-> Null, offer |-> Null]
OfferRow == {NoOffer} \cup [st : {"live", "deleted"}, owner : Owners,
                            good : Goods, store : Stores]
PriceRow == {NoPrice} \cup [owner : Owners, offer : Offers]

Idle == [pc |-> "idle", caller |-> Null, from |-> Null, to |-> Null,
         offer |-> Null, store |-> Null, price |-> Null, code |-> Null]
Merging == {"target", "check", "mark", "marked", "touched"}
Request == [pc : {"idle", "probe", "insert", "price", "identity"} \cup Merging,
            caller : Owners \cup {Null}, from : Goods \cup {Null},
            to : Goods \cup {Null}, offer : Offers \cup {Null},
            store : Stores \cup {Null}, price : Prices \cup {Null},
            code : Codes \cup {Null}]

TypeOK ==
  /\ merged \in [Goods -> Goods \cup {Null}]
  /\ offers \in [Offers -> OfferRow]
  /\ prices \in [Prices -> PriceRow]
  /\ idents \in [Owners -> [Codes -> Goods \cup {Null}]]
  /\ reqs \in [Reqs -> Request] /\ outdated \in BOOLEAN
  /\ \A r \in Reqs : reqs[r].pc \in Merging => reqs[r].from # Null /\ reqs[r].to # Null

Init ==
  /\ merged = [g \in Goods |-> Null]
  /\ offers = [i \in Offers |-> NoOffer]
  /\ prices = [p \in Prices |-> NoPrice]
  /\ idents = [o \in Owners |-> [c \in Codes |-> Null]]
  /\ reqs = [r \in Reqs |-> Idle] /\ outdated = FALSE

Begin(r, op, req) == /\ reqs[r] = Idle /\ op \in Ops
                     /\ reqs' = [reqs EXCEPT ![r] = req]
Goto(r, pc) == reqs' = [reqs EXCEPT ![r].pc = pc]
End(r)      == reqs' = [reqs EXCEPT ![r] = Idle]
NoTable     == UNCHANGED <<merged, offers, prices, idents, outdated>>
Writes(gone) == outdated' = (outdated \/ gone)

(***************************************************************************)
(* Resolving a good                                                        *)
(***************************************************************************)
\* The goods from g along merged_into, as far as the recursive query goes, and
\* whether it had to stop.
Path(g) ==
  LET at[n \in 0..MaxDepth] ==
        IF n = 0 THEN g
        ELSE IF merged[at[n - 1]] = Null THEN at[n - 1] ELSE merged[at[n - 1]]
  IN at
Chain(g)    == {Path(g)[n] : n \in 0..MaxDepth}
TooLong(g) == merged[Path(g)[MaxDepth - 1]] # Null

\* ResolveGoodCanonical: the good at the end; Null ("not found") when the end is
\* out of reach.  A merge stays within one owner, so the chain does too.
Resolvable(g) == \E c \in Chain(g) : merged[c] = Null
Canon(g) == IF Resolvable(g) THEN CHOOSE c \in Chain(g) : merged[c] = Null ELSE Null

(***************************************************************************)
(* POST /goods/merge                                                       *)
(***************************************************************************)
Holds(r, g) == \/ reqs[r].pc \in {"marked", "touched"} /\ reqs[r].from = g
               \/ reqs[r].pc = "touched" /\ reqs[r].to = g
LockedByOther(r, g) == \E q \in Reqs \ {r} : Holds(q, g)

\* Both goods are resolved, and the chain of the target searched for the
\* source, by three statements before the transaction.
MergeBegin(r, o, a, b) ==
  /\ GoodOwner[a] = o /\ GoodOwner[b] = o /\ Canon(a) # Null
  /\ Begin(r, "merge", [Idle EXCEPT !.pc = "target", !.caller = o,
                                    !.from = Canon(a), !.to = b])
  /\ NoTable

MergeTargetUnresolved(r) ==  \* mutant: "not found" is not noticed
  LET c == Canon(reqs[r].to) IN
  /\ reqs[r].pc = "target"
  /\ \/ c = reqs[r].from /\ End(r)
     \/ c # reqs[r].from /\ reqs' = [reqs EXCEPT ![r].pc = "check", ![r].to = c]
  /\ NoTable

MergeTarget(r) ==
  LET c == Canon(reqs[r].to) IN
  /\ reqs[r].pc = "target"
  /\ \/ c \in {Null, reqs[r].from} /\ End(r)
     \/ /\ c \notin {Null, reqs[r].from}
        /\ reqs' = [reqs EXCEPT ![r].pc = "check", ![r].to = c]
  /\ NoTable

MergeCheck(r) ==
  /\ reqs[r].pc = "check"
  /\ \/ /\ reqs[r].from \in Chain(reqs[r].to) \/ TooLong(reqs[r].to)
        /\ End(r)
     \/ /\ reqs[r].from \notin Chain(reqs[r].to) /\ ~TooLong(reqs[r].to)
        /\ Goto(r, "mark")
  /\ NoTable

\* MarkGoodMerged, first statement: waits for the row, then asks again whether
\* the source is still unmerged.
MergeMarkAnyway(r) ==  \* mutant: the update does not ask for merged_into IS NULL
  /\ reqs[r].pc = "mark"
  /\ ~LockedByOther(r, reqs[r].from)
  /\ Goto(r, "marked")
  /\ NoTable

MergeMark(r) ==
  /\ reqs[r].pc = "mark"
  /\ ~LockedByOther(r, reqs[r].from)
  /\ \/ merged[reqs[r].from] = Null /\ Goto(r, "marked")
     \/ merged[reqs[r].from] # Null /\ End(r)
  /\ NoTable

\* Second statement: updated_at of the target, whether merged or not.
MergeTouch(r) ==
  /\ reqs[r].pc = "marked"
  /\ ~LockedByOther(r, reqs[r].to)
  /\ Goto(r, "touched")
  /\ NoTable

\* Two merges that wait for each other's good: PostgreSQL rolls one back, and
\* its handler answers with the error.
Crossed(r) ==
  /\ reqs[r].pc = "marked"
  /\ \E q \in Reqs \ {r} : /\ reqs[q].pc = "marked"
                           /\ reqs[q].from = reqs[r].to /\ reqs[q].to = reqs[r].from

MergeDeadlock(r) == Crossed(r) /\ End(r) /\ NoTable

\* repointOffersAfterGoodMerge: an offer of the source follows the merge, or,
\* where the target has a live offer in its store, is folded into that one.
LiveAt(o, g, s) == {i \in Offers : offers[i].st = "live" /\ offers[i].owner = o
                                   /\ offers[i].good = g /\ offers[i].store = s}
Twins(o, g, i) == LiveAt(o, g, offers[i].store)
RowAt(o, g, s) == \E i \in Offers : /\ offers[i].st # "absent" /\ offers[i].owner = o
                                    /\ offers[i].good = g /\ offers[i].store = s

FoldedWithoutPrices(q, p) == prices[p].offer  \* mutant: the prices stay behind

\* Where the price record p hangs when the merge q is done.
Folded(q, p) ==
  LET i == prices[p].offer IN
  IF /\ prices[p] # NoPrice /\ offers[i].st = "live"
     /\ offers[i].owner = q.caller /\ offers[i].good = q.from
     /\ Twins(q.caller, q.to, i) # {}
  THEN CHOOSE e \in Twins(q.caller, q.to, i) : TRUE
  ELSE i

\* What the merge q leaves of the offer row i.
MergedOfferKept(q, row, twins) ==  \* mutant: the folded offer is not deleted
  IF row.st = "live" /\ row.owner = q.caller /\ row.good = q.from
  THEN IF twins = {} THEN [row EXCEPT !.good = q.to] ELSE row
  ELSE row

MergedOffer(q, row, twins) ==
  IF row.st = "live" /\ row.owner = q.caller /\ row.good = q.from
  THEN IF twins = {} THEN [row EXCEPT !.good = q.to] ELSE [row EXCEPT !.st = "deleted"]
  ELSE row

\* A deleted offer at the target's place makes the move of a live one fail on
\* the unique index, and with it the merge.
Blocked(q) ==
  \E i \in Offers : /\ offers[i].st = "live" /\ offers[i].owner = q.caller
                    /\ offers[i].good = q.from
                    /\ Twins(q.caller, q.to, i) = {}
                    /\ RowAt(q.caller, q.to, offers[i].store)

OffersAfter(q) ==
  [i \in Offers |-> MergedOffer(q, offers[i], Twins(q.caller, q.to, i))]

MergeCommitNoTransaction(r) ==  \* mutant: a merge that fails late keeps the offers
  LET q == reqs[r] IN
  /\ q.pc = "touched"
  /\ ~Blocked(q) /\ offers' = OffersAfter(q)
  /\ End(r)
  /\ UNCHANGED <<merged, prices, idents, outdated>>

MergeCommit(r) ==
  LET q == reqs[r] IN
  /\ q.pc = "touched"
  /\ \/ Blocked(q) /\ NoTable
     \/ /\ ~Blocked(q)
        /\ merged' = [merged EXCEPT ![q.from] = q.to]
        /\ prices' = [p \in Prices |-> [prices[p] EXCEPT !.offer = Folded(q, p)]]
        /\ offers' = OffersAfter(q)
        /\ idents' = [idents EXCEPT ![q.caller] =
             [c \in Codes |-> IF @[c] = q.from THEN q.to ELSE @[c]]]
        /\ Writes(merged[q.to] # Null)
  /\ End(r)

(***************************************************************************)
(* POST /offers, POST /price-records, POST /good-identities                *)
(***************************************************************************)
\* UpsertOffer: the good, of any owner, is resolved first.
OfferResolve(r, o, i, g, s) ==
  /\ Canon(g) # Null
  /\ Begin(r, "offer", [Idle EXCEPT !.pc = "probe", !.caller = o, !.offer = i,
                                    !.to = Canon(g), !.store = s])
  /\ NoTable

\* A live offer of the caller with this id answers the request, whatever it says.
OfferProbe(r) ==
  LET row == offers[reqs[r].offer] IN
  /\ reqs[r].pc = "probe"
  /\ \/ row.st = "live" /\ row.owner = reqs[r].caller /\ End(r)
     \/ ~(row.st = "live" /\ row.owner = reqs[r].caller) /\ Goto(r, "insert")
  /\ NoTable

\* The insert: refused for an id in use and, by the unique index over deleted
\* rows too, for a good and store the caller has an offer of.
OfferInsertTwice(r) ==  \* mutant: no unique index on owner, good and store
  LET q == reqs[r] IN
  /\ q.pc = "insert"
  /\ \/ /\ offers[q.offer].st = "absent"
        /\ offers' = [offers EXCEPT ![q.offer] =
             [st |-> "live", owner |-> q.caller, good |-> q.to, store |-> q.store]]
        /\ Writes(merged[q.to] # Null)
     \/ offers[q.offer].st # "absent" /\ UNCHANGED <<offers, outdated>>
  /\ End(r)
  /\ UNCHANGED <<merged, prices, idents>>

OfferInsert(r) ==
  LET q == reqs[r]
      fits == offers[q.offer].st = "absent" /\ ~RowAt(q.caller, q.to, q.store) IN
  /\ q.pc = "insert"
  /\ \/ /\ fits
        /\ offers' = [offers EXCEPT ![q.offer] =
             [st |-> "live", owner |-> q.caller, good |-> q.to, store |-> q.store]]
        /\ Writes(merged[q.to] # Null)
     \/ ~fits /\ UNCHANGED <<offers, outdated>>
  /\ End(r)
  /\ UNCHANGED <<merged, prices, idents>>

\* AddPriceRecord: the offer, of any owner, must be live.
PriceReadOffer(r, o, p, i) ==
  /\ offers[i].st = "live"
  /\ Begin(r, "price", [Idle EXCEPT !.pc = "price", !.caller = o, !.price = p,
                                    !.offer = i])
  /\ NoTable

\* The insert; a record with this id, found before or met now, stays as it is.
PriceInsert(r) ==
  LET q == reqs[r] IN
  /\ q.pc = "price"
  /\ \/ /\ prices[q.price] = NoPrice
        /\ prices' = [prices EXCEPT ![q.price] = [owner |-> q.caller, offer |-> q.offer]]
        /\ Writes(offers[q.offer].st # "live")
     \/ prices[q.price] # NoPrice /\ UNCHANGED <<prices, outdated>>
  /\ End(r)
  /\ UNCHANGED <<merged, offers, idents>>

\* UpsertGoodIdentity: the last write of a code wins.
IdentityResolve(r, o, g, c) ==
  /\ GoodOwner[g] = o /\ Canon(g) # Null
  /\ Begin(r, "identity", [Idle EXCEPT !.pc = "identity", !.caller = o,
                                       !.to = Canon(g), !.code = c])
  /\ NoTable

IdentityUpsert(r) ==
  LET q == reqs[r] IN
  /\ q.pc = "identity"
  /\ idents' = [idents EXCEPT ![q.caller][q.code] = q.to]
  /\ Writes(merged[q.to] # Null)
  /\ End(r)
  /\ UNCHANGED <<merged, offers, prices>>

\* ListPriceRecordsSince with no watermark: the records an owner is told of.
Listed(o) == {p \in Prices : /\ prices[p].owner = o
                             /\ offers[prices[p].offer].owner = o
                             /\ offers[prices[p].offer].st = "live"}

(***************************************************************************)
(* The specification                                                       *)
(***************************************************************************)
\* A statement fails, the client hangs up or the process dies: an open
\* transaction is rolled back.
Fail(r) == reqs[r] # Idle /\ End(r) /\ NoTable

Arrive(r) ==
  /\ reqs[r] = Idle
  /\ \E o \in Owners :
       \/ \E g \in Goods :
            \/ \E b \in Goods : MergeBegin(r, o, g, b)
            \/ \E i \in Offers, s \in Stores : OfferResolve(r, o, i, g, s)
            \/ \E c \in Codes : IdentityResolve(r, o, g, c)
       \/ \E p \in Prices, i \in Offers : PriceReadOffer(r, o, p, i)

Advance(r) ==
  \/ MergeTarget(r) \/ MergeCheck(r) \/ MergeMark(r) \/ MergeTouch(r)
  \/ MergeDeadlock(r) \/ MergeCommit(r)
  \/ OfferProbe(r) \/ OfferInsert(r) \/ PriceInsert(r) \/ IdentityUpsert(r)

Next == \E r \in Reqs : Arrive(r) \/ Advance(r) \/ Fail(r)

Spec == Init /\ [][Next]_vars

(***************************************************************************)
(* Properties                                                              *)
(***************************************************************************)
\* Every good resolves (docs/business-analysis.md:150): the merges of an owner
\* form chains that end at a good, never a cycle (docs/api.md:175), and no chain
\* outgrows the resolve.
ChainsEnd == \A g \in Goods : Canon(g) # Null

\* The codes of a good are found under the good it has become
\* (docs/api.md:198).
CodesOnCanonical ==
  \A o \in Owners, c \in Codes : idents[o][c] # Null => merged[idents[o][c]] = Null

\* Once a good is merged, no live offer of its owner and no code is of it: the
\* merge moves them all or, when it fails half way, leaves them all with a good
\* that is not merged (service/merge.go:32-57).  Only a handler that has read
\* the good before the merge and writes after it leaves something behind.
MergedGoodIsEmpty == outdated \/
  /\ \A i \in Offers : offers[i].st = "live" /\ offers[i].owner = GoodOwner[offers[i].good]
                      => merged[offers[i].good] = Null
  /\ CodesOnCanonical

\* An owner is told of every price the owner recorded: without a watermark the
\* answer holds all the records (docs/api.md:286).
EveryRecordListed ==
  \A p \in Prices : prices[p] # NoPrice => p \in Listed(prices[p].owner)

\* An owner has one live offer for a good of the own and a store, also when the
\* good has become one with others (docs/business-analysis.md:71).
NoTwins ==
  \A i, j \in Offers :
    /\ offers[i].st = "live" /\ offers[j].st = "live" /\ i # j
    /\ offers[i].owner = offers[j].owner /\ offers[i].store = offers[j].store
    /\ GoodOwner[offers[i].good] = offers[i].owner
    /\ GoodOwner[offers[j].good] = offers[j].owner
    => Canon(offers[i].good) # Canon(offers[j].good)

\* So it is as long as no handler writes what a merge has outdated.
OneOfferPerPair == outdated \/ NoTwins

\* Offers are only deleted by the merge of their good.  The unique index keeps
\* counting them, so a deleted offer of a good that is not merged would refuse
\* the owner a new offer of it for ever.
TombstonesOnMerged ==
  \A i \in Offers : offers[i].st = "deleted" => merged[offers[i].good] # Null

\* A good is merged once: of two merges of one source, the second finds the row
\* taken when the lock is free (repository/good.go:112).
MergedOnce ==
  [][\A g \in Goods : merged[g] # Null => merged'[g] = merged[g]]_merged

\* A price record moves to another offer only in the merge that deletes its
\* offer, and then to a live one of the same owner and store, of the good that
\* its good has just become.
PricesMoveWithMerge ==
  [][\A p \in Prices : prices[p] # NoPrice /\ prices'[p] # prices[p] =>
       LET a == offers[prices[p].offer]  b == offers'[prices'[p].offer] IN
       /\ prices'[p].owner = prices[p].owner
       /\ a.st = "live" /\ offers'[prices[p].offer].st = "deleted" /\ b.st = "live"
       /\ b.owner = a.owner /\ b.store = a.store
       /\ merged[a.good] = Null /\ merged'[a.good] = b.good]_vars

\* A price record of a deleted offer is in nobody's history and in no delta
\* (repository/price.go:164).  The catalogue implements PriceBook with the
\* goods resolved and those records gone.
Rep  == [g \in Goods |-> Canon(g)]
Spot == [p \in Prices |->
  IF prices[p] = NoPrice \/ offers[prices[p].offer].st # "live" THEN Null
  ELSE <<Canon(offers[prices[p].offer].good), offers[prices[p].offer].store>>]

Book == INSTANCE PriceBook WITH rep <- Rep, spot <- Spot

\* Prices survive merges, and merges join goods two by two, up to the first
\* outdated write.
ImplementsPriceBook ==
  Book!Init /\ [][outdated' \/ Book!Next]_(Book!vars)
=============================================================================

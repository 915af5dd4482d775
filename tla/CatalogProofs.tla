----------------------------- MODULE CatalogProofs -----------------------------
(***************************************************************************)
(* Proofs about the catalogue, for any goods, owners, offers and prices    *)
(* and any number of requests at a time.  The first part is about the      *)
(* resolve: what is at the end of a chain of merges, by induction over its *)
(* length.                                                                 *)
(***************************************************************************)
EXTENDS Catalog, FiniteSetTheorems, WellFoundedInduction, TLAPS

\* Induction over the naturals, for a set of them.
LEMMA SetInduction ==
  ASSUME NEW S \in SUBSET Nat, 0 \in S, \A n \in S : n + 1 \in S
  PROVE  S = Nat
  <1> SUFFICES ASSUME Nat \ S # {} PROVE FALSE
    OBVIOUS
  <1>1. PICK x \in Nat \ S : \A y \in Nat : y < x => y \in S
    <2> DEFINE T == Nat \ S
               R == OpToRel(<, Nat)
    <2>1. IsWellFoundedOn(R, Nat)
      BY NatLessThanWellFounded
    <2>2. T \subseteq Nat /\ T # {}
      OBVIOUS
    <2> HIDE DEF T, R
    <2>3. \E x \in T : \A y \in T : ~ (<<y, x>> \in R)
      BY <2>1, <2>2, WFMin
    <2> QED
      BY <2>3 DEF T, R, OpToRel
  <1>2. x # 0 /\ x - 1 \in Nat
    BY <1>1
  <1>3. x - 1 \in S
    BY <1>1, <1>2
  <1>4. (x - 1) + 1 \in S
    BY <1>3
  <1> QED
    BY <1>1, <1>4

(***************************************************************************)
(* The resolve, for any merged_into f                                      *)
(***************************************************************************)
Pointers == [Goods -> Goods \cup {Null}]

\* One more step along f; at the end the walk stays.
Along(f, x) == IF f[x] = Null THEN x ELSE f[x]

IsWalk(f, g, w, m) ==
  /\ w \in [0..m -> Goods] /\ w[0] = g
  /\ \A n \in 0..(m - 1) : w[n + 1] = Along(f, w[n])

Walk(f, g) ==
  CHOOSE at : at = [n \in 0..MaxDepth |->
    IF n = 0 THEN g
    ELSE IF f[at[n - 1]] = Null THEN at[n - 1] ELSE f[at[n - 1]]]

LastOf(f, g) == Walk(f, g)[MaxDepth]

Resolve(f, g) == IF f[LastOf(f, g)] = Null THEN LastOf(f, g) ELSE Null

\* A walk along the pointers exists for every number of steps.
LEMMA WalkExists ==
  ASSUME NEW f \in Pointers, NEW g \in Goods
  PROVE  \A m \in Nat : \E w : IsWalk(f, g, w, m)
  <1> DEFINE S == {m \in Nat : \E w : IsWalk(f, g, w, m)}
  <1>1. 0 \in S
    <2>1. IsWalk(f, g, [n \in 0..0 |-> g], 0)
      BY DEF IsWalk
    <2> QED
      BY <2>1
  <1>2. ASSUME NEW m \in S PROVE m + 1 \in S
    <2>1. PICK w : IsWalk(f, g, w, m)
      OBVIOUS
    <2> DEFINE v == [n \in 0..(m + 1) |-> IF n = m + 1 THEN Along(f, w[m]) ELSE w[n]]
    <2>2. m \in Nat /\ w[m] \in Goods /\ Along(f, w[m]) \in Goods
      BY <2>1 DEF IsWalk, Along, Pointers
    <2>3. v \in [0..(m + 1) -> Goods] /\ v[0] = g
      BY <2>1, <2>2 DEF IsWalk
    <2>4. ASSUME NEW n \in 0..m PROVE v[n + 1] = Along(f, v[n])
      <3>1. CASE n = m
        BY <2>2, <3>1
      <3>2. CASE n # m
        <4>1. n \in 0..(m - 1) /\ n + 1 \in 0..(m + 1) /\ n + 1 # m + 1
          BY <2>2, <3>2
        <4> QED
          BY <2>1, <2>2, <4>1 DEF IsWalk
      <3> QED
        BY <3>1, <3>2
    <2> HIDE DEF v
    <2>5. (m + 1) - 1 = m
      BY <2>2
    <2>6. IsWalk(f, g, v, m + 1)
      BY <2>3, <2>4, <2>5 DEF IsWalk
    <2> QED
      BY <2>2, <2>6
  <1> HIDE DEF S
  <1>3. S = Nat
    BY <1>1, <1>2, SetInduction DEF S
  <1> QED
    BY <1>3 DEF S

\* The recursive query is a walk.
LEMMA WalkIs ==
  ASSUME NEW f \in Pointers, NEW g \in Goods
  PROVE  IsWalk(f, g, Walk(f, g), MaxDepth)
  <1> DEFINE Unrolled(at) == [n \in 0..MaxDepth |->
               IF n = 0 THEN g
               ELSE IF f[at[n - 1]] = Null THEN at[n - 1] ELSE f[at[n - 1]]]
             a == Walk(f, g)
  <1>0. MaxDepth \in Nat \ {0}
    BY CatalogAssumption
  <1>1. PICK w : IsWalk(f, g, w, MaxDepth)
    BY <1>0, WalkExists
  <1>2. w = Unrolled(w)
    <2>1. ASSUME NEW n \in 0..MaxDepth PROVE w[n] = Unrolled(w)[n]
      <3>1. CASE n = 0
        BY <1>1, <3>1 DEF IsWalk
      <3>2. CASE n # 0
        <4>1. n - 1 \in 0..(MaxDepth - 1) /\ (n - 1) + 1 = n
          BY <1>0, <3>2
        <4> QED
          BY <1>1, <3>2, <4>1 DEF IsWalk, Along
      <3> QED
        BY <3>1, <3>2
    <2> QED
      BY <1>1, <2>1 DEF IsWalk
  <1>3. a = Unrolled(a)
    BY <1>2 DEF Walk
  <1> HIDE DEF a
  <1>4. a[0] = g /\ \A n \in 0..(MaxDepth - 1) : a[n + 1] = Along(f, a[n])
    <2>1. a[0] = g
      BY <1>0, <1>3
    <2>2. ASSUME NEW n \in 0..(MaxDepth - 1) PROVE a[n + 1] = Along(f, a[n])
      <3>1. n + 1 \in 0..MaxDepth /\ n + 1 # 0 /\ (n + 1) - 1 = n
        BY <1>0
      <3>2. Unrolled(a)[n + 1] = IF f[a[n]] = Null THEN a[n] ELSE f[a[n]]
        BY <3>1
      <3> QED
        BY <1>3, <3>2 DEF Along
    <2> QED
      BY <2>1, <2>2
  <1>5. \A n \in 0..MaxDepth : a[n] \in Goods
    <2> DEFINE S == {n \in Nat : n <= MaxDepth => a[n] \in Goods}
    <2>1. 0 \in S
      BY <1>4
    <2>2. ASSUME NEW n \in S PROVE n + 1 \in S
      BY <1>0, <1>4 DEF Along, Pointers
    <2> HIDE DEF S
    <2>3. S = Nat
      BY <2>1, <2>2, SetInduction DEF S
    <2> QED
      BY <1>0, <2>3 DEF S
  <1>6. a \in [0..MaxDepth -> Goods]
    <2> HIDE DEF Unrolled
    <2>1. Unrolled(a) \in [0..MaxDepth -> Goods]
      BY <1>3, <1>5 DEF Unrolled
    <2> QED
      BY <1>3, <2>1
  <1> QED
    BY <1>4, <1>6 DEF IsWalk, a

\* A walk that has come to an end stays there.
LEMMA WalkStays ==
  ASSUME NEW f \in Pointers, NEW g \in Goods, NEW n \in 0..MaxDepth,
         f[Walk(f, g)[n]] = Null
  PROVE  LastOf(f, g) = Walk(f, g)[n]
  <1> DEFINE w == Walk(f, g)
             S == {k \in Nat : n + k <= MaxDepth => w[n + k] = w[n]}
  <1>0. IsWalk(f, g, w, MaxDepth) /\ MaxDepth \in Nat /\ n \in Nat
    BY WalkIs, CatalogAssumption
  <1> HIDE DEF w
  <1>1. 0 \in S
    BY <1>0
  <1>2. ASSUME NEW k \in S PROVE k + 1 \in S
    <2>1. SUFFICES ASSUME n + (k + 1) <= MaxDepth PROVE w[n + (k + 1)] = w[n]
      OBVIOUS
    <2>2. w[n + k] = w[n] /\ n + k \in 0..(MaxDepth - 1) /\ n + (k + 1) = (n + k) + 1
      BY <1>0, <2>1
    <2>3. w[(n + k) + 1] = Along(f, w[n + k])
      BY <1>0, <2>2 DEF IsWalk
    <2> QED
      BY <2>2, <2>3 DEF Along, w
  <1> HIDE DEF S
  <1>3. S = Nat
    BY <1>1, <1>2, SetInduction DEF S
  <1>4. MaxDepth - n \in Nat /\ n + (MaxDepth - n) = MaxDepth
    BY <1>0
  <1> QED
    BY <1>0, <1>3, <1>4 DEF S, LastOf, w

\* A merge stays within one owner, so the walk does.
LEMMA WalkSameOwner ==
  ASSUME NEW f \in Pointers, NEW g \in Goods,
         \A h \in Goods : f[h] # Null => GoodOwner[f[h]] = GoodOwner[h]
  PROVE  GoodOwner[LastOf(f, g)] = GoodOwner[g]
  <1> DEFINE w == Walk(f, g)
             S == {n \in Nat : n <= MaxDepth => GoodOwner[w[n]] = GoodOwner[g]}
  <1>0. IsWalk(f, g, w, MaxDepth) /\ MaxDepth \in Nat
    BY WalkIs, CatalogAssumption
  <1> HIDE DEF w
  <1>1. 0 \in S
    BY <1>0 DEF IsWalk
  <1>2. ASSUME NEW n \in S PROVE n + 1 \in S
    <2>1. SUFFICES ASSUME n + 1 <= MaxDepth PROVE GoodOwner[w[n + 1]] = GoodOwner[g]
      OBVIOUS
    <2>2. n \in 0..(MaxDepth - 1) /\ n \in 0..MaxDepth /\ GoodOwner[w[n]] = GoodOwner[g]
      BY <1>0, <2>1
    <2>3. w[n + 1] = Along(f, w[n]) /\ w[n] \in Goods
      BY <1>0, <2>2 DEF IsWalk
    <2> QED
      BY <2>2, <2>3 DEF Along
  <1> HIDE DEF S
  <1>3. S = Nat
    BY <1>1, <1>2, SetInduction DEF S
  <1> QED
    BY <1>0, <1>3 DEF S, LastOf, w

\* What ResolveGoodCanonical picks among the goods of the chain is its last.
LEMMA PickIsLast ==
  ASSUME NEW f \in Pointers, NEW g \in Goods
  PROVE  LET chain == {Walk(f, g)[n] : n \in 0..MaxDepth} IN
         (IF \E c \in chain : f[c] = Null THEN CHOOSE c \in chain : f[c] = Null ELSE Null)
           = Resolve(f, g)
  <1> DEFINE w == Walk(f, g)
             chain == {w[n] : n \in 0..MaxDepth}
  <1>1. LastOf(f, g) \in chain
    BY CatalogAssumption DEF LastOf
  <1>2. \A c \in chain : f[c] = Null => c = LastOf(f, g)
    BY WalkStays
  <1> HIDE DEF chain
  <1>3. CASE f[LastOf(f, g)] = Null
    <2>1. \E c \in chain : f[c] = Null
      BY <1>1, <1>3
    <2>2. (CHOOSE c \in chain : f[c] = Null) = LastOf(f, g)
      BY <1>2, <2>1
    <2> QED
      BY <1>3, <2>1, <2>2 DEF Resolve, chain
  <1>4. CASE f[LastOf(f, g)] # Null
    <2>1. ~ \E c \in chain : f[c] = Null
      BY <1>2, <1>4
    <2> QED
      BY <1>4, <2>1 DEF Resolve, chain
  <1> QED
    BY <1>3, <1>4

\* The good a chain resolves to, by the last good of its walk.
LEMMA CanonIs ==
  ASSUME merged \in Pointers, NEW g \in Goods
  PROVE  Canon(g) = Resolve(merged, g)
  BY PickIsLast DEF Canon, Resolvable, Chain, Path, Walk

\* The same after a step.
LEMMA CanonIsAfter ==
  ASSUME merged' \in Pointers, NEW g \in Goods
  PROVE  Canon(g)' = Resolve(merged', g)
  BY PickIsLast DEF Canon, Resolvable, Chain, Path, Walk

\* What a resolve returns is an unmerged good of the same owner; a good that
\* is not merged resolves to itself.
LEMMA ResolveFacts ==
  ASSUME NEW f \in Pointers, NEW g \in Goods
  PROVE  /\ Resolve(f, g) \in Goods \cup {Null}
         /\ Resolve(f, g) # Null => f[Resolve(f, g)] = Null
         /\ f[g] = Null => Resolve(f, g) = g
         /\ Resolve(f, g) # Null
            /\ (\A h \in Goods : f[h] # Null => GoodOwner[f[h]] = GoodOwner[h])
              => GoodOwner[Resolve(f, g)] = GoodOwner[g]
  <1>1. MaxDepth \in Nat \ {0} /\ Null \notin Goods
    BY CatalogAssumption
  <1>2. LastOf(f, g) \in Goods /\ Walk(f, g)[0] = g /\ 0 \in 0..MaxDepth
    BY <1>1, WalkIs DEF LastOf, IsWalk
  <1>3. f[g] = Null => LastOf(f, g) = g
    BY <1>2, WalkStays
  <1>4. (\A h \in Goods : f[h] # Null => GoodOwner[f[h]] = GoodOwner[h])
          => GoodOwner[LastOf(f, g)] = GoodOwner[g]
    BY WalkSameOwner
  <1> QED
    BY <1>1, <1>2, <1>3, <1>4 DEF Resolve

(***************************************************************************)
(* The inductive invariant                                                 *)
(***************************************************************************)
\* A merge joins two goods of one owner.
SameFamily == \A g \in Goods : merged[g] # Null => GoodOwner[merged[g]] = GoodOwner[g]

\* A merge in flight is of two goods of its caller, and of two different ones
\* once both are resolved; what it has locked nobody else has, so that the
\* source it has marked is still unmerged.
MergeSound(q) ==
  q.pc \in Merging =>
    /\ q.from \in Goods /\ q.to \in Goods /\ q.caller \in Owners
    /\ GoodOwner[q.from] = q.caller /\ GoodOwner[q.to] = q.caller
    /\ q.pc # "target" => q.from # q.to
    /\ q.pc \in {"marked", "touched"} => merged[q.from] = Null

LocksExclusive ==
  \A r, q \in Reqs, g \in Goods : Holds(r, g) /\ Holds(q, g) => r = q

\* What the other handlers carry from one statement to the next.
WriteSound(q) ==
  /\ q.pc \in {"probe", "insert"}
       => q.caller \in Owners /\ q.offer \in Offers /\ q.to \in Goods /\ q.store \in Stores
  /\ q.pc = "price"
       => /\ q.caller \in Owners /\ q.price \in Prices /\ q.offer \in Offers
          /\ offers[q.offer] # NoOffer
  /\ q.pc = "identity"
       => /\ q.caller \in Owners /\ q.code \in Codes /\ q.to \in Goods
          /\ GoodOwner[q.to] = q.caller

RequestsSound == \A r \in Reqs : MergeSound(reqs[r]) /\ WriteSound(reqs[r])

\* The unique index, which counts the deleted offers too.
UniqueOffers ==
  \A i, j \in Offers :
    /\ offers[i] # NoOffer /\ offers[j] # NoOffer
    /\ offers[i].owner = offers[j].owner /\ offers[i].good = offers[j].good
    /\ offers[i].store = offers[j].store
    => i = j

PricesHang == \A p \in Prices : prices[p] # NoPrice => offers[prices[p].offer] # NoOffer

CodesOfOwner ==
  \A o \in Owners, c \in Codes : idents[o][c] # Null => GoodOwner[idents[o][c]] = o

Inv == /\ TypeOK /\ SameFamily /\ RequestsSound /\ LocksExclusive
       /\ UniqueOffers /\ PricesHang /\ CodesOfOwner
       /\ TombstonesOnMerged /\ MergedGoodIsEmpty

\* What is at the end of a chain, in a state of the catalogue.
LEMMA CanonFacts ==
  ASSUME TypeOK, SameFamily, NEW g \in Goods
  PROVE  /\ Canon(g) \in Goods \cup {Null}
         /\ Canon(g) # Null => merged[Canon(g)] = Null /\ GoodOwner[Canon(g)] = GoodOwner[g]
         /\ merged[g] = Null => Canon(g) = g
  <1>1. merged \in Pointers
    BY DEF TypeOK, Pointers
  <1> QED
    BY <1>1, CanonIs, ResolveFacts DEF SameFamily

(***************************************************************************)
(* The steps that write no table                                           *)
(***************************************************************************)
\* The locks of a record, of a slot or of what the slot will hold.
Locks(q, g) == \/ q.pc \in {"marked", "touched"} /\ q.from = g
               \/ q.pc = "touched" /\ q.to = g

\* A slot that holds q next leaves the requests sound.
Fits(r, q) ==
  /\ q \in Request /\ MergeSound(q) /\ WriteSound(q)
  /\ \A g \in Goods : Locks(q, g) => ~LockedByOther(r, g)

\* A request that has ended fits every state of the tables.
LEMMA Idles == ASSUME NEW r \in Reqs PROVE Fits(r, Idle)
  BY DEF Fits, Idle, Request, MergeSound, WriteSound, Locks, Merging

\* A step that changes one request alone, to one that fits, keeps the invariant.
LEMMA SlotKeeps ==
  ASSUME Inv, NEW r \in Reqs, NEW q, Fits(r, q), reqs' = [reqs EXCEPT ![r] = q], NoTable
  PROVE  Inv'
  <1>0. /\ UNCHANGED <<merged, offers, prices, idents, outdated>>
        /\ reqs \in [Reqs -> Request] /\ q \in Request
    BY DEF NoTable, Inv, TypeOK, Fits
  <1>1. TypeOK'
    <2>1. \A s \in Reqs : reqs'[s].pc \in Merging => reqs'[s].from # Null /\ reqs'[s].to # Null
      <3>1. q.pc \in Merging => q.from # Null /\ q.to # Null
        BY CatalogAssumption DEF Fits, MergeSound
      <3> QED
        BY <1>0, <3>1 DEF Inv, TypeOK
    <2> QED
      BY <1>0, <2>1 DEF Inv, TypeOK
  <1>2. RequestsSound'
    <2>1. ASSUME NEW s \in Reqs PROVE MergeSound(reqs'[s]) /\ WriteSound(reqs'[s])
      BY <1>0 DEF Inv, RequestsSound, Fits
    <2> QED
      BY <1>0, <2>1 DEF RequestsSound, MergeSound, WriteSound
  <1>3. LocksExclusive'
    <2>1. \A s \in Reqs, g \in Goods : Holds(s, g)' => (s = r /\ Locks(q, g)) \/ (s # r /\ Holds(s, g))
      BY <1>0 DEF Holds, Locks
    <2>2. \A s \in Reqs, g \in Goods : Locks(q, g) /\ s # r => ~Holds(s, g)
      BY DEF Fits, LockedByOther
    <2> QED
      BY <2>1, <2>2 DEF Inv, LocksExclusive
  <1>4. /\ SameFamily' /\ UniqueOffers' /\ PricesHang' /\ CodesOfOwner'
        /\ TombstonesOnMerged' /\ MergedGoodIsEmpty'
    BY <1>0 DEF Inv, SameFamily, UniqueOffers, PricesHang, CodesOfOwner,
               TombstonesOnMerged, MergedGoodIsEmpty, CodesOnCanonical
  <1> QED
    BY <1>1, <1>2, <1>3, <1>4 DEF Inv

\* A request comes in.
LEMMA ArriveFits ==
  ASSUME Inv, NEW r \in Reqs, Arrive(r)
  PROVE  NoTable /\ \E q : Fits(r, q) /\ reqs' = [reqs EXCEPT ![r] = q]
  <1> USE DEF Begin
  <1>i. /\ Idle \in [pc : {"idle"}, caller : {Null}, from : {Null}, to : {Null},
                     offer : {Null}, store : {Null}, price : {Null}, code : {Null}]
        /\ TypeOK /\ SameFamily
    BY DEF Idle, Inv
  <1>1. ASSUME NEW o \in Owners, NEW a \in Goods, NEW b \in Goods, MergeBegin(r, o, a, b)
        PROVE  NoTable /\ \E q : Fits(r, q) /\ reqs' = [reqs EXCEPT ![r] = q]
    <2> DEFINE q == [Idle EXCEPT !.pc = "target", !.caller = o, !.from = Canon(a), !.to = b]
    <2>1. Canon(a) \in Goods /\ GoodOwner[Canon(a)] = o /\ GoodOwner[b] = o
      BY <1>i, <1>1, CanonFacts DEF MergeBegin
    <2>2. q \in Request
      BY <1>i, <2>1 DEF Request, Merging
    <2>3. q.pc = "target" /\ q.caller = o /\ q.from = Canon(a) /\ q.to = b
      BY <1>i
    <2>4. reqs' = [reqs EXCEPT ![r] = q] /\ NoTable
      BY <1>1 DEF MergeBegin
    <2> HIDE DEF q
    <2>5. Fits(r, q)
      BY <2>1, <2>2, <2>3 DEF Fits, MergeSound, WriteSound, Locks
    <2> QED
      BY <2>4, <2>5
  <1>2. ASSUME NEW o \in Owners, NEW i \in Offers, NEW g \in Goods, NEW s \in Stores,
               OfferResolve(r, o, i, g, s)
        PROVE  NoTable /\ \E q : Fits(r, q) /\ reqs' = [reqs EXCEPT ![r] = q]
    <2> DEFINE q == [Idle EXCEPT !.pc = "probe", !.caller = o, !.offer = i,
                                 !.to = Canon(g), !.store = s]
    <2>1. Canon(g) \in Goods
      BY <1>i, <1>2, CanonFacts DEF OfferResolve
    <2>2. q \in Request
      BY <1>i, <2>1 DEF Request, Merging
    <2>3. q.pc = "probe" /\ q.caller = o /\ q.offer = i /\ q.to = Canon(g) /\ q.store = s
      BY <1>i
    <2>4. reqs' = [reqs EXCEPT ![r] = q] /\ NoTable
      BY <1>2 DEF OfferResolve
    <2> HIDE DEF q
    <2>5. Fits(r, q)
      BY <2>1, <2>2, <2>3 DEF Fits, MergeSound, WriteSound, Locks, Merging
    <2> QED
      BY <2>4, <2>5
  <1>3. ASSUME NEW o \in Owners, NEW p \in Prices, NEW i \in Offers, PriceReadOffer(r, o, p, i)
        PROVE  NoTable /\ \E q : Fits(r, q) /\ reqs' = [reqs EXCEPT ![r] = q]
    <2> DEFINE q == [Idle EXCEPT !.pc = "price", !.caller = o, !.price = p, !.offer = i]
    <2>1. offers[i] # NoOffer
      BY <1>3 DEF PriceReadOffer, NoOffer
    <2>2. q \in Request
      BY <1>i DEF Request, Merging
    <2>3. q.pc = "price" /\ q.caller = o /\ q.price = p /\ q.offer = i
      BY <1>i
    <2>4. reqs' = [reqs EXCEPT ![r] = q] /\ NoTable
      BY <1>3 DEF PriceReadOffer
    <2> HIDE DEF q
    <2>5. Fits(r, q)
      BY <2>1, <2>2, <2>3 DEF Fits, MergeSound, WriteSound, Locks, Merging
    <2> QED
      BY <2>4, <2>5
  <1>4. ASSUME NEW o \in Owners, NEW g \in Goods, NEW c \in Codes, IdentityResolve(r, o, g, c)
        PROVE  NoTable /\ \E q : Fits(r, q) /\ reqs' = [reqs EXCEPT ![r] = q]
    <2> DEFINE q == [Idle EXCEPT !.pc = "identity", !.caller = o, !.to = Canon(g), !.code = c]
    <2>1. Canon(g) \in Goods /\ GoodOwner[Canon(g)] = o
      BY <1>i, <1>4, CanonFacts DEF IdentityResolve
    <2>2. q \in Request
      BY <1>i, <2>1 DEF Request, Merging
    <2>3. q.pc = "identity" /\ q.caller = o /\ q.to = Canon(g) /\ q.code = c
      BY <1>i
    <2>4. reqs' = [reqs EXCEPT ![r] = q] /\ NoTable
      BY <1>4 DEF IdentityResolve
    <2> HIDE DEF q
    <2>5. Fits(r, q)
      BY <2>1, <2>2, <2>3 DEF Fits, MergeSound, WriteSound, Locks, Merging
    <2> QED
      BY <2>4, <2>5
  <1> QED
    BY <1>1, <1>2, <1>3, <1>4 DEF Arrive

\* A merge before its transaction commits, and the other statements that read.
Reads(r) ==
  \/ MergeTarget(r) \/ MergeCheck(r) \/ MergeMark(r) \/ MergeTouch(r) \/ MergeDeadlock(r)
  \/ OfferProbe(r) \/ Fail(r)

\* Every step that only reads or locks leaves its request fitting the tables.
LEMMA ReadsFit ==
  ASSUME Inv, NEW r \in Reqs, Reads(r)
  PROVE  NoTable /\ \E q : Fits(r, q) /\ reqs' = [reqs EXCEPT ![r] = q]
  <1> DEFINE q == reqs[r]
             Goal == NoTable /\ \E p : Fits(r, p) /\ reqs' = [reqs EXCEPT ![r] = p]
  <1> SUFFICES Goal
    OBVIOUS
  <1>0. q \in Request /\ MergeSound(q) /\ WriteSound(q) /\ TypeOK /\ SameFamily
    BY DEF Inv, TypeOK, RequestsSound
  <1>1. ASSUME End(r), NoTable PROVE Goal
    BY <1>1, Idles DEF End
  <1>2. CASE MergeTarget(r)
    <2> DEFINE c == Canon(q.to)
               p == [q EXCEPT !.pc = "check", !.to = c]
    <2>1. CASE End(r)
      BY <1>1, <1>2, <2>1 DEF MergeTarget
    <2>2. CASE c \notin {Null, q.from} /\ reqs' = [reqs EXCEPT ![r] = p]
      <3>1. q.from \in Goods /\ q.to \in Goods /\ q.caller \in Owners /\ q.pc = "target"
            /\ GoodOwner[q.from] = q.caller /\ GoodOwner[q.to] = q.caller
        BY <1>0, <1>2 DEF MergeTarget, MergeSound, Merging
      <3>2. c \in Goods /\ GoodOwner[c] = q.caller
        BY <1>0, <2>2, <3>1, CanonFacts
      <3>3. p \in Request
        BY <1>0, <3>2 DEF Request, Merging
      <3>4. p.pc = "check" /\ p.to = c /\ p.from = q.from /\ p.caller = q.caller
        BY <1>0 DEF Request
      <3> HIDE DEF p
      <3>5. Fits(r, p)
        BY <2>2, <3>1, <3>2, <3>3, <3>4 DEF Fits, MergeSound, WriteSound, Locks
      <3> QED
        BY <1>2, <2>2, <3>5 DEF MergeTarget
    <2> QED
      BY <1>2, <2>1, <2>2 DEF MergeTarget
  <1>3. ASSUME NEW pc, Goto(r, pc), NoTable,
               \/ q.pc = "check" /\ pc = "mark"
               \/ q.pc = "mark" /\ pc = "marked" /\ merged[q.from] = Null
                    /\ ~LockedByOther(r, q.from)
               \/ q.pc = "marked" /\ pc = "touched" /\ ~LockedByOther(r, q.to)
               \/ q.pc = "probe" /\ pc = "insert"
        PROVE  Goal
    <2> DEFINE p == [q EXCEPT !.pc = pc]
    <2>1. p \in Request
      BY <1>0, <1>3 DEF Request, Merging
    <2>2. /\ p.pc = pc /\ p.from = q.from /\ p.to = q.to /\ p.caller = q.caller
          /\ p.offer = q.offer /\ p.store = q.store
      BY <1>0 DEF Request
    <2>3. reqs' = [reqs EXCEPT ![r] = p]
      BY <1>3 DEF Goto
    <2> HIDE DEF p
    <2>4. MergeSound(p) /\ WriteSound(p)
      BY <1>0, <1>3, <2>2 DEF MergeSound, WriteSound, Merging
    <2>5. ASSUME NEW g \in Goods, Locks(p, g) PROVE ~LockedByOther(r, g)
      <3>1. CASE pc = "marked"
        BY <1>3, <2>2, <2>5, <3>1 DEF Locks
      <3>2. CASE pc = "touched"
        <4>1. CASE g = q.to
          BY <1>3, <3>2, <4>1
        <4>2. CASE g = q.from
          <5>1. Holds(r, g)
            BY <1>3, <3>2, <4>2 DEF Holds
          <5> QED
            BY <5>1 DEF Inv, LocksExclusive, LockedByOther
        <4> QED
          BY <2>2, <2>5, <3>2, <4>1, <4>2 DEF Locks
      <3> QED
        BY <1>3, <2>2, <2>5, <3>1, <3>2 DEF Locks
    <2> QED
      BY <1>3, <2>1, <2>3, <2>4, <2>5 DEF Fits
  <1> HIDE DEF Goal
  <1>4. CASE MergeCheck(r)
    BY <1>1, <1>3, <1>4 DEF MergeCheck
  <1>5. CASE MergeMark(r)
    BY <1>1, <1>3, <1>5 DEF MergeMark
  <1>6. CASE MergeTouch(r)
    BY <1>3, <1>6 DEF MergeTouch
  <1>7. CASE MergeDeadlock(r)
    BY <1>1, <1>7 DEF MergeDeadlock
  <1>8. CASE OfferProbe(r)
    BY <1>1, <1>3, <1>8 DEF OfferProbe
  <1>9. CASE Fail(r)
    BY <1>1, <1>9 DEF Fail
  <1> QED
    BY <1>2, <1>4, <1>5, <1>6, <1>7, <1>8, <1>9 DEF Reads

(***************************************************************************)
(* The steps that write                                                    *)
(***************************************************************************)
\* The request that wrote is over, and what it changed nobody else relied on:
\* offers stay in the table, and only goods it held have been merged.
LEMMA WriterEnds ==
  ASSUME Inv, NEW r \in Reqs, End(r),
         \A i \in Offers : offers[i] # NoOffer => offers'[i] # NoOffer,
         \A g \in Goods : merged'[g] = merged[g] \/ Holds(r, g)
  PROVE  /\ reqs' \in [Reqs -> Request]
         /\ \A s \in Reqs : reqs'[s].pc \in Merging => reqs'[s].from # Null /\ reqs'[s].to # Null
         /\ RequestsSound' /\ LocksExclusive'
  <1>0. reqs \in [Reqs -> Request] /\ reqs' = [reqs EXCEPT ![r] = Idle]
        /\ Idle \in Request /\ Idle.pc = "idle"
    BY Idles DEF Inv, TypeOK, End, Fits, Idle
  <1>1. \A s \in Reqs : reqs'[s].pc \in Merging => reqs'[s].from # Null /\ reqs'[s].to # Null
    BY <1>0 DEF Inv, TypeOK, Merging
  <1>2. RequestsSound'
    <2>1. ASSUME NEW s \in Reqs, s # r PROVE MergeSound(reqs[s])' /\ WriteSound(reqs[s])'
      <3>1. MergeSound(reqs[s]) /\ WriteSound(reqs[s]) /\ reqs'[s] = reqs[s]
        BY <1>0, <2>1 DEF Inv, RequestsSound
      <3>2. reqs[s].pc \in {"marked", "touched"} /\ reqs[s].from \in Goods
              => ~Holds(r, reqs[s].from)
        BY <2>1 DEF Inv, LocksExclusive, Holds
      <3>3. MergeSound(reqs[s])'
        BY <3>1, <3>2 DEF MergeSound, Merging
      <3>4. WriteSound(reqs[s])'
        BY <3>1 DEF WriteSound
      <3> QED
        BY <3>3, <3>4
    <2>2. MergeSound(reqs[r])' /\ WriteSound(reqs[r])'
      BY <1>0 DEF MergeSound, WriteSound, Merging
    <2> QED
      BY <2>1, <2>2 DEF RequestsSound
  <1>3. LocksExclusive'
    <2>1. \A s \in Reqs, g \in Goods : Holds(s, g)' => s # r /\ Holds(s, g)
      BY <1>0 DEF Holds
    <2> QED
      BY <2>1 DEF Inv, LocksExclusive
  <1> QED
    BY <1>0, <1>1, <1>2, <1>3

\* A row is there unless it is the missing one.
LEMMA RowThere ==
  ASSUME offers \in [Offers -> OfferRow], NEW i \in Offers
  PROVE  /\ offers[i] # NoOffer <=> offers[i].st # "absent"
         /\ offers[i] # NoOffer =>
              offers[i] \in [st : {"live", "deleted"}, owner : Owners, good : Goods,
                             store : Stores]
  BY DEF OfferRow, NoOffer

\* The insert of an offer keeps the invariant.
LEMMA OfferInsertKeeps ==
  ASSUME Inv, NEW r \in Reqs, OfferInsert(r)
  PROVE  Inv' /\ UNCHANGED <<merged, prices>>
  <1> DEFINE q == reqs[r]
             n == [st |-> "live", owner |-> q.caller, good |-> q.to, store |-> q.store]
  <1>0. /\ q.caller \in Owners /\ q.offer \in Offers /\ q.to \in Goods /\ q.store \in Stores
        /\ TypeOK /\ offers \in [Offers -> OfferRow] /\ End(r)
        /\ UNCHANGED <<merged, prices, idents>>
    BY DEF OfferInsert, Inv, RequestsSound, WriteSound, TypeOK
  <1>1. CASE UNCHANGED <<offers, outdated>>
    <2>1. /\ reqs' \in [Reqs -> Request]
          /\ \A s \in Reqs : reqs'[s].pc \in Merging => reqs'[s].from # Null /\ reqs'[s].to # Null
          /\ RequestsSound' /\ LocksExclusive'
      BY <1>0, <1>1, WriterEnds
    <2> QED
      BY <1>0, <1>1, <2>1
         DEF Inv, TypeOK, SameFamily, UniqueOffers, PricesHang, CodesOfOwner,
             TombstonesOnMerged, MergedGoodIsEmpty, CodesOnCanonical
  <1>2. CASE /\ offers[q.offer].st = "absent" /\ ~RowAt(q.caller, q.to, q.store)
             /\ offers' = [offers EXCEPT ![q.offer] = n]
             /\ outdated' = (outdated \/ merged[q.to] # Null)
    <2>1. /\ n \in OfferRow /\ n.st = "live" /\ n.owner = q.caller /\ n.good = q.to
          /\ n.store = q.store
      BY <1>0 DEF OfferRow
    <2> HIDE DEF n
    <2>2. offers' \in [Offers -> OfferRow] /\ outdated' \in BOOLEAN
      BY <1>0, <1>2, <2>1 DEF TypeOK
    <2>3. \A i \in Offers : offers[i] # NoOffer => offers'[i] # NoOffer
      BY <1>0, <1>2, <2>1 DEF NoOffer
    <2>4. /\ reqs' \in [Reqs -> Request]
          /\ \A s \in Reqs : reqs'[s].pc \in Merging => reqs'[s].from # Null /\ reqs'[s].to # Null
          /\ RequestsSound' /\ LocksExclusive'
      BY <1>0, <2>3, WriterEnds
    <2>5. TypeOK' /\ SameFamily' /\ CodesOfOwner'
      BY <1>0, <2>2, <2>4 DEF Inv, TypeOK, SameFamily, CodesOfOwner
    <2>6. UniqueOffers'
      <3>1. ASSUME NEW j \in Offers, j # q.offer, offers[j] # NoOffer
            PROVE  ~(/\ offers[j].owner = n.owner /\ offers[j].good = n.good
                     /\ offers[j].store = n.store)
        BY <1>0, <1>2, <2>1, <3>1, RowThere DEF RowAt
      <3> QED
        BY <1>0, <1>2, <3>1 DEF Inv, UniqueOffers
    <2>7. PricesHang'
      <3>1. \A p \in Prices : prices[p] # NoPrice => prices[p].offer \in Offers
        BY <1>0 DEF TypeOK, PriceRow
      <3> QED
        BY <1>0, <2>3, <3>1 DEF Inv, PricesHang
    <2>8. TombstonesOnMerged'
      BY <1>0, <1>2, <2>1 DEF Inv, TombstonesOnMerged
    <2>9. MergedGoodIsEmpty'
      BY <1>0, <1>2, <2>1 DEF Inv, MergedGoodIsEmpty, CodesOnCanonical
    <2> QED
      BY <1>0, <2>4, <2>5, <2>6, <2>7, <2>8, <2>9 DEF Inv
  <1> QED
    BY <1>1, <1>2 DEF OfferInsert, Writes

\* The insert of a price keeps the invariant and every price recorded before.
LEMMA PriceInsertKeeps ==
  ASSUME Inv, NEW r \in Reqs, PriceInsert(r)
  PROVE  /\ Inv' /\ UNCHANGED merged
         /\ \A p \in Prices : prices[p] # NoPrice => prices'[p] = prices[p]
  <1> DEFINE q == reqs[r]
             n == [owner |-> q.caller, offer |-> q.offer]
  <1>0. /\ q.caller \in Owners /\ q.offer \in Offers /\ q.price \in Prices
        /\ offers[q.offer] # NoOffer /\ n \in PriceRow /\ n.offer = q.offer
        /\ TypeOK /\ End(r) /\ UNCHANGED <<merged, offers, idents>>
    BY DEF PriceInsert, Inv, RequestsSound, WriteSound, PriceRow
  <1>1. /\ reqs' \in [Reqs -> Request]
        /\ \A s \in Reqs : reqs'[s].pc \in Merging => reqs'[s].from # Null /\ reqs'[s].to # Null
        /\ RequestsSound' /\ LocksExclusive'
    BY <1>0, WriterEnds
  <1>2. /\ \/ prices' = prices
           \/ prices[q.price] = NoPrice /\ prices' = [prices EXCEPT ![q.price] = n]
        /\ outdated' \in BOOLEAN /\ (outdated => outdated')
    BY <1>0 DEF PriceInsert, Writes, TypeOK
  <1> HIDE DEF n
  <1>3. TypeOK' /\ SameFamily' /\ UniqueOffers' /\ CodesOfOwner' /\ TombstonesOnMerged'
    BY <1>0, <1>1, <1>2
       DEF Inv, TypeOK, SameFamily, UniqueOffers, CodesOfOwner, TombstonesOnMerged
  <1>4. PricesHang'
    BY <1>0, <1>2 DEF Inv, TypeOK, PricesHang
  <1>5. MergedGoodIsEmpty'
    BY <1>0, <1>2 DEF Inv, MergedGoodIsEmpty, CodesOnCanonical
  <1> QED
    BY <1>0, <1>1, <1>2, <1>3, <1>4, <1>5 DEF Inv, TypeOK

\* The upsert of a code keeps the invariant.
LEMMA IdentityUpsertKeeps ==
  ASSUME Inv, NEW r \in Reqs, IdentityUpsert(r)
  PROVE  Inv' /\ UNCHANGED <<merged, offers, prices>>
  <1> DEFINE q == reqs[r]
  <1>0. /\ q.caller \in Owners /\ q.code \in Codes /\ q.to \in Goods
        /\ GoodOwner[q.to] = q.caller
        /\ TypeOK /\ End(r) /\ UNCHANGED <<merged, offers, prices>>
        /\ idents' = [idents EXCEPT ![q.caller][q.code] = q.to]
        /\ outdated' = (outdated \/ merged[q.to] # Null)
        /\ idents \in [Owners -> [Codes -> Goods \cup {Null}]]
    BY DEF IdentityUpsert, Inv, RequestsSound, WriteSound, Writes, TypeOK
  <1>1. /\ reqs' \in [Reqs -> Request]
        /\ \A s \in Reqs : reqs'[s].pc \in Merging => reqs'[s].from # Null /\ reqs'[s].to # Null
        /\ RequestsSound' /\ LocksExclusive'
    BY <1>0, WriterEnds
  <1>2. idents' \in [Owners -> [Codes -> Goods \cup {Null}]]
        /\ \A o \in Owners, c \in Codes :
             idents'[o][c] = IF o = q.caller /\ c = q.code THEN q.to ELSE idents[o][c]
    BY <1>0
  <1>3. TypeOK' /\ SameFamily' /\ UniqueOffers' /\ PricesHang' /\ TombstonesOnMerged'
    BY <1>0, <1>1, <1>2
       DEF Inv, TypeOK, SameFamily, UniqueOffers, PricesHang, TombstonesOnMerged
  <1>4. CodesOfOwner'
    BY <1>0, <1>2 DEF Inv, CodesOfOwner
  <1>5. MergedGoodIsEmpty'
    <2> SUFFICES ASSUME ~outdated' PROVE MergedGoodIsEmpty'
      BY DEF MergedGoodIsEmpty
    <2>1. ~outdated /\ merged[q.to] = Null
      BY <1>0
    <2>2. ASSUME NEW o \in Owners, NEW c \in Codes, idents'[o][c] # Null
          PROVE  merged[idents'[o][c]] = Null
      BY <1>2, <2>1, <2>2 DEF Inv, MergedGoodIsEmpty, CodesOnCanonical
    <2> QED
      BY <1>0, <2>1, <2>2 DEF Inv, MergedGoodIsEmpty, CodesOnCanonical
  <1> QED
    BY <1>0, <1>1, <1>3, <1>4, <1>5 DEF Inv

(***************************************************************************)
(* The commit of a merge                                                   *)
(***************************************************************************)
\* A merge that is about to commit: both goods are locked and unmerged or, the
\* target, maybe not; and the offer index has room.
Committing(r) ==
  LET q == reqs[r] IN
  /\ q.pc = "touched" /\ ~Blocked(q) /\ End(r)
  /\ merged' = [merged EXCEPT ![q.from] = q.to]
  /\ prices' = [p \in Prices |-> [prices[p] EXCEPT !.offer = Folded(q, p)]]
  /\ offers' = OffersAfter(q)
  /\ idents' = [idents EXCEPT ![q.caller] =
       [c \in Codes |-> IF @[c] = q.from THEN q.to ELSE @[c]]]
  /\ outdated' = (outdated \/ merged[q.to] # Null)

\* The offers the merge q is about.
Source(q, i) == offers[i].st = "live" /\ offers[i].owner = q.caller /\ offers[i].good = q.from

\* What a merge knows when it commits: two goods of the caller, the source still
\* unmerged because the merge has held its row since it checked.
LEMMA CommitFacts ==
  ASSUME Inv, NEW r \in Reqs, Committing(r)
  PROVE  LET q == reqs[r] IN
         /\ q.from \in Goods /\ q.to \in Goods /\ q.caller \in Owners /\ q.from # q.to
         /\ GoodOwner[q.from] = q.caller /\ GoodOwner[q.to] = q.caller
         /\ merged[q.from] = Null /\ Null \notin Goods
         /\ merged \in [Goods -> Goods \cup {Null}]
         /\ offers \in [Offers -> OfferRow] /\ prices \in [Prices -> PriceRow]
         /\ idents \in [Owners -> [Codes -> Goods \cup {Null}]]
         /\ Holds(r, q.from)
  BY CatalogAssumption
     DEF Inv, TypeOK, RequestsSound, MergeSound, Merging, Committing, Holds

\* What becomes of an offer: it stays as it is, or, one of the source, it moves
\* to the target, where the index has nothing in its place, or is deleted beside
\* a live one of the target.
LEMMA OfferFate ==
  ASSUME Inv, NEW r \in Reqs, Committing(r), NEW i \in Offers
  PROVE  LET q == reqs[r] IN
         /\ offers'[i] \in OfferRow
         /\ ~Source(q, i) => offers'[i] = offers[i]
         /\ Source(q, i) =>
              /\ offers'[i].owner = q.caller /\ offers'[i].store = offers[i].store
              /\ offers[i] # NoOffer /\ offers'[i] # NoOffer
              /\ \/ /\ Twins(q.caller, q.to, i) = {}
                    /\ ~RowAt(q.caller, q.to, offers[i].store)
                    /\ offers'[i].st = "live" /\ offers'[i].good = q.to
                 \/ /\ Twins(q.caller, q.to, i) # {}
                    /\ offers'[i].st = "deleted" /\ offers'[i].good = q.from
  <1> DEFINE q == reqs[r]
             T == Twins(q.caller, q.to, i)
  <1>0. q.to \in Goods /\ offers \in [Offers -> OfferRow]
    BY CommitFacts
  <1>1. offers'[i] = MergedOffer(q, offers[i], T)
    BY DEF Committing, OffersAfter
  <1>2. CASE ~Source(q, i)
    BY <1>0, <1>1, <1>2 DEF Source, MergedOffer
  <1>3. CASE Source(q, i)
    <2>1. offers[i] \in [st : {"live", "deleted"}, owner : Owners, good : Goods, store : Stores]
          /\ offers[i] # NoOffer
      BY <1>0, <1>3, RowThere DEF Source
    <2>2. CASE T = {}
      <3>1. offers'[i] = [offers[i] EXCEPT !.good = q.to]
        BY <1>1, <1>3, <2>2 DEF Source, MergedOffer
      <3>2. ~RowAt(q.caller, q.to, offers[i].store)
        BY <1>3, <2>2 DEF Committing, Blocked, Source
      <3>3. /\ offers'[i] \in [st : {"live", "deleted"}, owner : Owners, good : Goods,
                              store : Stores]
            /\ offers'[i].st = "live" /\ offers'[i].owner = q.caller
            /\ offers'[i].good = q.to /\ offers'[i].store = offers[i].store
        BY <1>0, <1>3, <2>1, <3>1 DEF Source
      <3> QED
        BY <1>3, <2>1, <2>2, <3>2, <3>3 DEF OfferRow, NoOffer
    <2>3. CASE T # {}
      <3>1. offers'[i] = [offers[i] EXCEPT !.st = "deleted"]
        BY <1>1, <1>3, <2>3 DEF Source, MergedOffer
      <3>2. /\ offers'[i] \in [st : {"live", "deleted"}, owner : Owners, good : Goods,
                              store : Stores]
            /\ offers'[i].st = "deleted" /\ offers'[i].owner = q.caller
            /\ offers'[i].good = q.from /\ offers'[i].store = offers[i].store
        BY <1>3, <2>1, <3>1 DEF Source
      <3> QED
        BY <1>3, <2>1, <2>3, <3>2 DEF OfferRow, NoOffer
    <2> QED
      BY <2>2, <2>3
  <1> QED
    BY <1>2, <1>3

\* What becomes of a price record: it stays, or its offer is one of the source
\* that is deleted and it goes to a live one of the target in the same store.
LEMMA PriceFate ==
  ASSUME Inv, NEW r \in Reqs, Committing(r), NEW p \in Prices
  PROVE  LET q == reqs[r]  i == prices[p].offer  e == prices'[p].offer IN
         /\ prices'[p] \in PriceRow
         /\ prices[p] = NoPrice => prices'[p] = NoPrice
         /\ prices[p] # NoPrice =>
              /\ prices'[p] # NoPrice /\ i \in Offers /\ e \in Offers
              /\ prices'[p].owner = prices[p].owner
              /\ \/ prices'[p] = prices[p] /\ ~(Source(q, i) /\ Twins(q.caller, q.to, i) # {})
                 \/ Source(q, i) /\ e \in Twins(q.caller, q.to, i)
  <1> DEFINE q == reqs[r]
             i == prices[p].offer
             T == Twins(q.caller, q.to, i)
             row == prices[p]
  <1>0. /\ prices[p] \in PriceRow /\ prices'[p] = [row EXCEPT !.offer = Folded(q, p)]
        /\ offers \in [Offers -> OfferRow]
        /\ Null \notin Owners /\ Null \notin Offers
    BY CommitFacts, CatalogAssumption DEF Committing
  <1>1. CASE prices[p] = NoPrice
    <2>1. Folded(q, p) = Null
      BY <1>1 DEF Folded, NoPrice
    <2>2. ASSUME NEW x \in [owner : {Null}, offer : {Null}] PROVE x = NoPrice
      BY DEF NoPrice
    <2>3. prices'[p] \in [owner : {Null}, offer : {Null}]
      BY <1>0, <1>1, <2>1 DEF NoPrice
    <2> QED
      BY <1>1, <2>2, <2>3 DEF PriceRow
  <1>2. CASE prices[p] # NoPrice
    <2>0. row \in [owner : Owners, offer : Offers] /\ i \in Offers
      BY <1>0, <1>2 DEF PriceRow
    <2>1. T \subseteq Offers
      BY DEF Twins, LiveAt
    <2>2. Folded(q, p) \in Offers
          /\ (Source(q, i) /\ T # {} => Folded(q, p) \in T)
          /\ (~(Source(q, i) /\ T # {}) => Folded(q, p) = i)
      BY <1>2, <2>0, <2>1 DEF Folded, Source
    <2>3. /\ prices'[p] \in [owner : Owners, offer : Offers]
          /\ prices'[p].owner = row.owner /\ prices'[p].offer = Folded(q, p)
      BY <1>0, <2>0, <2>2
    <2>4. prices'[p] # NoPrice
      BY <1>0, <2>3 DEF NoPrice
    <2>5. ASSUME NEW x \in [owner : Owners, offer : Offers],
                 NEW y \in [owner : Owners, offer : Offers],
                 x.owner = y.owner, x.offer = y.offer
          PROVE  x = y
      BY <2>5
    <2>6. ~(Source(q, i) /\ T # {}) => prices'[p] = row
      BY <2>0, <2>2, <2>3, <2>5
    <2> QED
      BY <1>2, <2>0, <2>2, <2>3, <2>4, <2>6 DEF PriceRow
  <1> QED
    BY <1>1, <1>2

\* What a step may do to the goods, and to the prices.
MergesOnce == \A g \in Goods : merged[g] # Null => merged'[g] = merged[g]

PriceMoves(p) ==
  LET a == offers[prices[p].offer]  b == offers'[prices'[p].offer] IN
  /\ prices'[p].owner = prices[p].owner
  /\ a.st = "live" /\ offers'[prices[p].offer].st = "deleted" /\ b.st = "live"
  /\ b.owner = a.owner /\ b.store = a.store
  /\ merged[a.good] = Null /\ merged'[a.good] = b.good

PricesMove == \A p \in Prices : prices[p] # NoPrice /\ prices'[p] # prices[p] => PriceMoves(p)

\* The commit of a merge keeps the parts of the invariant that look at one row.
LEMMA CommitTables ==
  ASSUME Inv, NEW r \in Reqs, Committing(r)
  PROVE  TypeOK' /\ RequestsSound' /\ LocksExclusive' /\ PricesHang' /\ PricesMove
  <1> DEFINE q == reqs[r]
  <1>1. \A i \in Offers : offers[i] # NoOffer => offers'[i] # NoOffer
    BY OfferFate
  <1>2. \A g \in Goods : merged'[g] = merged[g] \/ Holds(r, g)
    BY CommitFacts DEF Committing
  <1>3. /\ reqs' \in [Reqs -> Request]
        /\ \A s \in Reqs : reqs'[s].pc \in Merging => reqs'[s].from # Null /\ reqs'[s].to # Null
        /\ RequestsSound' /\ LocksExclusive'
    BY <1>1, <1>2, WriterEnds DEF Committing
  <1>4. merged' \in [Goods -> Goods \cup {Null}]
    BY CommitFacts DEF Committing
  <1>5. offers' \in [Offers -> OfferRow]
    <2>1. \E f : offers' = [i \in Offers |-> f[i]]
      <3>1. offers' = [i \in Offers |-> offers'[i]]
        BY DEF Committing, OffersAfter
      <3> QED
        BY <3>1
    <2> QED
      BY <2>1, OfferFate
  <1>6. prices' \in [Prices -> PriceRow]
    <2>1. prices' = [p \in Prices |-> prices'[p]]
      BY DEF Committing
    <2> QED
      BY <2>1, PriceFate
  <1>7. idents' \in [Owners -> [Codes -> Goods \cup {Null}]]
    <2> DEFINE m == [c \in Codes |-> IF idents[q.caller][c] = q.from THEN q.to
                                                                ELSE idents[q.caller][c]]
    <2>1. m \in [Codes -> Goods \cup {Null}]
      BY CommitFacts
    <2>2. idents' = [idents EXCEPT ![q.caller] = m]
      BY DEF Committing
    <2> HIDE DEF m
    <2> QED
      BY <2>1, <2>2, CommitFacts
  <1>8. outdated' \in BOOLEAN
    BY DEF Committing, Inv, TypeOK
  <1>9. PricesHang'
    <2>1. ASSUME NEW p \in Prices, prices'[p] # NoPrice
          PROVE  offers'[prices'[p].offer] # NoOffer
      <3>1. prices[p] # NoPrice
        BY <2>1, PriceFate
      <3>2. CASE prices'[p] = prices[p]
        BY <1>1, <3>1, <3>2, PriceFate DEF Inv, PricesHang
      <3>3. CASE prices'[p].offer \in Twins(q.caller, q.to, prices[p].offer)
        <4>1. prices'[p].offer \in Offers /\ offers[prices'[p].offer].st = "live"
          BY <3>3 DEF Twins, LiveAt
        <4> QED
          BY <1>1, <4>1 DEF NoOffer
      <3> QED
        BY <3>1, <3>2, <3>3, PriceFate
    <2> QED
      BY <2>1 DEF PricesHang
  <1>10. ASSUME NEW p \in Prices, prices[p] # NoPrice, prices'[p] # prices[p]
         PROVE  PriceMoves(p)
    <2> DEFINE i == prices[p].offer
               e == prices'[p].offer
    <2>1. /\ i \in Offers /\ e \in Offers /\ prices'[p].owner = prices[p].owner
          /\ Source(q, i) /\ e \in Twins(q.caller, q.to, i)
      BY <1>10, PriceFate
    <2>2. /\ offers[e].st = "live" /\ offers[e].owner = q.caller /\ offers[e].good = q.to
          /\ offers[e].store = offers[i].store
      BY <2>1 DEF Twins, LiveAt
    <2>3. ~Source(q, e)
      BY <2>2, CommitFacts DEF Source
    <2>4. offers'[e] = offers[e] /\ offers'[i].st = "deleted"
      BY <2>1, <2>3, OfferFate
    <2>5. merged[q.from] = Null /\ merged'[q.from] = q.to
      BY CommitFacts DEF Committing
    <2> QED
      BY <2>1, <2>2, <2>4, <2>5 DEF PriceMoves, Source
  <1> QED
    BY <1>3, <1>4, <1>5, <1>6, <1>7, <1>8, <1>9, <1>10 DEF TypeOK, PricesMove

\* The commit of a merge keeps the invariant.
LEMMA CommitKeeps ==
  ASSUME Inv, NEW r \in Reqs, Committing(r)
  PROVE  Inv' /\ MergesOnce /\ PricesMove
  <1> DEFINE q == reqs[r]
  <1>0. /\ q.from \in Goods /\ q.to \in Goods /\ q.caller \in Owners /\ q.from # q.to
        /\ GoodOwner[q.from] = q.caller /\ GoodOwner[q.to] = q.caller
        /\ merged[q.from] = Null /\ Null \notin Goods
        /\ merged \in [Goods -> Goods \cup {Null}]
        /\ merged' = [merged EXCEPT ![q.from] = q.to]
        /\ offers \in [Offers -> OfferRow]
    BY CommitFacts DEF Committing
  <1>1. TypeOK' /\ RequestsSound' /\ LocksExclusive' /\ PricesHang' /\ PricesMove
    BY CommitTables
  <1>2. SameFamily' /\ MergesOnce
    BY <1>0 DEF Inv, SameFamily, MergesOnce
  <1>3. UniqueOffers'
    <2> SUFFICES ASSUME NEW i \in Offers, NEW j \in Offers,
                        offers'[i] # NoOffer, offers'[j] # NoOffer,
                        offers'[i].owner = offers'[j].owner,
                        offers'[i].good = offers'[j].good,
                        offers'[i].store = offers'[j].store
                 PROVE  i = j
      BY DEF UniqueOffers
    <2>1. CASE ~Source(q, i) /\ ~Source(q, j)
      BY <2>1, OfferFate DEF Inv, UniqueOffers
    <2>2. CASE Source(q, i) /\ Source(q, j)
      <3>1. /\ offers[i] # NoOffer /\ offers[j] # NoOffer
            /\ offers'[i].store = offers[i].store /\ offers'[j].store = offers[j].store
        BY <2>2, OfferFate
      <3> QED
        BY <2>2, <3>1 DEF Inv, UniqueOffers, Source
    <2>3. ASSUME NEW k \in Offers, NEW l \in Offers, Source(q, k), ~Source(q, l),
                 offers'[k] # NoOffer, offers'[l] # NoOffer,
                 offers'[k].owner = offers'[l].owner, offers'[k].good = offers'[l].good,
                 offers'[k].store = offers'[l].store
          PROVE  k = l
      <3>1. /\ offers'[l] = offers[l] /\ offers[l] # NoOffer
            /\ offers'[k].owner = q.caller /\ offers'[k].store = offers[k].store
            /\ offers[k] # NoOffer
        BY <2>3, OfferFate
      <3>2. CASE ~RowAt(q.caller, q.to, offers[k].store) /\ offers'[k].good = q.to
        BY <1>0, <2>3, <3>1, <3>2, RowThere DEF RowAt
      <3>3. CASE offers'[k].good = q.from
        BY <2>3, <3>1, <3>3 DEF Inv, UniqueOffers, Source
      <3> QED
        BY <2>3, <3>2, <3>3, OfferFate
    <2> QED
      BY <2>1, <2>2, <2>3
  <1>4. CodesOfOwner'
    <2>1. ASSUME NEW o \in Owners, NEW c \in Codes
          PROVE  idents'[o][c] = IF o = q.caller /\ idents[o][c] = q.from THEN q.to
                                                                      ELSE idents[o][c]
      BY CommitFacts DEF Committing
    <2> QED
      BY <1>0, <2>1 DEF Inv, CodesOfOwner
  <1>5. TombstonesOnMerged'
    <2> SUFFICES ASSUME NEW i \in Offers, offers'[i].st = "deleted"
                 PROVE  merged'[offers'[i].good] # Null
      BY DEF TombstonesOnMerged
    <2>1. CASE Source(q, i)
      BY <1>0, <2>1, OfferFate
    <2>2. CASE ~Source(q, i)
      <3>1. offers[i].st = "deleted" /\ offers'[i] = offers[i] /\ offers[i].good \in Goods
        BY <1>0, <2>2, OfferFate, RowThere DEF NoOffer
      <3> QED
        BY <1>0, <3>1 DEF Inv, TombstonesOnMerged
    <2> QED
      BY <2>1, <2>2
  <1>6. MergedGoodIsEmpty'
    <2> SUFFICES ASSUME ~outdated' PROVE MergedGoodIsEmpty'
      BY DEF MergedGoodIsEmpty
    <2>1. ~outdated /\ merged[q.to] = Null /\ merged'[q.to] = Null
      BY <1>0 DEF Committing
    <2>2. ASSUME NEW i \in Offers, offers'[i].st = "live",
                 offers'[i].owner = GoodOwner[offers'[i].good]
          PROVE  merged'[offers'[i].good] = Null
      <3>1. CASE Source(q, i)
        BY <2>1, <2>2, <3>1, OfferFate
      <3>2. CASE ~Source(q, i)
        <4>1. offers'[i] = offers[i] /\ offers[i].good \in Goods
          BY <1>0, <2>2, <3>2, OfferFate, RowThere DEF NoOffer
        <4>2. offers[i].good # q.from /\ merged[offers[i].good] = Null
          BY <1>0, <2>1, <2>2, <3>2, <4>1 DEF Source, Inv, MergedGoodIsEmpty
        <4> QED
          BY <1>0, <4>1, <4>2
      <3> QED
        BY <3>1, <3>2
    <2>3. ASSUME NEW o \in Owners, NEW c \in Codes, idents'[o][c] # Null
          PROVE  merged'[idents'[o][c]] = Null
      <3>1. idents'[o][c] = IF o = q.caller /\ idents[o][c] = q.from THEN q.to
                                                                  ELSE idents[o][c]
        BY CommitFacts DEF Committing
      <3>2. CASE o = q.caller /\ idents[o][c] = q.from
        BY <2>1, <3>1, <3>2
      <3>3. CASE ~(o = q.caller /\ idents[o][c] = q.from)
        <4>1. idents[o][c] \in Goods /\ GoodOwner[idents[o][c]] = o
              /\ merged[idents[o][c]] = Null
          BY <2>1, <2>3, <3>1, <3>3, CommitFacts
             DEF Inv, CodesOfOwner, MergedGoodIsEmpty, CodesOnCanonical
        <4> QED
          BY <1>0, <3>1, <3>3, <4>1
      <3> QED
        BY <3>2, <3>3
    <2> QED
      BY <2>2, <2>3 DEF MergedGoodIsEmpty, CodesOnCanonical
  <1> QED
    BY <1>1, <1>2, <1>3, <1>4, <1>5, <1>6 DEF Inv

(***************************************************************************)
(* The theorems about the tables                                           *)
(***************************************************************************)
LEMMA AdvanceCases ==
  ASSUME NEW r \in Reqs, Advance(r)
  PROVE  \/ Reads(r) \/ Committing(r) \/ (End(r) /\ NoTable)
         \/ OfferInsert(r) \/ PriceInsert(r) \/ IdentityUpsert(r)
  BY DEF Advance, Reads, MergeCommit, Committing, Writes

\* A step either writes no table or is one of the four that write.
LEMMA NextCases ==
  ASSUME Inv, [Next]_vars
  PROVE  \/ Inv' /\ NoTable
         \/ \E r \in Reqs :
              Committing(r) \/ OfferInsert(r) \/ PriceInsert(r) \/ IdentityUpsert(r)
  <1>1. CASE UNCHANGED vars
    <2>1. Inv' /\ NoTable
      BY <1>1
         DEF vars, NoTable, Inv, TypeOK, SameFamily, RequestsSound, MergeSound, WriteSound,
             LocksExclusive, Holds, UniqueOffers, PricesHang, CodesOfOwner,
             TombstonesOnMerged, MergedGoodIsEmpty, CodesOnCanonical
    <2> QED
      BY <2>1
  <1>2. ASSUME NEW r \in Reqs, Arrive(r) \/ Advance(r) \/ Fail(r)
        PROVE  \/ Inv' /\ NoTable
               \/ Committing(r) \/ OfferInsert(r) \/ PriceInsert(r) \/ IdentityUpsert(r)
    <2>1. CASE Arrive(r)
      BY <2>1, ArriveFits, SlotKeeps
    <2>2. CASE Reads(r)
      BY <2>2, ReadsFit, SlotKeeps
    <2>3. CASE End(r) /\ NoTable
      BY <2>3, Idles, SlotKeeps DEF End
    <2> QED
      BY <1>2, <2>1, <2>2, <2>3, AdvanceCases DEF Reads
  <1> QED
    BY <1>1, <1>2 DEF Next

\* Every step keeps the invariant; none re-points a merged good or leaves a price
\* behind.
LEMMA StepKeeps ==
  ASSUME Inv, [Next]_vars
  PROVE  Inv' /\ MergesOnce /\ PricesMove
  <1>1. CASE NoTable /\ Inv'
    BY <1>1 DEF NoTable, MergesOnce, PricesMove
  <1>2. ASSUME NEW r \in Reqs, Committing(r) PROVE Inv' /\ MergesOnce /\ PricesMove
    BY <1>2, CommitKeeps
  <1>3. ASSUME NEW r \in Reqs, OfferInsert(r) PROVE Inv' /\ MergesOnce /\ PricesMove
    BY <1>3, OfferInsertKeeps DEF MergesOnce, PricesMove
  <1>4. ASSUME NEW r \in Reqs, PriceInsert(r) PROVE Inv' /\ MergesOnce /\ PricesMove
    BY <1>4, PriceInsertKeeps DEF MergesOnce, PricesMove
  <1>5. ASSUME NEW r \in Reqs, IdentityUpsert(r) PROVE Inv' /\ MergesOnce /\ PricesMove
    BY <1>5, IdentityUpsertKeeps DEF MergesOnce, PricesMove
  <1> QED
    BY <1>1, <1>2, <1>3, <1>4, <1>5, NextCases

\* The invariant holds at the start.
LEMMA InitHolds == Init => Inv
  <1> SUFFICES ASSUME Init PROVE Inv
    OBVIOUS
  <1>1. TypeOK
    BY DEF Init, TypeOK, OfferRow, PriceRow, Idle, Request, Merging
  <1>2. RequestsSound /\ LocksExclusive
    BY DEF Init, RequestsSound, MergeSound, WriteSound, LocksExclusive, Holds, Idle, Merging
  <1>3. SameFamily /\ UniqueOffers /\ PricesHang /\ CodesOfOwner
    BY DEF Init, SameFamily, UniqueOffers, PricesHang, CodesOfOwner
  <1>4. TombstonesOnMerged /\ MergedGoodIsEmpty
    BY DEF Init, TombstonesOnMerged, MergedGoodIsEmpty, CodesOnCanonical, NoOffer
  <1> QED
    BY <1>1, <1>2, <1>3, <1>4 DEF Inv

\* Merges in flight have their goods to themselves once they have locked them, and
\* every row the handlers wrote hangs where the foreign keys say.
THEOREM Invariant == Spec => []Inv
  <1>1. Inv /\ [Next]_vars => Inv'
    BY StepKeeps
  <1> QED
    BY InitHolds, <1>1, PTL DEF Spec

\* The tables and the requests keep their types: what the resolve finds at the
\* end of a chain is a good, or nothing (repository/canonical.go:25).
THEOREM TypeCorrect == Spec => []TypeOK
  <1>1. Inv => TypeOK
    BY DEF Inv
  <1> QED
    BY Invariant, <1>1, PTL

\* Offers are only deleted by the merge of their good (repository/offer.go:145).
THEOREM DeletedWithTheirGood == Spec => []TombstonesOnMerged
  <1>1. Inv => TombstonesOnMerged
    BY DEF Inv
  <1> QED
    BY Invariant, <1>1, PTL

\* A merge leaves no live offer of its owner and no code with the source, but for
\* what a handler writes that had read the good before (service/merge.go:32).
THEOREM MergeTakesAll == Spec => []MergedGoodIsEmpty
  <1>1. Inv => MergedGoodIsEmpty
    BY DEF Inv
  <1> QED
    BY Invariant, <1>1, PTL

\* An owner has one live offer for a good and a store, also after the good has
\* become one with others, but for the same writes (repository/offer.go:145).
THEOREM OneOffer == Spec => []OneOfferPerPair
  <1>1. Inv => OneOfferPerPair
    <2> SUFFICES ASSUME Inv, ~outdated, NEW i \in Offers, NEW j \in Offers,
                        offers[i].st = "live", offers[j].st = "live", i # j,
                        offers[i].owner = offers[j].owner, offers[i].store = offers[j].store,
                        GoodOwner[offers[i].good] = offers[i].owner,
                        GoodOwner[offers[j].good] = offers[j].owner
                 PROVE  Canon(offers[i].good) # Canon(offers[j].good)
      BY DEF OneOfferPerPair, NoTwins
    <2>1. offers[i] # NoOffer /\ offers[j] # NoOffer
      BY DEF NoOffer
    <2>2. offers[i].good \in Goods /\ offers[j].good \in Goods
      BY <2>1, RowThere DEF Inv, TypeOK
    <2>3. merged[offers[i].good] = Null /\ merged[offers[j].good] = Null
      BY DEF Inv, MergedGoodIsEmpty
    <2>4. offers[i].good # offers[j].good
      BY <2>1 DEF Inv, UniqueOffers
    <2> QED
      BY <2>2, <2>3, <2>4, CanonFacts DEF Inv
  <1> QED
    BY Invariant, <1>1, PTL

\* A good is merged once: the second of two merges of one source finds the row
\* taken when the lock is free (repository/good.go:112).
THEOREM GoodsMergeOnce == Spec => MergedOnce
  <1>1. Inv /\ [Next]_vars => [\A g \in Goods : merged[g] # Null => merged'[g] = merged[g]]_merged
    BY StepKeeps DEF MergesOnce
  <1> QED
    BY Invariant, <1>1, PTL DEF Spec, MergedOnce

\* A price record moves only in the merge that deletes its offer, to a live one of
\* the same owner and store (repository/offer.go:145).
THEOREM PricesFollow == Spec => PricesMoveWithMerge
  <1>1. Inv /\ [Next]_vars
          => [\A p \in Prices : prices[p] # NoPrice /\ prices'[p] # prices[p] =>
                LET a == offers[prices[p].offer]  b == offers'[prices'[p].offer] IN
                /\ prices'[p].owner = prices[p].owner
                /\ a.st = "live" /\ offers'[prices[p].offer].st = "deleted" /\ b.st = "live"
                /\ b.owner = a.owner /\ b.store = a.store
                /\ merged[a.good] = Null /\ merged'[a.good] = b.good]_vars
    BY StepKeeps DEF PricesMove, PriceMoves
  <1> QED
    BY Invariant, <1>1, PTL DEF Spec, PricesMoveWithMerge

(***************************************************************************)
(* The refinement of PriceBook                                             *)
(***************************************************************************)
\* A merge of a into b lengthens the walks that ended at a by one step and leaves
\* the others alone.
LEMMA WalksJoin ==
  ASSUME NEW f \in Pointers, NEW h \in Pointers, NEW a \in Goods, NEW b \in Goods,
         f[a] = Null, h[a] = b, h[b] = Null, \A x \in Goods \ {a} : h[x] = f[x],
         NEW g \in Goods
  PROVE  \/ LastOf(h, g) = LastOf(f, g)
         \/ LastOf(f, g) = a /\ LastOf(h, g) = b
  <1> DEFINE w == Walk(f, g)
             v == Walk(h, g)
             Close(n) == v[n] = w[n] \/ (w[n] = a /\ v[n] = b)
             S == {n \in Nat : n <= MaxDepth => Close(n)}
  <1>0. MaxDepth \in Nat /\ Null \notin Goods
    BY CatalogAssumption
  <1>1. f[a] = Null /\ h[a] = b /\ h[b] = Null /\ \A x \in Goods \ {a} : h[x] = f[x]
    OBVIOUS
  <1>2. IsWalk(f, g, w, MaxDepth) /\ IsWalk(h, g, v, MaxDepth)
    BY <1>1, WalkIs
  <1> HIDE DEF w, v
  <1>3. 0 \in S
    BY <1>2 DEF IsWalk
  <1>4. ASSUME NEW n \in S PROVE n + 1 \in S
    <2> SUFFICES ASSUME n + 1 <= MaxDepth PROVE Close(n + 1)
      OBVIOUS
    <2>1. n \in 0..(MaxDepth - 1) /\ n \in 0..MaxDepth /\ Close(n)
      BY <1>0
    <2>2. /\ w[n + 1] = Along(f, w[n]) /\ v[n + 1] = Along(h, v[n])
          /\ w[n] \in Goods /\ v[n] \in Goods
      BY <1>2, <2>1 DEF IsWalk
    <2>3. CASE v[n] = w[n] /\ w[n] # a
      BY <1>1, <2>2, <2>3 DEF Along
    <2>4. CASE v[n] = w[n] /\ w[n] = a
      BY <1>0, <1>1, <2>2, <2>4 DEF Along
    <2>5. CASE w[n] = a /\ v[n] = b
      BY <1>1, <2>2, <2>5 DEF Along
    <2> QED
      BY <2>1, <2>3, <2>4, <2>5
  <1> HIDE DEF S
  <1>5. S = Nat
    BY <1>3, <1>4, SetInduction DEF S
  <1>6. Close(MaxDepth)
    BY <1>0, <1>5 DEF S
  <1> QED
    BY <1>6 DEF LastOf, w, v

\* What the goods resolve to after the merge.
LEMMA RepAfter ==
  ASSUME Inv, NEW r \in Reqs, Committing(r), merged[reqs[r].to] = Null,
         ChainsEnd, ChainsEnd', NEW g \in Goods
  PROVE  Canon(g)' = IF Canon(g) = reqs[r].from THEN reqs[r].to ELSE Canon(g)
  <1> DEFINE q == reqs[r]
  <1>1. /\ q.from \in Goods /\ q.to \in Goods /\ q.from # q.to
        /\ merged[q.from] = Null /\ merged' = [merged EXCEPT ![q.from] = q.to]
        /\ merged \in Pointers /\ merged' \in Pointers
    BY CommitFacts DEF Committing, Pointers
  <1>2. /\ Canon(g) = Resolve(merged, g) /\ Canon(g) # Null
        /\ Canon(g)' = Resolve(merged', g) /\ Canon(g)' # Null
    BY <1>1, CanonIs, CanonIsAfter DEF ChainsEnd
  <1>0. merged[q.to] = Null
    OBVIOUS
  <1> HIDE DEF q
  <1>3. \/ LastOf(merged', g) = LastOf(merged, g)
        \/ (LastOf(merged, g) = q.from /\ LastOf(merged', g) = q.to)
    <2>1. /\ merged'[q.from] = q.to /\ merged'[q.to] = Null
          /\ \A x \in Goods \ {q.from} : merged'[x] = merged[x]
      BY <1>1, <1>0 DEF Pointers
    <2>2. \A f, h \in Pointers : \A a, b, x \in Goods :
             /\ f[a] = Null /\ h[a] = b /\ h[b] = Null
             /\ \A y \in Goods \ {a} : h[y] = f[y]
             => \/ LastOf(h, x) = LastOf(f, x)
                \/ (LastOf(f, x) = a /\ LastOf(h, x) = b)
      BY WalksJoin
    <2>3. merged \in Pointers /\ merged' \in Pointers /\ q.from \in Goods /\ q.to \in Goods
      BY <1>1
    <2>4. \A a, b, x \in Goods :
             /\ merged[a] = Null /\ merged'[a] = b /\ merged'[b] = Null
             /\ \A y \in Goods \ {a} : merged'[y] = merged[y]
             => \/ LastOf(merged', x) = LastOf(merged, x)
                \/ (LastOf(merged, x) = a /\ LastOf(merged', x) = b)
      BY <2>3, <2>2
    <2>5. /\ merged[q.from] = Null /\ merged'[q.from] = q.to /\ merged'[q.to] = Null
          /\ \A y \in Goods \ {q.from} : merged'[y] = merged[y]
      BY <1>1, <2>1
    <2> QED
      BY <2>3, <2>4, <2>5
  <1>4. /\ Canon(g) = LastOf(merged, g) /\ merged[Canon(g)] = Null
        /\ Canon(g)' = LastOf(merged', g) /\ merged'[Canon(g)'] = Null
    BY <1>2 DEF Resolve
  <1>5. merged'[q.from] # Null
    BY <1>1, CatalogAssumption DEF Pointers
  <1> QED
    BY <1>3, <1>4, <1>5 DEF q

\* Where a recorded price stands: at the good its live offer is of, resolved.
LEMMA SpotIs ==
  ASSUME Inv, NEW p \in Prices
  PROVE  /\ prices[p] = NoPrice => Spot[p] = Null
         /\ prices[p] # NoPrice /\ offers[prices[p].offer].st # "live" => Spot[p] = Null
         /\ prices[p] # NoPrice /\ offers[prices[p].offer].st = "live" =>
              LET i == offers[prices[p].offer] IN
              /\ prices[p].offer \in Offers /\ i.good \in Goods /\ i.store \in Stores
              /\ Spot[p] = <<Canon(i.good), i.store>>
  <1>1. prices[p] # NoPrice => prices[p].offer \in Offers
    BY DEF Inv, TypeOK, PriceRow
  <1>2. prices[p] # NoPrice /\ offers[prices[p].offer].st = "live" =>
          offers[prices[p].offer].good \in Goods /\ offers[prices[p].offer].store \in Stores
    BY <1>1, RowThere DEF Inv, TypeOK, NoOffer
  <1> QED
    BY <1>1, <1>2 DEF Spot

\* The commit of a merge is the merge of the price book.
LEMMA MergeIsMerge ==
  ASSUME Inv, Inv', NEW r \in Reqs, Committing(r), ~outdated', ChainsEnd, ChainsEnd'
  PROVE  Book!Next
  <1> DEFINE q == reqs[r]
             a == q.from
             b == q.to
  <1>0. /\ a \in Goods /\ b \in Goods /\ a # b /\ merged[a] = Null /\ merged[b] = Null
        /\ merged'[b] = Null /\ merged'[a] = b /\ Null \notin Goods
    BY CommitFacts DEF Committing
  <1>1. Canon(a) = a /\ Canon(b) = b
    BY <1>0, CanonFacts DEF Inv
  <1>2. \A g \in Goods : Canon(g)' = IF Canon(g) = a THEN b ELSE Canon(g)
    BY <1>0, RepAfter
  <1>3. Rep' = [g \in Goods |-> IF Rep[g] = a THEN b ELSE Rep[g]]
    BY <1>2 DEF Rep
  <1>4. ASSUME NEW p \in Prices
        PROVE  Spot'[p] = IF Spot[p] = Null THEN Null ELSE Book!Moved(Spot[p], a, b)
    <2> DEFINE i == prices[p].offer
               e == prices'[p].offer
    <2>1. CASE prices[p] = NoPrice
      <3>1. prices'[p] = NoPrice
        BY <2>1, PriceFate
      <3> QED
        BY <2>1, <3>1 DEF Spot
    <2>2. CASE prices[p] # NoPrice /\ offers[i].st # "live"
      <3>1. ~Source(q, i) /\ prices'[p] = prices[p] /\ i \in Offers
        BY <2>2, PriceFate DEF Source
      <3>2. offers'[i] = offers[i]
        BY <3>1, OfferFate
      <3> QED
        BY <2>2, <3>1, <3>2 DEF Spot
    <2>3. CASE prices[p] # NoPrice /\ offers[i].st = "live"
      <3>0. /\ i \in Offers /\ offers[i].good \in Goods /\ offers[i].store \in Stores
            /\ Spot[p] = <<Canon(offers[i].good), offers[i].store>>
            /\ Canon(offers[i].good) \in Goods
        <4>1. /\ i \in Offers /\ offers[i].good \in Goods /\ offers[i].store \in Stores
              /\ Spot[p] = <<Canon(offers[i].good), offers[i].store>>
          BY <2>3, SpotIs
        <4> QED
          BY <4>1, CanonFacts DEF Inv, ChainsEnd
      <3>1. Spot[p] # Null
        BY <3>0, CatalogAssumption
      <3>2. /\ prices'[p] # NoPrice /\ e \in Offers
            /\ offers'[e].st = "live" /\ offers'[e].store = offers[i].store
            /\ offers'[e].good = IF Source(q, i) THEN b ELSE offers[i].good
        <4>1. CASE Source(q, i) /\ e \in Twins(q.caller, b, i)
          <5>1. /\ offers[e].st = "live" /\ offers[e].good = b
                /\ offers[e].store = offers[i].store /\ e \in Offers
            BY <4>1 DEF Twins, LiveAt
          <5>2. offers'[e] = offers[e]
            BY <1>0, <5>1, OfferFate DEF Source
          <5> QED
            BY <2>3, <4>1, <5>1, <5>2, PriceFate
        <4>2. CASE prices'[p] = prices[p] /\ Source(q, i) /\ Twins(q.caller, b, i) = {}
          BY <2>3, <3>0, <4>2, OfferFate
        <4>3. CASE prices'[p] = prices[p] /\ ~Source(q, i)
          BY <2>3, <3>0, <4>3, OfferFate
        <4> QED
          BY <2>3, <4>1, <4>2, <4>3, PriceFate
      <3>3. PICK g \in Goods : g = offers'[e].good
        BY <1>0, <3>0, <3>2
      <3>4. Spot'[p] = <<Canon(g)', offers[i].store>>
        BY <3>2, <3>3 DEF Spot
      <3>5. Canon(g)' = IF Canon(offers[i].good) = a THEN b ELSE Canon(offers[i].good)
        <4>1. CASE Source(q, i)
          <5>1. offers[i].good = a /\ g = b
            BY <3>2, <3>3, <4>1 DEF Source
          <5> QED
            BY <1>0, <1>1, <1>2, <5>1
        <4>2. CASE ~Source(q, i)
          BY <1>2, <3>0, <3>2, <3>3, <4>2
        <4> QED
          BY <4>1, <4>2
      <3> QED
        BY <3>0, <3>1, <3>4, <3>5 DEF Book!Moved
    <2> QED
      BY <2>1, <2>2, <2>3
  <1>5. Spot' = [p \in Prices |-> IF Spot[p] = Null THEN Null ELSE Book!Moved(Spot[p], a, b)]
    <2>1. Spot' = [p \in Prices |-> Spot'[p]]
      BY DEF Spot
    <2> QED
      BY <1>4, <2>1
  <1>6. Rep[a] = a /\ Rep[b] = b
    BY <1>0, <1>1 DEF Rep
  <1>7. Book!Merge(a, b)
    BY <1>0, <1>3, <1>5, <1>6 DEF Book!Merge
  <1> QED
    BY <1>0, <1>7 DEF Book!Next

\* Steps that change neither the merges nor what the prices hang on.
LEMMA SpotsStay ==
  ASSUME Inv, Inv', UNCHANGED <<merged, prices>>,
         \A i \in Offers : offers[i] # NoOffer => offers'[i] = offers[i]
  PROVE  UNCHANGED Book!vars
  <1>1. Rep' = Rep
    BY DEF Rep, Canon, Resolvable, Chain, Path
  <1>2. \A g \in Goods : Canon(g)' = Canon(g)
    BY DEF Canon, Resolvable, Chain, Path
  <1>3. ASSUME NEW p \in Prices PROVE Spot'[p] = Spot[p]
    <2>1. CASE prices[p] = NoPrice
      BY <2>1 DEF Spot
    <2>2. CASE prices[p] # NoPrice
      <3>1. prices[p].offer \in Offers /\ offers[prices[p].offer] # NoOffer
        BY <2>2 DEF Inv, TypeOK, PricesHang, PriceRow
      <3>2. offers'[prices[p].offer] = offers[prices[p].offer]
        BY <3>1
      <3>3. offers[prices[p].offer].good \in Goods
        BY <3>1, RowThere DEF Inv, TypeOK
      <3> QED
        BY <1>2, <2>2, <3>2, <3>3 DEF Spot
    <2> QED
      BY <2>1, <2>2
  <1>4. Spot' = Spot
    <2>1. Spot' = [p \in Prices |-> Spot'[p]] /\ Spot = [p \in Prices |-> Spot[p]]
      BY DEF Spot
    <2> QED
      BY <1>3, <2>1
  <1> QED
    BY <1>1, <1>4 DEF Book!vars

\* The insert of a price is a record of the price book.
LEMMA PriceIsRecord ==
  ASSUME Inv, Inv', NEW r \in Reqs, PriceInsert(r), ~outdated'
  PROVE  Book!Next \/ UNCHANGED Book!vars
  <1> DEFINE q == reqs[r]
             x == q.price
             i == q.offer
  <1>1. CASE UNCHANGED prices
    BY <1>1, SpotsStay DEF PriceInsert
  <1>2. CASE prices[x] = NoPrice /\ offers[i].st = "live"
             /\ prices' = [prices EXCEPT ![x] = [owner |-> q.caller, offer |-> i]]
    <2>1. /\ x \in Prices /\ i \in Offers /\ UNCHANGED <<merged, offers>>
          /\ prices \in [Prices -> PriceRow] /\ q.caller \in Owners
      BY DEF PriceInsert, Inv, TypeOK, RequestsSound, WriteSound
    <2>2. offers[i].good \in Goods /\ offers[i].store \in Stores
      BY <1>2, <2>1, RowThere DEF Inv, TypeOK, NoOffer
    <2>3. Rep' = Rep /\ \A g \in Goods : Canon(g)' = Canon(g) /\ Rep[g] = Canon(g)
      BY <2>1 DEF Rep, Canon, Resolvable, Chain, Path
    <2>4. prices'[x].offer = i /\ prices'[x] # NoPrice
      <3>1. [owner |-> q.caller, offer |-> i] # NoPrice
        BY <2>1, CatalogAssumption DEF NoPrice
      <3> QED
        BY <1>2, <2>1, <3>1
    <2>5. Spot[x] = Null /\ Spot'[x] = <<Rep[offers[i].good], offers[i].store>>
      BY <1>2, <2>1, <2>2, <2>3, <2>4 DEF Spot
    <2>6. ASSUME NEW p \in Prices, p # x PROVE Spot'[p] = Spot[p]
      <3>1. prices'[p] = prices[p]
        BY <1>2, <2>1, <2>6
      <3>2. CASE prices[p] # NoPrice /\ offers[prices[p].offer].st = "live"
        <4>1. offers[prices[p].offer].good \in Goods
          BY <3>2, SpotIs
        <4> QED
          BY <2>1, <2>3, <3>1, <3>2, <4>1 DEF Spot
      <3>3. CASE ~(prices[p] # NoPrice /\ offers[prices[p].offer].st = "live")
        BY <2>1, <3>1, <3>3 DEF Spot
      <3> QED
        BY <3>2, <3>3
    <2>7. Spot' = [Spot EXCEPT ![x] = <<Rep[offers[i].good], offers[i].store>>]
      <3>1. Spot' = [p \in Prices |-> Spot'[p]] /\ Spot = [p \in Prices |-> Spot[p]]
        BY DEF Spot
      <3> QED
        BY <2>1, <2>5, <2>6, <3>1
    <2>8. Book!Record(x, offers[i].good, offers[i].store)
      BY <2>3, <2>5, <2>7 DEF Book!Record
    <2> QED
      BY <2>1, <2>2, <2>8 DEF Book!Next
  <1> QED
    BY <1>1, <1>2 DEF PriceInsert, Writes

\* Every step of the catalogue is one of the price book, or none.
LEMMA StepIsBook ==
  ASSUME Inv, ChainsEnd, ChainsEnd', [Next]_vars, ~outdated'
  PROVE  Book!Next \/ UNCHANGED Book!vars
  <1>0. Inv'
    BY StepKeeps
  <1>1. CASE NoTable
    BY <1>0, <1>1, SpotsStay DEF NoTable
  <1>2. ASSUME NEW r \in Reqs, Committing(r) PROVE Book!Next
    BY <1>0, <1>2, MergeIsMerge
  <1>3. ASSUME NEW r \in Reqs, OfferInsert(r) PROVE UNCHANGED Book!vars
    <2>1. reqs[r].offer \in Offers /\ offers \in [Offers -> OfferRow]
      BY <1>3 DEF OfferInsert, Inv, TypeOK, RequestsSound, WriteSound
    <2>2. \A i \in Offers : offers[i] # NoOffer => offers'[i] = offers[i]
      BY <1>3, <2>1, RowThere DEF OfferInsert
    <2> QED
      BY <1>0, <1>3, <2>2, SpotsStay DEF OfferInsert
  <1>4. ASSUME NEW r \in Reqs, PriceInsert(r) PROVE Book!Next \/ UNCHANGED Book!vars
    BY <1>0, <1>4, PriceIsRecord
  <1>5. ASSUME NEW r \in Reqs, IdentityUpsert(r) PROVE UNCHANGED Book!vars
    BY <1>0, <1>5, SpotsStay DEF IdentityUpsert
  <1> QED
    BY <1>1, <1>2, <1>3, <1>4, <1>5, NextCases

\* The empty catalogue is an empty price book.
LEMMA InitIsBook == Init => Book!Init
  <1> SUFFICES ASSUME Init PROVE Book!Init
    OBVIOUS
  <1>1. Inv
    BY InitHolds
  <1>2. \A g \in Goods : Canon(g) = g
    BY <1>1, CanonFacts DEF Inv, Init
  <1>3. Spot = [p \in Prices |-> Null]
    BY DEF Init, Spot
  <1> QED
    BY <1>2, <1>3 DEF Rep, Book!Init

(***************************************************************************)
(* The chains                                                              *)
(***************************************************************************)
\* The goods that a merge has taken away.
MergedGoods == {g \in Goods : merged[g] # Null}

\* The pointers f are a forest: root[g] is the good where the chain of g ends,
\* after depth[g] pointers, and no chain has more than k of them.
IsForest(f, root, depth, k) ==
  /\ root \in [Goods -> Goods] /\ depth \in [Goods -> Nat]
  /\ \A g \in Goods :
       /\ depth[g] <= k
       /\ f[g] = Null => root[g] = g /\ depth[g] = 0
       /\ f[g] # Null => root[g] = root[f[g]] /\ depth[g] = depth[f[g]] + 1

\* Up to the first outdated write the merges are a forest, whose chains are no
\* longer than the goods merged are many.
Forest ==
  outdated \/ \E root, depth : IsForest(merged, root, depth, Cardinality(MergedGoods))

\* In a forest of chains that the resolve can follow, every good resolves.
LEMMA ForestResolves ==
  ASSUME NEW f \in Pointers, NEW root, NEW depth, NEW k \in Nat,
         IsForest(f, root, depth, k), k <= MaxDepth, NEW g \in Goods
  PROVE  Resolve(f, g) # Null
  <1> DEFINE w == Walk(f, g)
             S == {n \in Nat : n <= MaxDepth => depth[w[n]] <= MaxDepth - n}
  <1>0. IsWalk(f, g, w, MaxDepth) /\ MaxDepth \in Nat /\ Null \notin Goods
    BY WalkIs, CatalogAssumption
  <1> HIDE DEF w
  <1>1. 0 \in S
    BY <1>0 DEF IsWalk, IsForest
  <1>2. ASSUME NEW n \in S PROVE n + 1 \in S
    <2>1. SUFFICES ASSUME n + 1 <= MaxDepth PROVE depth[w[n + 1]] <= MaxDepth - (n + 1)
      OBVIOUS
    <2>2. n \in 0..(MaxDepth - 1) /\ n \in 0..MaxDepth /\ depth[w[n]] <= MaxDepth - n
      BY <1>0, <2>1
    <2>3. w[n] \in Goods /\ w[n + 1] = Along(f, w[n])
      BY <1>0, <2>2 DEF IsWalk
    <2>4. CASE f[w[n]] = Null
      BY <1>0, <2>1, <2>3, <2>4 DEF Along, IsForest
    <2>5. CASE f[w[n]] # Null
      <3>1. f[w[n]] \in Goods /\ w[n + 1] = f[w[n]]
        BY <2>3, <2>5 DEF Along, Pointers
      <3>2. depth[w[n]] = depth[w[n + 1]] + 1 /\ depth[w[n + 1]] \in Nat
        BY <2>3, <2>5, <3>1 DEF IsForest
      <3> QED
        BY <1>0, <2>2, <3>2
    <2> QED
      BY <2>4, <2>5
  <1> HIDE DEF S
  <1>3. S = Nat
    BY <1>1, <1>2, SetInduction DEF S
  <1>4. LastOf(f, g) \in Goods /\ depth[LastOf(f, g)] <= 0
    BY <1>0, <1>3 DEF S, LastOf, IsWalk, w
  <1>5. f[LastOf(f, g)] = Null
    <2> SUFFICES ASSUME f[LastOf(f, g)] # Null PROVE FALSE
      OBVIOUS
    <2>1. f[LastOf(f, g)] \in Goods
      BY <1>4 DEF Pointers
    <2>2. depth[LastOf(f, g)] = depth[f[LastOf(f, g)]] + 1 /\ depth[f[LastOf(f, g)]] \in Nat
      BY <1>4, <2>1 DEF IsForest
    <2> QED
      BY <1>4, <2>2
  <1> QED
    BY <1>0, <1>4, <1>5 DEF Resolve

\* A root that is merged into another takes its tree along, one pointer deeper.
LEMMA ForestGrows ==
  ASSUME NEW f \in Pointers, NEW root, NEW depth, NEW k \in Nat,
         IsForest(f, root, depth, k), NEW a \in Goods, NEW b \in Goods, a # b,
         f[a] = Null, f[b] = Null, Null \notin Goods
  PROVE  \E r, d : IsForest([f EXCEPT ![a] = b], r, d, k + 1)
  <1> DEFINE h == [f EXCEPT ![a] = b]
             r == [g \in Goods |-> IF root[g] = a THEN b ELSE root[g]]
             d == [g \in Goods |-> IF root[g] = a THEN depth[g] + 1 ELSE depth[g]]
  <1>0. /\ root \in [Goods -> Goods] /\ depth \in [Goods -> Nat]
        /\ root[a] = a /\ depth[a] = 0 /\ root[b] = b /\ depth[b] = 0
        /\ h[a] = b /\ \A g \in Goods \ {a} : h[g] = f[g]
    BY DEF IsForest, Pointers
  <1>1. r \in [Goods -> Goods] /\ d \in [Goods -> Nat]
    BY <1>0
  <1>2. ASSUME NEW g \in Goods
        PROVE  /\ d[g] <= k + 1
               /\ h[g] = Null => r[g] = g /\ d[g] = 0
               /\ h[g] # Null => r[g] = r[h[g]] /\ d[g] = d[h[g]] + 1
    <2>1. d[g] <= k + 1
      BY <1>0 DEF IsForest
    <2>2. CASE g = a
      BY <1>0, <2>1, <2>2
    <2>3. CASE g # a /\ f[g] = Null
      BY <1>0, <2>1, <2>3 DEF IsForest
    <2>4. CASE g # a /\ f[g] # Null
      <3>1. f[g] \in Goods /\ h[g] = f[g]
        BY <1>0, <2>4 DEF Pointers
      <3>2. root[g] = root[f[g]] /\ depth[g] = depth[f[g]] + 1
        BY <2>4 DEF IsForest
      <3> QED
        BY <1>0, <2>1, <2>4, <3>1, <3>2
    <2> QED
      BY <2>2, <2>3, <2>4
  <1> HIDE DEF h, r, d
  <1>3. IsForest(h, r, d, k + 1)
    BY <1>1, <1>2 DEF IsForest
  <1> QED
    BY <1>3 DEF h

\* What is outdated stays so.
LEMMA OutdatedStays ==
  ASSUME Inv, [Next]_vars, outdated
  PROVE  outdated'
  BY NextCases DEF NoTable, Committing, OfferInsert, PriceInsert, IdentityUpsert, Writes

\* No step breaks the forest but one that writes what is outdated.
LEMMA ForestKeeps ==
  ASSUME IsFiniteSet(Goods), Inv, Forest, [Next]_vars
  PROVE  Forest'
  <1> SUFFICES ASSUME ~outdated' PROVE Forest'
    BY DEF Forest
  <1>0. ~outdated
    BY OutdatedStays
  <1>1. CASE merged' = merged
    BY <1>0, <1>1 DEF Forest, MergedGoods
  <1>2. ASSUME NEW r \in Reqs, Committing(r) PROVE Forest'
    <2> DEFINE a == reqs[r].from
               b == reqs[r].to
               k == Cardinality(MergedGoods)
    <2>1. /\ a \in Goods /\ b \in Goods /\ a # b /\ merged[a] = Null
          /\ Null \notin Goods /\ merged \in Pointers
          /\ merged' = [merged EXCEPT ![a] = b]
          /\ outdated' = (outdated \/ merged[b] # Null)
      BY <1>2, CommitFacts DEF Committing, Pointers
    <2> HIDE DEF a, b
    <2>2. merged[b] = Null
      BY <2>1
    <2>3. PICK root, depth : IsForest(merged, root, depth, k)
      BY <1>0 DEF Forest
    <2>4. MergedGoods' = MergedGoods \cup {a} /\ a \notin MergedGoods
      BY <2>1 DEF MergedGoods, Pointers
    <2>5. IsFiniteSet(MergedGoods)
      BY FS_Subset DEF MergedGoods
    <2>6. k \in Nat /\ Cardinality(MergedGoods') = k + 1
      BY <2>4, <2>5, FS_CardinalityType, FS_AddElement
    <2> HIDE DEF k
    <2>7. \E rt, d : IsForest(merged', rt, d, k + 1)
      BY <2>1, <2>2, <2>3, <2>6, ForestGrows
    <2> QED
      BY <2>6, <2>7 DEF Forest
  <1> QED
    BY <1>1, <1>2, NextCases DEF NoTable, OfferInsert, PriceInsert, IdentityUpsert

\* At the start every good is its own tree.
LEMMA InitIsForest ==
  ASSUME IsFiniteSet(Goods), Init
  PROVE  Forest
  <1>1. MergedGoods = {}
    BY DEF Init, MergedGoods
  <1>2. Cardinality(MergedGoods) = 0
    BY <1>1, FS_EmptySet
  <1>3. IsForest(merged, [g \in Goods |-> g], [g \in Goods |-> 0], 0)
    BY DEF Init, IsForest
  <1> QED
    BY <1>2, <1>3 DEF Forest

\* A good that does not resolve is the work of an outdated write, or of more merges
\* than a resolve follows (64, repository/canonical.go:25): merges that do not
\* cross make no cycle (docs/api.md:175).
THEOREM GoodsResolve ==
  ASSUME IsFiniteSet(Goods)
  PROVE  Spec => [](outdated \/ Cardinality(MergedGoods) > MaxDepth \/ ChainsEnd)
  <1>1. Init => Forest
    BY InitIsForest
  <1>2. Inv /\ Forest /\ [Next]_vars => Forest'
    BY ForestKeeps
  <1>3. ASSUME Inv, Forest
        PROVE  outdated \/ Cardinality(MergedGoods) > MaxDepth \/ ChainsEnd
    <2> SUFFICES ASSUME ~outdated, ~(Cardinality(MergedGoods) > MaxDepth), NEW g \in Goods
                 PROVE  Canon(g) # Null
      BY DEF ChainsEnd
    <2>1. merged \in Pointers /\ MaxDepth \in Nat
      BY <1>3, CatalogAssumption DEF Inv, TypeOK, Pointers
    <2>2. Cardinality(MergedGoods) \in Nat
      BY FS_Subset, FS_CardinalityType DEF MergedGoods
    <2>3. PICK root, depth : IsForest(merged, root, depth, Cardinality(MergedGoods))
      BY <1>3 DEF Forest
    <2>4. Resolve(merged, g) # Null
      BY <2>1, <2>2, <2>3, ForestResolves
    <2> QED
      BY <2>1, <2>4, CanonIs
  <1> QED
    BY Invariant, <1>1, <1>2, <1>3, PTL DEF Spec

\* As long as every good resolves, the catalogue is a PriceBook up to the first
\* outdated write: merges join goods two by two and take along whatever was
\* recorded of them, and nothing else moves a price (service/merge.go:32,
\* offer.go:145).
THEOREM CatalogImplementsPriceBook ==
  Spec /\ [](outdated \/ ChainsEnd) => ImplementsPriceBook
  <1>1. /\ Inv /\ (outdated \/ ChainsEnd) /\ (outdated' \/ ChainsEnd') /\ [Next]_vars
        => [outdated' \/ Book!Next]_(Book!vars)
    BY StepIsBook, OutdatedStays
  <1> QED
    BY <1>1, InitIsBook, Invariant, PTL DEF Spec, ImplementsPriceBook

\* And so it is, with no more said, in a catalogue of as many goods as a resolve
\* follows: there, no chain outgrows it.
THEOREM SmallCatalogIsPriceBook ==
  ASSUME IsFiniteSet(Goods), Cardinality(Goods) <= MaxDepth
  PROVE  Spec => ImplementsPriceBook
  <1>1. ~(Cardinality(MergedGoods) > MaxDepth)
    <2>1. /\ Cardinality(MergedGoods) \in Nat /\ Cardinality(Goods) \in Nat
          /\ Cardinality(MergedGoods) <= Cardinality(Goods) /\ MaxDepth \in Nat
      BY FS_Subset, FS_CardinalityType, CatalogAssumption DEF MergedGoods
    <2> QED
      BY <2>1
  <1>2. Spec => [](outdated \/ ChainsEnd)
    BY <1>1, GoodsResolve, PTL
  <1> QED
    BY <1>2, CatalogImplementsPriceBook, PTL
===============================================================================

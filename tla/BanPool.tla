-------------------------------- MODULE BanPool --------------------------------
(***************************************************************************)
(* CNetBan::CBanPool: a fixed array of nodes threaded on a doubly linked   *)
(* list of free nodes, a doubly linked list of used nodes ordered by       *)
(* expiry, and doubly linked hash chains; and the operations of CNetBan    *)
(* on one pool.  The pool is one record; an operation that assigns several *)
(* pointers is a function from pools to pools.                             *)
(***************************************************************************)
EXTENDS Integers, FiniteSets, FiniteSetsExt, Functions

CONSTANTS
    MaxBans,       \* MAX_BANS, the length of m_aBans
    Data,          \* what can be banned: addresses or ranges
    Localhost,     \* data that match the local host: never banned
    Buckets,       \* values of m_Hash
    Bucket,        \* the hash of each datum
    Durations,     \* lengths of a ban in seconds; 0 means for ever
    MaxNow,        \* bound on the clock
    NoData         \* content of a zeroed node

ASSUME PoolAssumption ==
    /\ MaxBans \in Nat \ {0, 1} /\ MaxNow \in Nat
    /\ Bucket \in [Data -> Buckets] /\ Localhost \subseteq Data
    /\ NoData \notin Data /\ Durations \subseteq Nat

VARIABLES
    pool,          \* the pool
    now            \* time_timestamp()

vars == <<pool, now>>

Nodes == 0 .. MaxBans - 1
Null == -1                        \* the null pointer
Never == -1                       \* EXPIRES_NEVER
Ptr == Nodes \cup {Null}

TypeOK ==
    /\ pool \in [data : [Nodes -> Data \cup {NoData}], expires : [Nodes -> Int],
                 next : [Nodes -> Ptr], prev : [Nodes -> Ptr],
                 hashNext : [Nodes -> Ptr], hashPrev : [Nodes -> Ptr],
                 hashList : [Buckets -> Ptr],
                 firstFree : Ptr, firstUsed : Ptr, countUsed : 0 .. MaxBans]
    /\ now \in 0 .. MaxNow

--------------------------------------------------------------------------------
(* Walks along a list: the k-th node from head, Null behind the end.       *)

Chain(next, head) ==
    LET at[k \in 0 .. MaxBans] ==
            IF k = 0 THEN head
            ELSE IF at[k - 1] = Null THEN Null ELSE next[at[k - 1]]
    IN  at

OnList(next, head) == Range(Chain(next, head)) \ {Null}

Used(p) == OnList(p.next, p.firstUsed)

Free(p) == OnList(p.next, p.firstFree)

Hashed(p, h) == OnList(p.hashNext, p.hashList[h])

(* The first node of the datum's hash chain that holds it.                 *)
Find(p, d) ==
    LET chain == Chain(p.hashNext, p.hashList[Bucket[d]])
        hits == {k \in 0 .. MaxBans : chain[k] # Null /\ p.data[chain[k]] = d}
    IN  IF hits = {} THEN Null ELSE chain[Min(hits)]

Get(p, index) ==
    IF index \in 0 .. p.countUsed - 1 THEN Chain(p.next, p.firstUsed)[index] ELSE Null

--------------------------------------------------------------------------------

(* Both neighbours of b are joined; the caller moves the head of its list. *)
Unlink(p, b) ==
    [p EXCEPT
        !.prev = IF p.next[b] = Null THEN @ ELSE [@ EXCEPT ![p.next[b]] = p.prev[b]],
        !.next = IF p.prev[b] = Null THEN @ ELSE [@ EXCEPT ![p.prev[b]] = p.next[b]]]

UnlinkUsed(p, b) ==
    [Unlink(p, b) EXCEPT !.firstUsed = IF p.prev[b] = Null THEN p.next[b] ELSE @]

UnlinkFree(p, b) ==
    [Unlink(p, b) EXCEPT !.firstFree = IF p.prev[b] = Null THEN p.next[b] ELSE @]

(* Faulty variant: expiring bans go behind those that never expire.        *)
GoesBeforeMixed(p, b, q) ==
    p.expires[b] # Never /\ p.expires[q] # Never /\ p.expires[b] <= p.expires[q]

(* The node b is inserted before the first used node q with ...            *)
GoesBefore(p, b, q) ==
    p.expires[q] = Never \/ (p.expires[b] # Never /\ p.expires[b] <= p.expires[q])

InsertUsed(p, b) ==
    LET chain == Chain(p.next, p.firstUsed)
        used == {k \in 0 .. MaxBans : chain[k] # Null}
        stops == {k \in used : GoesBefore(p, b, chain[k])}
    IN  IF used = {}
        THEN [p EXCEPT !.firstUsed = b, !.next[b] = Null, !.prev[b] = Null]
        ELSE IF stops # {}
        THEN LET q == chain[Min(stops)]
             IN  [p EXCEPT
                    !.next = IF p.prev[q] = Null THEN [@ EXCEPT ![b] = q]
                             ELSE [@ EXCEPT ![b] = q, ![p.prev[q]] = b],
                    !.firstUsed = IF p.prev[q] = Null THEN b ELSE @,
                    !.prev = [@ EXCEPT ![b] = p.prev[q], ![q] = b]]
        ELSE LET last == chain[Max(used)]
             IN  [p EXCEPT !.next = [@ EXCEPT ![last] = b, ![b] = Null], !.prev[b] = last]

(* Faulty variant: the former head of the chain gets no back pointer.      *)
PushHashOneWay(p, b, h) == [p EXCEPT !.hashPrev[b] = Null, !.hashNext[b] = p.hashList[h], !.hashList[h] = b]

PushHash(p, b, h) ==
    LET old == p.hashList[h]
    IN  [p EXCEPT
            !.hashPrev = IF old = Null THEN [@ EXCEPT ![b] = Null]
                         ELSE [@ EXCEPT ![old] = b, ![b] = Null],
            !.hashNext[b] = old,
            !.hashList[h] = b]

UnlinkHash(p, b, h) ==
    LET n == p.hashNext[b]
        q == p.hashPrev[b]
    IN  [p EXCEPT
            !.hashPrev = IF n = Null THEN [@ EXCEPT ![b] = Null]
                         ELSE [@ EXCEPT ![n] = q, ![b] = Null],
            !.hashNext = IF q = Null THEN [@ EXCEPT ![b] = Null]
                         ELSE [@ EXCEPT ![q] = n, ![b] = Null],
            !.hashList[h] = IF q = Null THEN n ELSE @]

Add(p, d, expiry) ==
    LET b == p.firstFree
        filled == [p EXCEPT !.data[b] = d, !.expires[b] = expiry]
        hashed == PushHash(UnlinkFree(filled, b), b, Bucket[d])
    IN  [InsertUsed(hashed, b) EXCEPT !.countUsed = @ + 1]

(* Faulty variant: the head of the free list keeps its back pointer.       *)
PushFreeOneWay(p, b) == [p EXCEPT !.next[b] = p.firstFree, !.firstFree = b]

PushFree(p, b) ==
    [p EXCEPT
        !.prev = IF p.firstFree = Null THEN [@ EXCEPT ![b] = Null]
                 ELSE [@ EXCEPT ![p.firstFree] = b, ![b] = Null],
        !.next[b] = p.firstFree,
        !.firstFree = b]

(* What a free node holds is never read, and is forgotten here.            *)
Remove(p, b) ==
    LET unlinked == UnlinkUsed(UnlinkHash(p, b, Bucket[p.data[b]]), b)
    IN  [PushFree(unlinked, b) EXCEPT
            !.countUsed = @ - 1, !.data[b] = NoData, !.expires[b] = 0]

(* Faulty variant: the expiry changes, the place in the list does not.     *)
UpdateInPlace(p, b, expiry) == [p EXCEPT !.expires[b] = expiry]

Update(p, b, expiry) == InsertUsed(UnlinkUsed([p EXCEPT !.expires[b] = expiry], b), b)

(* Faulty variant: the last node points behind the array.                  *)
EmptyPoolTooLong ==
    [data |-> [b \in Nodes |-> NoData], expires |-> [b \in Nodes |-> 0],
     next |-> [b \in Nodes |-> b + 1], prev |-> [b \in Nodes |-> b - 1],
     hashNext |-> [b \in Nodes |-> Null], hashPrev |-> [b \in Nodes |-> Null],
     hashList |-> [h \in Buckets |-> Null],
     firstFree |-> 0, firstUsed |-> Null, countUsed |-> 0]

EmptyPool ==
    [data |-> [b \in Nodes |-> NoData], expires |-> [b \in Nodes |-> 0],
     next |-> [b \in Nodes |-> IF b = MaxBans - 1 THEN Null ELSE b + 1],
     prev |-> [b \in Nodes |-> b - 1],
     hashNext |-> [b \in Nodes |-> Null], hashPrev |-> [b \in Nodes |-> Null],
     hashList |-> [h \in Buckets |-> Null],
     firstFree |-> 0, firstUsed |-> Null, countUsed |-> 0]

--------------------------------------------------------------------------------
(* The operations of CNetBan.                                              *)

Expiry(seconds) == IF seconds > 0 THEN now + seconds ELSE Never

(* A datum that is banned has its ban replaced, whatever was left of it.   *)
AdjustBan(d, seconds) ==
    /\ d \notin Localhost
    /\ Find(pool, d) # Null
    /\ pool' = Update(pool, Find(pool, d), Expiry(seconds))
    /\ UNCHANGED now

AddBan(d, seconds) ==
    /\ d \notin Localhost
    /\ Find(pool, d) = Null
    /\ pool.firstFree # Null                 \* else: "full banlist"
    /\ pool' = Add(pool, d, Expiry(seconds))
    /\ UNCHANGED now

Unban(d) ==
    /\ Find(pool, d) # Null
    /\ pool' = Remove(pool, Find(pool, d))
    /\ UNCHANGED now

UnbanByIndex(index) ==
    /\ Get(pool, index) # Null
    /\ pool' = Remove(pool, Get(pool, index))
    /\ UNCHANGED now

(* CNetBan::Update removes expired bans from the head of the list until    *)
(* the first that has not expired.                                         *)
RemoveExpired ==
    LET expired(p) ==
            /\ p.firstUsed # Null
            /\ p.expires[p.firstUsed] # Never /\ p.expires[p.firstUsed] < now
        after[k \in 0 .. MaxBans] ==
            IF k = 0 THEN pool
            ELSE IF expired(after[k - 1]) THEN Remove(after[k - 1], after[k - 1].firstUsed)
            ELSE after[k - 1]
    IN  pool' = after[MaxBans] /\ UNCHANGED now

UnbanAll == pool' = EmptyPool /\ UNCHANGED now

Tick == now < MaxNow /\ now' = now + 1 /\ UNCHANGED pool

Init == pool = EmptyPool /\ now = 0

Next ==
    \/ \E d \in Data, seconds \in Durations : AdjustBan(d, seconds) \/ AddBan(d, seconds)
    \/ \E d \in Data : Unban(d)
    \/ \E index \in Nodes : UnbanByIndex(index)
    \/ RemoveExpired \/ UnbanAll \/ Tick

Spec == Init /\ [][Next]_vars

--------------------------------------------------------------------------------

(* Every node is on exactly one of the two lists, the lists can be walked  *)
(* both ways, and m_CountUsed counts the used one: no node is ever lost.   *)
ListsConsistent ==
    /\ Used(pool) \cap Free(pool) = {} /\ Used(pool) \cup Free(pool) = Nodes
    /\ pool.countUsed = Cardinality(Used(pool))
    /\ \A b \in Nodes :
          /\ pool.next[b] # Null => pool.prev[pool.next[b]] = b
          /\ pool.prev[b] = Null <=> b \in {pool.firstFree, pool.firstUsed}

(* IsBanned and Ban look a datum up in its hash chain, expiry walks the    *)
(* used list: both see the same bans, and each datum once.                 *)
HashFindsEveryBan ==
    /\ \A b \in Used(pool) : Find(pool, pool.data[b]) = b
    /\ \A h \in Buckets : \A b \in Hashed(pool, h) :
          b \in Used(pool) /\ Bucket[pool.data[b]] = h

(* A ban that ends sooner is never behind one that ends later or never:    *)
(* CNetBan::Update stops at the first valid ban and must not miss another, *)
(* because IsBanned only looks whether there is a ban, not at its time.    *)
OrderedByExpiry ==
    \A b \in Used(pool) : pool.next[b] # Null =>
        LET sooner == pool.expires[b]
            later == pool.expires[pool.next[b]]
        IN  later = Never \/ (sooner # Never /\ sooner <= later)

BansOf(p) ==
    LET used == Used(p)
    IN  [d \in {p.data[b] : b \in used} |-> p.expires[CHOOSE b \in used : p.data[b] = d]]

(* The table the lists stand for.                                          *)
L == INSTANCE BanList WITH
        Capacity <- MaxBans, bans <- BansOf(pool),
        Expiries <- {t + s : t \in 0 .. MaxNow, s \in Durations}

(* Every operation on the linked lists is one on the table: none loses a   *)
(* ban, changes that of another datum, or ends it early.                   *)
ImplementsBanList == L!Spec
================================================================================

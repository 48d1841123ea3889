----------------------------- MODULE BanPoolProofs -----------------------------
(***************************************************************************)
(* Proofs about BanPool: its three kinds of intrusive lists are sound      *)
(* after every operation, for any size of the array, any data and any hash *)
(* of them, and what they hold is the table of BanList.  PoolInv states    *)
(* that some nodes are used and all others free, that both lists, and the  *)
(* chain of every bucket, are linked both ways over their nodes, and that  *)
(* the used list is in order.                                              *)
(***************************************************************************)
EXTENDS BanPool, FiniteSetTheorems, WellFoundedInduction, TLAPS

(* A set of numbers that is not empty has a least one.                     *)
LEMMA LeastElement ==
    ASSUME NEW T, T \subseteq Nat, T # {}
    PROVE  \E x \in T : \A y \in T : x <= y
<1>1. PICK R : IsWellFoundedOn(R, Nat) /\ \A x, y \in Nat : y < x => <<y, x>> \in R
  <2>1. \A x, y \in Nat : y < x => <<y, x>> \in OpToRel(<, Nat)
    BY DEF OpToRel
  <2>2. IsWellFoundedOn(OpToRel(<, Nat), Nat)
    BY NatLessThanWellFounded
  <2>3. QED
    BY <2>1, <2>2, Zenon
<1>2. PICK x \in T : \A y \in T : ~(<<y, x>> \in R)
  BY <1>1, WFMin, Zenon
<1>3. \A y \in T : ~(y < x)
  BY <1>1, <1>2
<1>4. QED
  BY <1>3

(* The nodes u[1], ..., u[n] are linked both ways and end with Null.       *)
IsList(next, prev, head, n, u) ==
    /\ n \in Nat /\ u \in [1 .. n -> Nodes]
    /\ \A i, j \in 1 .. n : u[i] = u[j] => i = j
    /\ head = IF n = 0 THEN Null ELSE u[1]
    /\ \A i \in 1 .. n : /\ next[u[i]] = IF i = n THEN Null ELSE u[i + 1]
                         /\ prev[u[i]] = IF i = 1 THEN Null ELSE u[i - 1]

(* The null pointer is no node, and the array has at least two.            *)
LEMMA NullIsNoNode == Null \notin Nodes /\ MaxBans \in Nat /\ MaxBans > 1
BY PoolAssumption DEF PoolAssumption, Null, Nodes

(* Following the pointers of a list visits its nodes in order.             *)
LEMMA ChainWalksList ==
    ASSUME NEW next, NEW prev, NEW head, NEW n, NEW u, IsList(next, prev, head, n, u)
    PROVE  Chain(next, head) = [k \in 0 .. MaxBans |-> IF k < n THEN u[k + 1] ELSE Null]
<1> DEFINE walk(g) == [k \in 0 .. MaxBans |->
                IF k = 0 THEN head
                ELSE IF g[k - 1] = Null THEN Null ELSE next[g[k - 1]]]
           at == [k \in 0 .. MaxBans |-> IF k < n THEN u[k + 1] ELSE Null]
           c == CHOOSE g : g = walk(g)
<1>1. at = walk(at)
  BY NullIsNoNode DEF IsList
<1>2. ASSUME NEW g, g = walk(g)
      PROVE  g = at
  <2> DEFINE T == {k \in 0 .. MaxBans : g[k] # at[k]}
  <2>1. SUFFICES ASSUME T # {} PROVE FALSE
    BY <1>2
  <2>2. PICK k \in T : \A j \in T : k <= j
    <3>1. T \subseteq Nat
      BY NullIsNoNode
    <3> HIDE DEF T
    <3> QED BY <2>1, <3>1, LeastElement
  <2>3. k \in 0 .. MaxBans /\ g[k] # at[k]
    BY <2>2
  <2>4. CASE k = 0
    BY <2>3, <2>4, <1>2, NullIsNoNode DEF IsList
  <2>5. CASE k # 0
    <3>1. k - 1 \in 0 .. MaxBans /\ k - 1 \notin T
      BY <2>2, <2>3, <2>5, NullIsNoNode
    <3>2. g[k - 1] = at[k - 1]
      BY <3>1
    <3>3. g[k] = walk(g)[k] /\ at[k] = walk(at)[k]
      BY <1>1, <1>2
    <3>4. QED
      BY <2>3, <2>5, <3>1, <3>2, <3>3
  <2>6. QED
    BY <2>4, <2>5
<1>3. c = at
  <2>1. c = walk(c)
    <3> HIDE DEF walk, at
    <3> QED BY <1>1
  <2>2. QED
    BY <1>2, <2>1
<1>4. Chain(next, head) = c
  BY DEF Chain
<1>5. QED
  BY <1>3, <1>4

--------------------------------------------------------------------------------
(* The nodes of S are on one list, in some order.                          *)
Linked(next, prev, head, S) ==
    \E n, u : IsList(next, prev, head, n, u) /\ S = {u[i] : i \in 1 .. n}

(* What the links of a list say about its members.                         *)
LEMMA LinkFacts ==
    ASSUME NEW next, NEW prev, NEW head, NEW S, Linked(next, prev, head, S)
    PROVE  /\ S \subseteq Nodes
           /\ head \in S \cup {Null} /\ (head = Null <=> S = {})
           /\ \A b \in S :
                 /\ next[b] \in (S \ {b}) \cup {Null} /\ prev[b] \in (S \ {b}) \cup {Null}
                 /\ next[b] # Null => prev[next[b]] = b
                 /\ prev[b] # Null => next[prev[b]] = b
                 /\ prev[b] = Null <=> b = head
<1>1. PICK n, u : IsList(next, prev, head, n, u) /\ S = {u[i] : i \in 1 .. n}
  BY DEF Linked
<1>2. S \subseteq Nodes /\ head \in S \cup {Null} /\ (head = Null <=> S = {})
  <2>1. n \in Nat /\ \A i \in 1 .. n : u[i] \in Nodes
    BY <1>1 DEF IsList
  <2>2. head = IF n = 0 THEN Null ELSE u[1]
    BY <1>1 DEF IsList
  <2>3. CASE n = 0
    <3>1. S = {}
      BY <1>1, <2>3
    <3>2. QED
      BY <2>2, <2>3, <3>1
  <2>4. CASE n # 0
    <3>1. 1 \in 1 .. n
      BY <2>1, <2>4
    <3>2. QED
      BY <1>1, <2>1, <2>2, <2>4, <3>1, NullIsNoNode
  <2>5. QED
    BY <2>3, <2>4
<1>3. ASSUME NEW b \in S
      PROVE  /\ next[b] \in (S \ {b}) \cup {Null} /\ prev[b] \in (S \ {b}) \cup {Null}
             /\ next[b] # Null => prev[next[b]] = b
             /\ prev[b] # Null => next[prev[b]] = b
             /\ prev[b] = Null <=> b = head
  <2>1. PICK i \in 1 .. n : b = u[i]
    BY <1>1
  <2>2. next[b] = IF i = n THEN Null ELSE u[i + 1]
    BY <1>1, <2>1 DEF IsList
  <2>3. prev[b] = IF i = 1 THEN Null ELSE u[i - 1]
    BY <1>1, <2>1 DEF IsList
  <2>4. n \in Nat /\ \A j \in 1 .. n : u[j] \in S /\ u[j] # Null /\ (u[j] = b => j = i)
    BY <1>1, <2>1, NullIsNoNode DEF IsList
  <2>5. CASE i = n
    <3>1. next[b] = Null
      BY <2>2, <2>5
    <3>2. i = 1 => head = b
      BY <1>1, <2>1, <2>5 DEF IsList
    <3>3. i # 1 => i - 1 \in 1 .. n /\ prev[b] = u[i - 1] /\ next[u[i - 1]] = b /\ head # b
      BY <1>1, <2>1, <2>3, <2>4, <2>5 DEF IsList
    <3>4. QED
      BY <2>3, <2>4, <3>1, <3>2, <3>3
  <2>6. CASE i # n
    <3>0. i + 1 \in 1 .. n /\ i + 1 # 1 /\ (i + 1) - 1 = i
      BY <2>1, <2>4, <2>6
    <3>1. i + 1 \in 1 .. n /\ next[b] = u[i + 1] /\ prev[u[i + 1]] = b
      BY <1>1, <2>1, <2>2, <2>6, <3>0 DEF IsList
    <3>2. i = 1 => head = b
      BY <1>1, <2>1, <2>4 DEF IsList
    <3>3. ASSUME i # 1
          PROVE  i - 1 \in 1 .. n /\ prev[b] = u[i - 1] /\ next[u[i - 1]] = b /\ head # b
      <4>1. i - 1 \in 1 .. n /\ i - 1 # n /\ (i - 1) + 1 = i /\ n # 0 /\ 1 \in 1 .. n
        BY <2>1, <2>4, <3>3
      <4>2. head = u[1] /\ next[u[i - 1]] = u[i]
        BY <1>1, <4>1 DEF IsList
      <4>3. QED
        BY <2>1, <2>3, <2>4, <3>3, <4>1, <4>2
    <3>4. QED
      BY <2>3, <2>4, <3>1, <3>2, <3>3
  <2>7. QED
    BY <2>5, <2>6
<1>4. QED
  BY <1>2, <1>3

(* A list has no more nodes than the pool, and a walk meets them all.      *)
LEMMA ListFitsPool ==
    ASSUME NEW next, NEW prev, NEW head, NEW n, NEW u, IsList(next, prev, head, n, u)
    PROVE  n <= MaxBans
<1>1. IsFiniteSet(Nodes) /\ Cardinality(Nodes) = MaxBans
  BY FS_Interval, NullIsNoNode DEF Nodes
<1>2. IsFiniteSet(1 .. n) /\ Cardinality(1 .. n) = n
  <2>1. n \in Nat /\ n \in Int /\ 1 \in Int
    BY DEF IsList
  <2>2. QED
    BY <2>1, FS_Interval
<1>3. u \in Injection(1 .. n, Nodes)
  BY DEF IsList, Injection, IsInjective
<1>4. QED
  BY <1>1, <1>2, <1>3, FS_Injection

(* What is found by walking a list are the nodes linked in it.             *)
LEMMA OnListIsLinked ==
    ASSUME NEW next, NEW prev, NEW head, NEW S, Linked(next, prev, head, S)
    PROVE  OnList(next, head) = S
<1>1. PICK n, u : IsList(next, prev, head, n, u) /\ S = {u[i] : i \in 1 .. n}
  BY DEF Linked
<1>2. n \in Nat /\ n <= MaxBans
  <2>1. n \in Nat
    BY <1>1 DEF IsList
  <2>2. QED
    BY <1>1, <2>1, ListFitsPool
<1> DEFINE at == Chain(next, head)
<1>3. at = [k \in 0 .. MaxBans |-> IF k < n THEN u[k + 1] ELSE Null]
  BY <1>1, ChainWalksList
<1>4. OnList(next, head) = {at[k] : k \in 0 .. MaxBans} \ {Null}
  BY <1>3 DEF OnList, Range
<1>5. ASSUME NEW i \in 1 .. n PROVE i - 1 \in 0 .. MaxBans /\ at[i - 1] = u[i] /\ u[i] # Null
  <2>1. i - 1 \in 0 .. MaxBans /\ i - 1 < n /\ (i - 1) + 1 = i
    BY <1>2, NullIsNoNode
  <2>2. u[i] # Null
    BY <1>1, NullIsNoNode DEF IsList
  <2>3. QED
    BY <1>3, <2>1, <2>2
<1>6. ASSUME NEW k \in 0 .. MaxBans, at[k] # Null PROVE k + 1 \in 1 .. n /\ at[k] = u[k + 1]
  BY <1>2, <1>3, <1>6
<1> HIDE DEF at
<1>7. QED
  BY <1>1, <1>4, <1>5, <1>6

(* Links that do not differ on the members of a list keep it.              *)
LEMMA LinkedFrame ==
    ASSUME NEW next, NEW prev, NEW head, NEW S, Linked(next, prev, head, S),
           NEW next2, NEW prev2,
           \A b \in S : next2[b] = next[b] /\ prev2[b] = prev[b]
    PROVE  Linked(next2, prev2, head, S)
<1>1. PICK n, u : IsList(next, prev, head, n, u) /\ S = {u[i] : i \in 1 .. n}
  BY DEF Linked
<1>2. IsList(next2, prev2, head, n, u)
  BY <1>1 DEF IsList
<1>3. QED
  BY <1>1, <1>2 DEF Linked

(* A list without nodes has the null pointer as its head.                  *)
LEMMA EmptyIsLinked ==
    ASSUME NEW next, NEW prev
    PROVE  Linked(next, prev, Null, {})
<1> DEFINE u == [i \in 1 .. 0 |-> Null]
<1>1. IsList(next, prev, Null, 0, u)
  BY DEF IsList
<1>2. {} = {u[i] : i \in 1 .. 0}
  OBVIOUS
<1>3. QED
  BY <1>1, <1>2 DEF Linked

(* The neighbours of b in S are joined.                                    *)
Joins(next, prev, S, b, next2, prev2) ==
    \A x \in S \ {b} : /\ next2[x] = IF x = prev[b] THEN next[b] ELSE next[x]
                       /\ prev2[x] = IF x = next[b] THEN prev[b] ELSE prev[x]

(* Joining the neighbours of b takes it, and only it, off its list.        *)
LEMMA LinkedRemove ==
    ASSUME NEW next, NEW prev, NEW head, NEW S, Linked(next, prev, head, S), NEW b \in S,
           NEW next2, NEW prev2, Joins(next, prev, S, b, next2, prev2),
           NEW head2, head2 = IF prev[b] = Null THEN next[b] ELSE head
    PROVE  Linked(next2, prev2, head2, S \ {b})
<1>1. PICK n, u : IsList(next, prev, head, n, u) /\ S = {u[i] : i \in 1 .. n}
  BY DEF Linked
<1>2. PICK k \in 1 .. n : b = u[k]
  BY <1>1
<1> DEFINE v == [i \in 1 .. n - 1 |-> IF i < k THEN u[i] ELSE u[i + 1]]
<1>3. /\ n \in Nat /\ n - 1 \in Nat /\ \A i \in 1 .. n : u[i] \in S /\ u[i] \in Nodes /\ u[i] # Null
      /\ \A i, j \in 1 .. n : u[i] = u[j] => i = j
  BY <1>1, <1>2, NullIsNoNode DEF IsList
<1>4. /\ next[b] = IF k = n THEN Null ELSE u[k + 1]
      /\ prev[b] = IF k = 1 THEN Null ELSE u[k - 1]
      /\ head = u[1]
  BY <1>1, <1>2 DEF IsList
<1>5. v \in [1 .. n - 1 -> Nodes] /\ \A i, j \in 1 .. n - 1 : v[i] = v[j] => i = j
  BY <1>2, <1>3
<1>6. head2 = IF n - 1 = 0 THEN Null ELSE v[1]
  BY <1>2, <1>3, <1>4
<1>7. ASSUME NEW i \in 1 .. n - 1
      PROVE  /\ next2[v[i]] = IF i = n - 1 THEN Null ELSE v[i + 1]
             /\ prev2[v[i]] = IF i = 1 THEN Null ELSE v[i - 1]
  <2>1. \A j \in 1 .. n : j # k =>
           /\ next2[u[j]] = IF j = k - 1 THEN next[b] ELSE next[u[j]]
           /\ prev2[u[j]] = IF j = k + 1 THEN prev[b] ELSE prev[u[j]]
    <3> SUFFICES ASSUME NEW j \in 1 .. n, j # k
                 PROVE  /\ next2[u[j]] = IF j = k - 1 THEN next[b] ELSE next[u[j]]
                        /\ prev2[u[j]] = IF j = k + 1 THEN prev[b] ELSE prev[u[j]]
      OBVIOUS
    <3>1. u[j] \in S \ {b}
      BY <1>2, <1>3
    <3>2. u[j] = prev[b] <=> j = k - 1
      BY <1>2, <1>3, <1>4
    <3>3. u[j] = next[b] <=> j = k + 1
      BY <1>2, <1>3, <1>4
    <3>4. QED
      BY <3>1, <3>2, <3>3 DEF Joins
  <2>2. \A j \in 1 .. n : /\ next[u[j]] = IF j = n THEN Null ELSE u[j + 1]
                          /\ prev[u[j]] = IF j = 1 THEN Null ELSE u[j - 1]
    BY <1>1 DEF IsList
  <2>3. CASE i < k
    <3>1. i \in 1 .. n /\ i # k /\ i # n /\ i # k + 1 /\ v[i] = u[i]
      BY <1>2, <1>3, <2>3
    <3>2. prev2[v[i]] = IF i = 1 THEN Null ELSE v[i - 1]
      BY <2>1, <2>2, <2>3, <3>1, <1>3
    <3>3. next2[v[i]] = IF i = n - 1 THEN Null ELSE v[i + 1]
      <4>1. CASE i = k - 1
        BY <1>2, <1>3, <1>4, <2>1, <3>1, <4>1
      <4>2. CASE i # k - 1
        <5>1. i + 1 \in 1 .. n - 1 /\ i + 1 < k /\ i # n - 1
          BY <1>2, <1>3, <2>3, <4>2
        <5>2. QED
          BY <2>1, <2>2, <3>1, <4>2, <5>1
      <4>3. QED
        BY <4>1, <4>2
    <3>4. QED
      BY <3>2, <3>3
  <2>4. CASE i >= k
    <3>1. i + 1 \in 1 .. n /\ i + 1 # k /\ i + 1 # k - 1 /\ i + 1 # 1 /\ v[i] = u[i + 1]
      BY <1>2, <1>3, <2>4
    <3>2. prev2[v[i]] = IF i = 1 THEN Null ELSE v[i - 1]
      <4>1. CASE i = k
        BY <1>2, <1>3, <1>4, <2>1, <3>1, <4>1
      <4>2. CASE i # k
        <5>1. i - 1 \in 1 .. n - 1 /\ ~(i - 1 < k) /\ i # 1 /\ (i + 1) - 1 = i /\ (i - 1) + 1 = i
          BY <1>2, <1>3, <2>4, <4>2
        <5>2. v[i - 1] = u[i]
          BY <5>1
        <5>3. QED
          BY <2>1, <2>2, <3>1, <4>2, <5>1, <5>2
      <4>3. QED
        BY <4>1, <4>2
    <3>3. next2[v[i]] = IF i = n - 1 THEN Null ELSE v[i + 1]
      <4>1. CASE i = n - 1
        BY <1>3, <2>1, <2>2, <3>1, <4>1
      <4>2. CASE i # n - 1
        <5>1. i + 1 \in 1 .. n - 1 /\ ~(i + 1 < k) /\ i + 1 # n
          BY <1>2, <1>3, <2>4, <4>2
        <5>2. v[i + 1] = u[(i + 1) + 1]
          BY <5>1
        <5>3. QED
          BY <2>1, <2>2, <3>1, <4>2, <5>1, <5>2
      <4>3. QED
        BY <4>1, <4>2
    <3>4. QED
      BY <3>2, <3>3
  <2>5. QED
    BY <1>2, <1>3, <2>3, <2>4
<1>8. S \ {b} = {v[i] : i \in 1 .. n - 1}
  <2>1. ASSUME NEW i \in 1 .. n - 1 PROVE v[i] \in S \ {b}
    BY <1>2, <1>3
  <2>2. ASSUME NEW x \in S \ {b} PROVE \E i \in 1 .. n - 1 : x = v[i]
    <3>1. PICK j \in 1 .. n : x = u[j]
      BY <1>1, <2>2
    <3>2. CASE j < k
      <4>1. j \in 1 .. n - 1 /\ v[j] = u[j]
        BY <1>2, <1>3, <3>2
      <4>2. QED
        BY <3>1, <4>1
    <3>3. CASE j > k
      <4>1. j - 1 \in 1 .. n - 1 /\ v[j - 1] = u[j]
        BY <1>2, <1>3, <3>3
      <4>2. QED
        BY <3>1, <4>1
    <3>4. QED
      BY <1>2, <1>3, <3>1, <3>2, <3>3
  <2> HIDE DEF v
  <2>3. QED
    BY <2>1, <2>2
<1>9. IsList(next2, prev2, head2, n - 1, v)
  <2> HIDE DEF v
  <2> QED BY <1>3, <1>5, <1>6, <1>7 DEF IsList
<1>10. QED
  <2> HIDE DEF v
  <2> QED BY <1>3, <1>8, <1>9 DEF Linked

(* A place on a list: r and q are neighbours, or one of them is its end.   *)
Gap(next, prev, head, S, r, q) ==
    \/ q \in S /\ r = prev[q]
    \/ q = Null /\ r \in S /\ next[r] = Null
    \/ S = {} /\ q = Null /\ r = Null

(* The node b is linked between r and q.                                   *)
Splices(next, prev, S, b, r, q, next2, prev2) ==
    /\ next2[b] = q /\ prev2[b] = r
    /\ \A x \in S : /\ next2[x] = IF x = r THEN b ELSE next[x]
                    /\ prev2[x] = IF x = q THEN b ELSE prev[x]

(* A node linked into a gap is on the list, with all that were there.      *)
LEMMA LinkedInsert ==
    ASSUME NEW next, NEW prev, NEW head, NEW S, Linked(next, prev, head, S),
           NEW b \in Nodes \ S, NEW r, NEW q, Gap(next, prev, head, S, r, q),
           NEW next2, NEW prev2, Splices(next, prev, S, b, r, q, next2, prev2),
           NEW head2, head2 = IF r = Null THEN b ELSE head
    PROVE  Linked(next2, prev2, head2, S \cup {b})
<1>1. PICK n, u : IsList(next, prev, head, n, u) /\ S = {u[i] : i \in 1 .. n}
  BY DEF Linked
<1>2. /\ n \in Nat /\ n + 1 \in Nat /\ \A i \in 1 .. n : u[i] \in S /\ u[i] \in Nodes /\ u[i] # Null
      /\ \A i, j \in 1 .. n : u[i] = u[j] => i = j
      /\ head = IF n = 0 THEN Null ELSE u[1]
      /\ b # Null /\ \A i \in 1 .. n : u[i] # b
  BY <1>1, NullIsNoNode DEF IsList
<1>3. \A j \in 1 .. n : /\ next[u[j]] = IF j = n THEN Null ELSE u[j + 1]
                        /\ prev[u[j]] = IF j = 1 THEN Null ELSE u[j - 1]
  BY <1>1 DEF IsList
<1>4. PICK k \in 1 .. n + 1 : /\ q = IF k = n + 1 THEN Null ELSE u[k]
                              /\ r = IF k = 1 THEN Null ELSE u[k - 1]
  <2>1. CASE q \in S /\ r = prev[q]
    <3>1. PICK i \in 1 .. n : q = u[i]
      BY <1>1, <2>1
    <3>2. i \in 1 .. n + 1 /\ i # n + 1 /\ r = IF i = 1 THEN Null ELSE u[i - 1]
      BY <1>2, <1>3, <2>1, <3>1
    <3>3. QED
      BY <3>1, <3>2
  <2>2. CASE q = Null /\ r \in S /\ next[r] = Null
    <3>1. PICK i \in 1 .. n : r = u[i]
      BY <1>1, <2>2
    <3>2. i = n
      <4>1. i # n => i + 1 \in 1 .. n
        BY <1>2
      <4>2. QED
        BY <1>2, <1>3, <2>2, <3>1, <4>1
    <3>3. n + 1 \in 1 .. n + 1 /\ n + 1 # 1 /\ (n + 1) - 1 = n
      BY <1>2, <3>2
    <3>4. QED
      BY <2>2, <3>1, <3>2, <3>3
  <2>3. CASE S = {} /\ q = Null /\ r = Null
    <3>1. n = 0
      <4>1. n # 0 => 1 \in 1 .. n
        BY <1>2
      <4>2. QED
        BY <1>2, <2>3, <4>1
    <3>2. 1 \in 1 .. n + 1 /\ n + 1 = 1
      BY <3>1
    <3>3. QED
      BY <2>3, <3>2
  <2>4. QED
    BY <2>1, <2>2, <2>3 DEF Gap
<1> DEFINE v == [i \in 1 .. n + 1 |-> IF i < k THEN u[i] ELSE IF i = k THEN b ELSE u[i - 1]]
<1>5. \A j \in 1 .. n : /\ next2[u[j]] = IF j = k - 1 THEN b ELSE next[u[j]]
                        /\ prev2[u[j]] = IF j = k THEN b ELSE prev[u[j]]
  <2> SUFFICES ASSUME NEW j \in 1 .. n
               PROVE  /\ next2[u[j]] = IF j = k - 1 THEN b ELSE next[u[j]]
                      /\ prev2[u[j]] = IF j = k THEN b ELSE prev[u[j]]
    OBVIOUS
  <2>1. u[j] = r <=> j = k - 1
    BY <1>2, <1>4
  <2>2. u[j] = q <=> j = k
    BY <1>2, <1>4
  <2>3. QED
    BY <1>2, <2>1, <2>2 DEF Splices
<1>6. v \in [1 .. n + 1 -> Nodes] /\ \A i, j \in 1 .. n + 1 : v[i] = v[j] => i = j
  BY <1>2, <1>4
<1>7. head2 = IF n + 1 = 0 THEN Null ELSE v[1]
  BY <1>2, <1>4
<1>8. ASSUME NEW i \in 1 .. n + 1
      PROVE  /\ next2[v[i]] = IF i = n + 1 THEN Null ELSE v[i + 1]
             /\ prev2[v[i]] = IF i = 1 THEN Null ELSE v[i - 1]
  <2>1. CASE i < k
    <3>1. i \in 1 .. n /\ v[i] = u[i] /\ i # n + 1 /\ i # k
      BY <1>2, <2>1
    <3>2. prev2[v[i]] = IF i = 1 THEN Null ELSE v[i - 1]
      <4>1. i # 1 => i - 1 \in 1 .. n + 1 /\ i - 1 < k
        BY <1>2, <2>1
      <4>2. QED
        BY <1>3, <1>5, <3>1, <4>1
    <3>3. next2[v[i]] = v[i + 1]
      <4>1. CASE i = k - 1
        BY <1>2, <1>5, <3>1, <4>1
      <4>2. CASE i # k - 1
        <5>1. i + 1 \in 1 .. n + 1 /\ i + 1 < k /\ i # n
          BY <1>2, <2>1, <4>2
        <5>2. QED
          BY <1>3, <1>5, <3>1, <4>2, <5>1
      <4>3. QED
        BY <4>1, <4>2
    <3>4. QED
      BY <3>1, <3>2, <3>3
  <2>2. CASE i = k
    <3>1. v[i] = b /\ next2[v[i]] = q /\ prev2[v[i]] = r
      BY <2>2 DEF Splices
    <3>2. k # n + 1 => k + 1 \in 1 .. n + 1 /\ v[k + 1] = u[k]
      BY <1>2
    <3>3. k # 1 => k - 1 \in 1 .. n + 1 /\ v[k - 1] = u[k - 1]
      BY <1>2
    <3>4. QED
      BY <1>4, <2>2, <3>1, <3>2, <3>3
  <2>3. CASE i > k
    <3>1. i - 1 \in 1 .. n /\ v[i] = u[i - 1] /\ i # 1 /\ i - 1 # k - 1 /\ (i - 1) + 1 = i
      BY <1>2, <2>3
    <3>2. prev2[v[i]] = v[i - 1]
      <4>1. CASE i - 1 = k
        BY <1>2, <1>5, <3>1, <4>1
      <4>2. CASE i - 1 # k
        <5>1. i - 1 \in 1 .. n + 1 /\ ~(i - 1 < k) /\ i - 1 # 1
          BY <1>2, <2>3, <4>2
        <5>2. v[i - 1] = u[(i - 1) - 1]
          BY <4>2, <5>1
        <5>3. QED
          BY <1>3, <1>5, <3>1, <4>2, <5>1, <5>2
      <4>3. QED
        BY <4>1, <4>2
    <3>3. next2[v[i]] = IF i = n + 1 THEN Null ELSE v[i + 1]
      <4>1. i # n + 1 => i + 1 \in 1 .. n + 1 /\ v[i + 1] = u[i] /\ i - 1 # n
        BY <1>2, <2>3
      <4>2. i = n + 1 => i - 1 = n
        BY <1>2
      <4>3. QED
        BY <1>3, <1>5, <3>1, <4>1, <4>2
    <3>4. QED
      BY <3>1, <3>2, <3>3
  <2>4. QED
    BY <1>2, <2>1, <2>2, <2>3
<1>9. S \cup {b} = {v[i] : i \in 1 .. n + 1}
  <2>1. ASSUME NEW i \in 1 .. n + 1 PROVE v[i] \in S \cup {b}
    BY <1>2
  <2>2. ASSUME NEW x \in S \cup {b} PROVE \E i \in 1 .. n + 1 : x = v[i]
    <3>1. CASE x = b
      BY <3>1
    <3>2. CASE x \in S
      <4>1. PICK j \in 1 .. n : x = u[j]
        BY <1>1, <3>2
      <4>2. j < k => j \in 1 .. n + 1 /\ v[j] = u[j]
        BY <1>2
      <4>3. j >= k => j + 1 \in 1 .. n + 1 /\ v[j + 1] = u[j]
        BY <1>2
      <4>4. QED
        BY <1>2, <4>1, <4>2, <4>3
    <3>3. QED
      BY <3>1, <3>2
  <2> HIDE DEF v
  <2>3. QED
    BY <2>1, <2>2
<1>10. IsList(next2, prev2, head2, n + 1, v)
  <2> HIDE DEF v
  <2> QED BY <1>2, <1>6, <1>7, <1>8 DEF IsList
<1>11. QED
  <2> HIDE DEF v
  <2>1. \E m, w : IsList(next2, prev2, head2, m, w) /\ S \cup {b} = {w[i] : i \in 1 .. m}
    <3> WITNESS n + 1, v
    <3> QED BY <1>9, <1>10
  <2>2. QED
    BY <2>1 DEF Linked

--------------------------------------------------------------------------------
(* Pools: records whose links are nodes or Null.                           *)
Pools == [data : [Nodes -> Data \cup {NoData}], expires : [Nodes -> Int],
          next : [Nodes -> Ptr], prev : [Nodes -> Ptr],
          hashNext : [Nodes -> Ptr], hashPrev : [Nodes -> Ptr],
          hashList : [Buckets -> Ptr],
          firstFree : Ptr, firstUsed : Ptr, countUsed : Int]

(* A ban that expires at s may stand before one that expires at l.         *)
InOrder(s, l) == l = Never \/ (s # Never /\ s <= l)

Sorted(p, U) ==
    \A b \in U : p.next[b] # Null => InOrder(p.expires[b], p.expires[p.next[b]])

Chained(p, H) ==
    /\ H \subseteq Nodes
    /\ \A b \in H : p.data[b] \in Data
    /\ \A b, c \in H : p.data[b] = p.data[c] => b = c
    /\ \A h \in Buckets : Linked(p.hashNext, p.hashPrev, p.hashList[h],
                                 {b \in H : Bucket[p.data[b]] = h})

(* The nodes of U are on the used list in order of expiry, those of F on   *)
(* the free list, those of H on the hash chains of what they ban.          *)
Threads(p, U, F, H) ==
    /\ p \in Pools /\ U \cap F = {}
    /\ Linked(p.next, p.prev, p.firstUsed, U)
    /\ Linked(p.next, p.prev, p.firstFree, F)
    /\ Sorted(p, U)
    /\ Chained(p, H)

SameBans(p, q) == q.data = p.data /\ q.expires = p.expires /\ q.countUsed = p.countUsed

SameChains(p, q) ==
    q.hashNext = p.hashNext /\ q.hashPrev = p.hashPrev /\ q.hashList = p.hashList

(* The hash chains only depend on their own pointers and the bans.         *)
LEMMA ChainedFrame ==
    ASSUME NEW p, NEW q, NEW H, Chained(p, H), SameBans(p, q), SameChains(p, q)
    PROVE  Chained(q, H)
BY DEF Chained, SameBans, SameChains

(* Unlink changes the pointers of the two neighbours, and nothing else.    *)
LEMMA UnlinkFields ==
    ASSUME NEW p \in Pools, NEW b \in Nodes
    PROVE  LET q == Unlink(p, b)
           IN  /\ q \in Pools /\ SameBans(p, q) /\ SameChains(p, q)
               /\ q.firstUsed = p.firstUsed /\ q.firstFree = p.firstFree
               /\ \A x \in Nodes :
                     /\ q.next[x] = IF x = p.prev[b] THEN p.next[b] ELSE p.next[x]
                     /\ q.prev[x] = IF x = p.next[b] THEN p.prev[b] ELSE p.prev[x]
BY NullIsNoNode DEF Unlink, Pools, SameBans, SameChains, Ptr

(* UnlinkUsed also moves the head of the used list.                        *)
LEMMA UnlinkUsedFields ==
    ASSUME NEW p \in Pools, NEW b \in Nodes
    PROVE  LET q == UnlinkUsed(p, b)
           IN  /\ q \in Pools /\ SameBans(p, q) /\ SameChains(p, q)
               /\ q.firstUsed = IF p.prev[b] = Null THEN p.next[b] ELSE p.firstUsed
               /\ q.firstFree = p.firstFree
               /\ \A x \in Nodes :
                     /\ q.next[x] = IF x = p.prev[b] THEN p.next[b] ELSE p.next[x]
                     /\ q.prev[x] = IF x = p.next[b] THEN p.prev[b] ELSE p.prev[x]
<1> DEFINE r == Unlink(p, b)
           v == IF p.prev[b] = Null THEN p.next[b] ELSE p.firstUsed
           q == [r EXCEPT !.firstUsed = v]
<1>1. /\ r \in Pools /\ SameBans(p, r) /\ SameChains(p, r)
      /\ r.firstUsed = p.firstUsed /\ r.firstFree = p.firstFree
      /\ \A x \in Nodes :
            /\ r.next[x] = IF x = p.prev[b] THEN p.next[b] ELSE p.next[x]
            /\ r.prev[x] = IF x = p.next[b] THEN p.prev[b] ELSE p.prev[x]
  BY UnlinkFields
<1>2. v \in Ptr
  BY DEF Pools
<1>3. UnlinkUsed(p, b) = q
  <2>1. r.firstUsed = p.firstUsed
    BY <1>1
  <2>2. QED
    BY <2>1 DEF UnlinkUsed
<1> HIDE DEF r, v
<1>4. /\ q \in Pools /\ q.next = r.next /\ q.prev = r.prev
      /\ q.firstUsed = v /\ q.firstFree = r.firstFree
      /\ SameBans(r, q) /\ SameChains(r, q)
  BY <1>1, <1>2 DEF Pools, SameBans, SameChains
<1> HIDE DEF q
<1>5. SameBans(p, q) /\ SameChains(p, q)
  BY <1>1, <1>4 DEF SameBans, SameChains
<1>6. QED
  BY <1>1, <1>3, <1>4, <1>5 DEF v

(* UnlinkFree also moves the head of the free list.                        *)
LEMMA UnlinkFreeFields ==
    ASSUME NEW p \in Pools, NEW b \in Nodes
    PROVE  LET q == UnlinkFree(p, b)
           IN  /\ q \in Pools /\ SameBans(p, q) /\ SameChains(p, q)
               /\ q.firstUsed = p.firstUsed
               /\ q.firstFree = IF p.prev[b] = Null THEN p.next[b] ELSE p.firstFree
               /\ \A x \in Nodes :
                     /\ q.next[x] = IF x = p.prev[b] THEN p.next[b] ELSE p.next[x]
                     /\ q.prev[x] = IF x = p.next[b] THEN p.prev[b] ELSE p.prev[x]
<1> DEFINE r == Unlink(p, b)
           v == IF p.prev[b] = Null THEN p.next[b] ELSE p.firstFree
           q == [r EXCEPT !.firstFree = v]
<1>1. /\ r \in Pools /\ SameBans(p, r) /\ SameChains(p, r)
      /\ r.firstUsed = p.firstUsed /\ r.firstFree = p.firstFree
      /\ \A x \in Nodes :
            /\ r.next[x] = IF x = p.prev[b] THEN p.next[b] ELSE p.next[x]
            /\ r.prev[x] = IF x = p.next[b] THEN p.prev[b] ELSE p.prev[x]
  BY UnlinkFields
<1>2. v \in Ptr
  BY DEF Pools
<1>3. UnlinkFree(p, b) = q
  <2>1. r.firstFree = p.firstFree
    BY <1>1
  <2>2. QED
    BY <2>1 DEF UnlinkFree
<1> HIDE DEF r, v
<1>4. /\ q \in Pools /\ q.next = r.next /\ q.prev = r.prev
      /\ q.firstFree = v /\ q.firstUsed = r.firstUsed
      /\ SameBans(r, q) /\ SameChains(r, q)
  BY <1>1, <1>2 DEF Pools, SameBans, SameChains
<1> HIDE DEF q
<1>5. SameBans(p, q) /\ SameChains(p, q)
  BY <1>1, <1>4 DEF SameBans, SameChains
<1>6. QED
  BY <1>1, <1>3, <1>4, <1>5 DEF v

(* The order of expiries, with endless bans last, is transitive.           *)
LEMMA InOrderTransitive ==
    ASSUME NEW r \in Int, NEW s \in Int, NEW t \in Int, InOrder(r, s), InOrder(s, t)
    PROVE  InOrder(r, t)
BY DEF InOrder

(* UnlinkUsed takes a node off the used list and leaves the rest in order. *)
LEMMA UnlinkUsedKeepsThreads ==
    ASSUME NEW p, NEW U, NEW F, NEW H, Threads(p, U, F, H), NEW b \in U
    PROVE  Threads(UnlinkUsed(p, b), U \ {b}, F, H) /\ SameBans(p, UnlinkUsed(p, b))
<1> DEFINE q == UnlinkUsed(p, b)
<1>1. /\ p \in Pools /\ U \cap F = {} /\ Sorted(p, U) /\ Chained(p, H)
      /\ Linked(p.next, p.prev, p.firstUsed, U) /\ Linked(p.next, p.prev, p.firstFree, F)
  BY DEF Threads
<1>2. /\ U \subseteq Nodes /\ p.firstUsed \in U \cup {Null}
      /\ \A x \in U :
            /\ p.next[x] \in (U \ {x}) \cup {Null} /\ p.prev[x] \in (U \ {x}) \cup {Null}
            /\ p.next[x] # Null => p.prev[p.next[x]] = x
            /\ p.prev[x] # Null => p.next[p.prev[x]] = x
  <2> HIDE DEF q
  <2> QED BY <1>1, LinkFacts
<1>3. F \subseteq Nodes
  BY <1>1, LinkFacts
<1>4. /\ q \in Pools /\ SameBans(p, q) /\ SameChains(p, q)
      /\ q.firstUsed = IF p.prev[b] = Null THEN p.next[b] ELSE p.firstUsed
      /\ q.firstFree = p.firstFree
      /\ \A x \in Nodes :
            /\ q.next[x] = IF x = p.prev[b] THEN p.next[b] ELSE p.next[x]
            /\ q.prev[x] = IF x = p.next[b] THEN p.prev[b] ELSE p.prev[x]
  BY <1>1, <1>2, UnlinkUsedFields
<1> HIDE DEF q
<1>5. Linked(q.next, q.prev, q.firstUsed, U \ {b})
  <2>1. Joins(p.next, p.prev, U, b, q.next, q.prev)
    BY <1>2, <1>4 DEF Joins
  <2>2. q.firstUsed = IF p.prev[b] = Null THEN p.next[b] ELSE p.firstUsed
    BY <1>4
  <2>3. QED
    BY <1>1, <2>1, <2>2, LinkedRemove
<1>6. Linked(q.next, q.prev, q.firstFree, F)
  <2>1. \A x \in F : q.next[x] = p.next[x] /\ q.prev[x] = p.prev[x]
    BY <1>1, <1>2, <1>3, <1>4, NullIsNoNode
  <2>2. QED
    BY <1>1, <1>4, <2>1, LinkedFrame
<1>7. Sorted(q, U \ {b})
  <2> SUFFICES ASSUME NEW x \in U \ {b}, q.next[x] # Null
               PROVE  InOrder(q.expires[x], q.expires[q.next[x]])
    BY DEF Sorted
  <2>1. q.expires = p.expires /\ p.expires \in [Nodes -> Int]
    BY <1>1, <1>4 DEF SameBans, Pools
  <2>2. CASE x = p.prev[b]
    <3>1. q.next[x] = p.next[b] /\ p.next[x] = b /\ p.next[b] \in U /\ b # Null
      BY <1>2, <1>4, <2>2, NullIsNoNode
    <3>2. InOrder(p.expires[x], p.expires[b]) /\ InOrder(p.expires[b], p.expires[p.next[b]])
      BY <1>1, <3>1, NullIsNoNode, <1>2 DEF Sorted
    <3>3. p.expires[x] \in Int /\ p.expires[b] \in Int /\ p.expires[p.next[b]] \in Int
      BY <1>2, <2>1, <3>1
    <3>4. QED
      BY <2>1, <3>1, <3>2, <3>3, InOrderTransitive
  <2>3. CASE x # p.prev[b]
    BY <1>1, <1>2, <1>4, <2>1, <2>3 DEF Sorted
  <2>4. QED
    BY <2>2, <2>3
<1>8. Chained(q, H)
  BY <1>1, <1>4, ChainedFrame
<1>9. QED
  <2>1. (U \ {b}) \cap F = {}
    BY <1>1
  <2>2. Threads(q, U \ {b}, F, H)
    BY <1>4, <1>5, <1>6, <1>7, <1>8, <2>1 DEF Threads
  <2>3. QED
    BY <1>4, <2>2 DEF q

(* UnlinkFree takes a node off the free list.                              *)
LEMMA UnlinkFreeKeepsThreads ==
    ASSUME NEW p, NEW U, NEW F, NEW H, Threads(p, U, F, H), NEW b \in F
    PROVE  Threads(UnlinkFree(p, b), U, F \ {b}, H) /\ SameBans(p, UnlinkFree(p, b))
<1> DEFINE q == UnlinkFree(p, b)
<1>1. /\ p \in Pools /\ U \cap F = {} /\ Sorted(p, U) /\ Chained(p, H)
      /\ Linked(p.next, p.prev, p.firstUsed, U) /\ Linked(p.next, p.prev, p.firstFree, F)
  BY DEF Threads
<1>2. /\ F \subseteq Nodes /\ b \in Nodes
      /\ p.next[b] \in F \cup {Null} /\ p.prev[b] \in F \cup {Null}
  <2> HIDE DEF q
  <2> QED BY <1>1, LinkFacts
<1>3. U \subseteq Nodes /\ \A x \in U : p.next[x] \in U \cup {Null}
  BY <1>1, LinkFacts
<1>4. /\ q \in Pools /\ SameBans(p, q) /\ SameChains(p, q)
      /\ q.firstUsed = p.firstUsed
      /\ q.firstFree = IF p.prev[b] = Null THEN p.next[b] ELSE p.firstFree
      /\ \A x \in Nodes :
            /\ q.next[x] = IF x = p.prev[b] THEN p.next[b] ELSE p.next[x]
            /\ q.prev[x] = IF x = p.next[b] THEN p.prev[b] ELSE p.prev[x]
  BY <1>1, <1>2, UnlinkFreeFields
<1> HIDE DEF q
<1>5. Linked(q.next, q.prev, q.firstFree, F \ {b})
  <2>1. Joins(p.next, p.prev, F, b, q.next, q.prev)
    BY <1>2, <1>4 DEF Joins
  <2>2. q.firstFree = IF p.prev[b] = Null THEN p.next[b] ELSE p.firstFree
    BY <1>4
  <2>3. QED
    BY <1>1, <2>1, <2>2, LinkedRemove
<1>6. \A x \in U : q.next[x] = p.next[x] /\ q.prev[x] = p.prev[x]
  BY <1>1, <1>2, <1>3, <1>4, NullIsNoNode
<1>7. Linked(q.next, q.prev, q.firstUsed, U)
  BY <1>1, <1>4, <1>6, LinkedFrame
<1>8. Sorted(q, U)
  BY <1>1, <1>4, <1>6 DEF Sorted, SameBans
<1>9. Chained(q, H)
  BY <1>1, <1>4, ChainedFrame
<1>10. QED
  <2>1. U \cap (F \ {b}) = {}
    BY <1>1
  <2>2. Threads(q, U, F \ {b}, H)
    BY <1>4, <1>5, <1>7, <1>8, <1>9, <2>1 DEF Threads
  <2>3. QED
    BY <1>4, <2>2 DEF q

(* Min of numbers is their least element.                                  *)
LEMMA MinIsLeast ==
    ASSUME NEW T, T \subseteq Nat, T # {}
    PROVE  Min(T) \in T /\ \A y \in T : Min(T) <= y
<1>1. \E x \in T : \A y \in T : x <= y
  BY LeastElement
<1>2. QED
  BY <1>1 DEF Min

(* The pool z is p with the node b linked between r and q of the used list *)
(* U, where its expiry is in order.                                        *)
Inserted(p, U, b, r, q, z) ==
    /\ Gap(p.next, p.prev, p.firstUsed, U, r, q)
    /\ r \in U => InOrder(p.expires[r], p.expires[b])
    /\ q \in U => InOrder(p.expires[b], p.expires[q])
    /\ z \in Pools /\ SameBans(p, z) /\ SameChains(p, z)
    /\ z.firstFree = p.firstFree
    /\ z.firstUsed = IF r = Null THEN b ELSE p.firstUsed
    /\ \A x \in Nodes :
          /\ z.next[x] = IF x = b THEN q ELSE IF x = r THEN b ELSE p.next[x]
          /\ z.prev[x] = IF x = b THEN r ELSE IF x = q THEN b ELSE p.prev[x]

(* InsertUsed finds the place that keeps the used list in order, and links *)
(* the node there.                                                         *)
LEMMA InsertUsedFields ==
    ASSUME NEW p \in Pools, NEW U, Linked(p.next, p.prev, p.firstUsed, U), NEW b \in Nodes \ U
    PROVE  \E r, q : Inserted(p, U, b, r, q, InsertUsed(p, b))
<1> DEFINE chain == Chain(p.next, p.firstUsed)
           used == {k \in 0 .. MaxBans : chain[k] # Null}
           stops == {k \in used : GoesBefore(p, b, chain[k])}
           only == [p EXCEPT !.firstUsed = b, !.next[b] = Null, !.prev[b] = Null]
           before(q) ==
              [p EXCEPT
                    !.next = IF p.prev[q] = Null THEN [@ EXCEPT ![b] = q]
                             ELSE [@ EXCEPT ![b] = q, ![p.prev[q]] = b],
                    !.firstUsed = IF p.prev[q] = Null THEN b ELSE @,
                    !.prev = [@ EXCEPT ![b] = p.prev[q], ![q] = b]]
           behind(last) ==
              [p EXCEPT !.next = [@ EXCEPT ![last] = b, ![b] = Null], !.prev[b] = last]
           z == InsertUsed(p, b)
<1>1. z = IF used = {} THEN only
          ELSE IF stops # {} THEN before(chain[Min(stops)]) ELSE behind(chain[Max(used)])
  BY DEF InsertUsed
<1>2. PICK n, u : /\ IsList(p.next, p.prev, p.firstUsed, n, u)
                  /\ U = {u[i] : i \in 1 .. n}
  BY DEF Linked
<1>3. chain = [k \in 0 .. MaxBans |-> IF k < n THEN u[k + 1] ELSE Null]
  <2> DEFINE next == p.next
             head == p.firstUsed
  <2>1. IsList(next, p.prev, head, n, u)
    BY <1>2
  <2> HIDE DEF next, head
  <2>2. Chain(next, head) = [k \in 0 .. MaxBans |-> IF k < n THEN u[k + 1] ELSE Null]
    BY <2>1, ChainWalksList
  <2>3. QED
    BY <2>2 DEF next, head
<1>4. n \in Nat /\ n <= MaxBans
  <2>1. n \in Nat
    BY <1>2 DEF IsList
  <2>2. QED
    BY <1>2, <2>1, ListFitsPool
<1>5. /\ \A i \in 1 .. n : u[i] \in U /\ u[i] \in Nodes /\ u[i] # Null /\ u[i] # b
      /\ \A i \in 1 .. n : /\ p.next[u[i]] = IF i = n THEN Null ELSE u[i + 1]
                           /\ p.prev[u[i]] = IF i = 1 THEN Null ELSE u[i - 1]
      /\ p.firstUsed = IF n = 0 THEN Null ELSE u[1]
      /\ b # Null /\ b \in Nodes /\ b \notin U
  BY <1>2, NullIsNoNode DEF IsList
<1>6. used = 0 .. n - 1
  BY <1>3, <1>4, <1>5, NullIsNoNode
<1>7. \A k \in 0 .. n - 1 : chain[k] = u[k + 1]
  BY <1>3, <1>4, NullIsNoNode
<1>8. p.expires \in [Nodes -> Int]
  BY DEF Pools
<1> HIDE DEF chain, used, z
<1>9. CASE n = 0
  <2>1. U = {} /\ used = {}
    BY <1>2, <1>6, <1>9
  <2>2. z = only
    BY <1>1, <2>1
  <2>3. /\ z \in Pools /\ SameBans(p, z) /\ SameChains(p, z)
        /\ z.firstFree = p.firstFree /\ z.firstUsed = b
        /\ \A x \in Nodes : /\ z.next[x] = IF x = b THEN Null ELSE p.next[x]
                            /\ z.prev[x] = IF x = b THEN Null ELSE p.prev[x]
    BY <1>5, <2>2 DEF Pools, SameBans, SameChains, Ptr
  <2>4. Gap(p.next, p.prev, p.firstUsed, U, Null, Null)
    BY <2>1 DEF Gap
  <2>5. QED
    <3>1. \A x \in Nodes : x # Null
      BY NullIsNoNode
    <3>2. Null \notin U
      BY <2>1
    <3>3. Inserted(p, U, b, Null, Null, z)
      BY <2>3, <2>4, <3>1, <3>2 DEF Inserted
    <3>4. QED
      BY <3>3 DEF z
<1>10. CASE n # 0 /\ stops # {}
  <2> DEFINE m == Min(stops)
             q == chain[m]
             r == p.prev[q]
  <2>1. stops \subseteq Nat
    BY <1>6
  <2>2. m \in stops /\ \A y \in stops : m <= y
    <3> HIDE DEF stops
    <3> QED BY <1>10, <2>1, MinIsLeast
  <2> HIDE DEF m
  <2>3. m \in 0 .. n - 1 /\ q = u[m + 1] /\ GoesBefore(p, b, q)
    BY <1>6, <1>7, <2>2
  <2>4. q \in U /\ q \in Nodes /\ q # Null /\ q # b
    <3>1. m + 1 \in 1 .. n
      BY <1>4, <2>3
    <3>2. QED
      BY <1>5, <2>3, <3>1
  <2>5. r = IF m = 0 THEN Null ELSE u[m]
    <3>1. m + 1 \in 1 .. n /\ (m + 1 = 1 <=> m = 0) /\ (m + 1) - 1 = m
      BY <1>4, <2>3
    <3>2. QED
      BY <1>5, <2>3, <3>1
  <2>6. m # 0 => /\ r \in U /\ r \in Nodes /\ r # b /\ ~GoesBefore(p, b, r)
    <3> SUFFICES ASSUME m # 0 PROVE r \in U /\ r \in Nodes /\ r # b /\ ~GoesBefore(p, b, r)
      OBVIOUS
    <3>1. m \in 1 .. n /\ m - 1 \in 0 .. n - 1 /\ (m - 1) + 1 = m /\ ~(m <= m - 1)
      BY <1>4, <2>3
    <3>2. m - 1 \in used /\ m - 1 \notin stops /\ chain[m - 1] = r
      BY <1>6, <1>7, <2>2, <2>5, <3>1
    <3>3. QED
      BY <1>5, <2>5, <3>1, <3>2
  <2>7. used # {}
    BY <1>4, <1>6, <1>10
  <2>8. z = before(q)
    <3> HIDE DEF stops
    <3> QED BY <1>1, <1>10, <2>7 DEF m
  <2> HIDE DEF q, stops
  <2>9. r \in Ptr /\ r # b /\ r # q
    <3>1. m # 0 => r # q
      <4>1. IsList(p.next, p.prev, p.firstUsed, n, u)
        BY <1>2
      <4>2. m # 0 => m \in 1 .. n /\ m + 1 \in 1 .. n /\ m # m + 1
        BY <1>4, <2>3
      <4>3. QED
        BY <2>3, <2>5, <4>1, <4>2 DEF IsList
    <3>2. QED
      BY <1>5, <2>4, <2>5, <2>6, <3>1, NullIsNoNode DEF Ptr
  <2> HIDE DEF r
  <2>10. /\ z \in Pools /\ SameBans(p, z) /\ SameChains(p, z)
         /\ z.firstFree = p.firstFree /\ z.firstUsed = IF r = Null THEN b ELSE p.firstUsed
         /\ \A x \in Nodes :
               /\ z.next[x] = IF x = b THEN q ELSE IF x = r THEN b ELSE p.next[x]
               /\ z.prev[x] = IF x = b THEN r ELSE IF x = q THEN b ELSE p.prev[x]
    <3>1. z = [p EXCEPT
                    !.next = IF r = Null THEN [p.next EXCEPT ![b] = q]
                             ELSE [p.next EXCEPT ![b] = q, ![r] = b],
                    !.firstUsed = IF r = Null THEN b ELSE p.firstUsed,
                    !.prev = [p.prev EXCEPT ![b] = r, ![q] = b]]
      BY <2>8 DEF r
    <3>2. QED
      BY <1>5, <2>4, <2>9, <3>1, NullIsNoNode DEF Pools, SameBans, SameChains, Ptr
  <2>11. Gap(p.next, p.prev, p.firstUsed, U, r, q)
    BY <2>4 DEF Gap, r
  <2>12. r \in U => InOrder(p.expires[r], p.expires[b])
    <3> SUFFICES ASSUME r \in U PROVE InOrder(p.expires[r], p.expires[b])
      OBVIOUS
    <3>1. m # 0
      BY <1>2, <1>5, <2>5
    <3>2. r \in Nodes /\ ~GoesBefore(p, b, r)
      BY <2>6, <3>1
    <3>3. QED
      BY <1>5, <1>8, <3>2 DEF GoesBefore, InOrder
  <2>13. q \in U => InOrder(p.expires[b], p.expires[q])
    BY <2>3 DEF GoesBefore, InOrder
  <2>14. QED
    <3>1. Inserted(p, U, b, r, q, z)
      BY <2>10, <2>11, <2>12, <2>13 DEF Inserted
    <3>2. QED
      BY <3>1 DEF z
<1>11. CASE n # 0 /\ stops = {}
  <2> DEFINE last == chain[Max(used)]
  <2>1. Max(used) = n - 1
    <3>1. n - 1 \in used /\ \A y \in used : y <= n - 1
      BY <1>4, <1>6, <1>11
    <3>2. \A x \in used : (\A y \in used : x >= y) => x = n - 1
      BY <1>4, <1>6, <3>1
    <3>3. \E x \in used : \A y \in used : x >= y
      BY <1>4, <1>6, <3>1
    <3>4. QED
      BY <3>2, <3>3 DEF Max
  <2>2. last = u[n] /\ n \in 1 .. n
    BY <1>4, <1>7, <1>11, <2>1
  <2>3. last \in U /\ last \in Nodes /\ last # b /\ last # Null /\ p.next[last] = Null
    BY <1>5, <2>2
  <2>4. ~GoesBefore(p, b, last)
    <3>1. n - 1 \in used
      BY <1>4, <1>6, <1>11
    <3>2. QED
      BY <1>11, <2>1, <3>1
  <2>5. z = behind(last)
    <3>1. used # {}
      BY <1>4, <1>6, <1>11
    <3> HIDE DEF stops
    <3>2. QED
      BY <1>1, <1>11, <3>1
  <2> HIDE DEF last
  <2>6. /\ z \in Pools /\ SameBans(p, z) /\ SameChains(p, z)
        /\ z.firstFree = p.firstFree /\ z.firstUsed = p.firstUsed
        /\ \A x \in Nodes :
              /\ z.next[x] = IF x = b THEN Null ELSE IF x = last THEN b ELSE p.next[x]
              /\ z.prev[x] = IF x = b THEN last ELSE p.prev[x]
    BY <1>5, <2>3, <2>5, NullIsNoNode DEF Pools, SameBans, SameChains, Ptr
  <2>7. Gap(p.next, p.prev, p.firstUsed, U, last, Null)
    BY <2>3 DEF Gap
  <2>8. InOrder(p.expires[last], p.expires[b])
    BY <1>5, <1>8, <2>3, <2>4 DEF GoesBefore, InOrder
  <2>9. Null \notin U /\ \A x \in Nodes : x # Null
    BY <1>2, <1>5, NullIsNoNode
  <2>10. QED
    <3>1. Inserted(p, U, b, last, Null, z)
      BY <2>3, <2>6, <2>7, <2>8, <2>9 DEF Inserted
    <3>2. QED
      BY <3>1 DEF z
<1>12. QED
  BY <1>9, <1>10, <1>11

(* InsertUsed puts a node that is on no list on the used list, in order.   *)
LEMMA InsertUsedKeepsThreads ==
    ASSUME NEW p, NEW U, NEW F, NEW H, Threads(p, U, F, H), NEW b \in Nodes \ (U \cup F)
    PROVE  /\ Threads(InsertUsed(p, b), U \cup {b}, F, H)
           /\ SameBans(p, InsertUsed(p, b))
<1> DEFINE z == InsertUsed(p, b)
<1>1. /\ p \in Pools /\ U \cap F = {} /\ Sorted(p, U) /\ Chained(p, H)
      /\ Linked(p.next, p.prev, p.firstUsed, U) /\ Linked(p.next, p.prev, p.firstFree, F)
  BY DEF Threads
<1>2. PICK r, q : Inserted(p, U, b, r, q, z)
  BY <1>1, InsertUsedFields
<1> HIDE DEF z
<1>3. /\ Gap(p.next, p.prev, p.firstUsed, U, r, q)
      /\ r \in U => InOrder(p.expires[r], p.expires[b])
      /\ q \in U => InOrder(p.expires[b], p.expires[q])
      /\ z \in Pools /\ SameBans(p, z) /\ SameChains(p, z)
      /\ z.firstFree = p.firstFree
      /\ z.firstUsed = IF r = Null THEN b ELSE p.firstUsed
      /\ \A x \in Nodes :
            /\ z.next[x] = IF x = b THEN q ELSE IF x = r THEN b ELSE p.next[x]
            /\ z.prev[x] = IF x = b THEN r ELSE IF x = q THEN b ELSE p.prev[x]
  BY <1>2 DEF Inserted
<1>4. /\ U \subseteq Nodes
      /\ \A x \in U : /\ p.next[x] \in U \cup {Null} /\ p.prev[x] \in U \cup {Null}
  BY <1>1, LinkFacts
<1>5. F \subseteq Nodes
  BY <1>1, LinkFacts
<1>6. r \in U \cup {Null} /\ q \in U \cup {Null}
  BY <1>3, <1>4 DEF Gap
<1>7. Linked(z.next, z.prev, z.firstUsed, U \cup {b})
  <2>1. Splices(p.next, p.prev, U, b, r, q, z.next, z.prev)
    BY <1>3, <1>4 DEF Splices
  <2>2. z.firstUsed = IF r = Null THEN b ELSE p.firstUsed
    BY <1>3
  <2>3. b \in Nodes \ U
    OBVIOUS
  <2>4. Gap(p.next, p.prev, p.firstUsed, U, r, q) /\ Linked(p.next, p.prev, p.firstUsed, U)
    BY <1>1, <1>3
  <2>5. QED
    BY <2>1, <2>2, <2>3, <2>4, LinkedInsert
<1>8. Linked(z.next, z.prev, z.firstFree, F)
  <2>1. \A x \in F : z.next[x] = p.next[x] /\ z.prev[x] = p.prev[x]
    BY <1>1, <1>3, <1>5, <1>6, NullIsNoNode
  <2>2. QED
    BY <1>1, <1>3, <2>1, LinkedFrame
<1>9. Sorted(z, U \cup {b})
  <2> SUFFICES ASSUME NEW x \in U \cup {b}, z.next[x] # Null
               PROVE  InOrder(z.expires[x], z.expires[z.next[x]])
    BY DEF Sorted
  <2>1. z.expires = p.expires
    BY <1>3 DEF SameBans
  <2>2. CASE x = b
    BY <1>3, <1>6, <2>1, <2>2
  <2>3. CASE x = r /\ x # b
    BY <1>3, <1>4, <2>1, <2>3
  <2>4. CASE x # r /\ x # b
    BY <1>1, <1>3, <1>4, <2>1, <2>4 DEF Sorted
  <2>5. QED
    BY <2>2, <2>3, <2>4
<1>10. Chained(z, H)
  BY <1>1, <1>3, ChainedFrame
<1>11. QED
  <2>1. (U \cup {b}) \cap F = {}
    BY <1>1
  <2>2. Threads(z, U \cup {b}, F, H)
    BY <1>3, <1>7, <1>8, <1>9, <1>10, <2>1 DEF Threads
  <2>3. QED
    BY <1>3, <2>2 DEF z

(* There is always room in front of the head of a list.                    *)
LEMMA HeadGap ==
    ASSUME NEW next, NEW prev, NEW head, NEW S, Linked(next, prev, head, S)
    PROVE  Gap(next, prev, head, S, Null, head)
BY LinkFacts DEF Gap

(* PushFree puts a node that is on no list at the head of the free list.   *)
LEMMA PushFreeKeepsThreads ==
    ASSUME NEW p, NEW U, NEW F, NEW H, Threads(p, U, F, H), NEW b \in Nodes \ (U \cup F)
    PROVE  /\ Threads(PushFree(p, b), U, F \cup {b}, H)
           /\ SameBans(p, PushFree(p, b))
<1> DEFINE z == PushFree(p, b)
           q == p.firstFree
<1>1. /\ p \in Pools /\ U \cap F = {} /\ Sorted(p, U) /\ Chained(p, H)
      /\ Linked(p.next, p.prev, p.firstUsed, U) /\ Linked(p.next, p.prev, p.firstFree, F)
  BY DEF Threads
<1>2. F \subseteq Nodes /\ q \in F \cup {Null}
  BY <1>1, LinkFacts
<1>3. U \subseteq Nodes /\ \A x \in U : p.next[x] \in U \cup {Null}
  BY <1>1, LinkFacts
<1>4. /\ z \in Pools /\ SameBans(p, z) /\ SameChains(p, z)
      /\ z.firstFree = b /\ z.firstUsed = p.firstUsed
      /\ \A x \in Nodes :
            /\ z.next[x] = IF x = b THEN q ELSE p.next[x]
            /\ z.prev[x] = IF x = b THEN Null ELSE IF x = q THEN b ELSE p.prev[x]
  BY <1>1, <1>2, NullIsNoNode DEF PushFree, Pools, SameBans, SameChains, Ptr
<1> HIDE DEF z
<1>5. Linked(z.next, z.prev, z.firstFree, F \cup {b})
  <2>1. Splices(p.next, p.prev, F, b, Null, p.firstFree, z.next, z.prev)
    BY <1>2, <1>4, NullIsNoNode DEF Splices
  <2>2. Gap(p.next, p.prev, p.firstFree, F, Null, p.firstFree)
    BY <1>1, HeadGap
  <2>3. b \in Nodes \ F /\ z.firstFree = IF Null = Null THEN b ELSE p.firstFree
    BY <1>4
  <2>4. QED
    BY <1>1, <2>1, <2>2, <2>3, LinkedInsert
<1>6. \A x \in U : z.next[x] = p.next[x] /\ z.prev[x] = p.prev[x]
  BY <1>1, <1>2, <1>3, <1>4, NullIsNoNode
<1>7. Linked(z.next, z.prev, z.firstUsed, U)
  BY <1>1, <1>4, <1>6, LinkedFrame
<1>8. Sorted(z, U)
  BY <1>1, <1>4, <1>6 DEF Sorted, SameBans
<1>9. Chained(z, H)
  BY <1>1, <1>4, ChainedFrame
<1>10. QED
  <2>1. U \cap (F \cup {b}) = {}
    BY <1>1
  <2>2. Threads(z, U, F \cup {b}, H)
    BY <1>4, <1>5, <1>7, <1>8, <1>9, <2>1 DEF Threads
  <2>3. QED
    BY <1>4, <2>2 DEF z

SameLists(p, q) ==
    /\ q.next = p.next /\ q.prev = p.prev
    /\ q.firstUsed = p.firstUsed /\ q.firstFree = p.firstFree

(* A change of the chains alone leaves the two lists as they were.         *)
LEMMA ThreadsOfChained ==
    ASSUME NEW p, NEW q, NEW U, NEW F, NEW H, NEW G, Threads(p, U, F, H), q \in Pools,
           SameBans(p, q), SameLists(p, q), Chained(q, G)
    PROVE  Threads(q, U, F, G)
BY DEF Threads, SameBans, SameLists, Sorted

(* PushHash adds a node to the chain of what it bans.                      *)
LEMMA PushHashKeepsThreads ==
    ASSUME NEW p, NEW U, NEW F, NEW H, Threads(p, U, F, H), NEW b \in Nodes \ H,
           p.data[b] \in Data, \A c \in H : p.data[c] # p.data[b]
    PROVE  LET z == PushHash(p, b, Bucket[p.data[b]])
           IN  Threads(z, U, F, H \cup {b}) /\ SameBans(p, z)
<1> DEFINE h == Bucket[p.data[b]]
           z == PushHash(p, b, h)
           old == p.hashList[h]
           In(g) == {c \in H : Bucket[p.data[c]] = g}
<1>1. p \in Pools /\ Chained(p, H)
  BY DEF Threads
<1>2. h \in Buckets /\ H \subseteq Nodes
  BY <1>1, PoolAssumption DEF PoolAssumption, Chained
<1>3. \A g \in Buckets : Linked(p.hashNext, p.hashPrev, p.hashList[g], In(g))
  BY <1>1 DEF Chained
<1> HIDE DEF h
<1>4. In(h) \subseteq Nodes /\ old \in In(h) \cup {Null}
  <2> HIDE DEF In
  <2> QED BY <1>2, <1>3, LinkFacts
<1>5. /\ z \in Pools /\ SameBans(p, z) /\ SameLists(p, z)
      /\ \A g \in Buckets : z.hashList[g] = IF g = h THEN b ELSE p.hashList[g]
      /\ \A x \in Nodes :
            /\ z.hashNext[x] = IF x = b THEN old ELSE p.hashNext[x]
            /\ z.hashPrev[x] = IF x = b THEN Null ELSE IF x = old THEN b ELSE p.hashPrev[x]
  <2>1. old \in Ptr /\ b \in Nodes /\ b \notin H
    BY <1>1, <1>2 DEF Pools
  <2>2. old # b
    BY <1>4, <2>1, NullIsNoNode
  <2> HIDE DEF In
  <2>3. QED
    BY <1>1, <1>2, <2>1, <2>2, NullIsNoNode DEF PushHash, Pools, SameBans, SameLists, Ptr
<1> HIDE DEF z
<1>6. z.data = p.data
  BY <1>5 DEF SameBans
<1>7. \A g \in Buckets : Linked(z.hashNext, z.hashPrev, z.hashList[g],
                                {c \in H \cup {b} : Bucket[z.data[c]] = g})
  <2> SUFFICES ASSUME NEW g \in Buckets
               PROVE  Linked(z.hashNext, z.hashPrev, z.hashList[g],
                             {c \in H \cup {b} : Bucket[z.data[c]] = g})
    OBVIOUS
  <2>1. CASE g = h
    <3>1. {c \in H \cup {b} : Bucket[z.data[c]] = g} = In(h) \cup {b}
      BY <1>6, <2>1 DEF h
    <3>2. b \in Nodes \ In(h)
      OBVIOUS
    <3> HIDE DEF In
    <3>3. Splices(p.hashNext, p.hashPrev, In(h), b, Null, old, z.hashNext, z.hashPrev)
      BY <1>4, <1>5, <3>2, NullIsNoNode DEF Splices
    <3>4. Linked(p.hashNext, p.hashPrev, old, In(h)) /\ Gap(p.hashNext, p.hashPrev, old, In(h), Null, old)
      BY <1>2, <1>3, HeadGap
    <3>5. z.hashList[g] = IF Null = Null THEN b ELSE old
      BY <1>2, <1>5, <2>1
    <3>6. Linked(z.hashNext, z.hashPrev, z.hashList[g], In(h) \cup {b})
      BY <3>2, <3>3, <3>4, <3>5, LinkedInsert
    <3>7. QED
      BY <3>1, <3>6
  <2>2. CASE g # h
    <3>1. {c \in H \cup {b} : Bucket[z.data[c]] = g} = In(g)
      BY <1>6, <2>2 DEF h
    <3>2. \A x \in In(g) : x \in Nodes /\ x # b /\ x # old
      BY <1>2, <1>4, <2>2, NullIsNoNode
    <3> HIDE DEF In
    <3>3. \A x \in In(g) : z.hashNext[x] = p.hashNext[x] /\ z.hashPrev[x] = p.hashPrev[x]
      BY <1>5, <3>2
    <3>4. Linked(p.hashNext, p.hashPrev, p.hashList[g], In(g)) /\ z.hashList[g] = p.hashList[g]
      BY <1>3, <1>5, <2>2
    <3>5. Linked(z.hashNext, z.hashPrev, z.hashList[g], In(g))
      BY <3>3, <3>4, LinkedFrame
    <3>6. QED
      BY <3>1, <3>5
  <2>3. QED
    BY <2>1, <2>2
<1>8. Chained(z, H \cup {b})
  <2>1. /\ \A c \in H : p.data[c] \in Data /\ p.data[c] # p.data[b]
        /\ \A c, d \in H : p.data[c] = p.data[d] => c = d
    BY <1>1 DEF Chained
  <2>2. H \cup {b} \subseteq Nodes
    BY <1>2
  <2>3. QED
    BY <1>6, <1>7, <2>1, <2>2 DEF Chained
<1>9. QED
  BY <1>5, <1>8, ThreadsOfChained DEF z, h

(* UnlinkHash takes a node off the chain of what it bans.                  *)
LEMMA UnlinkHashKeepsThreads ==
    ASSUME NEW p, NEW U, NEW F, NEW H, Threads(p, U, F, H), NEW b \in H
    PROVE  LET z == UnlinkHash(p, b, Bucket[p.data[b]])
           IN  Threads(z, U, F, H \ {b}) /\ SameBans(p, z)
<1> DEFINE h == Bucket[p.data[b]]
           z == UnlinkHash(p, b, h)
           n == p.hashNext[b]
           q == p.hashPrev[b]
           In(g) == {c \in H : Bucket[p.data[c]] = g}
<1>1. p \in Pools /\ Chained(p, H)
  BY DEF Threads
<1>2. h \in Buckets /\ H \subseteq Nodes /\ b \in Nodes
  BY <1>1, PoolAssumption DEF PoolAssumption, Chained
<1>3. \A g \in Buckets : Linked(p.hashNext, p.hashPrev, p.hashList[g], In(g))
  BY <1>1 DEF Chained
<1>4. b \in In(h)
  OBVIOUS
<1> HIDE DEF h
<1>5. n \in (In(h) \ {b}) \cup {Null} /\ q \in (In(h) \ {b}) \cup {Null}
  <2>1. Linked(p.hashNext, p.hashPrev, p.hashList[h], In(h))
    BY <1>2, <1>3
  <2> HIDE DEF In
  <2>2. QED
    BY <1>4, <2>1, LinkFacts
<1>6. /\ z \in Pools /\ SameBans(p, z) /\ SameLists(p, z)
      /\ \A g \in Buckets : z.hashList[g] = IF g = h /\ q = Null THEN n ELSE p.hashList[g]
      /\ \A x \in Nodes \ {b} :
            /\ z.hashNext[x] = IF x = q THEN n ELSE p.hashNext[x]
            /\ z.hashPrev[x] = IF x = n THEN q ELSE p.hashPrev[x]
  <2>1. n \in Ptr /\ q \in Ptr /\ n # b /\ q # b
    BY <1>1, <1>2, <1>5, NullIsNoNode DEF Pools
  <2> HIDE DEF In
  <2>2. QED
    BY <1>1, <1>2, <2>1, NullIsNoNode DEF UnlinkHash, Pools, SameBans, SameLists, Ptr
<1> HIDE DEF z
<1>7. z.data = p.data
  BY <1>6 DEF SameBans
<1>8. \A g \in Buckets : Linked(z.hashNext, z.hashPrev, z.hashList[g],
                                {c \in H \ {b} : Bucket[z.data[c]] = g})
  <2> SUFFICES ASSUME NEW g \in Buckets
               PROVE  Linked(z.hashNext, z.hashPrev, z.hashList[g],
                             {c \in H \ {b} : Bucket[z.data[c]] = g})
    OBVIOUS
  <2>1. CASE g = h
    <3>1. {c \in H \ {b} : Bucket[z.data[c]] = g} = In(h) \ {b}
      BY <1>7, <2>1
    <3>2. In(h) \subseteq Nodes
      BY <1>2
    <3> HIDE DEF In
    <3>3. Joins(p.hashNext, p.hashPrev, In(h), b, z.hashNext, z.hashPrev)
      BY <1>6, <3>2 DEF Joins
    <3>4. Linked(p.hashNext, p.hashPrev, p.hashList[h], In(h))
      BY <1>2, <1>3
    <3>5. z.hashList[g] = IF p.hashPrev[b] = Null THEN p.hashNext[b] ELSE p.hashList[h]
      BY <1>2, <1>6, <2>1
    <3>6. Linked(z.hashNext, z.hashPrev, z.hashList[g], In(h) \ {b})
      BY <1>4, <3>3, <3>4, <3>5, LinkedRemove
    <3>7. QED
      BY <3>1, <3>6
  <2>2. CASE g # h
    <3>1. {c \in H \ {b} : Bucket[z.data[c]] = g} = In(g)
      BY <1>7, <2>2 DEF h
    <3>2. \A x \in In(g) : x \in Nodes \ {b} /\ x # n /\ x # q
      BY <1>2, <1>4, <1>5, <2>2, NullIsNoNode
    <3> HIDE DEF In
    <3>3. \A x \in In(g) : z.hashNext[x] = p.hashNext[x] /\ z.hashPrev[x] = p.hashPrev[x]
      BY <1>6, <3>2
    <3>4. Linked(p.hashNext, p.hashPrev, p.hashList[g], In(g)) /\ z.hashList[g] = p.hashList[g]
      BY <1>3, <1>6, <2>2
    <3>5. Linked(z.hashNext, z.hashPrev, z.hashList[g], In(g))
      BY <3>3, <3>4, LinkedFrame
    <3>6. QED
      BY <3>1, <3>5
  <2>3. QED
    BY <2>1, <2>2
<1>9. Chained(z, H \ {b})
  <2>1. /\ \A c \in H : p.data[c] \in Data
        /\ \A c, d \in H : p.data[c] = p.data[d] => c = d
    BY <1>1 DEF Chained
  <2>2. H \ {b} \subseteq Nodes
    BY <1>2
  <2>3. QED
    BY <1>7, <1>8, <2>1, <2>2 DEF Chained
<1>10. QED
  BY <1>6, <1>9, ThreadsOfChained DEF z, h

--------------------------------------------------------------------------------
(* The pool holds bans in the nodes of U and no others.                    *)
Holds(p, U) == Threads(p, U, Nodes \ U, U) /\ p.countUsed = Cardinality(U)

(* What a node holds that is on no list plays no part.                     *)
LEMMA ThreadsOfContent ==
    ASSUME NEW p, NEW q, NEW U, NEW F, NEW H, Threads(p, U, F, H), q \in Pools,
           SameLists(p, q), SameChains(p, q),
           \A x \in U : q.expires[x] = p.expires[x],
           \A x \in H : q.data[x] = p.data[x]
    PROVE  Threads(q, U, F, H)
<1>1. /\ p \in Pools /\ U \cap F = {} /\ Sorted(p, U) /\ Chained(p, H)
      /\ Linked(p.next, p.prev, p.firstUsed, U) /\ Linked(p.next, p.prev, p.firstFree, F)
  BY DEF Threads
<1>2. \A x \in U : p.next[x] \in U \cup {Null}
  BY <1>1, LinkFacts
<1>3. Sorted(q, U)
  BY <1>1, <1>2 DEF Sorted, SameLists
<1>4. Chained(q, H)
  <2>1. /\ H \subseteq Nodes /\ \A b \in H : q.data[b] \in Data
        /\ \A b, c \in H : q.data[b] = q.data[c] => b = c
    BY <1>1 DEF Chained
  <2>2. ASSUME NEW h \in Buckets
        PROVE  Linked(q.hashNext, q.hashPrev, q.hashList[h], {b \in H : Bucket[q.data[b]] = h})
    <3>1. {b \in H : Bucket[q.data[b]] = h} = {b \in H : Bucket[p.data[b]] = h}
      OBVIOUS
    <3>2. QED
      BY <1>1, <3>1 DEF Chained, SameChains
  <2>3. QED
    BY <2>1, <2>2 DEF Chained
<1>5. QED
  BY <1>1, <1>3, <1>4 DEF Threads, SameLists

(* There are as many nodes as the array has entries.                       *)
LEMMA NodesFinite == IsFiniteSet(Nodes) /\ Cardinality(Nodes) = MaxBans
BY FS_Interval, NullIsNoNode DEF Nodes

(* What a sound pool says of its nodes without walking a list.             *)
LEMMA HeldNodes ==
    ASSUME NEW p, NEW U, Holds(p, U)
    PROVE  /\ U \subseteq Nodes /\ p \in Pools /\ IsFiniteSet(U) /\ Cardinality(U) \in 0 .. MaxBans
           /\ p.firstFree \in (Nodes \ U) \cup {Null} /\ (p.firstFree = Null <=> U = Nodes)
           /\ p.firstUsed \in U \cup {Null} /\ (p.firstUsed = Null <=> U = {})
           /\ \A b \in U : p.data[b] \in Data /\ p.expires[b] \in Int
           /\ \A b, c \in U : p.data[b] = p.data[c] => b = c
<1>1. /\ p \in Pools /\ Chained(p, U)
      /\ Linked(p.next, p.prev, p.firstUsed, U) /\ Linked(p.next, p.prev, p.firstFree, Nodes \ U)
  BY DEF Holds, Threads
<1>2. /\ U \subseteq Nodes /\ \A b \in U : p.data[b] \in Data
      /\ \A b, c \in U : p.data[b] = p.data[c] => b = c
  BY <1>1 DEF Chained
<1>3. IsFiniteSet(U) /\ Cardinality(U) \in 0 .. MaxBans
  BY <1>2, NodesFinite, NullIsNoNode, FS_Subset, FS_CardinalityType
<1>4. p.firstFree \in (Nodes \ U) \cup {Null} /\ (p.firstFree = Null <=> Nodes \ U = {})
  BY <1>1, LinkFacts
<1>5. p.firstUsed \in U \cup {Null} /\ (p.firstUsed = Null <=> U = {})
  BY <1>1, LinkFacts
<1>6. \A b \in U : p.expires[b] \in Int
  BY <1>1, <1>2 DEF Pools
<1>7. QED
  BY <1>1, <1>2, <1>3, <1>4, <1>5, <1>6

NotHeld(p, U, d) == \A c \in U : p.data[c] # d

(* The pool z holds what p does, and in the node b, that was free, a ban of *)
(* d until e.                                                              *)
Added(p, U, b, d, e, z) ==
    /\ b \in Nodes \ U /\ Holds(z, U \cup {b})
    /\ z.data[b] = d /\ z.expires[b] = e
    /\ \A x \in U : z.data[x] = p.data[x] /\ z.expires[x] = p.expires[x]

(* Add moves the first free node, with the ban, to the used ones.          *)
LEMMA AddHolds ==
    ASSUME NEW p, NEW U, Holds(p, U), NEW b, b = p.firstFree, b # Null,
           NEW d \in Data, NotHeld(p, U, d), NEW e \in Int
    PROVE  Added(p, U, b, d, e, Add(p, d, e))
<1> DEFINE p1 == [p EXCEPT !.data[b] = d, !.expires[b] = e]
           p2 == UnlinkFree(p1, b)
           p3 == PushHash(p2, b, Bucket[d])
           p4 == InsertUsed(p3, b)
           z == [p4 EXCEPT !.countUsed = @ + 1]
<1>1. z = Add(p, d, e)
  BY DEF Add
<1>2. /\ Threads(p, U, Nodes \ U, U) /\ b \in Nodes \ U /\ p \in Pools /\ U \subseteq Nodes
      /\ p.countUsed = Cardinality(U)
  BY HeldNodes DEF Holds
<1>3. /\ p1 \in Pools /\ SameLists(p, p1) /\ SameChains(p, p1) /\ p1.countUsed = p.countUsed
      /\ p1.data[b] = d /\ p1.expires[b] = e
      /\ \A x \in U : p1.data[x] = p.data[x] /\ p1.expires[x] = p.expires[x]
  BY <1>2 DEF Pools, SameLists, SameChains
<1> HIDE DEF p1
<1>4. Threads(p1, U, Nodes \ U, U)
  BY <1>2, <1>3, ThreadsOfContent
<1>5. Threads(p2, U, (Nodes \ U) \ {b}, U) /\ SameBans(p1, p2)
  BY <1>2, <1>4, UnlinkFreeKeepsThreads
<1> HIDE DEF p2
<1>6. p2.data[b] = d /\ \A c \in U : p2.data[c] # p2.data[b]
  BY <1>3, <1>5 DEF SameBans, NotHeld
<1>7. Threads(p3, U, (Nodes \ U) \ {b}, U \cup {b}) /\ SameBans(p2, p3)
  <2>1. b \in Nodes \ U /\ p2.data[b] \in Data
    BY <1>2, <1>6
  <2>2. Threads(PushHash(p2, b, Bucket[p2.data[b]]), U, (Nodes \ U) \ {b}, U \cup {b})
        /\ SameBans(p2, PushHash(p2, b, Bucket[p2.data[b]]))
    BY <1>5, <1>6, <2>1, PushHashKeepsThreads
  <2>3. QED
    BY <1>6, <2>2
<1> HIDE DEF p3
<1>8. Threads(p4, U \cup {b}, (Nodes \ U) \ {b}, U \cup {b}) /\ SameBans(p3, p4)
  <2>1. b \in Nodes \ (U \cup ((Nodes \ U) \ {b}))
    BY <1>2
  <2>2. QED
    BY <1>7, <2>1, InsertUsedKeepsThreads
<1> HIDE DEF p4
<1>9. p4 \in Pools
  BY <1>8 DEF Threads
<1>10. /\ z \in Pools /\ SameLists(p4, z) /\ SameChains(p4, z) /\ z.countUsed = p4.countUsed + 1
       /\ z.data = p4.data /\ z.expires = p4.expires
  BY <1>9 DEF Pools, SameLists, SameChains
<1> HIDE DEF z
<1>11. Threads(z, U \cup {b}, (Nodes \ U) \ {b}, U \cup {b})
  BY <1>8, <1>10, ThreadsOfContent
<1>12. z.countUsed = Cardinality(U \cup {b})
  <2>1. Cardinality(U \cup {b}) = Cardinality(U) + 1
    BY <1>2, HeldNodes, FS_AddElement
  <2>2. QED
    BY <1>2, <1>3, <1>5, <1>7, <1>8, <1>10, <2>1 DEF SameBans
<1>13. z.data = p1.data /\ z.expires = p1.expires
  BY <1>5, <1>7, <1>8, <1>10 DEF SameBans
<1>14. Holds(z, U \cup {b})
  <2>1. (Nodes \ U) \ {b} = Nodes \ (U \cup {b})
    OBVIOUS
  <2>2. QED
    BY <1>11, <1>12, <2>1 DEF Holds
<1>15. QED
  BY <1>1, <1>2, <1>3, <1>13, <1>14 DEF Added

(* Remove gives the node of a ban back to the free ones.                   *)
LEMMA RemoveHolds ==
    ASSUME NEW p, NEW U, Holds(p, U), NEW b \in U
    PROVE  LET z == Remove(p, b)
           IN  /\ Holds(z, U \ {b})
               /\ \A x \in U \ {b} : z.data[x] = p.data[x] /\ z.expires[x] = p.expires[x]
<1> DEFINE p1 == UnlinkHash(p, b, Bucket[p.data[b]])
           p2 == UnlinkUsed(p1, b)
           p3 == PushFree(p2, b)
           z == [p3 EXCEPT !.countUsed = @ - 1, !.data[b] = NoData, !.expires[b] = 0]
<1>1. z = Remove(p, b)
  BY DEF Remove
<1>2. /\ Threads(p, U, Nodes \ U, U) /\ p \in Pools /\ U \subseteq Nodes
      /\ p.countUsed = Cardinality(U)
  BY HeldNodes DEF Holds
<1>3. Threads(p1, U, Nodes \ U, U \ {b}) /\ SameBans(p, p1)
  BY <1>2, UnlinkHashKeepsThreads
<1> HIDE DEF p1
<1>4. Threads(p2, U \ {b}, Nodes \ U, U \ {b}) /\ SameBans(p1, p2)
  BY <1>3, UnlinkUsedKeepsThreads
<1> HIDE DEF p2
<1>5. Threads(p3, U \ {b}, (Nodes \ U) \cup {b}, U \ {b}) /\ SameBans(p2, p3)
  <2>1. b \in Nodes \ ((U \ {b}) \cup (Nodes \ U))
    BY <1>2
  <2>2. QED
    BY <1>4, <2>1, PushFreeKeepsThreads
<1> HIDE DEF p3
<1>6. p3 \in Pools /\ b \in Nodes
  BY <1>2, <1>5 DEF Threads
<1>7. /\ z \in Pools /\ SameLists(p3, z) /\ SameChains(p3, z) /\ z.countUsed = p3.countUsed - 1
      /\ \A x \in U \ {b} : z.data[x] = p3.data[x] /\ z.expires[x] = p3.expires[x]
  <2>1. z \in Pools
    <3> DEFINE c == p3.countUsed - 1
               D == [p3.data EXCEPT ![b] = NoData]
               E == [p3.expires EXCEPT ![b] = 0]
    <3>1. c \in Int /\ D \in [Nodes -> Data \cup {NoData}] /\ E \in [Nodes -> Int]
      BY <1>6 DEF Pools
    <3>2. z = [p3 EXCEPT !.countUsed = c, !.data = D, !.expires = E]
      BY <1>6 DEF Pools
    <3> HIDE DEF c, D, E, z
    <3>3. QED
      BY <1>6, <3>1, <3>2 DEF Pools
  <2>2. SameLists(p3, z) /\ SameChains(p3, z) /\ z.countUsed = p3.countUsed - 1
    BY <1>6 DEF Pools, SameLists, SameChains
  <2>3. /\ z.data = [p3.data EXCEPT ![b] = NoData] /\ z.expires = [p3.expires EXCEPT ![b] = 0]
        /\ p3.data \in [Nodes -> Data \cup {NoData}] /\ p3.expires \in [Nodes -> Int]
    BY <1>6 DEF Pools
  <2> HIDE DEF z
  <2>4. \A x \in U \ {b} : z.data[x] = p3.data[x] /\ z.expires[x] = p3.expires[x]
    BY <1>2, <2>3
  <2>5. QED
    BY <2>1, <2>2, <2>4
<1> HIDE DEF z
<1>8. Threads(z, U \ {b}, (Nodes \ U) \cup {b}, U \ {b})
  BY <1>5, <1>7, ThreadsOfContent
<1>9. z.countUsed = Cardinality(U \ {b})
  <2>1. Cardinality(U \ {b}) = Cardinality(U) - 1
    BY <1>2, HeldNodes, FS_RemoveElement
  <2>2. QED
    BY <1>2, <1>3, <1>4, <1>5, <1>7, <2>1 DEF SameBans
<1>10. Holds(z, U \ {b})
  <2>1. (Nodes \ U) \cup {b} = Nodes \ (U \ {b})
    BY <1>2
  <2>2. QED
    BY <1>8, <1>9, <2>1 DEF Holds
<1>11. p3.data = p.data /\ p3.expires = p.expires
  BY <1>3, <1>4, <1>5 DEF SameBans
<1>12. QED
  BY <1>1, <1>7, <1>10, <1>11

(* Update gives a ban another expiry and moves it to its place in order.   *)
LEMMA UpdateHolds ==
    ASSUME NEW p, NEW U, Holds(p, U), NEW b \in U, NEW e \in Int
    PROVE  LET z == Update(p, b, e)
           IN  /\ Holds(z, U) /\ z.expires[b] = e
               /\ \A x \in U : z.data[x] = p.data[x]
               /\ \A x \in U \ {b} : z.expires[x] = p.expires[x]
<1> DEFINE p1 == UnlinkUsed(p, b)
           p2 == [p1 EXCEPT !.expires[b] = e]
           z == InsertUsed(p2, b)
<1>1. /\ Threads(p, U, Nodes \ U, U) /\ p \in Pools /\ U \subseteq Nodes
      /\ p.countUsed = Cardinality(U)
  BY HeldNodes DEF Holds
<1>2. z = Update(p, b, e)
  <2>1. UnlinkUsed([p EXCEPT !.expires[b] = e], b) = p2
    BY <1>1 DEF UnlinkUsed, Unlink, Pools
  <2>2. QED
    BY <2>1 DEF Update
<1>3. Threads(p1, U \ {b}, Nodes \ U, U) /\ SameBans(p, p1)
  BY <1>1, UnlinkUsedKeepsThreads
<1> HIDE DEF p1
<1>4. p1 \in Pools /\ b \in Nodes
  BY <1>1, <1>3 DEF Threads
<1>5. /\ p2 \in Pools /\ SameLists(p1, p2) /\ SameChains(p1, p2) /\ p2.countUsed = p1.countUsed
      /\ p2.data = p1.data /\ p2.expires[b] = e
      /\ \A x \in U \ {b} : p2.expires[x] = p1.expires[x]
  BY <1>1, <1>4 DEF Pools, SameLists, SameChains
<1> HIDE DEF p2
<1>6. Threads(p2, U \ {b}, Nodes \ U, U)
  BY <1>3, <1>5, ThreadsOfContent
<1>7. Threads(z, (U \ {b}) \cup {b}, Nodes \ U, U) /\ SameBans(p2, z)
  <2>1. b \in Nodes \ ((U \ {b}) \cup (Nodes \ U))
    BY <1>1
  <2>2. QED
    BY <1>6, <2>1, InsertUsedKeepsThreads
<1> HIDE DEF z
<1>8. Holds(z, U)
  <2>1. (U \ {b}) \cup {b} = U
    OBVIOUS
  <2>2. z.countUsed = Cardinality(U)
    BY <1>1, <1>3, <1>5, <1>7 DEF SameBans
  <2>3. QED
    BY <1>7, <2>1, <2>2 DEF Holds
<1>9. QED
  BY <1>2, <1>3, <1>5, <1>7, <1>8 DEF SameBans

(* Reset makes a sound pool without bans.                                  *)
LEMMA EmptyPoolHolds == Holds(EmptyPool, {})
<1> DEFINE p == EmptyPool
           u == [i \in 1 .. MaxBans |-> i - 1]
<1>1. p \in Pools
  BY NullIsNoNode DEF EmptyPool, Pools, Ptr, Nodes, Null
<1>2. Linked(p.next, p.prev, p.firstUsed, {})
  <2>1. p.firstUsed = Null
    BY DEF EmptyPool
  <2> HIDE DEF p
  <2>2. QED
    BY <2>1, EmptyIsLinked
<1>3. Linked(p.next, p.prev, p.firstFree, Nodes)
  <2>1. /\ p.next = [b \in Nodes |-> IF b = MaxBans - 1 THEN Null ELSE b + 1]
        /\ p.prev = [b \in Nodes |-> b - 1] /\ p.firstFree = 0
    BY DEF EmptyPool
  <2> HIDE DEF p
  <2>2. /\ u \in [1 .. MaxBans -> Nodes] /\ \A i, j \in 1 .. MaxBans : u[i] = u[j] => i = j
        /\ p.firstFree = IF MaxBans = 0 THEN Null ELSE u[1]
    BY <2>1, NullIsNoNode DEF Nodes
  <2>3. \A i \in 1 .. MaxBans : /\ p.next[u[i]] = IF i = MaxBans THEN Null ELSE u[i + 1]
                                /\ p.prev[u[i]] = IF i = 1 THEN Null ELSE u[i - 1]
    BY <2>1, NullIsNoNode DEF Nodes, Null
  <2>4. Nodes = {u[i] : i \in 1 .. MaxBans}
    <3>1. \A x \in Nodes : x + 1 \in 1 .. MaxBans /\ u[x + 1] = x
      BY NullIsNoNode DEF Nodes
    <3> HIDE DEF u
    <3>2. QED
      BY <2>2, <3>1
  <2> HIDE DEF u
  <2>5. IsList(p.next, p.prev, p.firstFree, MaxBans, u)
    BY <2>2, <2>3, NullIsNoNode DEF IsList
  <2>6. QED
    BY <2>4, <2>5 DEF Linked
<1>4. Sorted(p, {})
  BY DEF Sorted
<1>5. Chained(p, {})
  <2>1. \A h \in Buckets : p.hashList[h] = Null
    BY DEF EmptyPool
  <2> HIDE DEF p
  <2>2. ASSUME NEW h \in Buckets
        PROVE  Linked(p.hashNext, p.hashPrev, p.hashList[h], {b \in {} : Bucket[p.data[b]] = h})
    <3>1. {b \in {} : Bucket[p.data[b]] = h} = {}
      OBVIOUS
    <3>2. QED
      BY <2>1, <3>1, EmptyIsLinked
  <2>3. QED
    BY <2>2 DEF Chained
<1>6. p.countUsed = Cardinality({})
  BY FS_EmptySet DEF EmptyPool
<1>7. QED
  <2> HIDE DEF p
  <2>1. Nodes \ {} = Nodes /\ {} \cap Nodes = {}
    OBVIOUS
  <2>2. Holds(p, {})
    BY <1>1, <1>2, <1>3, <1>4, <1>5, <1>6, <2>1 DEF Holds, Threads
  <2>3. QED
    BY <2>2 DEF p

(* Find meets the ban of a datum, if there is one.                         *)
LEMMA FindsBan ==
    ASSUME NEW p, NEW U, Holds(p, U), NEW d \in Data
    PROVE  \/ Find(p, d) \in U /\ p.data[Find(p, d)] = d
           \/ Find(p, d) = Null /\ \A b \in U : p.data[b] # d
<1> DEFINE h == Bucket[d]
           C == {b \in U : Bucket[p.data[b]] = h}
           chain == Chain(p.hashNext, p.hashList[h])
           hits == {k \in 0 .. MaxBans : chain[k] # Null /\ p.data[chain[k]] = d}
<1>1. Find(p, d) = IF hits = {} THEN Null ELSE chain[Min(hits)]
  BY DEF Find
<1>2. h \in Buckets /\ Linked(p.hashNext, p.hashPrev, p.hashList[h], C)
  BY PoolAssumption DEF PoolAssumption, Holds, Threads, Chained
<1>3. Range(chain) \ {Null} = C
  <2> HIDE DEF C, h
  <2>1. OnList(p.hashNext, p.hashList[h]) = C
    BY <1>2, OnListIsLinked
  <2>2. QED
    BY <2>1 DEF OnList
<1>4. DOMAIN chain = 0 .. MaxBans
  <2>1. PICK n, u : IsList(p.hashNext, p.hashPrev, p.hashList[h], n, u)
    BY <1>2 DEF Linked
  <2> DEFINE next == p.hashNext
             head == p.hashList[h]
  <2>2. IsList(next, p.hashPrev, head, n, u)
    BY <2>1
  <2> HIDE DEF next, head
  <2>3. Chain(next, head) = [k \in 0 .. MaxBans |-> IF k < n THEN u[k + 1] ELSE Null]
    BY <2>2, ChainWalksList
  <2>4. QED
    BY <2>3 DEF next, head
<1>5. hits \subseteq Nat
  BY NullIsNoNode
<1>6. \A b \in U : b # Null
  BY HeldNodes, NullIsNoNode
<1>7. CASE hits = {}
  <2>1. ASSUME NEW b \in U, p.data[b] = d PROVE FALSE
    <3>1. b \in Range(chain) /\ b # Null
      BY <1>3, <1>6, <2>1
    <3>2. PICK k \in 0 .. MaxBans : chain[k] = b
      BY <1>4, <3>1 DEF Range
    <3>3. k \in hits
      BY <2>1, <3>1, <3>2
    <3>4. QED
      BY <1>7, <3>3
  <2>2. QED
    BY <1>1, <1>7, <2>1
<1>8. CASE hits # {}
  <2> DEFINE m == Min(hits)
  <2>1. m \in hits
    <3> HIDE DEF hits
    <3> QED BY <1>5, <1>8, MinIsLeast
  <2>2. chain[m] \in Range(chain) \ {Null} /\ p.data[chain[m]] = d
    BY <1>4, <2>1 DEF Range
  <2>3. QED
    <3> HIDE DEF hits, chain
    <3>1. Find(p, d) = chain[m]
      BY <1>1, <1>8
    <3>2. QED
      BY <1>3, <2>2, <3>1
<1>9. QED
  BY <1>7, <1>8

(* Get returns a node of the used list or none.                            *)
LEMMA GetsBan ==
    ASSUME NEW p, NEW U, Holds(p, U), NEW index, Get(p, index) # Null
    PROVE  Get(p, index) \in U
<1> DEFINE chain == Chain(p.next, p.firstUsed)
<1>1. Linked(p.next, p.prev, p.firstUsed, U)
  BY DEF Holds, Threads
<1>2. Range(chain) \ {Null} = U
  BY <1>1, OnListIsLinked DEF OnList
<1>3. DOMAIN chain = 0 .. MaxBans
  <2>1. PICK n, u : IsList(p.next, p.prev, p.firstUsed, n, u)
    BY <1>1 DEF Linked
  <2> DEFINE next == p.next
             head == p.firstUsed
  <2>2. IsList(next, p.prev, head, n, u)
    BY <2>1
  <2> HIDE DEF next, head
  <2>3. Chain(next, head) = [k \in 0 .. MaxBans |-> IF k < n THEN u[k + 1] ELSE Null]
    BY <2>2, ChainWalksList
  <2>4. QED
    BY <2>3 DEF next, head
<1>4. index \in 0 .. p.countUsed - 1 /\ Get(p, index) = chain[index]
  BY DEF Get
<1>5. index \in DOMAIN chain
  <2>1. p.countUsed \in Int /\ p.countUsed <= MaxBans
    BY HeldNodes, NullIsNoNode DEF Holds
  <2>2. QED
    BY <1>3, <1>4, <2>1, NullIsNoNode
<1>6. QED
  <2> HIDE DEF chain
  <2> QED BY <1>2, <1>4, <1>5 DEF Range

--------------------------------------------------------------------------------
(* One round of CNetBan::Update at time t.                                 *)
HeadExpired(p, t) ==
    /\ p.firstUsed # Null
    /\ p.expires[p.firstUsed] # Never /\ p.expires[p.firstUsed] < t

Pop(p, t) == IF HeadExpired(p, t) THEN Remove(p, p.firstUsed) ELSE p

Pops(p, t, m) ==
    CHOOSE g : g = [k \in 0 .. m |-> IF k = 0 THEN p ELSE Pop(g[k - 1], t)]

(* The rounds are well defined: they extend each other.                    *)
LEMMA PopsExist ==
    ASSUME NEW p, NEW t, NEW m \in Nat
    PROVE  Pops(p, t, m) = [k \in 0 .. m |-> IF k = 0 THEN p ELSE Pop(Pops(p, t, m)[k - 1], t)]
<1> DEFINE round(g, i) == [k \in 0 .. i |-> IF k = 0 THEN p ELSE Pop(g[k - 1], t)]
           T == {i \in Nat : \A g : g # round(g, i)}
<1>1. T = {}
  <2> SUFFICES ASSUME T # {} PROVE FALSE
    OBVIOUS
  <2>1. PICK i \in T : \A j \in T : i <= j
    <3>1. T \subseteq Nat
      OBVIOUS
    <3> HIDE DEF T
    <3>2. QED
      BY <3>1, LeastElement
  <2>2. CASE i = 0
    <3> DEFINE g == [k \in 0 .. 0 |-> p]
    <3>1. g = round(g, 0)
      OBVIOUS
    <3> HIDE DEF g, round
    <3>2. QED
      BY <2>1, <2>2, <3>1
  <2>3. CASE i # 0
    <3>0. i \in Nat /\ i - 1 \in Nat /\ ~(i <= i - 1)
      BY <2>1, <2>3
    <3>1. i \in Nat /\ i - 1 \in Nat /\ i - 1 \notin T
      <4> HIDE DEF T
      <4> QED BY <2>1, <3>0
    <3>2. PICK g : g = round(g, i - 1)
      <4> HIDE DEF round
      <4> QED BY <3>1
    <3> DEFINE f == round(g, i)
    <3>3. \A k \in 0 .. i - 1 : f[k] = g[k]
      <4> SUFFICES ASSUME NEW k \in 0 .. i - 1 PROVE f[k] = g[k]
        OBVIOUS
      <4>1. g[k] = round(g, i - 1)[k]
        BY <3>2
      <4>2. k \in 0 .. i
        BY <3>1
      <4>3. QED
        BY <4>1, <4>2
    <3>4. \A k \in 0 .. i : f[k] = round(f, i)[k]
      <4> SUFFICES ASSUME NEW k \in 0 .. i PROVE f[k] = round(f, i)[k]
        OBVIOUS
      <4>1. k # 0 => k - 1 \in 0 .. i - 1
        BY <3>1
      <4>2. k # 0 => f[k - 1] = g[k - 1]
        BY <3>3, <4>1
      <4>3. f[k] = IF k = 0 THEN p ELSE Pop(g[k - 1], t)
        OBVIOUS
      <4>4. round(f, i)[k] = IF k = 0 THEN p ELSE Pop(f[k - 1], t)
        <5> HIDE DEF f
        <5> QED OBVIOUS
      <4> HIDE DEF f, round
      <4>5. QED
        BY <4>2, <4>3, <4>4
    <3>5. f = [k \in 0 .. i |-> f[k]] /\ round(f, i) = [k \in 0 .. i |-> round(f, i)[k]]
      <4>1. f = [k \in 0 .. i |-> f[k]]
        OBVIOUS
      <4> HIDE DEF f
      <4>2. round(f, i) = [k \in 0 .. i |-> round(f, i)[k]]
        OBVIOUS
      <4>3. QED
        BY <4>1, <4>2
    <3> HIDE DEF f, round
    <3>6. f = round(f, i)
      BY <3>4, <3>5
    <3>7. QED
      BY <2>1, <3>6
  <2>4. QED
    BY <2>2, <2>3
<1>2. \E g : g = round(g, m)
  <2> HIDE DEF round
  <2> QED BY <1>1
<1>3. Pops(p, t, m) = CHOOSE g : g = round(g, m)
  BY DEF Pops
<1>4. Pops(p, t, m) = round(Pops(p, t, m), m)
  <2> HIDE DEF round
  <2> QED BY <1>2, <1>3
<1>5. QED
  BY <1>4

(* What a list in order begins with ends first: a head that has not        *)
(* expired leaves no expired ban behind it.                                *)
LEMMA HeadExpiresFirst ==
    ASSUME NEW p, NEW U, Holds(p, U), NEW t \in Int, ~HeadExpired(p, t), NEW b \in U
    PROVE  ~(p.expires[b] # Never /\ p.expires[b] < t)
<1> DEFINE Past(x) == p.expires[x] # Never /\ p.expires[x] < t
<1>1. /\ Linked(p.next, p.prev, p.firstUsed, U) /\ Sorted(p, U)
      /\ \A x \in U : p.expires[x] \in Int
  BY HeldNodes DEF Holds, Threads
<1>2. PICK n, u : /\ IsList(p.next, p.prev, p.firstUsed, n, u)
                  /\ U = {u[i] : i \in 1 .. n}
  BY <1>1 DEF Linked
<1>3. /\ n \in Nat /\ \A i \in 1 .. n : u[i] \in U /\ u[i] # Null
      /\ \A i \in 1 .. n : i # n => p.next[u[i]] = u[i + 1]
      /\ n # 0 => p.firstUsed = u[1]
  BY <1>2, NullIsNoNode DEF IsList
<1> DEFINE T == {i \in 1 .. n : Past(u[i])}
<1>4. T = {}
  <2> SUFFICES ASSUME T # {} PROVE FALSE
    OBVIOUS
  <2>1. PICK i \in T : \A j \in T : i <= j
    <3>1. T \subseteq Nat
      BY <1>3
    <3> HIDE DEF T
    <3>2. QED
      BY <3>1, LeastElement
  <2>2. i \in 1 .. n /\ p.expires[u[i]] # Never /\ p.expires[u[i]] < t
    BY <2>1
  <2>3. CASE i = 1
    BY <1>3, <2>2, <2>3 DEF HeadExpired
  <2>4. CASE i # 1
    <3>1. i - 1 \in 1 .. n /\ i - 1 # n /\ (i - 1) + 1 = i /\ ~(i <= i - 1)
      BY <1>3, <2>2, <2>4
    <3>2. ~Past(u[i - 1])
      BY <2>1, <3>1
    <3>3. u[i - 1] \in U /\ u[i] \in U /\ p.next[u[i - 1]] = u[i] /\ u[i] # Null
      BY <1>3, <2>2, <3>1
    <3>4. InOrder(p.expires[u[i - 1]], p.expires[u[i]])
      BY <1>1, <3>3 DEF Sorted
    <3>5. p.expires[u[i - 1]] \in Int /\ p.expires[u[i]] \in Int
      BY <1>1, <3>3
    <3>6. QED
      BY <2>2, <3>2, <3>4, <3>5 DEF InOrder
  <2>5. QED
    BY <2>3, <2>4
<1>5. QED
  BY <1>2, <1>4

(* Of the bans of p in U, z has those in V unchanged; the others expired.  *)
Trimmed(p, U, t, z, V) ==
    /\ V \subseteq U /\ Holds(z, V)
    /\ \A b \in V : z.data[b] = p.data[b] /\ z.expires[b] = p.expires[b]
    /\ \A b \in U \ V : p.expires[b] # Never /\ p.expires[b] < t

(* One turn of the loop of Update removes the head, which has expired.     *)
LEMMA PopTrims ==
    ASSUME NEW p, NEW U, NEW t \in Int, NEW z, NEW V, Trimmed(p, U, t, z, V), HeadExpired(z, t)
    PROVE  /\ z.firstUsed \in V
           /\ Trimmed(p, U, t, Pop(z, t), V \ {z.firstUsed})
<1> DEFINE b == z.firstUsed
           y == Remove(z, b)
<1>1. /\ V \subseteq U /\ Holds(z, V)
      /\ \A x \in V : z.data[x] = p.data[x] /\ z.expires[x] = p.expires[x]
      /\ \A x \in U \ V : p.expires[x] # Never /\ p.expires[x] < t
  BY DEF Trimmed
<1>2. Pop(z, t) = y /\ b # Null /\ z.expires[b] # Never /\ z.expires[b] < t
  BY DEF Pop, HeadExpired
<1>3. b \in V
  BY <1>1, <1>2, HeldNodes
<1> HIDE DEF b
<1>4. /\ Holds(y, V \ {b})
      /\ \A x \in V \ {b} : y.data[x] = z.data[x] /\ y.expires[x] = z.expires[x]
  BY <1>1, <1>3, RemoveHolds
<1> HIDE DEF y
<1>5. /\ V \ {b} \subseteq U
      /\ \A x \in V \ {b} : y.data[x] = p.data[x] /\ y.expires[x] = p.expires[x]
      /\ \A x \in U \ (V \ {b}) : p.expires[x] # Never /\ p.expires[x] < t
  BY <1>1, <1>2, <1>3, <1>4
<1>6. Trimmed(p, U, t, y, V \ {b})
  BY <1>4, <1>5 DEF Trimmed
<1>7. QED
  BY <1>2, <1>3, <1>6 DEF b

(* MaxBans rounds remove all bans that have expired, and no other.         *)
LEMMA PopsTrim ==
    ASSUME NEW p, NEW U, Holds(p, U), NEW t \in Int
    PROVE  LET z == Pops(p, t, MaxBans)[MaxBans]
               V == {b \in U : ~(p.expires[b] # Never /\ p.expires[b] < t)}
           IN  Trimmed(p, U, t, z, V)
<1> DEFINE g == Pops(p, t, MaxBans)
<1>1. \A k \in 0 .. MaxBans : g[k] = IF k = 0 THEN p ELSE Pop(g[k - 1], t)
  <2>1. g = [k \in 0 .. MaxBans |-> IF k = 0 THEN p ELSE Pop(g[k - 1], t)]
    BY NullIsNoNode, PopsExist
  <2> HIDE DEF g
  <2>2. QED
    BY <2>1
<1>2. U \subseteq Nodes /\ IsFiniteSet(U) /\ Cardinality(U) \in 0 .. MaxBans
  BY HeldNodes
<1> HIDE DEF g
<1> DEFINE Done(k, V) == /\ Trimmed(p, U, t, g[k], V)
                         /\ HeadExpired(g[k], t) => Cardinality(V) + k <= Cardinality(U)
           T == {k \in 0 .. MaxBans : \A V : ~Done(k, V)}
<1>3. T = {}
  <2> SUFFICES ASSUME T # {} PROVE FALSE
    OBVIOUS
  <2>1. PICK k \in T : \A j \in T : k <= j
    <3>1. T \subseteq Nat
      BY NullIsNoNode
    <3> HIDE DEF T
    <3>2. QED
      BY <3>1, LeastElement
  <2>2. CASE k = 0
    <3>1. g[0] = p
      BY <1>1, NullIsNoNode
    <3>2. Trimmed(p, U, t, g[0], U)
      BY <3>1 DEF Trimmed
    <3>3. Done(0, U)
      BY <1>2, <3>2
    <3> HIDE DEF Done
    <3>4. QED
      BY <2>1, <2>2, <3>3
  <2>3. CASE k # 0
    <3>1. k \in 0 .. MaxBans /\ k - 1 \in 0 .. MaxBans /\ ~(k <= k - 1) /\ k \in Int
      BY <2>1, <2>3, NullIsNoNode
    <3>2. k - 1 \notin T
      BY <2>1, <3>1
    <3>3. PICK V : Done(k - 1, V)
      <4> HIDE DEF Done
      <4> QED BY <3>1, <3>2
    <3>4. Trimmed(p, U, t, g[k - 1], V) /\ g[k] = Pop(g[k - 1], t)
      BY <1>1, <2>3, <3>1, <3>3
    <3>5. CASE HeadExpired(g[k - 1], t)
      <4> DEFINE y == g[k - 1]
                 b == y.firstUsed
      <4>1. b \in V /\ Trimmed(p, U, t, g[k], V \ {b})
        <5>1. Trimmed(p, U, t, y, V) /\ g[k] = Pop(y, t) /\ HeadExpired(y, t)
          BY <3>4, <3>5
        <5> HIDE DEF y
        <5>2. QED
          BY <5>1, PopTrims
      <4>2. IsFiniteSet(V) /\ Cardinality(V) \in Nat
        BY <3>4, HeldNodes, FS_CardinalityType DEF Trimmed
      <4>3. Cardinality(V \ {b}) = Cardinality(V) - 1
        BY <4>1, <4>2, FS_RemoveElement
      <4>4. Cardinality(V) + (k - 1) <= Cardinality(U)
        BY <3>3, <3>5
      <4>5. Done(k, V \ {b})
        BY <1>2, <3>1, <4>1, <4>2, <4>3, <4>4
      <4> HIDE DEF Done
      <4>6. QED
        BY <2>1, <4>5
    <3>6. CASE ~HeadExpired(g[k - 1], t)
      <4>1. g[k] = g[k - 1]
        BY <3>4, <3>6 DEF Pop
      <4>2. Done(k, V)
        BY <3>4, <3>6, <4>1
      <4> HIDE DEF Done
      <4>3. QED
        BY <2>1, <4>2
    <3>7. QED
      BY <3>5, <3>6
  <2>4. QED
    BY <2>2, <2>3
<1>4. PICK V : Done(MaxBans, V)
  <2>1. MaxBans \in 0 .. MaxBans /\ MaxBans \notin T
    BY <1>3, NullIsNoNode
  <2> HIDE DEF Done
  <2>2. QED
    BY <2>1
<1> DEFINE z == g[MaxBans]
<1>5. Trimmed(p, U, t, z, V)
  BY <1>4
<1>6. ~HeadExpired(z, t)
  <2> SUFFICES ASSUME HeadExpired(z, t) PROVE FALSE
    OBVIOUS
  <2>1. z.firstUsed \in V
    BY <1>5, PopTrims
  <2>2. IsFiniteSet(V) /\ Cardinality(V) \in Nat /\ V # {}
    BY <1>5, <2>1, HeldNodes, FS_CardinalityType DEF Trimmed
  <2>3. Cardinality(V) + MaxBans <= Cardinality(U)
    BY <1>4
  <2>4. Cardinality(V) # 0
    BY <2>2, FS_EmptySet
  <2>5. QED
    BY <1>2, <2>2, <2>3, <2>4, NullIsNoNode
<1>7. V = {b \in U : ~(p.expires[b] # Never /\ p.expires[b] < t)}
  <2>1. \A b \in V : ~(z.expires[b] # Never /\ z.expires[b] < t)
    BY <1>5, <1>6, HeadExpiresFirst DEF Trimmed
  <2> HIDE DEF z
  <2>2. QED
    BY <1>5, <2>1 DEF Trimmed
<1>8. QED
  BY <1>5, <1>7 DEF g

(* What is found by walking a sound pool.                                  *)
LEMMA ListsOfHeld ==
    ASSUME NEW p, NEW U, Holds(p, U)
    PROVE  /\ Used(p) = U /\ Free(p) = Nodes \ U
           /\ \A h \in Buckets : Hashed(p, h) = {b \in U : Bucket[p.data[b]] = h}
<1>1. /\ Linked(p.next, p.prev, p.firstUsed, U) /\ Linked(p.next, p.prev, p.firstFree, Nodes \ U)
      /\ \A h \in Buckets : Linked(p.hashNext, p.hashPrev, p.hashList[h],
                                   {b \in U : Bucket[p.data[b]] = h})
  BY DEF Holds, Threads, Chained
<1>2. OnList(p.next, p.firstUsed) = U
  BY <1>1, OnListIsLinked
<1>3. OnList(p.next, p.firstFree) = Nodes \ U
  BY <1>1, OnListIsLinked
<1>4. ASSUME NEW h \in Buckets
      PROVE  OnList(p.hashNext, p.hashList[h]) = {b \in U : Bucket[p.data[b]] = h}
  <2> DEFINE C == {b \in U : Bucket[p.data[b]] = h}
  <2>1. Linked(p.hashNext, p.hashPrev, p.hashList[h], C)
    BY <1>1
  <2> HIDE DEF C
  <2>2. OnList(p.hashNext, p.hashList[h]) = C
    BY <2>1, OnListIsLinked
  <2>3. QED
    BY <2>2 DEF C
<1>5. QED
  BY <1>2, <1>3, <1>4 DEF Used, Free, Hashed

--------------------------------------------------------------------------------
(* The inductive invariant.                                                *)
PoolInv == now \in 0 .. MaxNow /\ \E U : Holds(pool, U)

(* The expiries AdjustBan and AddBan give are those of the table.          *)
LEMMA ExpiryType ==
    ASSUME NEW seconds \in Durations, now \in 0 .. MaxNow
    PROVE  /\ Expiry(seconds) \in Int
           /\ Expiry(seconds) \in {t + s : t \in 0 .. MaxNow, s \in Durations} \cup {Never}
<1>1. seconds \in Nat /\ MaxNow \in Nat
  BY PoolAssumption DEF PoolAssumption
<1>2. QED
  BY <1>1 DEF Expiry, Never

(* A renewed ban stays where it is in memory, with its new expiry.         *)
LEMMA AdjustBanEffect ==
    ASSUME NEW U, Holds(pool, U), now \in 0 .. MaxNow,
           NEW d \in Data, NEW seconds \in Durations, AdjustBan(d, seconds)
    PROVE  \E b \in U :
             /\ Holds(pool', U) /\ pool.data[b] = d /\ pool'.expires[b] = Expiry(seconds)
             /\ \A x \in U : pool'.data[x] = pool.data[x]
             /\ \A x \in U \ {b} : pool'.expires[x] = pool.expires[x]
<1> DEFINE b == Find(pool, d)
           e == Expiry(seconds)
<1>1. b # Null /\ pool' = Update(pool, b, e)
  BY DEF AdjustBan
<1>2. b \in U /\ pool.data[b] = d
  BY <1>1, FindsBan
<1>3. e \in Int
  BY ExpiryType
<1> HIDE DEF b, e
<1>4. /\ Holds(Update(pool, b, e), U) /\ Update(pool, b, e).expires[b] = e
      /\ \A x \in U : Update(pool, b, e).data[x] = pool.data[x]
      /\ \A x \in U \ {b} : Update(pool, b, e).expires[x] = pool.expires[x]
  BY <1>2, <1>3, UpdateHolds
<1>5. QED
  BY <1>1, <1>2, <1>4 DEF e

(* A new ban takes a free node.                                            *)
LEMMA AddBanEffect ==
    ASSUME NEW U, Holds(pool, U), now \in 0 .. MaxNow,
           NEW d \in Data, NEW seconds \in Durations, AddBan(d, seconds)
    PROVE  \E b \in Nodes \ U :
             /\ Holds(pool', U \cup {b}) /\ pool'.data[b] = d /\ pool'.expires[b] = Expiry(seconds)
             /\ \A x \in U : pool'.data[x] = pool.data[x] /\ pool'.expires[x] = pool.expires[x]
<1> DEFINE b == pool.firstFree
           e == Expiry(seconds)
<1>1. Find(pool, d) = Null /\ b # Null /\ pool' = Add(pool, d, e)
  BY DEF AddBan
<1>2. \A c \in U : pool.data[c] # d
  <2>1. Null \notin U
    BY HeldNodes, NullIsNoNode
  <2>2. QED
    BY <1>1, <2>1, FindsBan
<1>3. e \in Int
  BY ExpiryType
<1> HIDE DEF e
<1>4. Added(pool, U, b, d, e, Add(pool, d, e))
  <2>1. NotHeld(pool, U, d) /\ b = pool.firstFree
    BY <1>2 DEF NotHeld
  <2> HIDE DEF b
  <2>2. QED
    BY <1>1, <1>3, <2>1, AddHolds
<1> HIDE DEF b
<1>5. QED
  BY <1>1, <1>4 DEF e, Added

(* Unban removes the node of its datum.                                    *)
LEMMA UnbanEffect ==
    ASSUME NEW U, Holds(pool, U), NEW d \in Data, Unban(d)
    PROVE  \E b \in U :
             /\ Holds(pool', U \ {b}) /\ pool.data[b] = d
             /\ \A x \in U \ {b} : pool'.data[x] = pool.data[x] /\ pool'.expires[x] = pool.expires[x]
<1> DEFINE b == Find(pool, d)
<1>1. b # Null /\ pool' = Remove(pool, b)
  BY DEF Unban
<1>2. b \in U /\ pool.data[b] = d
  BY <1>1, FindsBan
<1> HIDE DEF b
<1>3. QED
  BY <1>1, <1>2, RemoveHolds

(* UnbanByIndex removes a used node.                                       *)
LEMMA UnbanByIndexEffect ==
    ASSUME NEW U, Holds(pool, U), NEW index \in Nodes, UnbanByIndex(index)
    PROVE  \E b \in U :
             /\ Holds(pool', U \ {b})
             /\ \A x \in U \ {b} : pool'.data[x] = pool.data[x] /\ pool'.expires[x] = pool.expires[x]
<1> DEFINE b == Get(pool, index)
<1>1. b # Null /\ pool' = Remove(pool, b)
  BY DEF UnbanByIndex
<1>2. b \in U
  BY <1>1, GetsBan
<1> HIDE DEF b
<1>3. QED
  BY <1>1, <1>2, RemoveHolds

(* Update removes exactly the bans that are over.                          *)
LEMMA RemoveExpiredEffect ==
    ASSUME NEW U, Holds(pool, U), now \in 0 .. MaxNow, RemoveExpired
    PROVE  Trimmed(pool, U, now, pool',
                   {b \in U : ~(pool.expires[b] # Never /\ pool.expires[b] < now)})
<1>1. pool' = Pops(pool, now, MaxBans)[MaxBans]
  BY DEF RemoveExpired, Pops, Pop, HeadExpired
<1>2. now \in Int
  BY PoolAssumption DEF PoolAssumption
<1>3. QED
  BY <1>1, <1>2, PopsTrim

(* The lists of the pool Init leaves are sound.                            *)
LEMMA PoolInvInit == Init => PoolInv
<1>1. Holds(EmptyPool, {}) /\ MaxNow \in Nat
  BY EmptyPoolHolds, PoolAssumption DEF PoolAssumption
<1>2. QED
  BY <1>1 DEF Init, PoolInv

(* Every operation leaves a sound pool behind.                             *)
LEMMA PoolInvNext == PoolInv /\ [Next]_vars => PoolInv'
<1> SUFFICES ASSUME PoolInv, [Next]_vars PROVE PoolInv'
  OBVIOUS
<1>1. PICK U : Holds(pool, U)
  BY DEF PoolInv
<1>2. now \in 0 .. MaxNow
  BY DEF PoolInv
<1>3. ASSUME NEW d \in Data, NEW seconds \in Durations, AdjustBan(d, seconds) PROVE PoolInv'
  <2>1. Holds(pool', U)
    BY <1>1, <1>2, <1>3, AdjustBanEffect
  <2>2. QED
    BY <1>2, <1>3, <2>1 DEF AdjustBan, PoolInv
<1>4. ASSUME NEW d \in Data, NEW seconds \in Durations, AddBan(d, seconds) PROVE PoolInv'
  <2>1. \E V : Holds(pool', V)
    BY <1>1, <1>2, <1>4, AddBanEffect
  <2>2. QED
    BY <1>2, <1>4, <2>1 DEF AddBan, PoolInv
<1>5. ASSUME NEW d \in Data, Unban(d) PROVE PoolInv'
  <2>1. \E V : Holds(pool', V)
    BY <1>1, <1>5, UnbanEffect
  <2>2. QED
    BY <1>2, <1>5, <2>1 DEF Unban, PoolInv
<1>6. ASSUME NEW index \in Nodes, UnbanByIndex(index) PROVE PoolInv'
  <2>1. \E V : Holds(pool', V)
    BY <1>1, <1>6, UnbanByIndexEffect
  <2>2. QED
    BY <1>2, <1>6, <2>1 DEF UnbanByIndex, PoolInv
<1>7. CASE RemoveExpired
  <2>1. \E V : Holds(pool', V)
    BY <1>1, <1>2, <1>7, RemoveExpiredEffect DEF Trimmed
  <2>2. QED
    BY <1>2, <1>7, <2>1 DEF RemoveExpired, PoolInv
<1>8. CASE UnbanAll
  BY <1>2, <1>8, EmptyPoolHolds DEF UnbanAll, PoolInv
<1>9. CASE Tick
  <2>1. now' \in 0 .. MaxNow
    BY <1>2, <1>9, PoolAssumption DEF Tick, PoolAssumption
  <2>2. QED
    BY <1>1, <1>9, <2>1 DEF Tick, PoolInv
<1>10. CASE UNCHANGED vars
  BY <1>1, <1>2, <1>10 DEF vars, PoolInv
<1>11. QED
  BY <1>3, <1>4, <1>5, <1>6, <1>7, <1>8, <1>9, <1>10 DEF Next

(* The lists and chains of the pool are sound in every state.              *)
THEOREM PoolInvariant == Spec => []PoolInv
BY PoolInvInit, PoolInvNext, PTL DEF Spec

(* The fields of the pool have their types in every state, and m_CountUsed *)
(* stays within the array.                                                 *)
THEOREM PoolTypeCorrect == Spec => []TypeOK
<1>1. PoolInv => TypeOK
  <2> SUFFICES ASSUME PoolInv PROVE TypeOK
    OBVIOUS
  <2>1. PICK U : Holds(pool, U)
    BY DEF PoolInv
  <2>2. pool \in Pools /\ pool.countUsed \in 0 .. MaxBans
    BY <2>1, HeldNodes DEF Holds
  <2>3. QED
    BY <2>2 DEF PoolInv, TypeOK, Pools
<1>2. QED
  BY <1>1, PoolInvariant, PTL

(* No node is ever lost: each is on one of the two lists, which can be     *)
(* walked both ways, and m_CountUsed counts the used ones.                 *)
THEOREM PoolListsConsistent == Spec => []ListsConsistent
<1>1. PoolInv => ListsConsistent
  <2> SUFFICES ASSUME PoolInv PROVE ListsConsistent
    OBVIOUS
  <2>1. PICK U : Holds(pool, U)
    BY DEF PoolInv
  <2>2. /\ Used(pool) = U /\ Free(pool) = Nodes \ U /\ U \subseteq Nodes
        /\ pool.countUsed = Cardinality(U)
    BY <2>1, ListsOfHeld, HeldNodes DEF Holds
  <2>3. /\ Linked(pool.next, pool.prev, pool.firstUsed, U)
        /\ Linked(pool.next, pool.prev, pool.firstFree, Nodes \ U)
    BY <2>1 DEF Holds, Threads
  <2>4. /\ pool.firstUsed \in U \cup {Null}
        /\ \A b \in U : /\ pool.next[b] # Null => pool.prev[pool.next[b]] = b
                        /\ pool.prev[b] = Null <=> b = pool.firstUsed
    BY <2>3, LinkFacts
  <2>5. /\ pool.firstFree \in (Nodes \ U) \cup {Null}
        /\ \A b \in Nodes \ U : /\ pool.next[b] # Null => pool.prev[pool.next[b]] = b
                                /\ pool.prev[b] = Null <=> b = pool.firstFree
    BY <2>3, LinkFacts
  <2>6. \A b \in Nodes : /\ pool.next[b] # Null => pool.prev[pool.next[b]] = b
                         /\ pool.prev[b] = Null <=> b \in {pool.firstFree, pool.firstUsed}
    BY <2>2, <2>4, <2>5, NullIsNoNode
  <2>7. QED
    BY <2>2, <2>6 DEF ListsConsistent
<1>2. QED
  BY <1>1, PoolInvariant, PTL

(* The hash chains and the used list hold the same bans, each datum once.  *)
THEOREM PoolHashFindsEveryBan == Spec => []HashFindsEveryBan
<1>1. PoolInv => HashFindsEveryBan
  <2> SUFFICES ASSUME PoolInv PROVE HashFindsEveryBan
    OBVIOUS
  <2>1. PICK U : Holds(pool, U)
    BY DEF PoolInv
  <2>2. Used(pool) = U /\ \A h \in Buckets : Hashed(pool, h) = {b \in U : Bucket[pool.data[b]] = h}
    BY <2>1, ListsOfHeld
  <2>3. ASSUME NEW b \in U PROVE Find(pool, pool.data[b]) = b
    <3>1. /\ pool.data[b] \in Data
          /\ \A c \in U : pool.data[c] = pool.data[b] => c = b
      BY <2>1, HeldNodes
    <3>2. QED
      BY <2>1, <3>1, FindsBan
  <2>4. QED
    BY <2>2, <2>3 DEF HashFindsEveryBan
<1>2. QED
  BY <1>1, PoolInvariant, PTL

(* No ban stands on the used list behind one that ends later, so that the  *)
(* first valid ban has no expired one behind it.                           *)
THEOREM PoolOrderedByExpiry == Spec => []OrderedByExpiry
<1>1. PoolInv => OrderedByExpiry
  <2> SUFFICES ASSUME PoolInv PROVE OrderedByExpiry
    OBVIOUS
  <2>1. PICK U : Holds(pool, U)
    BY DEF PoolInv
  <2>2. Used(pool) = U
    BY <2>1, ListsOfHeld
  <2>3. Sorted(pool, U)
    BY <2>1 DEF Holds, Threads
  <2>4. QED
    BY <2>2, <2>3 DEF OrderedByExpiry, Sorted, InOrder
<1>2. QED
  BY <1>1, PoolInvariant, PTL

--------------------------------------------------------------------------------
(* The table f has the bans that p holds in the nodes of U.                *)
TableOf(f, p, U) ==
    /\ f = [d \in DOMAIN f |-> f[d]]
    /\ DOMAIN f = {p.data[b] : b \in U}
    /\ \A b \in U : f[p.data[b]] = p.expires[b]

(* The table that a sound pool stands for.                                 *)
LEMMA BansOfHeld ==
    ASSUME NEW p, NEW U, Holds(p, U)
    PROVE  TableOf(BansOf(p), p, U)
<1>1. Used(p) = U
  BY ListsOfHeld
<1>2. \A b, c \in U : p.data[b] = p.data[c] => b = c
  BY HeldNodes
<1> DEFINE ban(d) == CHOOSE b \in U : p.data[b] = d
<1>3. BansOf(p) = [d \in {p.data[b] : b \in U} |-> p.expires[ban(d)]]
  BY <1>1 DEF BansOf
<1>4. \A b \in U : ban(p.data[b]) = b
  BY <1>2
<1> HIDE DEF ban
<1>5. QED
  BY <1>3, <1>4 DEF TableOf

(* A table without the data of S.                                          *)
Without(f, S) == Restrict(f, DOMAIN f \ S)

(* A node added or renewed is one entry of the table, the others stay.     *)
LEMMA RenewIsBan ==
    ASSUME NEW p, NEW U, Holds(p, U), NEW z, NEW V, Holds(z, V), NEW b \in V, V \ {b} = U \ {b},
           NEW d, z.data[b] = d, b \in U => p.data[b] = d,
           \A x \in U \ {b} : z.data[x] = p.data[x] /\ z.expires[x] = p.expires[x]
    PROVE  /\ d \in DOMAIN BansOf(z) /\ BansOf(z)[d] = z.expires[b]
           /\ Cardinality(DOMAIN BansOf(z)) <= MaxBans
           /\ Without(BansOf(z), {d}) = Without(BansOf(p), {d})
<1> DEFINE f == BansOf(p)
           g == BansOf(z)
<1>1. /\ f = [x \in DOMAIN f |-> f[x]] /\ DOMAIN f = {p.data[x] : x \in U}
      /\ \A x \in U : f[p.data[x]] = p.expires[x]
  <2>1. TableOf(f, p, U)
    BY BansOfHeld
  <2> HIDE DEF f
  <2>2. QED
    BY <2>1 DEF TableOf
<1>2. /\ g = [x \in DOMAIN g |-> g[x]] /\ DOMAIN g = {z.data[x] : x \in V}
      /\ \A x \in V : g[z.data[x]] = z.expires[x]
  <2>1. TableOf(g, z, V)
    BY BansOfHeld
  <2> HIDE DEF g
  <2>2. QED
    BY <2>1 DEF TableOf
<1>3. /\ \A x, y \in V : z.data[x] = z.data[y] => x = y
      /\ IsFiniteSet(V) /\ Cardinality(V) \in 0 .. MaxBans
  BY HeldNodes
<1>4. \A x, y \in U : p.data[x] = p.data[y] => x = y
  BY HeldNodes
<1> HIDE DEF f, g
<1>5. d \in DOMAIN g /\ g[d] = z.expires[b]
  BY <1>2
<1>6. Cardinality(DOMAIN g) <= MaxBans
  <2> DEFINE s == [x \in V |-> z.data[x]]
  <2>1. s \in Surjection(V, DOMAIN g)
    <3>1. s \in [V -> DOMAIN g] /\ \A y \in DOMAIN g : \E x \in V : s[x] = y
      BY <1>2
    <3> HIDE DEF s
    <3>2. QED
      BY <3>1 DEF Surjection
  <2>2. IsFiniteSet(DOMAIN g) /\ Cardinality(DOMAIN g) <= Cardinality(V)
    BY <1>3, <2>1, FS_Surjection
  <2>3. Cardinality(DOMAIN g) \in Nat
    BY <2>2, FS_CardinalityType
  <2>4. QED
    BY <1>3, <2>2, <2>3, NullIsNoNode
<1>7. DOMAIN g \ {d} = DOMAIN f \ {d}
  <2>1. ASSUME NEW y \in DOMAIN g \ {d} PROVE y \in DOMAIN f
    <3>1. PICK x \in V : y = z.data[x]
      BY <1>2
    <3>2. x \in U \ {b}
      BY <2>1, <3>1
    <3>3. QED
      BY <1>1, <3>1, <3>2
  <2>2. ASSUME NEW y \in DOMAIN f \ {d} PROVE y \in DOMAIN g
    <3>1. PICK x \in U : y = p.data[x]
      BY <1>1
    <3>2. x \in U \ {b} /\ x \in V
      BY <2>2, <3>1
    <3>3. QED
      BY <1>2, <3>1, <3>2
  <2>3. QED
    BY <2>1, <2>2
<1>8. \A y \in DOMAIN f \ {d} : g[y] = f[y]
  <2> SUFFICES ASSUME NEW y \in DOMAIN f \ {d} PROVE g[y] = f[y]
    OBVIOUS
  <2>1. PICK x \in U : y = p.data[x]
    BY <1>1
  <2>2. x \in U \ {b} /\ x \in V
    BY <2>1
  <2>3. QED
    BY <1>1, <1>2, <2>1, <2>2
<1>9. Without(g, {d}) = Without(f, {d})
  BY <1>7, <1>8 DEF Without, Restrict
<1>10. QED
  BY <1>5, <1>6, <1>9 DEF f, g

(* Nodes removed are entries removed.                                      *)
LEMMA TrimIsWithout ==
    ASSUME NEW p, NEW U, Holds(p, U), NEW z, NEW V, Holds(z, V), V \subseteq U,
           \A x \in V : z.data[x] = p.data[x] /\ z.expires[x] = p.expires[x],
           NEW S, \A x \in U : p.data[x] \in S <=> x \notin V
    PROVE  BansOf(z) = Without(BansOf(p), S)
<1> DEFINE f == BansOf(p)
           g == BansOf(z)
<1>1. /\ f = [x \in DOMAIN f |-> f[x]] /\ DOMAIN f = {p.data[x] : x \in U}
      /\ \A x \in U : f[p.data[x]] = p.expires[x]
  <2>1. TableOf(f, p, U)
    BY BansOfHeld
  <2> HIDE DEF f
  <2>2. QED
    BY <2>1 DEF TableOf
<1>2. /\ g = [x \in DOMAIN g |-> g[x]] /\ DOMAIN g = {z.data[x] : x \in V}
      /\ \A x \in V : g[z.data[x]] = z.expires[x]
  <2>1. TableOf(g, z, V)
    BY BansOfHeld
  <2> HIDE DEF g
  <2>2. QED
    BY <2>1 DEF TableOf
<1> HIDE DEF f, g
<1>3. DOMAIN g = DOMAIN f \ S
  <2>1. ASSUME NEW y \in DOMAIN g PROVE y \in DOMAIN f \ S
    <3>1. PICK x \in V : y = z.data[x]
      BY <1>2
    <3>2. x \in U /\ y = p.data[x] /\ y \notin S
      BY <3>1
    <3>3. QED
      BY <1>1, <3>2
  <2>2. ASSUME NEW y \in DOMAIN f \ S PROVE y \in DOMAIN g
    <3>1. PICK x \in U : y = p.data[x]
      BY <1>1
    <3>2. x \in V /\ y = z.data[x]
      BY <2>2, <3>1
    <3>3. QED
      BY <1>2, <3>2
  <2>3. QED
    BY <2>1, <2>2
<1>4. \A y \in DOMAIN g : g[y] = f[y]
  <2> SUFFICES ASSUME NEW y \in DOMAIN g PROVE g[y] = f[y]
    OBVIOUS
  <2>1. PICK x \in V : y = z.data[x]
    BY <1>2
  <2>2. x \in U /\ y = p.data[x]
    BY <2>1
  <2>3. QED
    BY <1>1, <1>2, <2>1, <2>2
<1>5. g = Without(f, S)
  BY <1>2, <1>3, <1>4 DEF Without, Restrict
<1>6. QED
  BY <1>5 DEF f, g


(* The empty pool stands for the empty table.                              *)
LEMMA TableInit == Init => L!Init
<1> SUFFICES ASSUME Init PROVE L!Init
  OBVIOUS
<1>1. Holds(pool, {})
  BY EmptyPoolHolds DEF Init
<1>2. TableOf(BansOf(pool), pool, {})
  BY <1>1, BansOfHeld
<1>3. BansOf(pool) = [d \in {} |-> Never]
  BY <1>2 DEF TableOf
<1>4. QED
  BY <1>3 DEF L!Init, Init

(* A step that adds or renews a node bans its datum.                       *)
LEMMA BanStep ==
    ASSUME NEW U, Holds(pool, U), NEW V, Holds(pool', V), NEW b \in V, V \ {b} = U \ {b},
           NEW d \in Data, pool'.data[b] = d, b \in U => pool.data[b] = d,
           \A x \in U \ {b} : pool'.data[x] = pool.data[x] /\ pool'.expires[x] = pool.expires[x],
           pool'.expires[b] \in {t + s : t \in 0 .. MaxNow, s \in Durations} \cup {Never},
           UNCHANGED now
    PROVE  L!Ban(d)
<1> DEFINE f == BansOf(pool)
           g == BansOf(pool')
<1>1. /\ d \in DOMAIN g /\ g[d] = pool'.expires[b] /\ Cardinality(DOMAIN g) <= MaxBans
      /\ Without(g, {d}) = Without(f, {d})
  BY RenewIsBan
<1>2. L!Without({d}) = Without(f, {d}) /\ L!Without({d})' = Without(g, {d})
  BY DEF L!Without, L!Banned, L!Restrict, Without, Restrict
<1>3. L!Banned' = DOMAIN g
  BY DEF L!Banned
<1> HIDE DEF f
<1>4. QED
  <2>1. d \in L!Banned' /\ Cardinality(L!Banned') <= MaxBans
    BY <1>1, <1>3
  <2>2. L!Without({d})' = L!Without({d})
    BY <1>1, <1>2
  <2>3. BansOf(pool')[d] \in {t + s : t \in 0 .. MaxNow, s \in Durations} \cup {Never}
    BY <1>1
  <2>4. L!Cardinality(L!Banned') = Cardinality(L!Banned')
    BY DEF L!Cardinality, Cardinality
  <2>5. QED
    BY <2>1, <2>2, <2>3, <2>4 DEF L!Ban

(* A step that removes a node unbans its datum.                            *)
LEMMA UnbanStep ==
    ASSUME NEW U, Holds(pool, U), NEW b \in U, Holds(pool', U \ {b}),
           \A x \in U \ {b} : pool'.data[x] = pool.data[x] /\ pool'.expires[x] = pool.expires[x],
           UNCHANGED now
    PROVE  L!Unban(pool.data[b])
<1> DEFINE d == pool.data[b]
           f == BansOf(pool)
           g == BansOf(pool')
<1>1. \A x, y \in U : pool.data[x] = pool.data[y] => x = y
  BY HeldNodes
<1>2. g = Without(f, {d})
  <2>1. \A x \in U : pool.data[x] \in {d} <=> x \notin U \ {b}
    BY <1>1
  <2> HIDE DEF d
  <2>2. QED
    BY <2>1, TrimIsWithout
<1>3. QED
  BY <1>2 DEF L!Unban, L!Banned, L!Without, L!Restrict, Without, Restrict

(* The removal of expired nodes expires their bans.                        *)
LEMMA ExpireStep ==
    ASSUME NEW U, Holds(pool, U), UNCHANGED now,
           Trimmed(pool, U, now, pool',
                   {b \in U : ~(pool.expires[b] # Never /\ pool.expires[b] < now)})
    PROVE  L!Expire
<1> DEFINE f == BansOf(pool)
           V == {b \in U : ~(pool.expires[b] # Never /\ pool.expires[b] < now)}
           S == {d \in DOMAIN f : f[d] # Never /\ f[d] < now}
<1>1. /\ V \subseteq U /\ Holds(pool', V)
      /\ \A x \in V : pool'.data[x] = pool.data[x] /\ pool'.expires[x] = pool.expires[x]
  BY DEF Trimmed
<1>2. DOMAIN f = {pool.data[x] : x \in U} /\ \A x \in U : f[pool.data[x]] = pool.expires[x]
  <2>1. TableOf(f, pool, U)
    BY BansOfHeld
  <2> HIDE DEF f
  <2>2. QED
    BY <2>1 DEF TableOf
<1> HIDE DEF f
<1>3. \A x \in U : pool.data[x] \in S <=> x \notin V
  BY <1>2
<1> HIDE DEF S, V
<1>4. BansOf(pool') = Without(f, S)
  BY <1>1, <1>3, TrimIsWithout DEF f
<1>5. QED
  BY <1>4 DEF L!Expire, L!Banned, L!Without, L!Restrict, Without, Restrict, f, S

(* The reset of the pool empties the table.                                *)
LEMMA UnbanAllStep ==
    ASSUME NEW U, Holds(pool, U), UnbanAll
    PROVE  L!UnbanAll
<1> DEFINE f == BansOf(pool)
<1>1. Holds(pool', {}) /\ UNCHANGED now
  BY EmptyPoolHolds DEF UnbanAll
<1>2. TableOf(BansOf(pool'), pool', {})
  BY <1>1, BansOfHeld
<1>3. BansOf(pool') = Without(f, DOMAIN f)
  BY <1>2 DEF TableOf, Without, Restrict
<1>4. QED
  BY <1>1, <1>3 DEF L!UnbanAll, L!Banned, L!Without, L!Restrict, Without, Restrict

(* Every step on the lists is a step on the table, or none.                *)
LEMMA TableNext ==
    ASSUME PoolInv, [Next]_vars
    PROVE  [L!Next]_<<BansOf(pool), now>>
<1>1. PICK U : Holds(pool, U)
  BY DEF PoolInv
<1>2. now \in 0 .. MaxNow
  BY DEF PoolInv
<1>3. ASSUME NEW d \in Data, NEW seconds \in Durations, AdjustBan(d, seconds) PROVE L!Ban(d)
  <2>1. PICK b \in U :
           /\ Holds(pool', U) /\ pool.data[b] = d /\ pool'.expires[b] = Expiry(seconds)
           /\ \A x \in U : pool'.data[x] = pool.data[x]
           /\ \A x \in U \ {b} : pool'.expires[x] = pool.expires[x]
    BY <1>1, <1>2, <1>3, AdjustBanEffect
  <2>2. pool'.expires[b] \in {t + s : t \in 0 .. MaxNow, s \in Durations} \cup {Never}
    BY <1>2, <2>1, ExpiryType
  <2>3. UNCHANGED now
    BY <1>3 DEF AdjustBan
  <2>4. QED
    BY <1>1, <2>1, <2>2, <2>3, BanStep
<1>4. ASSUME NEW d \in Data, NEW seconds \in Durations, AddBan(d, seconds) PROVE L!Ban(d)
  <2>1. PICK b \in Nodes \ U :
           /\ Holds(pool', U \cup {b}) /\ pool'.data[b] = d /\ pool'.expires[b] = Expiry(seconds)
           /\ \A x \in U : pool'.data[x] = pool.data[x] /\ pool'.expires[x] = pool.expires[x]
    BY <1>1, <1>2, <1>4, AddBanEffect
  <2>2. pool'.expires[b] \in {t + s : t \in 0 .. MaxNow, s \in Durations} \cup {Never}
    BY <1>2, <2>1, ExpiryType
  <2>3. UNCHANGED now
    BY <1>4 DEF AddBan
  <2>4. b \in U \cup {b} /\ (U \cup {b}) \ {b} = U \ {b} /\ b \notin U
    OBVIOUS
  <2>5. QED
    BY <1>1, <2>1, <2>2, <2>3, <2>4, BanStep
<1>5. ASSUME NEW d \in Data, Unban(d) PROVE L!Unban(d)
  <2>1. PICK b \in U :
           /\ Holds(pool', U \ {b}) /\ pool.data[b] = d
           /\ \A x \in U \ {b} : pool'.data[x] = pool.data[x] /\ pool'.expires[x] = pool.expires[x]
    BY <1>1, <1>5, UnbanEffect
  <2>2. UNCHANGED now
    BY <1>5 DEF Unban
  <2>3. L!Unban(pool.data[b])
    BY <1>1, <2>1, <2>2, UnbanStep
  <2>4. QED
    BY <2>1, <2>3
<1>6. ASSUME NEW index \in Nodes, UnbanByIndex(index) PROVE \E d \in Data : L!Unban(d)
  <2>1. PICK b \in U :
           /\ Holds(pool', U \ {b})
           /\ \A x \in U \ {b} : pool'.data[x] = pool.data[x] /\ pool'.expires[x] = pool.expires[x]
    BY <1>1, <1>6, UnbanByIndexEffect
  <2>2. UNCHANGED now
    BY <1>6 DEF UnbanByIndex
  <2>3. L!Unban(pool.data[b]) /\ pool.data[b] \in Data
    BY <1>1, <2>1, <2>2, UnbanStep, HeldNodes
  <2>4. QED
    BY <2>3
<1>7. CASE RemoveExpired
  <2>1. UNCHANGED now
    BY <1>7 DEF RemoveExpired
  <2>2. L!Expire
    BY <1>1, <1>2, <1>7, <2>1, RemoveExpiredEffect, ExpireStep
  <2>3. QED
    BY <2>2 DEF L!Next
<1>8. CASE UnbanAll
  BY <1>1, <1>8, UnbanAllStep DEF L!Next
<1>9. CASE Tick
  BY <1>9 DEF Tick, L!Next, L!Tick
<1>10. CASE UNCHANGED vars
  BY <1>10 DEF vars
<1>11. QED
  BY <1>3, <1>4, <1>5, <1>6, <1>7, <1>8, <1>9, <1>10 DEF Next, L!Next

(* Every operation on the lists is one on the table of bans they stand     *)
(* for, or leaves it alone.                                                *)
THEOREM PoolImplementsBanList == Spec => ImplementsBanList
<1>1. PoolInv /\ [Next]_vars => [L!Next]_<<BansOf(pool), now>>
  BY TableNext
<1>2. QED
  BY <1>1, TableInit, PoolInvariant, PTL DEF Spec, ImplementsBanList, L!Spec
================================================================================

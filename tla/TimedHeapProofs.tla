--------------------------- MODULE TimedHeapProofs ---------------------------
(***************************************************************************)
(* Proofs about module TimedHeap, for heaps of any size: the idx fields    *)
(* are exact, the array is a heap between calls, and the heap implements   *)
(* the set of deadlines of module DeadlineSet.                             *)
(***************************************************************************)
EXTENDS TimedHeap, FiniteSetTheorems, WellFoundedInduction, TLAPS

-----------------------------------------------------------------------------
(* Arrays that are heaps, but for the place where up or down has come.  K  *)
(* gives the deadline at each place, n is the number of places.            *)

\* Every place but the root is ordered with the place above it.
Heap(K, n) == \A k \in 1 .. n - 1 : K[Parent(k)] <= K[k]

\* up has come to i: only i may precede the place above it, and what is below i
\* is ordered with what is above it.
UpHeap(K, n, i) ==
  /\ \A k \in 1 .. n - 1 : k # i => K[Parent(k)] <= K[k]
  /\ \A k \in 1 .. n - 1 : i > 0 /\ Parent(k) = i => K[Parent(i)] <= K[k]

\* down has come to i: only what is below i may precede it, and, as long as down
\* has not moved anything, i may precede the place above it.
DownHeap(K, n, i, from) ==
  /\ \A k \in 1 .. n - 1 : Parent(k) # i /\ (k = i => i # from) => K[Parent(k)] <= K[k]
  /\ \A k \in 1 .. n - 1 : i > 0 /\ Parent(k) = i => K[Parent(i)] <= K[k]

\* Two places exchanged.
Swapped(K, i, j) == [K EXCEPT ![i] = K[j], ![j] = K[i]]

\* The child with which down compares.
Lesser(K, n, i) ==
  IF 2 * i + 2 < n /\ K[2 * i + 2] < K[2 * i + 1] THEN 2 * i + 2 ELSE 2 * i + 1

\* The place above and the places below.
LEMMA ParentFacts ==
  ASSUME NEW k \in Nat \ {0}
  PROVE  /\ Parent(k) \in Nat /\ Parent(k) < k
         /\ k = 2 * Parent(k) + 1 \/ k = 2 * Parent(k) + 2
BY DEF Parent

LEMMA ChildFacts ==
  ASSUME NEW i \in Nat
  PROVE  Parent(2 * i + 1) = i /\ Parent(2 * i + 2) = i
BY DEF Parent

\* One exchange of up moves the only disorder one place up.
LEMMA UpMoves ==
  ASSUME NEW m \in Nat, NEW K \in [0 .. m - 1 -> Nat], NEW n \in 0 .. m,
         NEW i \in 1 .. n - 1, UpHeap(K, n, i), K[i] < K[Parent(i)]
  PROVE  UpHeap(Swapped(K, i, Parent(i)), n, Parent(i))
<1> DEFINE p == Parent(i)
           L == Swapped(K, i, p)
<1>1. p \in Nat /\ p < i
  BY ParentFacts
<1>2. \A k \in 0 .. m - 1 : L[k] = IF k = i THEN K[p] ELSE IF k = p THEN K[i] ELSE K[k]
  BY <1>1 DEF Swapped
<1>3. K[i] < K[p]
  OBVIOUS
<1> HIDE DEF L, p
<1>4. ASSUME NEW k \in 1 .. n - 1
      PROVE  /\ Parent(k) \in 0 .. m - 1 /\ k \in 0 .. m - 1 /\ Parent(k) < k
             /\ K[Parent(k)] \in Nat /\ K[k] \in Nat
  BY ParentFacts
<1>5. ASSUME NEW k \in 1 .. n - 1, k # p
      PROVE  L[Parent(k)] <= L[k]
  <2>1. CASE k = i
    BY <1>1, <1>2, <1>3, <1>4, <2>1 DEF p
  <2>2. CASE k # i /\ Parent(k) = i
    BY <1>1, <1>2, <1>3, <1>4, <1>5, <2>2 DEF UpHeap, p
  <2>3. CASE k # i /\ Parent(k) = p
    BY <1>1, <1>2, <1>3, <1>4, <1>5, <2>3 DEF UpHeap
  <2>4. CASE k # i /\ Parent(k) # i /\ Parent(k) # p
    BY <1>1, <1>2, <1>4, <1>5, <2>4, Zenon DEF UpHeap
  <2>5. QED
    BY <2>1, <2>2, <2>3, <2>4
<1>6. ASSUME NEW k \in 1 .. n - 1, p > 0, Parent(k) = p
      PROVE  L[Parent(p)] <= L[k]
  <2>1. Parent(p) \in 0 .. m - 1 /\ Parent(p) < p /\ p \in 1 .. n - 1
    BY <1>1, <1>6, ParentFacts
  <2>2. K[Parent(p)] <= K[p]
    BY <1>1, <2>1 DEF UpHeap
  <2>3. L[Parent(p)] = K[Parent(p)]
    BY <1>1, <1>2, <2>1
  <2>4. CASE k = i
    BY <1>2, <1>4, <2>2, <2>3, <2>4
  <2>5. CASE k # i
    <3>1. K[p] <= K[k]
      BY <1>6, <2>5 DEF UpHeap
    <3>2. L[k] = K[k]
      BY <1>2, <1>4, <1>6, <2>5
    <3>3. K[Parent(p)] \in Nat /\ K[p] \in Nat /\ K[k] \in Nat
      BY <1>4, <2>1
    <3>4. QED
      BY <2>2, <2>3, <3>1, <3>2, <3>3
  <2>6. QED
    BY <2>4, <2>5
<1>7. QED
  BY <1>5, <1>6 DEF UpHeap, L, p

\* up stops: there is no disorder left.
LEMMA UpStops ==
  ASSUME NEW K, NEW n \in Nat, NEW i \in 0 .. n - 1, UpHeap(K, n, i),
         i = 0 \/ K[Parent(i)] <= K[i]
  PROVE  Heap(K, n)
BY DEF UpHeap, Heap

\* One exchange of down moves the disorder to the child that moved up.
LEMMA DownMoves ==
  ASSUME NEW m \in Nat, NEW K \in [0 .. m - 1 -> Nat], NEW n \in 0 .. m,
         NEW i \in 0 .. n - 1, NEW from \in 0 .. i, DownHeap(K, n, i, from),
         2 * i + 1 < n, K[Lesser(K, n, i)] < K[i]
  PROVE  DownHeap(Swapped(K, i, Lesser(K, n, i)), n, Lesser(K, n, i), from)
<1> DEFINE j == Lesser(K, n, i)
           L == Swapped(K, i, j)
<1>1. j \in 1 .. n - 1 /\ i < j /\ Parent(j) = i /\ K[j] < K[i]
  <2>1. j = 2 * i + 1 \/ (j = 2 * i + 2 /\ 2 * i + 2 < n)
    BY DEF Lesser
  <2> HIDE DEF j
  <2>2. Parent(j) = i
    <3>1. Parent(2 * i + 1) = i /\ Parent(2 * i + 2) = i
      BY ChildFacts
    <3>2. QED
      BY <2>1, <3>1
  <2>3. j \in 1 .. n - 1 /\ i < j
    BY <2>1
  <2>4. QED
    BY <2>2, <2>3 DEF j
<1>2. ASSUME NEW k \in 1 .. n - 1, Parent(k) = i
      PROVE  K[j] <= K[k]
  <2>1. k = 2 * i + 1 \/ k = 2 * i + 2
    BY <1>2, ParentFacts, SMTT(30)
  <2>2. K[k] \in Nat /\ K[2 * i + 1] \in Nat
    OBVIOUS
  <2>3. CASE k = 2 * i + 1
    BY <2>2, <2>3 DEF Lesser
  <2>4. CASE k = 2 * i + 2
    BY <2>2, <2>4 DEF Lesser
  <2>5. QED
    BY <2>1, <2>3, <2>4
<1> HIDE DEF j
<1>3. \A k \in 0 .. m - 1 : L[k] = IF k = i THEN K[j] ELSE IF k = j THEN K[i] ELSE K[k]
  BY <1>1 DEF Swapped
<1> HIDE DEF L
<1>4. ASSUME NEW k \in 1 .. n - 1
      PROVE  /\ Parent(k) \in 0 .. m - 1 /\ k \in 0 .. m - 1 /\ Parent(k) < k
             /\ K[Parent(k)] \in Nat /\ K[k] \in Nat
  BY ParentFacts
<1>5. ASSUME NEW k \in 1 .. n - 1, Parent(k) # j
      PROVE  L[Parent(k)] <= L[k]
  <2>1. CASE k = j
    BY <1>1, <1>3, <1>4, <2>1
  <2>2. CASE k # j /\ Parent(k) = i
    BY <1>1, <1>2, <1>3, <1>4, <2>2
  <2>3. CASE k = i
    <3>1. K[Parent(i)] <= K[j]
      BY <1>1, <2>3 DEF DownHeap
    <3>2. QED
      BY <1>1, <1>3, <1>4, <1>5, <2>3, <3>1
  <2>4. CASE k # i /\ k # j /\ Parent(k) # i
    BY <1>1, <1>3, <1>4, <1>5, <2>4 DEF DownHeap
  <2>5. QED
    BY <2>1, <2>2, <2>3, <2>4
<1>6. ASSUME NEW k \in 1 .. n - 1, Parent(k) = j
      PROVE  L[Parent(j)] <= L[k]
  <2>1. K[j] <= K[k]
    BY <1>1, <1>4, <1>6 DEF DownHeap
  <2>2. QED
    BY <1>1, <1>3, <1>4, <1>6, <2>1
<1>7. QED
  BY <1>5, <1>6 DEF DownHeap, L, j

\* down stops: the place where it has come is ordered with what is below it.
LEMMA DownStops ==
  ASSUME NEW m \in Nat, NEW K \in [0 .. m - 1 -> Nat], NEW n \in 0 .. m,
         NEW i \in Nat, i < n \/ n = 0, NEW from \in Nat, DownHeap(K, n, i, from),
         ~ (2 * i + 1 < n /\ K[Lesser(K, n, i)] < K[i])
  PROVE  UpHeap(K, n, i) /\ (i # from \/ i = 0 => Heap(K, n))
<1>1. ASSUME NEW k \in 1 .. n - 1, Parent(k) = i
      PROVE  K[i] <= K[k]
  <2> DEFINE j == Lesser(K, n, i)
  <2>1. k \in Nat \ {0}
    OBVIOUS
  <2>2. k = 2 * i + 1 \/ k = 2 * i + 2
    BY <1>1, <2>1, ParentFacts, Zenon
  <2>3. K[k] \in Nat /\ K[2 * i + 1] \in Nat /\ K[i] \in Nat /\ 2 * i + 1 < n
    BY <2>2
  <2>4. j \in 0 .. n - 1 /\ K[j] \in Nat /\ K[j] <= K[k]
    <3>1. CASE k = 2 * i + 1
      BY <2>3, <3>1 DEF Lesser
    <3>2. CASE k = 2 * i + 2
      BY <2>3, <3>2 DEF Lesser
    <3>3. QED
      BY <2>2, <3>1, <3>2
  <2>5. ~ (K[j] < K[i])
    BY <2>3
  <2> HIDE DEF j
  <2>6. QED
    BY <2>3, <2>4, <2>5
<1>2. QED
  BY <1>1 DEF DownHeap, UpHeap, Heap

\* The root of a heap is least: a smallest place with less than the root would
\* have the place above it as a smaller one.
LEMMA RootLeast ==
  ASSUME NEW n \in Nat, NEW K \in [0 .. n - 1 -> Nat], Heap(K, n)
  PROVE  \A k \in 0 .. n - 1 : K[0] <= K[k]
<1> DEFINE T == {k \in 0 .. n - 1 : K[k] < K[0]}
           R == OpToRel(<, Nat)
<1>1. SUFFICES ASSUME T # {} PROVE FALSE
  <2>1. ASSUME NEW k \in 0 .. n - 1, T = {} PROVE K[0] <= K[k]
    BY <2>1
  <2>2. QED
    BY <2>1
<1>2. T \subseteq Nat
  OBVIOUS
<1>3. PICK x \in T : \A y \in T : ~ (<<y, x>> \in R)
  <2> HIDE DEF T, R
  <2>1. IsWellFoundedOn(R, Nat)
    BY NatLessThanWellFounded, Zenon DEF R
  <2>2. QED
    BY <1>1, <1>2, <2>1, WFMin, Zenon
<1>4. ASSUME NEW y \in T PROVE ~ (y < x)
  BY <1>2, <1>3, <1>4, Zenon DEF OpToRel
<1>5. x \in 1 .. n - 1 /\ Parent(x) \in 0 .. n - 1 /\ Parent(x) < x
  BY ParentFacts
<1>6. K[Parent(x)] <= K[x]
  BY <1>5 DEF Heap
<1>7. Parent(x) \in T
  BY <1>5, <1>6
<1>8. QED
  BY <1>4, <1>5, <1>7

-----------------------------------------------------------------------------
(* The inductive invariant.                                                *)

Calls == [op : {"push", "expire", "cancel"}, req : Req \cup {None},
          pc : {"up", "down", "shrink"}, at : Nat, from : Nat, n : Nat]

TypeOK ==
  /\ Len \in Nat /\ h \in [0 .. Len - 1 -> Req]
  /\ deadline \in [Req -> Nat] /\ idx \in [Req -> Int]
  /\ call = Idle \/ call \in Calls

\* Push works on the whole array; the others on all but its last place, where
\* the request that leaves has been put.
CallOK ==
  call # Idle =>
    /\ call.op = "push" => call.pc = "up" /\ call.n = Len
    /\ call.op # "push" => call.n = Len - 1 /\ call.req \in Req /\ h[call.n] = call.req
    /\ call.pc = "up" => call.at < call.n
    /\ call.pc = "down" => call.from <= call.at /\ (call.at < call.n \/ (call.n = 0 /\ call.op = "expire"))
    /\ call.op = "expire" => call.from = 0

\* The deadline at each place.
Key == [k \in DOMAIN h |-> deadline[h[k]]]

OrderOK ==
  /\ call = Idle => Heap(Key, Len)
  /\ call # Idle /\ call.pc = "up" => UpHeap(Key, call.n, call.at)
  /\ call # Idle /\ call.pc = "down" => DownHeap(Key, call.n, call.at, call.from)
  /\ call # Idle /\ call.pc = "shrink" => Heap(Key, call.n)

HeapInv == TypeOK /\ IdxExact /\ CallOK /\ OrderOK

\* The number of places of an array.
LEMMA LenFacts ==
  ASSUME NEW n \in Int, n >= 0, NEW f, DOMAIN f = 0 .. n - 1
  PROVE  Cardinality(DOMAIN f) = n
<1>1. Cardinality(0 .. n - 1) = IF 0 > n - 1 THEN 0 ELSE n - 1 - 0 + 1
  BY FS_Interval
<1>2. QED
  BY <1>1

\* Swap exchanges two requests and their idx, and nothing else.
LEMMA SwapFacts ==
  ASSUME TypeOK, IdxExact, NEW i \in DOMAIN h, NEW j \in DOMAIN h, Swap(i, j),
         UNCHANGED deadline
  PROVE  /\ DOMAIN h' = DOMAIN h /\ Len' = Len /\ h' \in [0 .. Len - 1 -> Req]
         /\ idx' \in [Req -> Int] /\ IdxExact'
         /\ Key' = Swapped(Key, i, j)
         /\ {h'[k] : k \in DOMAIN h'} = {h[k] : k \in DOMAIN h}
         /\ \A k \in DOMAIN h \ {i, j} : h'[k] = h[k]
         /\ h'[i] = h[j] /\ h'[j] = h[i]
<1>1. DOMAIN h = 0 .. Len - 1 /\ h[i] \in Req /\ h[j] \in Req /\ i \in Int /\ j \in Int
  BY DEF TypeOK
<1>2. DOMAIN h' = DOMAIN h /\ h' \in [0 .. Len - 1 -> Req]
  BY <1>1 DEF Swap, TypeOK
<1>3. \A k \in DOMAIN h : h'[k] = IF k = j THEN h[i] ELSE IF k = i THEN h[j] ELSE h[k]
  BY <1>1 DEF Swap, TypeOK
<1>4. \A r \in Req : idx'[r] = IF r = h[j] THEN i ELSE IF r = h[i] THEN j ELSE idx[r]
  BY <1>1 DEF Swap, TypeOK
<1>5. idx' \in [Req -> Int]
  BY <1>1 DEF Swap, TypeOK
<1>6. Len' = Len
  BY <1>2 DEF Len
<1>7. IdxExact'
  <2>1. ASSUME NEW k \in DOMAIN h' PROVE idx'[h'[k]] = k
    <3>1. h[k] \in Req /\ idx[h[k]] = k /\ idx[h[i]] = i /\ idx[h[j]] = j
      BY <1>1, <1>2 DEF IdxExact, TypeOK
    <3>2. QED
      BY <1>1, <1>2, <1>3, <1>4, <3>1
  <2>2. ASSUME NEW r \in Req, idx'[r] # -1
        PROVE  idx'[r] \in DOMAIN h' /\ h'[idx'[r]] = r
    <3>1. idx[h[i]] = i /\ idx[h[j]] = j
      BY DEF IdxExact
    <3>2. CASE r = h[i] \/ r = h[j]
      BY <1>1, <1>2, <1>3, <1>4, <3>1, <3>2
    <3>3. CASE r # h[i] /\ r # h[j]
      <4>1. idx'[r] = idx[r]
        BY <1>4, <3>3
      <4>2. idx[r] \in DOMAIN h /\ h[idx[r]] = r
        BY <2>2, <4>1 DEF IdxExact
      <4>3. QED
        BY <1>2, <1>3, <3>3, <4>1, <4>2
    <3>4. QED
      BY <3>2, <3>3
  <2>3. QED
    BY <2>1, <2>2 DEF IdxExact
<1>8. Key' = Swapped(Key, i, j)
  BY <1>1, <1>2, <1>3, Zenon DEF Key, Swapped, TypeOK
<1>9. {h'[k] : k \in DOMAIN h'} = {h[k] : k \in DOMAIN h}
  <2>1. ASSUME NEW k \in DOMAIN h PROVE h[k] \in {h'[l] : l \in DOMAIN h'}
    <3>1. CASE k = i
      BY <1>2, <1>3, <3>1
    <3>2. CASE k = j
      BY <1>2, <1>3, <3>2
    <3>3. CASE k # i /\ k # j
      BY <1>2, <1>3, <3>3
    <3>4. QED
      BY <3>1, <3>2, <3>3
  <2>2. ASSUME NEW k \in DOMAIN h PROVE h'[k] \in {h[l] : l \in DOMAIN h}
    BY <1>3
  <2>3. QED
    BY <1>2, <2>1, <2>2
<1>10. QED
  BY <1>2, <1>3, <1>5, <1>6, <1>7, <1>8, <1>9

\* The deadlines by place.
LEMMA KeyFacts ==
  ASSUME TypeOK
  PROVE  /\ Key \in [0 .. Len - 1 -> Nat] /\ DOMAIN h = 0 .. Len - 1
         /\ \A k \in DOMAIN h : Key[k] = deadline[h[k]] /\ h[k] \in Req
         /\ \A i, j \in DOMAIN h : Less(i, j) <=> Key[i] < Key[j]
BY DEF TypeOK, Key, Less

\* Idle is not a call under way.
LEMMA IdleFacts == Idle \notin Calls /\ Idle.op = "none" /\ Idle.pc = "none"
BY DEF Idle, Calls

-----------------------------------------------------------------------------
(* Every step preserves the invariant.                                     *)

\* A request is appended: up starts at the last place, with nothing below it.
LEMMA PushInv ==
  ASSUME HeapInv, NEW r \in Req, NEW t \in Times, Push(r, t)
  PROVE  HeapInv'
<1>1. DOMAIN h = 0 .. Len - 1 /\ Len \in Nat /\ h \in [0 .. Len - 1 -> Req] /\ t \in Nat
  BY TimesAssumption DEF HeapInv, TypeOK
<1>2. DOMAIN h' = 0 .. Len /\ \A k \in 0 .. Len : h'[k] = IF k = Len THEN r ELSE h[k]
  BY DEF Push
<1>3. Len' = Len + 1
  BY <1>1, <1>2, LenFacts DEF Len
<1>4. call' = [op |-> "push", req |-> None, pc |-> "up", at |-> Len, from |-> 0, n |-> Len + 1]
  BY Zenon DEF Push, Idle
<1>5. TypeOK'
  <2>1. h' \in [0 .. Len' - 1 -> Req]
    BY <1>1, <1>3 DEF Push
  <2>2. deadline' \in [Req -> Nat] /\ idx' \in [Req -> Int]
    BY <1>1 DEF Push, HeapInv, TypeOK
  <2>3. call' \in Calls
    BY <1>1, <1>4 DEF Calls
  <2>4. QED
    BY <1>1, <1>3, <2>1, <2>2, <2>3 DEF TypeOK
<1>6. IdxExact'
  <2>1. \A k \in DOMAIN h : idx[h[k]] = k /\ h[k] \in Req
    BY <1>1 DEF HeapInv, IdxExact
  <2>2. idx[r] = -1 /\ \A q \in Req : idx'[q] = IF q = r THEN Len ELSE idx[q]
    BY DEF Push, HeapInv, TypeOK
  <2>3. \A k \in DOMAIN h : h[k] # r
    BY <1>1, <2>1, <2>2
  <2>4. \A k \in DOMAIN h' : idx'[h'[k]] = k
    BY <1>1, <1>2, <2>1, <2>2, <2>3
  <2>5. ASSUME NEW q \in Req, idx'[q] # -1 PROVE idx'[q] \in DOMAIN h' /\ h'[idx'[q]] = q
    <3>1. CASE q = r
      BY <1>1, <1>2, <2>2, <3>1
    <3>2. CASE q # r
      <4>1. idx[q] \in DOMAIN h /\ h[idx[q]] = q /\ idx'[q] = idx[q]
        BY <2>2, <2>5, <3>2 DEF HeapInv, IdxExact
      <4>2. QED
        BY <1>1, <1>2, <4>1
    <3>3. QED
      BY <3>1, <3>2
  <2>6. QED
    BY <2>4, <2>5 DEF IdxExact
<1>7. call' # Idle
  BY <1>4 DEF Idle
<1>8. CallOK'
  BY <1>1, <1>3, <1>4 DEF CallOK
<1>9. OrderOK'
  <2>1. \A k \in 0 .. Len - 1 : h[k] # r
    BY <1>1 DEF HeapInv, IdxExact, Push
  <2>2. \A k \in 0 .. Len - 1 : Key'[k] = Key[k]
    BY <1>1, <1>2, <2>1 DEF Key, Push, HeapInv, TypeOK
  <2>3. Heap(Key, Len)
    BY DEF HeapInv, OrderOK, Push
  <2>4. ASSUME NEW k \in 1 .. Len
        PROVE  /\ k # Len => Key'[Parent(k)] <= Key'[k]
               /\ Parent(k) # Len
    <3>1. Parent(k) \in 0 .. Len - 1
      BY <1>1, ParentFacts
    <3>2. QED
      BY <1>1, <2>2, <2>3, <3>1 DEF Heap
  <2>5. UpHeap(Key', Len + 1, Len)
    BY <1>1, <2>4 DEF UpHeap
  <2>6. QED
    BY <1>4, <1>7, <2>5 DEF OrderOK
<1>10. QED
  BY <1>5, <1>6, <1>8, <1>9 DEF HeapInv

\* The root and the last request change places: down starts at the root.
LEMMA PopInv ==
  ASSUME HeapInv, Pop
  PROVE  HeapInv'
<1> DEFINE n == Len - 1
<1>1. DOMAIN h = 0 .. Len - 1 /\ n \in Nat /\ 0 \in DOMAIN h /\ n \in DOMAIN h /\ Len \in Nat
  BY DEF HeapInv, TypeOK, Pop
<1>2. Swap(0, n) /\ UNCHANGED deadline /\ call = Idle
      /\ call' = [op |-> "expire", req |-> h[0], pc |-> "down", at |-> 0, from |-> 0, n |-> n]
  BY DEF Pop
<1> HIDE DEF n
<1>3. /\ DOMAIN h' = DOMAIN h /\ Len' = Len /\ h' \in [0 .. Len - 1 -> Req]
      /\ idx' \in [Req -> Int] /\ IdxExact' /\ Key' = Swapped(Key, 0, n) /\ h'[n] = h[0]
  BY <1>1, <1>2, SwapFacts DEF HeapInv
<1>4. h[0] \in Req
  BY <1>1 DEF HeapInv, TypeOK
<1>5. call' \in Calls /\ call' # Idle
  BY <1>1, <1>2, <1>4 DEF Calls, Idle
<1>6. TypeOK'
  BY <1>2, <1>3, <1>5 DEF HeapInv, TypeOK
<1>7. CallOK'
  BY <1>1, <1>2, <1>3, <1>4 DEF CallOK, n
<1>8. OrderOK'
  <2>1. Heap(Key, Len) /\ Key \in [0 .. Len - 1 -> Nat]
    BY <1>2, KeyFacts DEF HeapInv, OrderOK
  <2>2. ASSUME NEW k \in 1 .. n - 1, Parent(k) # 0 PROVE Key'[Parent(k)] <= Key'[k]
    <3>1. Parent(k) \in 1 .. n - 1 /\ k \in 1 .. Len - 1 /\ n \in 0 .. Len - 1
      BY <1>1, <2>2, ParentFacts DEF n
    <3>2. Key'[k] = Key[k] /\ Key'[Parent(k)] = Key[Parent(k)]
      BY <1>1, <1>3, <2>1, <3>1, SMTT(30) DEF Swapped
    <3>3. QED
      BY <2>1, <3>1, <3>2 DEF Heap
  <2>3. DownHeap(Key', n, 0, 0)
    BY <1>1, <2>2 DEF DownHeap
  <2>4. QED
    BY <1>2, <1>5, <2>3 DEF OrderOK
<1>9. QED
  BY <1>3, <1>6, <1>7, <1>8 DEF HeapInv

\* The request and the last one change places: down starts where it was; what is
\* below that place is still ordered with what is above it.
LEMMA RemoveInv ==
  ASSUME HeapInv, NEW r \in Req, Remove(r)
  PROVE  HeapInv'
<1> DEFINE n == Len - 1
           i == idx[r]
<1>1. DOMAIN h = 0 .. Len - 1 /\ i \in DOMAIN h /\ h[i] = r
  BY DEF HeapInv, TypeOK, Remove, IdxExact
<1>2. n \in Nat /\ n \in DOMAIN h /\ i \in 0 .. n /\ Len \in Nat
  BY <1>1 DEF HeapInv, TypeOK
<1>3. /\ UNCHANGED deadline /\ call = Idle
      /\ IF i = n THEN UNCHANGED <<h, idx>> ELSE Swap(i, n)
      /\ call' = [op |-> "cancel", req |-> r, pc |-> IF i = n THEN "shrink" ELSE "down",
                  at |-> i, from |-> i, n |-> n]
  BY DEF Remove
<1>4. n = Len - 1
  OBVIOUS
<1> HIDE DEF n, i
<1>5. call' \in Calls /\ call' # Idle
  <2>1. (IF i = n THEN "shrink" ELSE "down") \in {"up", "down", "shrink"}
    OBVIOUS
  <2>2. i \in Nat
    BY <1>2
  <2>3. QED
    BY <1>2, <1>3, <2>1, <2>2, Zenon DEF Calls, Idle
<1>6. Heap(Key, Len) /\ Key \in [0 .. Len - 1 -> Nat]
  BY <1>3, KeyFacts DEF HeapInv, OrderOK
<1>7. CASE i = n
  <2>1. UNCHANGED <<h, idx, deadline>> /\ Len' = Len /\ Key' = Key
    BY <1>3, <1>7 DEF Len, Key
  <2>2. TypeOK' /\ IdxExact'
    BY <1>5, <2>1 DEF HeapInv, TypeOK, IdxExact
  <2>3. call'.op = "cancel" /\ call'.pc = "shrink" /\ call'.req = r /\ call'.n = n
    BY <1>3, <1>7
  <2>4. CallOK'
    BY <1>1, <1>4, <1>7, <2>1, <2>3 DEF CallOK
  <2>5. OrderOK'
    BY <1>2, <1>4, <1>5, <1>6, <2>1, <2>3 DEF OrderOK, Heap
  <2>6. QED
    BY <2>2, <2>4, <2>5 DEF HeapInv
<1>8. CASE i # n
  <2>1. /\ DOMAIN h' = DOMAIN h /\ Len' = Len /\ h' \in [0 .. Len - 1 -> Req]
        /\ idx' \in [Req -> Int] /\ IdxExact' /\ Key' = Swapped(Key, i, n) /\ h'[n] = h[i]
    BY <1>1, <1>2, <1>3, <1>8, SwapFacts DEF HeapInv
  <2>2. TypeOK'
    BY <1>3, <1>5, <2>1 DEF HeapInv, TypeOK
  <2>3. call'.op = "cancel" /\ call'.pc = "down" /\ call'.req = r /\ call'.n = n
        /\ call'.at = i /\ call'.from = i
    BY <1>3, <1>8
  <2>4. CallOK'
    BY <1>1, <1>2, <1>4, <1>8, <2>1, <2>3 DEF CallOK
  <2>5. \A k \in 0 .. n - 1 : k # i => Key'[k] = Key[k]
    BY <1>1, <1>2, <1>4, <1>6, <2>1 DEF Swapped
  <2>6. ASSUME NEW k \in 1 .. n - 1
        PROVE  /\ Parent(k) \in 0 .. n - 1 /\ Parent(k) < k /\ k \in 1 .. Len - 1
               /\ Key[Parent(k)] <= Key[k] /\ Key[Parent(k)] \in Nat /\ Key[k] \in Nat
    <3>1. Parent(k) \in 0 .. n - 1 /\ Parent(k) < k /\ k \in 1 .. Len - 1
      BY <1>2, <1>4, ParentFacts
    <3>2. QED
      BY <1>2, <1>4, <1>6, <3>1 DEF Heap
  <2>7. ASSUME NEW k \in 1 .. n - 1, Parent(k) # i, k # i PROVE Key'[Parent(k)] <= Key'[k]
    BY <1>2, <2>5, <2>6, <2>7
  <2>8. ASSUME NEW k \in 1 .. n - 1, i > 0, Parent(k) = i PROVE Key'[Parent(i)] <= Key'[k]
    <3>1. i \in 1 .. n - 1
      BY <1>2, <1>8, <2>8
    <3>2. Parent(i) \in 0 .. n - 1 /\ Parent(i) # i /\ Key[Parent(i)] <= Key[i]
          /\ Key[Parent(i)] \in Nat /\ Key[i] \in Nat
      BY <2>6, <3>1
    <3>3. Key[i] <= Key[k] /\ k # i /\ Key[k] \in Nat
      BY <2>6, <2>8
    <3>4. QED
      BY <2>5, <3>1, <3>2, <3>3
  <2>9. DownHeap(Key', n, i, i)
    BY <2>7, <2>8 DEF DownHeap
  <2>10. OrderOK'
    BY <1>5, <2>3, <2>9 DEF OrderOK
  <2>11. QED
    BY <2>1, <2>2, <2>4, <2>10 DEF HeapInv
<1>9. QED
  BY <1>7, <1>8

\* What a call under way looks like.
LEMMA CallFacts ==
  ASSUME HeapInv, call.pc # "none"
  PROVE  /\ call # Idle /\ call \in Calls /\ Len \in Nat /\ DOMAIN h = 0 .. Len - 1
         /\ call.n \in 0 .. Len /\ Key \in [0 .. Len - 1 -> Nat]
<1>1. call # Idle /\ call \in Calls
  BY IdleFacts DEF HeapInv, TypeOK
<1>2. Len \in Nat /\ DOMAIN h = 0 .. Len - 1 /\ Key \in [0 .. Len - 1 -> Nat]
  BY KeyFacts DEF HeapInv, TypeOK
<1>3. call.n \in Nat /\ (call.n = Len \/ call.n = Len - 1)
  BY <1>1 DEF HeapInv, CallOK, Calls
<1>4. QED
  BY <1>1, <1>2, <1>3

\* An exchange within the first n places by a call that goes on.
LEMMA SiftInv ==
  ASSUME HeapInv, call.pc \in {"up", "down"}, NEW i \in 0 .. call.n - 1, NEW j \in 0 .. call.n - 1,
         Swap(i, j), UNCHANGED deadline, call' = [call EXCEPT !.at = j],
         call.pc = "down" => call.from <= j
  PROVE  TypeOK' /\ IdxExact' /\ CallOK' /\ Key' = Swapped(Key, i, j) /\ call' # Idle
<1>1. /\ call # Idle /\ call \in Calls /\ Len \in Nat /\ DOMAIN h = 0 .. Len - 1
      /\ call.n \in 0 .. Len
  BY CallFacts
<1>2. i \in DOMAIN h /\ j \in DOMAIN h /\ j \in Nat
  BY <1>1
<1>3. /\ DOMAIN h' = DOMAIN h /\ Len' = Len /\ h' \in [0 .. Len - 1 -> Req]
      /\ idx' \in [Req -> Int] /\ IdxExact' /\ Key' = Swapped(Key, i, j)
      /\ \A k \in DOMAIN h \ {i, j} : h'[k] = h[k]
  BY <1>2, SwapFacts DEF HeapInv
<1>4. call' \in Calls /\ call'.at = j /\ call'.pc = call.pc /\ call'.op = call.op
      /\ call'.req = call.req /\ call'.n = call.n /\ call'.from = call.from
  BY <1>1, <1>2 DEF Calls
<1>5. TypeOK'
  BY <1>3, <1>4 DEF HeapInv, TypeOK
<1>6. CallOK'
  <2>1. call.op # "push" => h'[call.n] = call.req
    BY <1>1, <1>3 DEF HeapInv, CallOK
  <2>2. QED
    BY <1>1, <1>3, <1>4, <2>1 DEF HeapInv, CallOK
<1>7. call' # Idle
  BY <1>4, IdleFacts
<1>8. QED
  BY <1>3, <1>5, <1>6, <1>7

\* A call that goes on to another part, or ends, without an exchange.
LEMMA StopInv ==
  ASSUME HeapInv, UNCHANGED <<h, idx, deadline>>
  PROVE  Key' = Key /\ Len' = Len /\ IdxExact' /\ (call' = Idle \/ call' \in Calls => TypeOK')
BY DEF HeapInv, TypeOK, IdxExact, Key, Len

\* One turn of up.
LEMMA UpInv ==
  ASSUME HeapInv, Up
  PROVE  HeapInv'
<1> DEFINE i == call.at
           n == call.n
<1>1. /\ call # Idle /\ call \in Calls /\ Len \in Nat /\ DOMAIN h = 0 .. Len - 1
      /\ n \in 0 .. Len /\ Key \in [0 .. Len - 1 -> Nat] /\ call.pc = "up"
  BY CallFacts DEF Up
<1>2. i \in 0 .. n - 1 /\ UpHeap(Key, n, i)
  BY <1>1 DEF HeapInv, CallOK, OrderOK, Calls
<1>3. CASE i > 0 /\ Less(i, Parent(i))
  <2>1. i \in 1 .. n - 1 /\ Parent(i) \in 0 .. n - 1
    BY <1>1, <1>2, <1>3, ParentFacts, SMTT(30)
  <2>2. Swap(i, Parent(i)) /\ call' = [call EXCEPT !.at = Parent(i)] /\ UNCHANGED deadline
    BY <1>3 DEF Up
  <2>3. TypeOK' /\ IdxExact' /\ CallOK' /\ Key' = Swapped(Key, i, Parent(i)) /\ call' # Idle
    BY <1>1, <2>1, <2>2, SiftInv
  <2>4. Key[i] < Key[Parent(i)]
    <3>1. i \in DOMAIN h /\ Parent(i) \in DOMAIN h
      BY <1>1, <2>1
    <3>2. QED
      BY <1>3, <3>1, KeyFacts DEF HeapInv
  <2>5. UpHeap(Key', n, Parent(i))
    BY <1>1, <1>2, <2>1, <2>3, <2>4, UpMoves, Zenon
  <2>6. call'.pc = "up" /\ call'.n = n /\ call'.at = Parent(i)
    BY <1>1, <2>2 DEF Calls
  <2>7. OrderOK'
    BY <2>3, <2>5, <2>6 DEF OrderOK
  <2>8. QED
    BY <2>3, <2>7 DEF HeapInv
<1>4. CASE ~ (i > 0 /\ Less(i, Parent(i)))
  <2>1. UNCHANGED <<h, idx, deadline>>
        /\ call' = IF call.op = "push" THEN Idle ELSE [call EXCEPT !.pc = "shrink"]
    BY <1>4 DEF Up
  <2>2. Heap(Key, n)
    <3>1. CASE i = 0
      BY <1>1, <1>2, <3>1, UpStops
    <3>2. CASE i > 0
      <4>1. Parent(i) \in DOMAIN h /\ i \in DOMAIN h
        BY <1>1, <1>2, <3>2, ParentFacts, SMTT(30)
      <4>2. ~ (Key[i] < Key[Parent(i)]) /\ Key[i] \in Nat /\ Key[Parent(i)] \in Nat
        BY <1>1, <1>4, <3>2, <4>1, KeyFacts DEF HeapInv
      <4>3. Key[Parent(i)] <= Key[i]
        BY <4>2
      <4>4. QED
        <5> HIDE DEF i, n
        <5>1. n \in Nat
          BY <1>1
        <5>2. QED
          BY <1>2, <4>3, <5>1, UpStops
    <3>3. QED
      BY <1>2, <3>1, <3>2
  <2>3. Key' = Key /\ Len' = Len /\ IdxExact' /\ (call' = Idle \/ call' \in Calls => TypeOK')
    BY <2>1, StopInv
  <2>4. CASE call.op = "push"
    <3>1. call' = Idle /\ n = Len
      BY <1>1, <2>1, <2>4 DEF HeapInv, CallOK
    <3>2. QED
      BY <2>2, <2>3, <3>1 DEF HeapInv, CallOK, OrderOK
  <2>5. CASE call.op # "push"
    <3>1. call' \in Calls /\ call'.pc = "shrink" /\ call'.op = call.op /\ call'.req = call.req
          /\ call'.n = n /\ call'.from = call.from
      BY <1>1, <2>1, <2>5 DEF Calls
    <3>2. CallOK'
      BY <1>1, <2>1, <2>3, <2>5, <3>1 DEF HeapInv, CallOK
    <3>3. OrderOK'
      BY <2>2, <2>3, <3>1, IdleFacts DEF OrderOK
    <3>4. QED
      BY <2>3, <3>1, <3>2, <3>3 DEF HeapInv
  <2>6. QED
    BY <2>4, <2>5
<1>5. QED
  BY <1>3, <1>4

\* One turn of down.
LEMMA DownInv ==
  ASSUME HeapInv, Down
  PROVE  HeapInv'
<1> DEFINE i == call.at
           n == call.n
           j == Child(i)
<1>1. /\ call # Idle /\ call \in Calls /\ Len \in Nat /\ DOMAIN h = 0 .. Len - 1
      /\ n \in 0 .. Len /\ Key \in [0 .. Len - 1 -> Nat] /\ call.pc = "down"
  BY CallFacts DEF Down
<1>2. /\ i \in Nat /\ call.from \in 0 .. i /\ (i < n \/ n = 0)
      /\ DownHeap(Key, n, i, call.from)
  BY <1>1 DEF HeapInv, CallOK, OrderOK, Calls
<1>3. 2 * i + 1 < n => /\ j = Lesser(Key, n, i) /\ j \in i + 1 .. n - 1
                       /\ i \in 0 .. n - 1 /\ (Less(j, i) <=> Key[j] < Key[i])
  <2>1. SUFFICES ASSUME 2 * i + 1 < n
                 PROVE  /\ j = Lesser(Key, n, i) /\ j \in i + 1 .. n - 1
                        /\ i \in 0 .. n - 1 /\ (Less(j, i) <=> Key[j] < Key[i])
    OBVIOUS
  <2>2. 2 * i + 2 < n => (Less(2 * i + 2, 2 * i + 1) <=> Key[2 * i + 2] < Key[2 * i + 1])
    <3>1. SUFFICES ASSUME 2 * i + 2 < n
                   PROVE  Less(2 * i + 2, 2 * i + 1) <=> Key[2 * i + 2] < Key[2 * i + 1]
      OBVIOUS
    <3>2. 2 * i + 2 \in DOMAIN h /\ 2 * i + 1 \in DOMAIN h
      <4> HIDE DEF i, n
      <4>1. QED
        BY <1>1, <1>2, <3>1
    <3>3. QED
      BY <3>2, KeyFacts DEF HeapInv
  <2>3. j = Lesser(Key, n, i)
    BY <2>2 DEF Child, Lesser
  <2>4. j \in i + 1 .. n - 1 /\ i \in 0 .. n - 1
    <3>1. j = 2 * i + 1 \/ (j = 2 * i + 2 /\ 2 * i + 2 < n)
      BY DEF Child
    <3> HIDE DEF i, n, j
    <3>2. QED
      BY <1>1, <1>2, <2>1, <3>1
  <2> HIDE DEF j
  <2>5. i \in DOMAIN h /\ j \in DOMAIN h
    BY <1>1, <1>2, <2>4
  <2>6. QED
    BY <2>3, <2>4, <2>5, KeyFacts DEF HeapInv
<1>4. CASE 2 * i + 1 < n /\ Less(j, i)
  <2>1. Swap(i, j) /\ call' = [call EXCEPT !.at = j] /\ UNCHANGED deadline
    BY <1>4 DEF Down
  <2>2. j = Lesser(Key, n, i) /\ j \in i + 1 .. n - 1 /\ i \in 0 .. n - 1 /\ Key[j] < Key[i]
    BY <1>3, <1>4
  <2>3. DownHeap(Swapped(Key, i, j), n, j, call.from)
    BY <1>1, <1>2, <1>4, <2>2, DownMoves, Zenon
  <2> HIDE DEF j
  <2>4. j \in 0 .. n - 1 /\ call.from <= j
    BY <1>1, <1>2, <2>2, SMTT(30)
  <2>5. TypeOK' /\ IdxExact' /\ CallOK' /\ Key' = Swapped(Key, i, j) /\ call' # Idle
    BY <1>1, <2>1, <2>2, <2>4, SiftInv
  <2>6. call'.pc = "down" /\ call'.n = n /\ call'.at = j /\ call'.from = call.from
    BY <1>1, <2>1 DEF Calls
  <2>7. OrderOK'
    BY <2>3, <2>5, <2>6 DEF OrderOK
  <2>8. QED
    BY <2>5, <2>7 DEF HeapInv
<1>5. CASE ~ (2 * i + 1 < n /\ Less(j, i))
  <2> DEFINE pc == IF call.op = "cancel" /\ i = call.from THEN "up" ELSE "shrink"
  <2>1. UNCHANGED <<h, idx, deadline>> /\ call' = [call EXCEPT !.pc = pc]
    BY <1>5 DEF Down
  <2>2. ~ (2 * i + 1 < n /\ Key[Lesser(Key, n, i)] < Key[i])
    BY <1>3, <1>5
  <2>3. UpHeap(Key, n, i) /\ (i # call.from \/ i = 0 => Heap(Key, n))
    <3>1. call.from \in Nat
      BY <1>1 DEF Calls
    <3> HIDE DEF i, n
    <3>2. QED
      BY <1>1, <1>2, <2>2, <3>1, DownStops, Zenon
  <2>4. Key' = Key /\ Len' = Len /\ IdxExact' /\ (call' = Idle \/ call' \in Calls => TypeOK')
    BY <2>1, StopInv
  <2>5. call' \in Calls /\ call'.pc = pc /\ call'.op = call.op /\ call'.req = call.req
        /\ call'.n = n /\ call'.at = i /\ call'.from = call.from
    BY <1>1, <2>1 DEF Calls
  <2>6. call.op \in {"expire", "cancel"} /\ (call.op = "expire" => call.from = 0)
    BY <1>1 DEF HeapInv, CallOK, Calls
  <2>7. pc = "up" => i < n
    BY <1>1 DEF HeapInv, CallOK
  <2>8. CallOK'
    BY <1>1, <2>1, <2>4, <2>5, <2>6, <2>7 DEF HeapInv, CallOK
  <2>9. pc = "shrink" => Heap(Key, n)
    BY <1>2, <2>3, <2>6
  <2>10. OrderOK'
    BY <2>3, <2>4, <2>5, <2>9, IdleFacts DEF OrderOK
  <2>11. QED
    BY <2>4, <2>5, <2>8, <2>10 DEF HeapInv
<1>6. QED
  BY <1>4, <1>5

\* The last place goes, with the request that leaves.
LEMMA ShrinkInv ==
  ASSUME HeapInv, Shrink
  PROVE  HeapInv'
<1> DEFINE n == call.n
           r == call.req
<1>1. /\ call # Idle /\ call \in Calls /\ Len \in Nat /\ DOMAIN h = 0 .. Len - 1
      /\ n \in 0 .. Len /\ Key \in [0 .. Len - 1 -> Nat] /\ call.pc = "shrink"
  BY CallFacts DEF Shrink
<1>2. n = Len - 1 /\ r \in Req /\ h[n] = r /\ Heap(Key, n)
  BY <1>1 DEF HeapInv, CallOK, OrderOK, Calls
<1>3. h' = [k \in 0 .. n - 1 |-> h[k]] /\ idx' = [idx EXCEPT ![r] = -1] /\ call' = Idle
      /\ UNCHANGED deadline
  BY <1>1, <1>2 DEF Shrink
<1>4. Len' = n
  BY <1>1, <1>2, <1>3, LenFacts DEF Len
<1>5. TypeOK'
  BY <1>1, <1>2, <1>3, <1>4 DEF HeapInv, TypeOK
<1>6. IdxExact'
  <2>1. \A k \in 0 .. n : idx[h[k]] = k /\ h[k] \in Req
    BY <1>1, <1>2 DEF HeapInv, IdxExact, TypeOK
  <2>2. \A q \in Req : idx'[q] = IF q = r THEN -1 ELSE idx[q]
    BY <1>2, <1>3 DEF HeapInv, TypeOK
  <2>3. \A k \in 0 .. n - 1 : h[k] # r
    BY <1>1, <1>2, <2>1
  <2>4. \A k \in DOMAIN h' : idx'[h'[k]] = k
    BY <1>1, <1>3, <2>1, <2>2, <2>3
  <2>5. ASSUME NEW q \in Req, idx'[q] # -1 PROVE idx'[q] \in DOMAIN h' /\ h'[idx'[q]] = q
    <3>1. q # r /\ idx'[q] = idx[q] /\ idx[q] \in 0 .. n /\ h[idx[q]] = q
      BY <1>1, <1>2, <2>2, <2>5 DEF HeapInv, IdxExact
    <3>2. idx[q] # n
      BY <1>2, <3>1
    <3>3. QED
      BY <1>1, <1>3, <3>1, <3>2
  <2>6. QED
    BY <2>4, <2>5 DEF IdxExact
<1>7. OrderOK'
  <2>1. \A k \in 0 .. n - 1 : Key'[k] = Key[k]
    BY <1>1, <1>2, <1>3 DEF Key
  <2>2. Heap(Key', n)
    <3>1. ASSUME NEW k \in 1 .. n - 1 PROVE Key'[Parent(k)] <= Key'[k]
      <4>1. Parent(k) \in 0 .. n - 1 /\ k \in 0 .. n - 1
        BY <1>1, <1>2, ParentFacts
      <4>2. QED
        BY <1>2, <2>1, <4>1 DEF Heap
    <3>2. QED
      BY <3>1 DEF Heap
  <2>3. QED
    BY <1>3, <1>4, <2>2, IdleFacts DEF OrderOK
<1>8. QED
  BY <1>3, <1>5, <1>6, <1>7 DEF HeapInv, CallOK

\* Initially the heap is empty.
LEMMA InitInv ==
  ASSUME Init
  PROVE  HeapInv
<1>1. DOMAIN h = 0 .. 0 - 1
  BY DEF Init
<1>2. Len = 0
  BY <1>1, LenFacts DEF Len
<1>3. h \in [0 .. Len - 1 -> Req] /\ DOMAIN h = {}
  BY <1>1, <1>2 DEF Init
<1>4. QED
  BY <1>2, <1>3 DEF Init, HeapInv, TypeOK, IdxExact, CallOK, OrderOK, Heap

LEMMA NextInv ==
  ASSUME HeapInv, [Next]_vars
  PROVE  HeapInv'
<1>1. CASE UNCHANGED vars
  BY <1>1 DEF vars, HeapInv, TypeOK, IdxExact, CallOK, OrderOK, Key, Len
<1>2. QED
  BY <1>1, PushInv, PopInv, RemoveInv, UpInv, DownInv, ShrinkInv DEF Next

\* The invariant holds in every state.
THEOREM HeapInvariant == Spec => []HeapInv
<1>1. Init => HeapInv
  BY InitInv
<1>2. HeapInv /\ [Next]_vars => HeapInv'
  BY NextInv
<1>3. QED
  BY <1>1, <1>2, PTL DEF Spec

-----------------------------------------------------------------------------
(* What follows from it.                                                   *)

\* timedHeap.Swap, Push and Pop keep the idx fields exact at every step of every
\* call, so that heap.Remove(&w.timeouts, pcb.idx) takes out the request that
\* deliver was given, in a heap of any size.
THEOREM IdxAlwaysExact == Spec => []IdxExact
<1>1. HeapInv => IdxExact
  BY DEF HeapInv
<1>2. QED
  BY <1>1, HeapInvariant, PTL

\* Between calls the array is a heap, whatever was pushed, popped and removed
\* before.
THEOREM AlwaysOrdered == Spec => []Ordered
<1>1. HeapInv => Ordered
  <2>1. SUFFICES ASSUME HeapInv, call = Idle, NEW k \in DOMAIN h \ {0}
                 PROVE  deadline[h[Parent(k)]] <= deadline[h[k]]
    BY DEF Ordered
  <2>2. Len \in Nat /\ DOMAIN h = 0 .. Len - 1 /\ k \in 1 .. Len - 1
    BY <2>1 DEF HeapInv, TypeOK
  <2>3. Parent(k) \in DOMAIN h /\ k \in DOMAIN h
    BY <2>2, ParentFacts
  <2>4. Key[Parent(k)] <= Key[k]
    BY <2>1, <2>2 DEF HeapInv, OrderOK, Heap
  <2>5. QED
    BY <2>3, <2>4 DEF Key
<1>2. QED
  BY <1>1, HeapInvariant, PTL

\* Between calls no request in the heap has an earlier deadline than the root,
\* the only one that the timer case of the loop looks at before it sets the
\* timer.
RootEarliest ==
  call = Idle => \A k \in DOMAIN h : deadline[h[0]] <= deadline[h[k]]

\* Whatever the heap went through, its root has the earliest deadline of all, so
\* that the timer case of the loop may stop at the first request that is not
\* due.
THEOREM RootAlwaysEarliest == Spec => []RootEarliest
<1>1. HeapInv => RootEarliest
  <2>1. SUFFICES ASSUME HeapInv, call = Idle, NEW k \in DOMAIN h
                 PROVE  deadline[h[0]] <= deadline[h[k]]
    BY DEF RootEarliest
  <2>2. Len \in Nat /\ DOMAIN h = 0 .. Len - 1 /\ Key \in [0 .. Len - 1 -> Nat]
        /\ Heap(Key, Len)
    BY <2>1, KeyFacts DEF HeapInv, TypeOK, OrderOK
  <2>3. Key[0] <= Key[k]
    BY <2>2, RootLeast, Zenon
  <2>4. 0 \in DOMAIN h
    BY <2>2
  <2>5. QED
    BY <2>3, <2>4 DEF Key
<1>2. QED
  BY <1>1, HeapInvariant, PTL

-----------------------------------------------------------------------------
(* The array implements the set of deadlines.                              *)

\* What the set calls pending, and the request leaving it.
Pending == {h[k] : k \in DOMAIN h}
Leaving == IF call.op \in {"none", "push"} THEN None ELSE [req |-> call.req, why |-> call.op]

\* A request taken out is told from none.
LEMMA LeavingFacts ==
  ASSUME NEW r \in Req, NEW why \in {"expire", "cancel"}
  PROVE  [req |-> r, why |-> why] # None
BY NoneAssumption

\* heap.Push adds one request to the set.
LEMMA PushAdds ==
  ASSUME HeapInv, NEW r \in Req, NEW t \in Times, Push(r, t)
  PROVE  Set!Next
<1>1. DOMAIN h = 0 .. Len - 1 /\ Len \in Nat
  BY DEF HeapInv, TypeOK
<1>2. Leaving = None /\ Leaving' = None
  BY IdleFacts DEF Push, Leaving, Idle
<1>3. r \notin Pending
  BY <1>1 DEF Pending, Push, HeapInv, IdxExact
<1>4. Pending' = Pending \cup {r}
  <2>1. DOMAIN h' = 0 .. Len /\ \A k \in 0 .. Len : h'[k] = IF k = Len THEN r ELSE h[k]
    BY DEF Push
  <2>2. QED
    BY <1>1, <2>1 DEF Pending
<1>5. \A q \in Req \ {r} : deadline'[q] = deadline[q]
  BY DEF Push, HeapInv, TypeOK
<1>6. Set!Add(r)
  BY <1>2, <1>3, <1>4, <1>5 DEF Set!Add, Pending, Leaving
<1>7. QED
  BY <1>6 DEF Set!Next

\* heap.Pop starts to take out an earliest request.
LEMMA PopExpires ==
  ASSUME HeapInv, Pop
  PROVE  Set!Next
<1>1. DOMAIN h = 0 .. Len - 1 /\ Len \in Nat /\ 0 \in DOMAIN h /\ Len - 1 \in DOMAIN h
      /\ h[0] \in Req
  BY DEF HeapInv, TypeOK, Pop
<1>2. Pending' = Pending
  BY <1>1, SwapFacts, Zenon DEF Pop, HeapInv, Pending
<1>3. Leaving = None /\ Leaving' = [req |-> h[0], why |-> "expire"]
  BY IdleFacts DEF Pop, Leaving
<1>4. \A q \in Pending : deadline[h[0]] <= deadline[q]
  <2>1. Key \in [0 .. Len - 1 -> Nat] /\ Heap(Key, Len)
    BY KeyFacts DEF HeapInv, OrderOK, Pop
  <2>2. \A k \in 0 .. Len - 1 : Key[0] <= Key[k]
    BY <1>1, <2>1, RootLeast, Zenon
  <2>3. QED
    BY <1>1, <2>2 DEF Pending, Key
<1>5. Set!Expire(h[0])
  BY <1>1, <1>2, <1>3, <1>4, Zenon DEF Set!Expire, Pending, Leaving, Pop
<1>6. QED
  BY <1>1, <1>5 DEF Set!Next

\* heap.Remove starts to take out the request it is called for.
LEMMA RemoveCancels ==
  ASSUME HeapInv, NEW r \in Req, Remove(r)
  PROVE  Set!Next
<1>1. DOMAIN h = 0 .. Len - 1 /\ Len \in Nat /\ idx[r] \in DOMAIN h /\ h[idx[r]] = r
  BY DEF HeapInv, TypeOK, IdxExact, Remove
<1>2. Len - 1 \in DOMAIN h
  BY <1>1
<1>3. Pending' = Pending
  <2>1. CASE idx[r] = Len - 1
    BY <2>1 DEF Remove, Pending
  <2>2. CASE idx[r] # Len - 1
    BY <1>1, <1>2, <2>2, SwapFacts, Zenon DEF Remove, HeapInv, Pending
  <2>3. QED
    BY <2>1, <2>2
<1>4. Leaving = None /\ Leaving' = [req |-> r, why |-> "cancel"] /\ r \in Pending
  BY <1>1, IdleFacts DEF Remove, Leaving, Pending
<1>5. Set!Cancel(r)
  BY <1>3, <1>4 DEF Set!Cancel, Pending, Leaving, Remove
<1>6. QED
  BY <1>5 DEF Set!Next

\* The turns of up and down do not change the set.
LEMMA SiftHidden ==
  ASSUME HeapInv, Up \/ Down
  PROVE  UNCHANGED <<Pending, deadline, Leaving>>
<1>1. /\ call # Idle /\ call \in Calls /\ Len \in Nat /\ DOMAIN h = 0 .. Len - 1
      /\ call.n \in 0 .. Len
  BY CallFacts DEF Up, Down
<1>2. UNCHANGED <<Leaving, deadline>>
  BY <1>1, IdleFacts DEF Up, Down, Leaving, Calls
<1>3. CASE UNCHANGED h
  BY <1>2, <1>3 DEF Pending
<1>4. CASE Up /\ call.at > 0 /\ Less(call.at, Parent(call.at))
  <2> DEFINE i == call.at
  <2>1. i \in Nat /\ i < call.n
    BY <1>1, <1>4 DEF Calls, HeapInv, CallOK, Up
  <2>2. Swap(i, Parent(i)) /\ i > 0
    BY <1>4 DEF Up
  <2> HIDE DEF i
  <2>3. i \in DOMAIN h /\ Parent(i) \in DOMAIN h
    BY <1>1, <2>1, <2>2, ParentFacts
  <2>4. QED
    BY <1>2, <2>2, <2>3, SwapFacts DEF HeapInv, Pending
<1>5. CASE Down /\ 2 * call.at + 1 < call.n /\ Less(Child(call.at), call.at)
  <2> DEFINE i == call.at
             n == call.n
             j == Child(i)
  <2>1. i \in Nat /\ Swap(i, j) /\ 2 * i + 1 < n
    BY <1>1, <1>5 DEF Calls, Down
  <2>2. j = 2 * i + 1 \/ (j = 2 * i + 2 /\ 2 * i + 2 < n)
    BY DEF Child
  <2> HIDE DEF i, n, j
  <2>3. n \in 0 .. Len
    BY <1>1 DEF n
  <2>4. i \in DOMAIN h /\ j \in DOMAIN h
    BY <1>1, <2>1, <2>2, <2>3
  <2>5. QED
    BY <1>2, <2>1, <2>4, SwapFacts DEF HeapInv, Pending
<1>6. QED
  BY <1>3, <1>4, <1>5 DEF Up, Down

\* timedHeap.Pop drops the request that leaves.
LEMMA ShrinkRemoves ==
  ASSUME HeapInv, Shrink
  PROVE  Set!Next
<1>1. /\ call # Idle /\ call \in Calls /\ Len \in Nat /\ DOMAIN h = 0 .. Len - 1
  BY CallFacts DEF Shrink
<1>2. call.op \in {"expire", "cancel"} /\ call.n = Len - 1 /\ call.req \in Req
      /\ h[Len - 1] = call.req /\ call.n \in Nat
  BY <1>1 DEF HeapInv, CallOK, Calls, Shrink
<1>3. Leaving = [req |-> call.req, why |-> call.op] /\ Leaving' = None
  BY <1>2, IdleFacts DEF Leaving, Shrink
<1>4. Leaving # None /\ Leaving.req = call.req
  BY <1>2, <1>3, LeavingFacts
<1>5. Pending' = Pending \ {call.req}
  <2>1. \A k \in 0 .. Len - 2 : h[k] # call.req
    BY <1>1, <1>2 DEF HeapInv, IdxExact
  <2>2. h' = [k \in 0 .. Len - 2 |-> h[k]]
    BY DEF Shrink
  <2>3. QED
    BY <1>1, <1>2, <2>1, <2>2 DEF Pending
<1>6. Set!Gone
  BY <1>3, <1>4, <1>5, Zenon DEF Set!Gone, Pending, Leaving, Shrink
<1>7. QED
  BY <1>6 DEF Set!Next

\* timedHeap with container/heap implements a set of deadlines: heap.Push adds
\* one request, heap.Pop takes out one with the earliest deadline, heap.Remove
\* takes out the one whose idx it is given, and nothing else ever enters or
\* leaves the set.
THEOREM HeapImplementsSet == Spec => ImplementsSet
<1>1. Init => Set!Init
  <2>1. ASSUME Init PROVE Pending = {} /\ Leaving = None /\ deadline \in [Req -> Int]
    BY <2>1 DEF Init, Idle, Pending, Leaving
  <2>2. QED
    BY <2>1 DEF Set!Init, Pending, Leaving
<1>2. HeapInv /\ [Next]_vars => [Set!Next]_Set!vars
  <2>1. SUFFICES ASSUME HeapInv, [Next]_vars, ~ Set!Next
                 PROVE  UNCHANGED <<Pending, deadline, Leaving>>
    BY Zenon DEF Set!vars, Pending, Leaving
  <2>2. CASE UNCHANGED vars
    BY <2>2 DEF vars, Pending, Leaving
  <2>3. QED
    BY <2>1, <2>2, PushAdds, PopExpires, RemoveCancels, SiftHidden, ShrinkRemoves DEF Next
<1>3. QED
  BY <1>1, <1>2, HeapInvariant, PTL DEF Spec, ImplementsSet, Set!Spec
=============================================================================

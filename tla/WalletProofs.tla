---------------------------- MODULE WalletProofs ----------------------------
(***************************************************************************)
(* Theorems about Wallet for every set of keys, requests and rollovers and *)
(* every length of the clock; then theorems about PaymentWebhook over the  *)
(* wallet of an organization (OrganizationWallet), for every set of keys,  *)
(* handlers and scenarios.  Both rest on the same facts about sums.        *)
(***************************************************************************)
EXTENDS Wallet, PaymentWebhook, FiniteSetTheorems, WellFoundedInduction, TLAPS

-----------------------------------------------------------------------------
(* Sums *)

\* Two sets that share nothing.
LEMMA ApartSize ==
  ASSUME NEW S, NEW T, IsFiniteSet(S), IsFiniteSet(T), S \cap T = {}
  PROVE  IsFiniteSet(S \cup T) /\ Cardinality(S \cup T) = Cardinality(S) + Cardinality(T)
<1>1. Cardinality(S \cap T) = 0
  BY FS_EmptySet
<1>2. Cardinality(S) \in Nat /\ Cardinality(T) \in Nat
  BY FS_CardinalityType
<1>3. IsFiniteSet(S \cup T)
      /\ Cardinality(S \cup T) = Cardinality(S) + Cardinality(T) - Cardinality(S \cap T)
  BY FS_Union
<1>4. QED
  BY <1>1, <1>2, <1>3

LEMMA PartSize ==
  ASSUME NEW x, NEW n \in Nat
  PROVE  IsFiniteSet({x} \X (1 .. n)) /\ Cardinality({x} \X (1 .. n)) = n
<1> DEFINE one == {x}
           numbers == 1 .. n
<1>1. IsFiniteSet(one) /\ Cardinality(one) = 1
  BY FS_Singleton
<1>2. IsFiniteSet(numbers) /\ Cardinality(numbers) = n
  <2>1. IsFiniteSet(1 .. n) /\ Cardinality(1 .. n) = IF 1 > n THEN 0 ELSE n - 1 + 1
    BY FS_Interval
  <2>2. QED
    BY <2>1
<1> HIDE DEF one, numbers
<1>3. /\ IsFiniteSet(one \X numbers)
      /\ Cardinality(one \X numbers) = Cardinality(one) * Cardinality(numbers)
  BY <1>1, <1>2, FS_Product
<1>4. IsFiniteSet(one \X numbers) /\ Cardinality(one \X numbers) = n
  BY <1>1, <1>2, <1>3
<1>5. QED
  BY <1>4 DEF one, numbers

LEMMA UnitIs ==
  ASSUME NEW S, NEW f \in [S -> Nat], NEW u
  PROVE  (u \in Units(f)) <=> (\E x \in S : \E i \in 1 .. f[x] : u = <<x, i>>)
BY DEF Units

\* The units of a function are finitely many when its domain is finite.
LEMMA TotalFinite ==
  ASSUME NEW S, IsFiniteSet(S), NEW f \in [S -> Nat]
  PROVE  IsFiniteSet(Units(f)) /\ Total(f) \in Nat
<1> DEFINE parts == {{x} \X (1 .. f[x]) : x \in S}
           part == [x \in S |-> {x} \X (1 .. f[x])]
<1>1. part \in Surjection(S, parts)
  BY DEF Surjection
<1> HIDE DEF part
<1>2. IsFiniteSet(parts)
  BY <1>1, FS_Surjection
<1>3. \A P \in parts : IsFiniteSet(P)
  <2>1. SUFFICES ASSUME NEW x \in S
                 PROVE  IsFiniteSet({x} \X (1 .. f[x]))
    OBVIOUS
  <2>2. f[x] \in Nat
    OBVIOUS
  <2>3. QED
    BY <2>2, PartSize
<1>4. IsFiniteSet(UNION parts)
  <2> HIDE DEF parts
  <2>1. QED
    BY <1>2, <1>3, FS_UNION
<1>5. Units(f) = UNION parts
  BY DEF Units
<1>6. QED
  BY <1>4, <1>5, FS_CardinalityType DEF Total

\* Where a function has no units.
LEMMA TotalZero ==
  ASSUME NEW S, NEW f \in [S -> Nat], \A x \in S : f[x] = 0
  PROVE  IsFiniteSet(Units(f)) /\ Total(f) = 0
<1>1. Units(f) = {}
  BY DEF Units
<1>2. QED
  BY <1>1, FS_EmptySet DEF Total

\* Where all units are of one key.
LEMMA TotalOfOne ==
  ASSUME NEW S, NEW f \in [S -> Nat], NEW x \in S,
         \A y \in S : y # x => f[y] = 0
  PROVE  IsFiniteSet(Units(f)) /\ Total(f) = f[x]
<1>1. \A u : (u \in Units(f)) <=> (\E i \in 1 .. f[x] : u = <<x, i>>)
  <2>1. ASSUME NEW y \in S, NEW i \in 1 .. f[y]
        PROVE  y = x
    BY <2>1
  <2>2. QED
    BY <2>1, UnitIs
<1>2. Units(f) = {x} \X (1 .. f[x])
  <2>1. \A u : (u \in {x} \X (1 .. f[x])) <=> (\E i \in 1 .. f[x] : u = <<x, i>>)
    OBVIOUS
  <2>2. \A u : u \in Units(f) <=> u \in {x} \X (1 .. f[x])
    BY <1>1, <2>1
  <2>3. QED
    BY <2>2
<1>3. f[x] \in Nat
  OBVIOUS
<1>4. IsFiniteSet({x} \X (1 .. f[x])) /\ Cardinality({x} \X (1 .. f[x])) = f[x]
  BY <1>3, PartSize
<1>5. QED
  BY <1>2, <1>4 DEF Total

\* The total of a sum is the sum of the totals.
LEMMA TotalOfSum ==
  ASSUME NEW S, NEW f \in [S -> Nat], NEW g \in [S -> Nat], NEW h \in [S -> Nat],
         \A x \in S : h[x] = f[x] + g[x],
         IsFiniteSet(Units(f)), IsFiniteSet(Units(g))
  PROVE  IsFiniteSet(Units(h)) /\ Total(h) = Total(f) + Total(g)
<1> DEFINE rest == Units(h) \ Units(f)
           up == [u \in Units(g) |-> <<u[1], f[u[1]] + u[2]>>]
<1>1. Units(f) \subseteq Units(h)
  <2>1. SUFFICES ASSUME NEW x \in S, NEW i \in 1 .. f[x]
                 PROVE  <<x, i>> \in Units(h)
    BY UnitIs
  <2>2. i \in 1 .. h[x]
    OBVIOUS
  <2>3. QED
    BY <2>2, UnitIs
<1>2. \A u : (u \in rest) <=> (\E x \in S : \E i \in (f[x] + 1) .. h[x] : u = <<x, i>>)
  <2>1. ASSUME NEW u, u \in rest
        PROVE  \E x \in S : \E i \in (f[x] + 1) .. h[x] : u = <<x, i>>
    <3>1. PICK x \in S : \E i \in 1 .. h[x] : u = <<x, i>>
      BY <2>1, UnitIs
    <3>2. PICK i \in 1 .. h[x] : u = <<x, i>>
      BY <3>1
    <3>3. i \notin 1 .. f[x]
      BY <2>1, <3>2, UnitIs
    <3>4. i \in (f[x] + 1) .. h[x]
      BY <3>3
    <3>5. QED
      BY <3>2, <3>4
  <2>2. ASSUME NEW x \in S, NEW i \in (f[x] + 1) .. h[x]
        PROVE  <<x, i>> \in rest
    <3>1. i \in 1 .. h[x] /\ i \notin 1 .. f[x]
      OBVIOUS
    <3>2. <<x, i>> \in Units(h)
      BY <3>1, UnitIs
    <3>3. <<x, i>> \notin Units(f)
      BY <3>1, UnitIs
    <3>4. QED
      BY <3>2, <3>3
  <2>3. QED
    BY <2>1, <2>2
<1> HIDE DEF rest
<1>3. up \in Bijection(Units(g), rest)
  <2>1. ASSUME NEW u \in Units(g)
        PROVE  /\ up[u] \in rest
               /\ \E x \in S : \E i \in 1 .. g[x] : u = <<x, i>> /\ up[u] = <<x, f[x] + i>>
    <3>1. PICK x \in S : \E i \in 1 .. g[x] : u = <<x, i>>
      BY UnitIs
    <3>2. PICK i \in 1 .. g[x] : u = <<x, i>>
      BY <3>1
    <3>3. up[u] = <<x, f[x] + i>>
      BY <3>2
    <3>4. f[x] + i \in (f[x] + 1) .. h[x]
      OBVIOUS
    <3>5. QED
      BY <1>2, <3>2, <3>3, <3>4
  <2>2. ASSUME NEW u \in Units(g), NEW v \in Units(g), up[u] = up[v]
        PROVE  u = v
    <3>1. PICK x \in S : \E i \in 1 .. g[x] : u = <<x, i>> /\ up[u] = <<x, f[x] + i>>
      BY <2>1
    <3>2. PICK i \in 1 .. g[x] : u = <<x, i>> /\ up[u] = <<x, f[x] + i>>
      BY <3>1
    <3>3. PICK y \in S : \E j \in 1 .. g[y] : v = <<y, j>> /\ up[v] = <<y, f[y] + j>>
      BY <2>1
    <3>4. PICK j \in 1 .. g[y] : v = <<y, j>> /\ up[v] = <<y, f[y] + j>>
      BY <3>3
    <3>5. x = y
      BY <2>2, <3>2, <3>4
    <3>6. f[x] + i = f[x] + j
      BY <2>2, <3>2, <3>4, <3>5
    <3>7. i = j
      BY <3>5, <3>6
    <3>8. QED
      BY <3>2, <3>4, <3>5, <3>7
  <2>3. ASSUME NEW v \in rest
        PROVE  \E u \in Units(g) : up[u] = v
    <3>1. PICK x \in S : \E j \in (f[x] + 1) .. h[x] : v = <<x, j>>
      BY <1>2
    <3>2. PICK j \in (f[x] + 1) .. h[x] : v = <<x, j>>
      BY <3>1
    <3>3. j - f[x] \in 1 .. g[x] /\ f[x] + (j - f[x]) = j
      OBVIOUS
    <3>4. <<x, j - f[x]>> \in Units(g)
      BY <3>3, UnitIs
    <3>5. up[<<x, j - f[x]>>] = v
      BY <3>2, <3>3, <3>4
    <3>6. QED
      BY <3>4, <3>5
  <2>4. up \in [Units(g) -> rest]
    BY <2>1
  <2> HIDE DEF up
  <2>5. QED
    BY <2>2, <2>3, <2>4 DEF Bijection, Injection, Surjection, IsInjective
<1>4. IsFiniteSet(rest) /\ Cardinality(rest) = Total(g)
  <2>1. ExistsBijection(Units(g), rest)
    BY <1>3 DEF ExistsBijection
  <2>2. QED
    BY <2>1, FS_Bijection DEF Total
<1>5. Units(f) \cup rest = Units(h) /\ Units(f) \cap rest = {}
  BY <1>1 DEF rest
<1>6. QED
  BY <1>4, <1>5, ApartSize DEF Total

\* What is less everywhere is less in total, and less if it is less somewhere.
LEMMA TotalGrows ==
  ASSUME NEW S, NEW f \in [S -> Nat], NEW g \in [S -> Nat],
         \A x \in S : f[x] <= g[x], IsFiniteSet(Units(g))
  PROVE  /\ IsFiniteSet(Units(f)) /\ Total(f) <= Total(g)
         /\ Total(f) = Total(g) => \A x \in S : f[x] = g[x]
<1>1. Units(f) \subseteq Units(g)
  <2>1. SUFFICES ASSUME NEW x \in S, NEW i \in 1 .. f[x]
                 PROVE  <<x, i>> \in Units(g)
    BY UnitIs
  <2>2. i \in 1 .. g[x]
    OBVIOUS
  <2>3. QED
    BY <2>2, UnitIs
<1>2. /\ IsFiniteSet(Units(f)) /\ Total(f) <= Total(g)
      /\ Total(g) = Total(f) => Units(g) = Units(f)
  BY <1>1, FS_Subset DEF Total
<1>3. ASSUME Units(g) = Units(f), NEW x \in S, f[x] # g[x]
      PROVE  FALSE
  <2>1. g[x] \in 1 .. g[x] /\ g[x] \notin 1 .. f[x]
    BY <1>3
  <2>2. <<x, g[x]>> \in Units(g)
    BY <2>1, UnitIs
  <2>3. \E y \in S : \E i \in 1 .. f[y] : <<x, g[x]>> = <<y, i>>
    BY <1>3, <2>2, UnitIs
  <2>4. QED
    BY <2>1, <2>3
<1>4. QED
  BY <1>2, <1>3

\* What is left of a total when part of it is taken.
LEMMA TotalOfRest ==
  ASSUME NEW S, NEW f \in [S -> Nat], NEW g \in [S -> Nat], NEW d \in [S -> Nat],
         \A x \in S : g[x] = f[x] - d[x], IsFiniteSet(Units(f))
  PROVE  /\ IsFiniteSet(Units(g)) /\ IsFiniteSet(Units(d))
         /\ Total(g) = Total(f) - Total(d)
         /\ Total(f) \in Nat /\ Total(g) \in Nat /\ Total(d) \in Nat
<1>1. (\A x \in S : d[x] <= f[x]) /\ (\A x \in S : g[x] <= f[x])
  <2>1. ASSUME NEW x \in S
        PROVE  d[x] <= f[x] /\ g[x] <= f[x]
    <3>1. f[x] \in Nat /\ g[x] \in Nat /\ d[x] \in Nat /\ g[x] = f[x] - d[x]
      OBVIOUS
    <3>2. QED
      BY <3>1
  <2>2. QED
    BY <2>1
<1>2. IsFiniteSet(Units(g)) /\ IsFiniteSet(Units(d))
  BY <1>1, TotalGrows
<1>3. \A x \in S : f[x] = g[x] + d[x]
  <2>1. ASSUME NEW x \in S
        PROVE  f[x] = g[x] + d[x]
    <3>1. f[x] \in Nat /\ g[x] \in Nat /\ d[x] \in Nat /\ g[x] = f[x] - d[x]
      OBVIOUS
    <3>2. QED
      BY <3>1
  <2>2. QED
    BY <2>1
<1>4. Total(f) = Total(g) + Total(d)
  BY <1>2, <1>3, TotalOfSum
<1>5. Total(f) \in Nat /\ Total(g) \in Nat /\ Total(d) \in Nat
  BY <1>2, FS_CardinalityType DEF Total
<1>6. QED
  BY <1>2, <1>4, <1>5

\* A greatest member of a bounded set of numbers.
LEMMA HasGreatest ==
  ASSUME NEW S, S \subseteq Nat, S # {}, NEW m \in Nat, \A x \in S : x <= m
  PROVE  \E x \in S : \A y \in S : y <= x
<1> DEFINE R == OpToRel(<, Nat)
           below == {m - x : x \in S}
<1>1. IsWellFoundedOn(R, Nat)
  BY NatLessThanWellFounded
<1>2. \A x, y \in Nat : x < y => <<x, y>> \in R
  BY DEF OpToRel
<1> HIDE DEF R
<1>3. below \subseteq Nat /\ below # {}
  <2>1. ASSUME NEW x \in S
        PROVE  m - x \in Nat
    <3>1. x \in Nat /\ x <= m
      OBVIOUS
    <3>2. QED
      BY <3>1
  <2>2. QED
    BY <2>1
<1>4. PICK z \in below : \A y \in below : ~ (<<y, z>> \in R)
  BY <1>1, <1>3, WFMin
<1>5. PICK x \in S : z = m - x
  OBVIOUS
<1>6. ASSUME NEW y \in S
      PROVE  y <= x
  <2>1. m - y \in below /\ m - y \in Nat /\ z \in Nat
    BY <1>3
  <2>2. ~(m - y < z)
    BY <1>2, <1>4, <2>1
  <2>3. x \in Nat /\ y \in Nat
    OBVIOUS
  <2>4. QED
    BY <1>5, <2>2, <2>3
<1>7. QED
  BY <1>6

-----------------------------------------------------------------------------
(* Type correctness *)

LEMMA NeverIsLater == Never \in Nat /\ Times \subseteq Nat /\ NoCycle \in Nat
BY ConstantsAssumption DEF Never, Times, NoCycle

LEMMA RequestType ==
  ASSUME NEW q \in Requests
  PROVE  /\ q.op = "grant" => /\ q.key \in GrantKeys /\ q.amount \in Credits
                              /\ q.expires \in Times \cup {Never}
                              /\ q.cycle \in Times \cup {NoCycle}
         /\ q.op = "adjust" => q.key \in AdjustKeys /\ q.amount \in Credits
         /\ q.op = "reserve" => q.key \in ReserveKeys /\ q.amount \in Credits
         /\ q.op = "settle" => /\ q.key \in SettleKeys
                               /\ q.reservation \in ReserveKeys
                               /\ q.billable \in Nat
BY ConstantsAssumption DEF AllRequests

\* A bucket row as inserted is well typed.
LEMMA NewBucketType ==
  ASSUME NEW amount \in Nat, NEW expires \in Times \cup {Never},
         NEW cycle \in Times \cup {NoCycle}
  PROVE  NewBucket(amount, expires, cycle) \in BucketRow
<1>1. BucketCount \in Nat
  BY ConstantsAssumption, FS_Subset, FS_CardinalityType DEF BucketCount
<1>2. QED
  BY <1>1 DEF NewBucket, BucketRow

LEMMA CreditsFromUsdType ==
  ASSUME NEW usd \in Nat
  PROVE  CreditsFromUsd(usd) \in Nat
BY DEF CreditsFromUsd, UsdPerCredit

\* What has expired, and how much of it is logged.
LEMMA StaleType ==
  ASSUME TypeOK
  PROVE  /\ Stale \in [BucketKeys -> Nat] /\ LoggedExpiry \in [BucketKeys -> Nat]
         /\ Total(Stale) \in Nat /\ Total(LoggedExpiry) \in Nat
         /\ Total(LoggedExpiry) <= Total(Stale)
         /\ IsFiniteSet(Units(Stale))
<1>1. Stale \in [BucketKeys -> Nat]
  BY DEF Stale, TypeOK, BucketRow
<1>2. LoggedExpiry \in [BucketKeys -> Nat]
  BY <1>1 DEF LoggedExpiry
<1>3. \A b \in BucketKeys : LoggedExpiry[b] <= Stale[b]
  BY <1>1 DEF LoggedExpiry
<1>4. IsFiniteSet(Units(Stale)) /\ Total(Stale) \in Nat /\ Total(LoggedExpiry) \in Nat
  BY <1>1, <1>2, ConstantsAssumption, TotalFinite
<1>5. QED
  BY <1>1, <1>2, <1>3, <1>4, TotalGrows

LEMMA SumType ==
  ASSUME NEW sum \in [available : Int, reserved : Int, consumed : Int],
         NEW a \in Int, NEW d \in Int, NEW r
  PROVE  /\ r = [sum EXCEPT !.available = a, !.reserved = @ + d] =>
              r \in [available : Int, reserved : Int, consumed : Int]
         /\ r = [sum EXCEPT !.available = a] =>
              r \in [available : Int, reserved : Int, consumed : Int]
<1>1. ASSUME r = [sum EXCEPT !.available = a, !.reserved = @ + d]
      PROVE  r \in [available : Int, reserved : Int, consumed : Int]
  <2>1. r = [available |-> a, reserved |-> sum.reserved + d, consumed |-> sum.consumed]
    BY <1>1
  <2>2. QED
    BY <2>1
<1>2. ASSUME r = [sum EXCEPT !.available = a]
      PROVE  r \in [available : Int, reserved : Int, consumed : Int]
  <2>1. r = [available |-> a, reserved |-> sum.reserved, consumed |-> sum.consumed]
    BY <1>2
  <2>2. QED
    BY <2>1
<1>3. QED
  BY <1>1, <1>2

LEMMA BoundedIsNat ==
  ASSUME NEW S, NEW n \in Nat, NEW f \in [S -> 0 .. n]
  PROVE  f \in [S -> Nat]
OBVIOUS

LEMMA InitType == Init => TypeOK
BY ConstantsAssumption, NeverIsLater
DEF Init, TypeOK, NoBucket, BucketRow, Times, NoCycle, Never

LEMMA BeginType ==
  ASSUME TypeOK, NEW c \in Clients, NEW q \in Requests, Begin(c, q)
  PROVE  TypeOK'
BY DEF TypeOK, Begin, tables

LEMMA RollbackType ==
  ASSUME TypeOK, NEW c \in Clients, Rollback(c)
  PROVE  TypeOK'
BY DEF TypeOK, Rollback, tables

LEMMA GrantType ==
  ASSUME TypeOK, NEW c \in Clients, Grant(c)
  PROVE  TypeOK'
<1> DEFINE q == inflight[c]
<1>1. q \in Requests /\ q.op = "grant" /\ inflight' \in [Clients -> Requests \cup {NoRequest}]
  BY DEF TypeOK, Grant, Commits
<1>2. NewBucket(q.amount, q.expires, q.cycle) \in BucketRow
  BY <1>1, RequestType, NewBucketType DEF Credits
<1>3. q.key \in BucketKeys /\ q.amount \in Nat
  BY <1>1, RequestType DEF BucketKeys, Credits
<1>4. UNCHANGED <<now, reservations, settlements>>
  BY DEF Grant, Commits
<1>5. wallet' \in [available : Nat, reserved : Nat, consumed : Nat]
  BY <1>3 DEF TypeOK, Grant
<1>6. buckets' \in [BucketKeys -> BucketRow]
  BY <1>2, <1>3 DEF TypeOK, Grant
<1>7. ledgerSum' \in [available : Int, reserved : Int, consumed : Int]
  BY <1>3 DEF TypeOK, Grant
<1>8. QED
  BY <1>1, <1>4, <1>5, <1>6, <1>7 DEF TypeOK

LEMMA ReserveType ==
  ASSUME TypeOK, NEW c \in Clients, Reserve(c)
  PROVE  TypeOK'
<1> DEFINE q == inflight[c]
           swept == Swept
<1>1. q \in Requests /\ q.op = "reserve" /\ inflight' \in [Clients -> Requests \cup {NoRequest}]
  BY DEF TypeOK, Reserve, Commits
<1>2. q.key \in ReserveKeys /\ q.amount \in Nat
  BY <1>1, RequestType DEF Credits
<1>3. PICK from \in [BucketKeys -> 0 .. q.amount] :
        /\ reservations' = [reservations EXCEPT ![q.key] =
             [status |-> "RESERVED", amount |-> q.amount, from |-> from]]
        /\ buckets' = [b \in BucketKeys |->
             [swept.buckets[b] EXCEPT !.available = @ - from[b],
                                      !.reserved = @ + from[b]]]
  BY DEF Reserve
<1>4. from \in [BucketKeys -> Nat]
  BY <1>2, BoundedIsNat
<1>5. reservations' \in [ReserveKeys -> [status : {"none", "RESERVED", "SETTLED"},
                                        amount : Nat, from : [BucketKeys -> Nat]]]
  BY <1>2, <1>3, <1>4 DEF TypeOK
<1>6. \A b \in BucketKeys : buckets'[b].available \in Nat /\ buckets'[b].reserved \in Nat
  BY DEF Reserve, ChecksHold
<1>7. buckets' \in [BucketKeys -> BucketRow]
  <2>1. SUFFICES ASSUME NEW b \in BucketKeys
                 PROVE  buckets'[b] \in BucketRow
    BY <1>3
  <2>2. swept.buckets[b] = [buckets[b] EXCEPT !.available = @ - Stale[b]]
    BY DEF Swept, WithoutStale
  <2>3. buckets'[b] = [[buckets[b] EXCEPT !.available = @ - Stale[b]]
                         EXCEPT !.available = @ - from[b], !.reserved = @ + from[b]]
    BY <1>3, <2>2
  <2>4. buckets[b] \in BucketRow
    BY DEF TypeOK
  <2>5. QED
    BY <1>6, <2>3, <2>4 DEF BucketRow
<1>8. wallet' \in [available : Nat, reserved : Nat, consumed : Nat]
  BY DEF TypeOK, Reserve, ChecksHold
<1>9. ledgerSum' \in [available : Int, reserved : Int, consumed : Int]
  <2>1. ledgerSum' = [ledgerSum EXCEPT !.available = @ - swept.logged - q.amount,
                                       !.reserved = @ + q.amount]
    BY DEF Reserve
  <2>2. q.amount \in Int /\ ledgerSum \in [available : Int, reserved : Int, consumed : Int]
    BY <1>2 DEF TypeOK
  <2>3. swept.logged \in Int
    BY StaleType DEF Swept
  <2> HIDE DEF q, swept
  <2>4. ledgerSum.available - swept.logged - q.amount \in Int
    BY <2>2, <2>3
  <2>5. QED
    BY <2>1, <2>2, <2>4, SumType
<1>10. UNCHANGED <<now, settlements>>
  BY DEF Reserve, Commits
<1>11. QED
  BY <1>1, <1>5, <1>7, <1>8, <1>9, <1>10 DEF TypeOK

LEMMA SettleType ==
  ASSUME TypeOK, NEW c \in Clients, Settle(c)
  PROVE  TypeOK'
<1> DEFINE q == inflight[c]
           reservation == reservations[q.reservation]
           settled == CreditsFromUsd(q.billable)
           released == reservation.amount - settled
<1>1. q \in Requests /\ q.op = "settle" /\ inflight' \in [Clients -> Requests \cup {NoRequest}]
  BY DEF TypeOK, Settle, Commits
<1>2. q.key \in SettleKeys /\ q.reservation \in ReserveKeys /\ settled \in Nat
  BY <1>1, RequestType, CreditsFromUsdType
<1>3. reservation.amount \in Nat /\ settled <= reservation.amount /\ released \in Nat
  <2>1. reservation.amount \in Nat
    BY <1>2 DEF TypeOK
  <2>2. settled <= reservation.amount
    BY DEF Settle, Chargeable
  <2> HIDE DEF settled, reservation
  <2>3. QED
    BY <1>2, <2>1, <2>2
<1>4. settlements' \in [SettleKeys -> [reservation : ReserveKeys \cup {NoReservation},
                                      settled : Nat, released : Nat]]
  <2>1. settlements' = [settlements EXCEPT ![q.key] =
          [reservation |-> q.reservation, settled |-> settled, released |-> released]]
    BY DEF Settle
  <2> HIDE DEF q, settled, released, reservation
  <2>2. QED
    BY <1>2, <1>3, <2>1 DEF TypeOK
<1>5. reservations' \in [ReserveKeys -> [status : {"none", "RESERVED", "SETTLED"},
                                        amount : Nat, from : [BucketKeys -> Nat]]]
  <2>1. reservations' = [reservations EXCEPT ![q.reservation].status = "SETTLED"]
    BY DEF Settle
  <2> HIDE DEF q
  <2>2. QED
    BY <1>2, <2>1 DEF TypeOK
<1>6. wallet' \in [available : Nat, reserved : Nat, consumed : Nat]
  <2>1. PICK a, r, u : wallet' = [available |-> a, reserved |-> r, consumed |-> u]
    BY DEF Settle
  <2>2. wallet'.available \in Nat /\ wallet'.reserved \in Nat /\ wallet'.consumed \in Nat
    BY DEF Settle, ChecksHold
  <2>3. QED
    BY <2>1, <2>2
<1>7. buckets' \in [BucketKeys -> BucketRow]
  <2>1. PICK used \in [BucketKeys -> 0 .. settled], back \in [BucketKeys -> 0 .. released] :
          buckets' = [b \in BucketKeys |-> Freed(b, used, back)]
    BY DEF Settle
  <2>2. \A b \in BucketKeys : buckets'[b].available \in Nat /\ buckets'[b].reserved \in Nat
    BY DEF Settle, ChecksHold
  <2> HIDE DEF settled, released
  <2>3. ASSUME NEW b \in BucketKeys
        PROVE  buckets'[b] \in BucketRow
    <3>1. buckets'[b] = [buckets[b] EXCEPT !.available = @ + back[b],
                                           !.reserved = @ - used[b] - back[b]]
      BY <2>1 DEF Freed
    <3>2. buckets[b] \in BucketRow
      BY DEF TypeOK
    <3>3. QED
      BY <2>2, <3>1, <3>2 DEF BucketRow
  <2>4. QED
    BY <2>1, <2>3
<1>8. ledgerSum' \in [available : Int, reserved : Int, consumed : Int]
  <2>1. ledgerSum' = [available |-> ledgerSum.available + released,
                      reserved  |-> ledgerSum.reserved - settled - released,
                      consumed  |-> ledgerSum.consumed + settled]
    BY DEF Settle
  <2> HIDE DEF q, settled, released, reservation
  <2>2. QED
    BY <1>2, <1>3, <2>1 DEF TypeOK
<1>9. UNCHANGED now
  BY DEF Settle, Commits
<1>10. QED
  BY <1>1, <1>4, <1>5, <1>6, <1>7, <1>8, <1>9 DEF TypeOK

LEMMA AdjustUpType ==
  ASSUME TypeOK, NEW c \in Clients, AdjustUp(c)
  PROVE  TypeOK'
<1> DEFINE q == inflight[c]
           swept == Swept
<1>1. q \in Requests /\ q.op = "adjust" /\ inflight' \in [Clients -> Requests \cup {NoRequest}]
  BY DEF TypeOK, AdjustUp, Commits
<1>2. q.key \in BucketKeys /\ q.amount \in Nat
  BY <1>1, RequestType DEF BucketKeys, Credits
<1>3. NewBucket(q.amount, Never, NoCycle) \in BucketRow
  BY <1>2, NewBucketType
<1>4. buckets' = [swept.buckets EXCEPT ![q.key] = NewBucket(q.amount, Never, NoCycle)]
  BY DEF AdjustUp
<1>5. \A b \in BucketKeys : buckets'[b].available \in Nat
  BY DEF AdjustUp, ChecksHold
<1>6. buckets' \in [BucketKeys -> BucketRow]
  <2>1. swept.buckets = [b \in BucketKeys |-> [buckets[b] EXCEPT !.available = @ - Stale[b]]]
    BY DEF Swept, WithoutStale
  <2> HIDE DEF q, swept
  <2>2. ASSUME NEW b \in BucketKeys
        PROVE  buckets'[b] \in BucketRow
    <3>1. CASE b = q.key
      BY <1>2, <1>3, <1>4, <2>1, <3>1
    <3>2. CASE b # q.key
      <4>1. buckets'[b] = [buckets[b] EXCEPT !.available = @ - Stale[b]]
        BY <1>4, <2>1, <3>2
      <4>2. buckets[b] \in BucketRow
        BY DEF TypeOK
      <4>3. QED
        BY <1>5, <4>1, <4>2 DEF BucketRow
    <3>3. QED
      BY <3>1, <3>2
  <2>3. buckets' = [b \in BucketKeys |-> buckets'[b]]
    BY <1>4, <2>1
  <2>4. QED
    BY <2>2, <2>3
<1>7. wallet' \in [available : Nat, reserved : Nat, consumed : Nat]
  BY DEF TypeOK, AdjustUp, ChecksHold
<1>8. ledgerSum' \in [available : Int, reserved : Int, consumed : Int]
  <2>1. ledgerSum' = [ledgerSum EXCEPT !.available = @ - Total(LoggedExpiry) + q.amount]
    BY DEF AdjustUp, Swept
  <2>2. ledgerSum \in [available : Int, reserved : Int, consumed : Int]
    BY DEF TypeOK
  <2> HIDE DEF q
  <2>3. ledgerSum.available - Total(LoggedExpiry) + q.amount \in Int
    BY <1>2, <2>2, StaleType
  <2>4. QED
    BY <2>1, <2>2, <2>3, SumType
<1>9. UNCHANGED <<now, reservations, settlements>>
  BY DEF AdjustUp, Commits
<1>10. QED
  BY <1>1, <1>6, <1>7, <1>8, <1>9 DEF TypeOK

LEMMA AdjustDownType ==
  ASSUME TypeOK, NEW c \in Clients, AdjustDown(c)
  PROVE  TypeOK'
<1> DEFINE q == inflight[c]
           swept == Swept
<1>0. q \in Requests /\ q.op = "adjust" /\ q.amount \in Nat
  BY RequestType DEF TypeOK, AdjustDown, Commits, Credits
<1>1. inflight' \in [Clients -> Requests \cup {NoRequest}]
  BY DEF TypeOK, AdjustDown, Commits
<1>2. PICK from :
        buckets' = [b \in BucketKeys |->
          [swept.buckets[b] EXCEPT !.available = @ - from[b]]]
  BY DEF AdjustDown
<1>3. \A b \in BucketKeys : buckets'[b].available \in Nat
  BY DEF AdjustDown, ChecksHold
<1>4. buckets' \in [BucketKeys -> BucketRow]
  <2>1. ASSUME NEW b \in BucketKeys
        PROVE  buckets'[b] \in BucketRow
    <3>1. swept.buckets[b] = [buckets[b] EXCEPT !.available = @ - Stale[b]]
      BY DEF Swept, WithoutStale
    <3>2. buckets'[b] = [[buckets[b] EXCEPT !.available = @ - Stale[b]]
                           EXCEPT !.available = @ - from[b]]
      BY <1>2, <3>1
    <3>3. buckets[b] \in BucketRow
      BY DEF TypeOK
    <3>4. QED
      BY <1>3, <3>2, <3>3 DEF BucketRow
  <2>2. QED
    BY <1>2, <2>1
<1>5. wallet' \in [available : Nat, reserved : Nat, consumed : Nat]
  BY DEF TypeOK, AdjustDown, ChecksHold
<1>6. ledgerSum' \in [available : Int, reserved : Int, consumed : Int]
  <2>1. ledgerSum' = [ledgerSum EXCEPT !.available = @ - Total(LoggedExpiry) - q.amount]
    BY DEF AdjustDown, Swept
  <2>2. ledgerSum \in [available : Int, reserved : Int, consumed : Int]
    BY DEF TypeOK
  <2> HIDE DEF q
  <2>3. ledgerSum.available - Total(LoggedExpiry) - q.amount \in Int
    BY <1>0, <2>2, StaleType
  <2>4. QED
    BY <2>1, <2>2, <2>3, SumType
<1>7. UNCHANGED <<now, reservations, settlements>>
  BY DEF AdjustDown, Commits
<1>8. QED
  BY <1>1, <1>4, <1>5, <1>6, <1>7 DEF TypeOK

LEMMA ReadBalanceType ==
  ASSUME TypeOK, ReadBalance
  PROVE  TypeOK'
<1>1. buckets' = [b \in BucketKeys |-> [buckets[b] EXCEPT !.available = @ - Stale[b]]]
  BY DEF ReadBalance, Swept, WithoutStale
<1>2. \A b \in BucketKeys : buckets'[b].available \in Nat
  BY DEF ReadBalance, ChecksHold
<1>3. buckets' \in [BucketKeys -> BucketRow]
  <2>1. ASSUME NEW b \in BucketKeys
        PROVE  buckets'[b] \in BucketRow
    <3>1. buckets'[b] = [buckets[b] EXCEPT !.available = @ - Stale[b]]
      BY <1>1
    <3>2. buckets[b] \in BucketRow
      BY DEF TypeOK
    <3>3. QED
      BY <1>2, <3>1, <3>2 DEF BucketRow
  <2>2. QED
    BY <1>1, <2>1
<1>4. wallet' \in [available : Nat, reserved : Nat, consumed : Nat]
  BY DEF TypeOK, ReadBalance, ChecksHold
<1>5. ledgerSum' \in [available : Int, reserved : Int, consumed : Int]
  <2>1. ledgerSum' = [ledgerSum EXCEPT !.available = @ - Total(LoggedExpiry)]
    BY DEF ReadBalance, Swept
  <2>2. ledgerSum \in [available : Int, reserved : Int, consumed : Int]
    BY DEF TypeOK
  <2>3. ledgerSum.available - Total(LoggedExpiry) \in Int
    BY <2>2, StaleType
  <2>4. QED
    BY <2>1, <2>2, <2>3, SumType
<1>6. UNCHANGED <<now, reservations, settlements, inflight>>
  BY DEF ReadBalance
<1>7. QED
  BY <1>3, <1>4, <1>5, <1>6 DEF TypeOK

LEMMA RolloverType ==
  ASSUME TypeOK, NEW r \in Rollovers, Rollover(r)
  PROVE  TypeOK'
<1> DEFINE source == Newest(RolloverSources(r.period))
           moved == IF buckets[source].available < r.limit
                      THEN buckets[source].available ELSE r.limit
<1>1. /\ r.key \in BucketKeys /\ r.limit \in Nat
      /\ r.period \in Times \cup {NoCycle} /\ r.expires \in Times \cup {Never}
  BY ConstantsAssumption DEF AllRollovers, BucketKeys, Credits
<1>2. buckets' = [buckets EXCEPT ![source].available = @ - moved,
                                 ![r.key] = NewBucket(moved, r.expires, r.period)]
  BY DEF Rollover
<1>3. \A b \in BucketKeys : buckets'[b].available \in Nat
  BY DEF Rollover, ChecksHold
<1> HIDE DEF source, moved
<1>4. buckets \in [BucketKeys -> BucketRow]
  BY DEF TypeOK
<1>5. NewBucket(moved, r.expires, r.period) \in BucketRow
  <2>1. buckets'[r.key] = NewBucket(moved, r.expires, r.period)
    BY <1>1, <1>2, <1>4
  <2>2. moved \in Nat
    BY <1>1, <1>3, <2>1 DEF NewBucket
  <2>3. QED
    BY <1>1, <2>2, NewBucketType
<1>6. buckets' \in [BucketKeys -> BucketRow]
  <2>1. PICK a : buckets' = [buckets EXCEPT ![source].available = a,
                                            ![r.key] = NewBucket(moved, r.expires, r.period)]
    BY <1>2
  <2>2. ASSUME NEW b \in BucketKeys
        PROVE  buckets'[b] \in BucketRow
    <3>1. CASE b = r.key
      BY <1>4, <1>5, <2>1, <3>1
    <3>2. CASE b # r.key /\ b = source
      <4>1. buckets'[b] = [buckets[b] EXCEPT !.available = a]
        BY <1>4, <2>1, <3>2
      <4>2. buckets[b] \in BucketRow
        BY <1>4
      <4>3. a \in Nat
        BY <1>3, <4>1, <4>2 DEF BucketRow
      <4>4. QED
        BY <4>1, <4>2, <4>3 DEF BucketRow
    <3>3. CASE b # r.key /\ b # source
      BY <1>4, <2>1, <3>3
    <3>4. QED
      BY <3>1, <3>2, <3>3
  <2>3. buckets' = [b \in BucketKeys |-> buckets'[b]]
    BY <1>4, <2>1
  <2>4. QED
    BY <2>2, <2>3
<1>7. UNCHANGED <<now, wallet, reservations, settlements, ledgerSum, inflight>>
  BY DEF Rollover
<1>8. QED
  BY <1>6, <1>7 DEF TypeOK

LEMMA TickType ==
  ASSUME TypeOK, Tick
  PROVE  TypeOK'
BY ConstantsAssumption DEF TypeOK, Tick, tables, Times

LEMMA StutterType == TypeOK /\ UNCHANGED vars => TypeOK'
BY DEF TypeOK, vars, tables

LEMMA NextType == TypeOK /\ [Next]_vars => TypeOK'
<1> SUFFICES ASSUME TypeOK, [Next]_vars
             PROVE  TypeOK'
  OBVIOUS
<1>1. ASSUME NEW c \in Clients, NEW q \in Requests, Begin(c, q)
      PROVE  TypeOK'
  BY <1>1, BeginType
<1>2. ASSUME NEW c \in Clients,
             Rollback(c) \/ Grant(c) \/ Reserve(c) \/ Settle(c) \/ AdjustUp(c) \/ AdjustDown(c)
      PROVE  TypeOK'
  BY <1>2, RollbackType, GrantType, ReserveType, SettleType, AdjustUpType, AdjustDownType
<1>3. ASSUME NEW r \in Rollovers, Rollover(r)
      PROVE  TypeOK'
  BY <1>3, RolloverType
<1>4. CASE ReadBalance
  BY <1>4, ReadBalanceType
<1>5. CASE Tick
  BY <1>5, TickType
<1>6. CASE UNCHANGED vars
  BY <1>6, StutterType
<1>7. QED
  BY <1>1, <1>2, <1>3, <1>4, <1>5, <1>6 DEF Next

\* Every amount the store keeps is a natural number and every row is well
\* formed, whatever transactions interleave: no commit leaves a negative
\* balance in the wallet or in a bucket.
THEOREM TypeCorrect == Spec => []TypeOK
BY InitType, NextType, PTL DEF Spec

-----------------------------------------------------------------------------
(* Each reservation is settled at most once *)

\* The invariant is inductive once types are known: a reservation that was
\* never made has no settlement, so making it cannot give it one, and one that
\* is RESERVED has none either, so Settle gives it its first and only one.
SettledOnceInductive == TypeOK /\ SettledOnce

LEMMA SettledOnceInit == Init => SettledOnce
BY ConstantsAssumption DEF Init, SettledOnce

\* SettledOnce reads the reservations and the settlements only.
LEMMA SettledOnceFrame ==
  ASSUME SettledOnce, UNCHANGED <<reservations, settlements>>
  PROVE  SettledOnce'
BY DEF SettledOnce

LEMMA SettledOnceReserve ==
  ASSUME SettledOnceInductive, NEW c \in Clients, Reserve(c)
  PROVE  SettledOnce'
<1> DEFINE q == inflight[c]
<1>1. q.key \in ReserveKeys
  BY RequestType DEF SettledOnceInductive, TypeOK, Reserve, Commits
<1>2. PICK from :
        reservations' = [reservations EXCEPT ![q.key] =
          [status |-> "RESERVED", amount |-> q.amount, from |-> from]]
  BY DEF Reserve
<1>3. reservations[q.key].status = "none" /\ UNCHANGED settlements
  BY DEF Reserve
<1> HIDE DEF q
<1>4. \A s \in SettleKeys : settlements[s].reservation # q.key
  BY <1>1, <1>3 DEF SettledOnceInductive, SettledOnce
<1>5. \A r \in ReserveKeys : r # q.key => reservations'[r] = reservations[r]
  BY <1>2 DEF SettledOnceInductive, TypeOK
<1>6. reservations'[q.key].status = "RESERVED"
  BY <1>1, <1>2 DEF SettledOnceInductive, TypeOK
<1>7. \A s \in SettleKeys : settlements[s].reservation \in ReserveKeys \cup {NoReservation}
  BY DEF SettledOnceInductive, TypeOK
<1>8. QED
  BY <1>1, <1>3, <1>4, <1>5, <1>6, <1>7 DEF SettledOnceInductive, SettledOnce

LEMMA SettledOnceSettle ==
  ASSUME SettledOnceInductive, NEW c \in Clients, Settle(c)
  PROVE  SettledOnce'
<1> DEFINE q == inflight[c]
           key == q.key
           target == q.reservation
           settled == CreditsFromUsd(q.billable)
           amount == reservations[target].amount
<1>1. key \in SettleKeys /\ target \in ReserveKeys /\ settled \in Nat
  BY RequestType, CreditsFromUsdType DEF SettledOnceInductive, TypeOK, Settle, Commits
<1>2. /\ settlements[key].reservation = NoReservation
      /\ reservations[target].status = "RESERVED"
      /\ settlements' = [settlements EXCEPT ![key] =
           [reservation |-> target, settled |-> settled, released |-> amount - settled]]
      /\ reservations' = [reservations EXCEPT ![target].status = "SETTLED"]
  BY DEF Settle, Chargeable
<1> HIDE DEF q, key, target, settled
<1>3. amount \in Nat
  BY <1>1 DEF SettledOnceInductive, TypeOK
<1>4. /\ settlements'[key].reservation = target
      /\ settlements'[key].settled + settlements'[key].released = amount
      /\ \A s \in SettleKeys : s # key => settlements'[s] = settlements[s]
  BY <1>1, <1>2, <1>3 DEF SettledOnceInductive, TypeOK
<1>5. /\ reservations'[target].status = "SETTLED"
      /\ \A r \in ReserveKeys : reservations'[r].amount = reservations[r].amount
      /\ \A r \in ReserveKeys : r # target => reservations'[r] = reservations[r]
  BY <1>1, <1>2 DEF SettledOnceInductive, TypeOK
<1>6. \A s \in SettleKeys : settlements[s].reservation # target
  BY <1>1, <1>2 DEF SettledOnceInductive, SettledOnce
<1>7. target # NoReservation
  BY <1>1, ConstantsAssumption
<1>8. \A s, t \in SettleKeys :
        settlements'[s].reservation = settlements'[t].reservation =>
          s = t \/ settlements'[s].reservation = NoReservation
  BY <1>4, <1>6 DEF SettledOnceInductive, SettledOnce
<1>9. \A r \in ReserveKeys : reservations'[r].status = "SETTLED" <=>
        \E s \in SettleKeys : settlements'[s].reservation = r
  <2>1. ASSUME NEW r \in ReserveKeys, r # target
        PROVE  reservations'[r].status = "SETTLED" <=>
                 \E s \in SettleKeys : settlements'[s].reservation = r
    <3>1. reservations'[r].status = "SETTLED" <=>
            \E s \in SettleKeys : settlements[s].reservation = r
      BY <1>5, <2>1 DEF SettledOnceInductive, SettledOnce
    <3>2. \A s \in SettleKeys :
            settlements'[s].reservation = r <=> settlements[s].reservation = r
      <4>1. settlements[key].reservation # r
        BY <1>2, ConstantsAssumption
      <4>2. QED
        BY <1>4, <2>1, <4>1
    <3>3. QED
      BY <3>1, <3>2
  <2>2. QED
    BY <1>1, <1>4, <1>5, <2>1
<1>10. \A s \in SettleKeys : settlements'[s].reservation # NoReservation =>
         settlements'[s].settled + settlements'[s].released
           = reservations'[settlements'[s].reservation].amount
  <2>1. ASSUME NEW s \in SettleKeys, s # key, settlements[s].reservation # NoReservation
        PROVE  settlements'[s].settled + settlements'[s].released
                 = reservations'[settlements'[s].reservation].amount
    <3>1. settlements[s].reservation \in ReserveKeys
      BY <2>1 DEF SettledOnceInductive, TypeOK
    <3>2. QED
      BY <1>4, <1>5, <2>1, <3>1 DEF SettledOnceInductive, SettledOnce
  <2>2. settlements'[key].settled + settlements'[key].released
          = reservations'[settlements'[key].reservation].amount
    BY <1>1, <1>4, <1>5
  <2>3. QED
    BY <1>4, <2>1, <2>2
<1>11. QED
  BY <1>8, <1>9, <1>10 DEF SettledOnce

LEMMA SettledOnceNext == SettledOnceInductive /\ [Next]_vars => SettledOnce'
<1> SUFFICES ASSUME SettledOnceInductive, [Next]_vars
             PROVE  SettledOnce'
  OBVIOUS
<1>1. ASSUME NEW c \in Clients, NEW q \in Requests, Begin(c, q)
      PROVE  SettledOnce'
  BY <1>1, SettledOnceFrame DEF Begin, tables, SettledOnceInductive
<1>2. ASSUME NEW c \in Clients, Reserve(c) \/ Settle(c)
      PROVE  SettledOnce'
  BY <1>2, SettledOnceReserve, SettledOnceSettle
<1>3. ASSUME NEW c \in Clients, Rollback(c) \/ Grant(c) \/ AdjustUp(c) \/ AdjustDown(c)
      PROVE  SettledOnce'
  BY <1>3, SettledOnceFrame
  DEF Rollback, Grant, AdjustUp, AdjustDown, tables, SettledOnceInductive
<1>4. ASSUME NEW r \in Rollovers, Rollover(r)
      PROVE  SettledOnce'
  BY <1>4, SettledOnceFrame DEF Rollover, SettledOnceInductive
<1>5. CASE ReadBalance \/ Tick \/ UNCHANGED vars
  BY <1>5, SettledOnceFrame DEF ReadBalance, Tick, vars, tables, SettledOnceInductive
<1>6. QED
  BY <1>1, <1>2, <1>3, <1>4, <1>5 DEF Next

\* No reservation is charged by two settlements, and what was charged and given
\* back is what was reserved, for any number of keys and connections.
THEOREM ReservationsSettledOnce == Spec => []SettledOnce
BY InitType, NextType, SettledOnceInit, SettledOnceNext, PTL DEF Spec, SettledOnceInductive

-----------------------------------------------------------------------------
(* The books balance *)

\* Buckets are numbered in the order they were made, so that no two of them
\* tie in the order of the draws; a row not made yet holds nothing.
BucketsNumbered ==
  /\ \A b \in BucketKeys : ~Exists(b) => buckets[b].available = 0 /\ buckets[b].reserved = 0
  /\ \A b \in BucketKeys : buckets[b].made <= BucketCount
  /\ \A b, c \in BucketKeys : Exists(b) /\ buckets[b].made = buckets[c].made => b = c

\* The allocations of an open reservation are its amount, in buckets that exist.
HoldsAllocated ==
  \A r \in ReserveKeys : Open(r) =>
    /\ Total(reservations[r].from) = reservations[r].amount
    /\ \A b \in BucketKeys : reservations[r].from[b] > 0 => Exists(b)

\* What is held can be counted, however many keys there are.
HeldCountable ==
  /\ \A b \in BucketKeys : IsFiniteSet(Units(HeldFrom(b)))
  /\ IsFiniteSet(Units(Held))

BooksInvariant ==
  /\ TypeOK
  /\ HeldByOpenReservations
  /\ BucketsBackWallet
  /\ BucketsNumbered
  /\ HoldsAllocated
  /\ HeldCountable

LEMMA ColumnTypes ==
  ASSUME TypeOK
  PROVE  /\ Available \in [BucketKeys -> Nat] /\ Reserved \in [BucketKeys -> Nat]
         /\ \A b \in BucketKeys : HeldFrom(b) \in [ReserveKeys -> Nat]
         /\ Held \in [ReserveKeys -> Nat]
BY DEF TypeOK, BucketRow, Available, Reserved, HeldFrom, Held

\* The columns of the next state.
LEMMA ColumnTypesNext ==
  ASSUME TypeOK'
  PROVE  /\ Available' \in [BucketKeys -> Nat] /\ Reserved' \in [BucketKeys -> Nat]
         /\ \A b \in BucketKeys : HeldFrom(b)' \in [ReserveKeys -> Nat]
         /\ Held' \in [ReserveKeys -> Nat]
BY DEF TypeOK, BucketRow, Available, Reserved, HeldFrom, Held

\* The newest of some buckets that exist is one of them.
LEMMA NewestIsOne ==
  ASSUME TypeOK, BucketsNumbered, NEW S \in SUBSET BucketKeys, S # {},
         \A b \in S : Exists(b)
  PROVE  Newest(S) \in S
<1>1. \A b \in BucketKeys : /\ buckets[b].cycle \in Nat /\ buckets[b].cycle <= MaxTime
                            /\ buckets[b].made \in Nat
  BY ConstantsAssumption DEF TypeOK, BucketRow, Times, NoCycle
<1>2. BucketCount \in Nat /\ MaxTime \in Nat
  BY ConstantsAssumption, FS_Subset, FS_CardinalityType DEF BucketCount
<1>3. \E b \in S : \A c \in S : buckets[c].cycle <= buckets[b].cycle
  <2> DEFINE cycles == {buckets[b].cycle : b \in S}
  <2>1. cycles \subseteq Nat /\ cycles # {} /\ \A n \in cycles : n <= MaxTime
    BY <1>1
  <2>2. PICK n \in cycles : \A k \in cycles : k <= n
    BY <1>2, <2>1, HasGreatest
  <2>3. QED
    BY <2>2
<1>4. PICK latest \in S : \A c \in S : buckets[c].cycle <= buckets[latest].cycle
  BY <1>3
<1> DEFINE last == {b \in S : buckets[b].cycle = buckets[latest].cycle}
<1>5. \E b \in last : \A c \in last : buckets[c].made <= buckets[b].made
  <2> DEFINE numbers == {buckets[b].made : b \in last}
  <2>1. numbers \subseteq Nat /\ numbers # {} /\ \A n \in numbers : n <= BucketCount
    BY <1>1 DEF BucketsNumbered
  <2>2. PICK n \in numbers : \A k \in numbers : k <= n
    BY <1>2, <2>1, HasGreatest
  <2>3. QED
    BY <2>2
<1>6. PICK b \in last : \A c \in last : buckets[c].made <= buckets[b].made
  BY <1>5
<1>7. \A c \in S \ {b} :
        \/ buckets[b].cycle > buckets[c].cycle
        \/ buckets[b].cycle = buckets[c].cycle /\ buckets[b].made > buckets[c].made
  <2>1. ASSUME NEW c \in S \ {b}
        PROVE  \/ buckets[b].cycle > buckets[c].cycle
               \/ buckets[b].cycle = buckets[c].cycle /\ buckets[b].made > buckets[c].made
    <3>1. buckets[b].made # buckets[c].made
      BY DEF BucketsNumbered
    <3>2. buckets[c].cycle <= buckets[b].cycle
      BY <1>4
    <3>3. CASE c \in last
      BY <1>1, <1>6, <3>1, <3>3
    <3>4. CASE c \notin last
      BY <1>1, <3>2, <3>4
    <3>5. QED
      BY <3>3, <3>4
  <2>2. QED
    BY <2>1
<1>8. b \in S
  OBVIOUS
<1> HIDE DEF last
<1>9. QED
  BY <1>7, <1>8 DEF Newest

\* Buckets keep their numbers, and a row not made yet stays empty.
LEMMA NumbersKept ==
  ASSUME BucketsNumbered,
         \A b \in BucketKeys : buckets'[b].made = buckets[b].made,
         \A b \in BucketKeys : ~Exists(b) =>
           buckets'[b].available = 0 /\ buckets'[b].reserved = 0
  PROVE  BucketsNumbered'
<1>1. \A b \in BucketKeys : Exists(b)' <=> Exists(b)
  BY DEF Exists
<1>2. BucketCount' = BucketCount
  BY <1>1 DEF BucketCount
<1>3. QED
  BY <1>1, <1>2 DEF BucketsNumbered

\* A new bucket takes the next number.
LEMMA NumbersGrow ==
  ASSUME TypeOK, BucketsNumbered, NEW k \in BucketKeys, ~Exists(k),
         buckets'[k].made = BucketCount + 1,
         \A b \in BucketKeys \ {k} : buckets'[b].made = buckets[b].made,
         \A b \in BucketKeys \ {k} : ~Exists(b) =>
           buckets'[b].available = 0 /\ buckets'[b].reserved = 0
  PROVE  BucketsNumbered'
<1> DEFINE old == {b \in BucketKeys : Exists(b)}
           new == {b \in BucketKeys : Exists(b)'}
<1>1. BucketCount \in Nat /\ IsFiniteSet(old)
  BY ConstantsAssumption, FS_Subset, FS_CardinalityType DEF BucketCount
<1>2. \A b \in BucketKeys : buckets[b].made \in Nat
  BY DEF TypeOK, BucketRow
<1>3. \A b \in BucketKeys : Exists(b)' <=> (Exists(b) \/ b = k)
  BY <1>1 DEF Exists
<1>4. new = old \cup {k} /\ k \notin old
  BY <1>3
<1>5. BucketCount' = BucketCount + 1
  <2>1. BucketCount = Cardinality(old) /\ BucketCount' = Cardinality(new)
    BY DEF BucketCount
  <2> HIDE DEF old, new
  <2>2. QED
    BY <1>1, <1>4, <2>1, FS_AddElement
<1>6. \A b \in BucketKeys : b # k => buckets'[b].made = buckets[b].made /\ buckets'[b].made <= BucketCount
  BY DEF BucketsNumbered
<1>7. \A b, c \in BucketKeys : Exists(b)' /\ buckets'[b].made = buckets'[c].made => b = c
  <2>1. ASSUME NEW b \in BucketKeys, NEW c \in BucketKeys, Exists(b)',
               buckets'[b].made = buckets'[c].made
        PROVE  b = c
    <3>1. CASE b = k /\ c # k
      BY <1>1, <1>2, <1>6, <2>1, <3>1
    <3>2. CASE b # k /\ c = k
      BY <1>1, <1>2, <1>6, <2>1, <3>2
    <3>3. CASE b # k /\ c # k
      BY <1>3, <1>6, <2>1, <3>3 DEF BucketsNumbered
    <3>4. QED
      BY <3>1, <3>2, <3>3
  <2>2. QED
    BY <2>1
<1>8. \A b \in BucketKeys : buckets'[b].made <= BucketCount'
  BY <1>1, <1>2, <1>5, <1>6
<1>9. \A b \in BucketKeys : ~Exists(b)' => buckets'[b].available = 0 /\ buckets'[b].reserved = 0
  BY <1>3
<1>10. QED
  BY <1>7, <1>8, <1>9 DEF BucketsNumbered

\* Two draws from the two ends of what a reservation allocated, that together
\* are its amount, are together what it allocated in each bucket.
LEMMA DrawsMeet ==
  ASSUME TypeOK, BucketsNumbered,
         NEW from \in [BucketKeys -> Nat], NEW used \in [BucketKeys -> Nat],
         NEW back \in [BucketKeys -> Nat], NEW settled \in Nat, NEW released \in Nat,
         \A b \in BucketKeys : from[b] > 0 => Exists(b),
         Total(from) = settled + released,
         DrawnInOrder(used, from, settled), DrawnInReverse(back, from, released)
  PROVE  \A b \in BucketKeys : used[b] + back[b] = from[b]
<1> DEFINE both == [b \in BucketKeys |-> used[b] + back[b]]
<1>1. both \in [BucketKeys -> Nat] /\ \A b \in BucketKeys : both[b] = used[b] + back[b]
  OBVIOUS
<1> HIDE DEF both
<1>2. \A b \in BucketKeys : used[b] <= from[b] /\ back[b] <= from[b]
  BY DEF DrawnInOrder, DrawnInReverse
<1>3. IsFiniteSet(Units(used)) /\ IsFiniteSet(Units(back)) /\ IsFiniteSet(Units(from))
  BY ConstantsAssumption, TotalFinite
<1>4. IsFiniteSet(Units(both)) /\ Total(both) = Total(from)
  BY <1>1, <1>3, TotalOfSum DEF DrawnInOrder, DrawnInReverse
<1>5. ASSUME NEW b \in BucketKeys, NEW x \in BucketKeys, x # b, from[b] > 0, from[x] > 0
      PROVE  Before(x, b) \/ Before(b, x)
  <2>1. /\ buckets[b].made # buckets[x].made
        /\ buckets[b].made \in Nat /\ buckets[x].made \in Nat
        /\ buckets[b].expires \in Nat /\ buckets[x].expires \in Nat
    BY <1>5, NeverIsLater DEF BucketsNumbered, TypeOK, BucketRow
  <2>2. QED
    BY <2>1 DEF Before
<1>6. \A b, x \in BucketKeys : Before(x, b) =>
        /\ used[b] > 0 => used[x] = from[x]
        /\ back[x] > 0 => back[b] = from[b]
  BY DEF DrawnInOrder, DrawnInReverse
<1>7. ASSUME NEW b \in BucketKeys, both[b] > from[b]
      PROVE  FALSE
  <2>1. used[b] > 0 /\ back[b] > 0 /\ from[b] > 0
    BY <1>1, <1>2, <1>7
  <2>2. ASSUME NEW x \in BucketKeys
        PROVE  from[x] <= both[x]
    <3>1. CASE x = b
      BY <1>1, <1>7, <3>1
    <3>2. CASE x # b /\ from[x] > 0
      <4>1. Before(x, b) \/ Before(b, x)
        BY <1>5, <2>1, <3>2
      <4>2. used[x] = from[x] \/ back[x] = from[x]
        BY <1>6, <2>1, <4>1
      <4>3. QED
        BY <1>1, <4>2
    <3>3. CASE ~(from[x] > 0)
      BY <1>1, <3>3
    <3>4. QED
      BY <3>1, <3>2, <3>3
  <2>3. from[b] = both[b]
    BY <1>1, <1>4, <2>2, TotalGrows
  <2>4. QED
    BY <1>1, <1>7, <2>3
<1>8. ASSUME NEW b \in BucketKeys, both[b] < from[b]
      PROVE  FALSE
  <2>1. used[b] # from[b] /\ back[b] # from[b] /\ from[b] > 0
    BY <1>1, <1>8
  <2>2. ASSUME NEW x \in BucketKeys
        PROVE  both[x] <= from[x]
    <3>1. CASE x = b
      BY <1>1, <1>8, <3>1
    <3>2. CASE x # b /\ from[x] > 0
      <4>1. Before(x, b) \/ Before(b, x)
        BY <1>5, <2>1, <3>2
      <4>2. used[x] = 0 \/ back[x] = 0
        BY <1>6, <2>1, <4>1
      <4>3. QED
        BY <1>1, <1>2, <4>2
    <3>3. CASE ~(from[x] > 0)
      BY <1>1, <1>2, <3>3
    <3>4. QED
      BY <3>1, <3>2, <3>3
  <2>3. from[b] = both[b]
    BY <1>1, <1>3, <1>4, <2>2, TotalGrows
  <2>4. QED
    BY <1>1, <1>8, <2>3
<1>9. QED
  <2>1. ASSUME NEW b \in BucketKeys
        PROVE  used[b] + back[b] = from[b]
    BY <1>1, <1>7, <1>8
  <2>2. QED
    BY <2>1

-----------------------------------------------------------------------------
(* Steps that leave the reservations alone *)

\* What is held stays what it is, where no bucket loses what it has reserved.
LEMMA HoldsKept ==
  ASSUME BooksInvariant, UNCHANGED reservations,
         wallet'.reserved = wallet.reserved,
         \A b \in BucketKeys : buckets'[b].reserved = buckets[b].reserved,
         \A b \in BucketKeys : Exists(b) => Exists(b)'
  PROVE  /\ HeldByOpenReservations' /\ HoldsAllocated' /\ HeldCountable'
         /\ wallet'.reserved = Total(Reserved')
<1>1. \A b \in BucketKeys : HeldFrom(b)' = HeldFrom(b)
  BY DEF HeldFrom, Open
<1>2. Held' = Held
  BY DEF Held, Open
<1>3. Reserved' = Reserved
  BY DEF Reserved
<1>4. HeldByOpenReservations'
  BY <1>1, <1>2 DEF BooksInvariant, HeldByOpenReservations
<1>5. HeldCountable'
  BY <1>1, <1>2 DEF BooksInvariant, HeldCountable
<1>6. HoldsAllocated'
  BY DEF BooksInvariant, HoldsAllocated, Open
<1>7. QED
  BY <1>3, <1>4, <1>5, <1>6 DEF BooksInvariant, BucketsBackWallet

\* What is left once expired credits are gone.
LEMMA SweptBooks ==
  ASSUME TypeOK, BucketsBackWallet, NEW spendable \in [BucketKeys -> Nat],
         \A b \in BucketKeys : spendable[b] = Swept.buckets[b].available
  PROVE  Total(spendable) = Swept.available /\ Swept.available \in Nat
<1>1. \A b \in BucketKeys : spendable[b] = Available[b] - Stale[b]
  <2>1. ASSUME NEW b \in BucketKeys
        PROVE  spendable[b] = Available[b] - Stale[b]
    <3>1. Swept.buckets[b] = [buckets[b] EXCEPT !.available = @ - Stale[b]]
      BY DEF Swept, WithoutStale
    <3>2. buckets[b] \in BucketRow
      BY DEF TypeOK
    <3>3. Swept.buckets[b].available = buckets[b].available - Stale[b]
      BY <3>1, <3>2 DEF BucketRow
    <3>4. QED
      BY <3>3 DEF Available
  <2>2. QED
    BY <2>1
<1>2. Available \in [BucketKeys -> Nat] /\ Stale \in [BucketKeys -> Nat] /\ IsFiniteSet(Units(Available))
  BY ColumnTypes, StaleType, TotalFinite, ConstantsAssumption
<1>3. Total(spendable) = Total(Available) - Total(Stale) /\ Total(spendable) \in Nat
  BY <1>1, <1>2, TotalOfRest
<1>4. QED
  BY <1>3 DEF Swept, BucketsBackWallet

\* The rows of a bucket once expired credits are gone.
LEMMA SweptRow ==
  ASSUME TypeOK, NEW b \in BucketKeys
  PROVE  /\ Swept.buckets[b].available \in Nat
         /\ Swept.buckets[b].available <= buckets[b].available
         /\ Expired(b) => Swept.buckets[b].available = 0
         /\ Swept.buckets[b].reserved = buckets[b].reserved
         /\ Swept.buckets[b].made = buckets[b].made
         /\ Swept.buckets[b].expires = buckets[b].expires
         /\ Swept.buckets[b].cycle = buckets[b].cycle
         /\ Swept.buckets[b] \in BucketRow
<1>1. Swept.buckets[b] = [buckets[b] EXCEPT !.available = @ - Stale[b]]
  BY DEF Swept, WithoutStale
<1>2. buckets[b] \in BucketRow /\ buckets[b].available \in Nat
  BY DEF TypeOK, BucketRow
<1>3. Stale[b] = IF Expired(b) THEN buckets[b].available ELSE 0
  BY DEF Stale
<1>4. /\ Swept.buckets[b].available = buckets[b].available - Stale[b]
      /\ Swept.buckets[b] = [buckets[b] EXCEPT !.available = Swept.buckets[b].available]
  BY <1>1, <1>2 DEF BucketRow
<1>5. QED
  BY <1>2, <1>3, <1>4 DEF BucketRow

LEMMA BooksInit == Init => BooksInvariant
<1> SUFFICES ASSUME Init
             PROVE  BooksInvariant
  OBVIOUS
<1>1. TypeOK
  BY InitType
<1>2. \A b \in BucketKeys : buckets[b] = NoBucket /\ ~Exists(b)
  BY DEF Init, Exists, NoBucket
<1>3. /\ \A b \in BucketKeys : Available[b] = 0 /\ Reserved[b] = 0
      /\ \A b \in BucketKeys : \A r \in ReserveKeys : HeldFrom(b)[r] = 0
      /\ \A r \in ReserveKeys : Held[r] = 0
  BY <1>2 DEF Init, NoBucket, Available, Reserved, HeldFrom, Held, Open
<1>4. /\ Total(Available) = 0 /\ Total(Reserved) = 0
      /\ \A b \in BucketKeys : IsFiniteSet(Units(HeldFrom(b))) /\ Total(HeldFrom(b)) = 0
      /\ IsFiniteSet(Units(Held)) /\ Total(Held) = 0
  BY <1>1, <1>3, ColumnTypes, TotalZero
<1>5. wallet.available = 0 /\ wallet.reserved = 0
  BY DEF Init
<1>6. HeldByOpenReservations /\ HeldCountable /\ BucketsBackWallet
  BY <1>2, <1>4, <1>5 DEF HeldByOpenReservations, HeldCountable, BucketsBackWallet, NoBucket
<1>7. HoldsAllocated
  BY DEF Init, HoldsAllocated, Open
<1>8. BucketsNumbered
  <2>1. BucketCount \in Nat
    BY ConstantsAssumption, FS_Subset, FS_CardinalityType DEF BucketCount
  <2>2. QED
    BY <1>2, <2>1 DEF BucketsNumbered, NoBucket, Exists
<1>9. QED
  BY <1>1, <1>6, <1>7, <1>8 DEF BooksInvariant

\* A step that inserts a bucket of some amount next to the swept or untouched
\* ones, and adds as much to the wallet.
LEMMA BooksInsert ==
  ASSUME BooksInvariant, TypeOK', UNCHANGED reservations,
         NEW k \in BucketKeys, ~Exists(k), NEW amount \in Nat,
         NEW kept \in [BucketKeys -> Nat], kept[k] = 0,
         buckets'[k].made = BucketCount + 1, buckets'[k].reserved = 0,
         buckets'[k].available = amount,
         \A b \in BucketKeys \ {k} : /\ buckets'[b].made = buckets[b].made
                                     /\ buckets'[b].reserved = buckets[b].reserved
                                     /\ buckets'[b].available = kept[b]
                                     /\ kept[b] <= buckets[b].available,
         wallet'.available = Total(kept) + amount, wallet'.reserved = wallet.reserved
  PROVE  BooksInvariant'
<1> DEFINE put == [b \in BucketKeys |-> IF b = k THEN amount ELSE 0]
<1>1. put \in [BucketKeys -> Nat] /\ put[k] = amount /\ \A b \in BucketKeys : b # k => put[b] = 0
  OBVIOUS
<1> HIDE DEF put
<1>2. BucketCount \in Nat
  BY ConstantsAssumption, FS_Subset, FS_CardinalityType DEF BucketCount
<1>3. \A b \in BucketKeys : /\ buckets[b].made \in Nat /\ buckets'[b].made \in Nat
                            /\ buckets[b].available \in Nat
  BY DEF TypeOK, BooksInvariant, BucketRow
<1>4. \A b \in BucketKeys \ {k} : ~Exists(b) => buckets'[b].available = 0 /\ buckets'[b].reserved = 0
  <2>1. ASSUME NEW b \in BucketKeys \ {k}, ~Exists(b)
        PROVE  buckets'[b].available = 0 /\ buckets'[b].reserved = 0
    <3>1. buckets[b].available = 0 /\ buckets[b].reserved = 0
      BY <2>1 DEF BooksInvariant, BucketsNumbered
    <3>2. kept[b] \in Nat /\ kept[b] <= 0
      BY <3>1
    <3>3. kept[b] = 0
      BY <3>2
    <3>4. QED
      BY <3>1, <3>3
  <2>2. QED
    BY <2>1
<1>5. BucketsNumbered'
  BY <1>4, NumbersGrow DEF BooksInvariant
<1>6. \A b \in BucketKeys : Exists(b) => Exists(b)'
  BY <1>2, <1>3 DEF Exists
<1>7. \A b \in BucketKeys : buckets'[b].reserved = buckets[b].reserved
  BY DEF BooksInvariant, BucketsNumbered
<1>8. /\ HeldByOpenReservations' /\ HoldsAllocated' /\ HeldCountable'
      /\ wallet'.reserved = Total(Reserved')
  BY <1>6, <1>7, HoldsKept
<1>9. Available' \in [BucketKeys -> Nat] /\ \A b \in BucketKeys : Available'[b] = kept[b] + put[b]
  BY <1>1, ColumnTypesNext DEF Available
<1>10. Total(Available') = Total(kept) + amount
  <2>1. IsFiniteSet(Units(kept)) /\ IsFiniteSet(Units(put)) /\ Total(put) = amount
    BY <1>1, ConstantsAssumption, TotalFinite, TotalOfOne
  <2>2. QED
    BY <1>1, <1>9, <2>1, TotalOfSum
<1>11. BucketsBackWallet'
  BY <1>8, <1>10 DEF BucketsBackWallet
<1>12. QED
  BY <1>5, <1>8, <1>11 DEF BooksInvariant

LEMMA BooksGrant ==
  ASSUME BooksInvariant, TypeOK', NEW c \in Clients, Grant(c)
  PROVE  BooksInvariant'
<1> DEFINE q == inflight[c]
<1>0. PICK key \in BucketKeys : key = q.key
  BY RequestType DEF BooksInvariant, TypeOK, Grant, Commits, BucketKeys
<1>1. PICK amount \in Nat : amount = q.amount
  BY RequestType DEF BooksInvariant, TypeOK, Grant, Commits, Credits
<1>2. /\ ~Exists(key) /\ UNCHANGED reservations
      /\ wallet' = [wallet EXCEPT !.available = @ + amount]
      /\ buckets' = [buckets EXCEPT ![key] = NewBucket(amount, q.expires, q.cycle)]
  BY <1>0, <1>1 DEF Grant
<1> HIDE DEF q
<1>3. wallet'.available = Total(Available) + amount /\ wallet'.reserved = wallet.reserved
  BY <1>2 DEF BooksInvariant, BucketsBackWallet, TypeOK
<1>4. /\ buckets'[key].made = BucketCount + 1 /\ buckets'[key].reserved = 0
      /\ buckets'[key].available = amount
      /\ \A b \in BucketKeys \ {key} : buckets'[b] = buckets[b]
  BY <1>2 DEF NewBucket, BooksInvariant, TypeOK
<1>5. /\ Available \in [BucketKeys -> Nat] /\ Available[key] = 0
      /\ \A b \in BucketKeys : Available[b] = buckets[b].available
  BY <1>2, ColumnTypes DEF BooksInvariant, BucketsNumbered, Available
<1>6. \A b \in BucketKeys : Available[b] <= buckets[b].available
  BY <1>5
<1>7. QED
  BY <1>2, <1>3, <1>4, <1>5, <1>6, BooksInsert

LEMMA BooksAdjustUp ==
  ASSUME BooksInvariant, TypeOK', NEW c \in Clients, AdjustUp(c)
  PROVE  BooksInvariant'
<1> DEFINE q == inflight[c]
           kept == [b \in BucketKeys |-> Swept.buckets[b].available]
<1>0. PICK key \in BucketKeys : key = q.key
  BY RequestType DEF BooksInvariant, TypeOK, AdjustUp, Commits, BucketKeys
<1>1. PICK amount \in Nat : amount = q.amount
  BY RequestType DEF BooksInvariant, TypeOK, AdjustUp, Commits, Credits
<1>2. /\ ~Exists(key) /\ UNCHANGED reservations
      /\ wallet' = [wallet EXCEPT !.available = Swept.available + amount]
      /\ buckets' = [Swept.buckets EXCEPT ![key] = NewBucket(amount, Never, NoCycle)]
  BY <1>0, <1>1 DEF AdjustUp
<1> HIDE DEF q
<1>3. kept \in [BucketKeys -> Nat] /\ \A b \in BucketKeys : kept[b] = Swept.buckets[b].available
  BY SweptRow DEF BooksInvariant
<1>4. kept[key] = 0
  <2>1. kept[key] <= buckets[key].available /\ buckets[key].available = 0 /\ kept[key] \in Nat
    BY <1>2, <1>3, SweptRow DEF BooksInvariant, BucketsNumbered
  <2> HIDE DEF kept
  <2>2. QED
    BY <2>1
<1> HIDE DEF kept
<1>5. Total(kept) = Swept.available
  BY <1>3, SweptBooks DEF BooksInvariant
<1>6. wallet'.available = Total(kept) + amount /\ wallet'.reserved = wallet.reserved
  BY <1>2, <1>5 DEF BooksInvariant, TypeOK
<1>7. Swept.buckets = [b \in BucketKeys |-> Swept.buckets[b]]
  BY DEF Swept
<1>8. /\ buckets'[key].made = BucketCount + 1 /\ buckets'[key].reserved = 0
      /\ buckets'[key].available = amount
      /\ \A b \in BucketKeys \ {key} : buckets'[b] = Swept.buckets[b]
  BY <1>2, <1>7 DEF NewBucket
<1>9. \A b \in BucketKeys \ {key} : /\ buckets'[b].made = buckets[b].made
                                    /\ buckets'[b].reserved = buckets[b].reserved
                                    /\ buckets'[b].available = kept[b]
                                    /\ kept[b] <= buckets[b].available
  BY <1>3, <1>8, SweptRow DEF BooksInvariant
<1>10. QED
  BY <1>2, <1>3, <1>4, <1>6, <1>8, <1>9, BooksInsert

\* A step that only takes available credits, the same of the wallet.
LEMMA BooksTake ==
  ASSUME BooksInvariant, TypeOK', UNCHANGED reservations,
         \A b \in BucketKeys : /\ buckets'[b].made = buckets[b].made
                               /\ buckets'[b].reserved = buckets[b].reserved
                               /\ buckets'[b].available <= buckets[b].available,
         wallet'.available = Total(Available'), wallet'.reserved = wallet.reserved
  PROVE  BooksInvariant'
<1>1. \A b \in BucketKeys : ~Exists(b) => buckets'[b].available = 0 /\ buckets'[b].reserved = 0
  <2>1. ASSUME NEW b \in BucketKeys, ~Exists(b)
        PROVE  buckets'[b].available = 0 /\ buckets'[b].reserved = 0
    <3>1. buckets[b].available = 0 /\ buckets[b].reserved = 0
      BY <2>1 DEF BooksInvariant, BucketsNumbered
    <3>2. buckets'[b].available \in Nat /\ buckets'[b].available <= 0
      BY <3>1 DEF TypeOK, BucketRow
    <3>3. buckets'[b].available = 0
      BY <3>2
    <3>4. QED
      BY <3>1, <3>3
  <2>2. QED
    BY <2>1
<1>2. BucketsNumbered'
  BY <1>1, NumbersKept DEF BooksInvariant
<1>3. \A b \in BucketKeys : Exists(b) => Exists(b)'
  BY DEF Exists
<1>4. /\ HeldByOpenReservations' /\ HoldsAllocated' /\ HeldCountable'
      /\ wallet'.reserved = Total(Reserved')
  BY <1>3, HoldsKept
<1>5. BucketsBackWallet'
  BY <1>4 DEF BucketsBackWallet
<1>6. QED
  BY <1>2, <1>4, <1>5 DEF BooksInvariant

\* What is left of the swept buckets after a draw from them.
LEMMA DrawLeaves ==
  ASSUME TypeOK, BucketsBackWallet, TypeOK', NEW amount \in Nat,
         NEW from \in [BucketKeys -> 0 .. amount],
         NEW spendable \in [BucketKeys -> Nat],
         \A b \in BucketKeys : spendable[b] = Swept.buckets[b].available,
         DrawnInOrder(from, spendable, amount),
         \A b \in BucketKeys : buckets'[b].available = Swept.buckets[b].available - from[b]
  PROVE  Total(Available') = Swept.available - amount
<1>1. from \in [BucketKeys -> Nat] /\ Available' \in [BucketKeys -> Nat]
  BY ColumnTypesNext
<1>2. \A b \in BucketKeys : Available'[b] = spendable[b] - from[b]
  BY DEF Available
<1>3. IsFiniteSet(Units(spendable))
  BY ConstantsAssumption, TotalFinite
<1>4. Total(Available') = Total(spendable) - Total(from)
  BY <1>1, <1>2, <1>3, TotalOfRest
<1>5. QED
  BY <1>4, SweptBooks DEF DrawnInOrder

LEMMA BooksAdjustDown ==
  ASSUME BooksInvariant, TypeOK', NEW c \in Clients, AdjustDown(c)
  PROVE  BooksInvariant'
<1> DEFINE q == inflight[c]
           spendable == [b \in BucketKeys |-> Swept.buckets[b].available]
<1>1. PICK amount \in Nat : amount = q.amount
  BY RequestType DEF BooksInvariant, TypeOK, AdjustDown, Commits, Credits
<1>2. PICK from \in [BucketKeys -> 0 .. amount] :
        /\ DrawnInOrder(from, spendable, amount)
        /\ buckets' = [b \in BucketKeys |->
             [Swept.buckets[b] EXCEPT !.available = @ - from[b]]]
  BY <1>1 DEF AdjustDown
<1>3. UNCHANGED reservations /\ wallet' = [wallet EXCEPT !.available = Swept.available - amount]
  BY <1>1 DEF AdjustDown
<1> HIDE DEF q
<1>4. ASSUME NEW b \in BucketKeys
      PROVE  /\ buckets'[b].made = buckets[b].made
             /\ buckets'[b].reserved = buckets[b].reserved
             /\ buckets'[b].available = Swept.buckets[b].available - from[b]
             /\ buckets'[b].available <= buckets[b].available
  <2>1. Swept.buckets[b] \in BucketRow /\ from[b] \in Nat
    BY SweptRow DEF BooksInvariant
  <2>2. buckets'[b] = [Swept.buckets[b] EXCEPT !.available = @ - from[b]]
    BY <1>2
  <2>3. /\ buckets'[b].made = Swept.buckets[b].made
        /\ buckets'[b].reserved = Swept.buckets[b].reserved
        /\ buckets'[b].available = Swept.buckets[b].available - from[b]
    BY <2>1, <2>2 DEF BucketRow
  <2>4. /\ Swept.buckets[b].made = buckets[b].made
        /\ Swept.buckets[b].reserved = buckets[b].reserved
        /\ Swept.buckets[b].available <= buckets[b].available
        /\ Swept.buckets[b].available \in Nat /\ buckets[b].available \in Nat
    BY SweptRow DEF BooksInvariant, TypeOK, BucketRow
  <2>5. QED
    BY <2>1, <2>3, <2>4
<1>5. spendable \in [BucketKeys -> Nat] /\ \A b \in BucketKeys : spendable[b] = Swept.buckets[b].available
  BY SweptRow DEF BooksInvariant
<1> HIDE DEF spendable
<1>6. Total(Available') = Swept.available - amount
  BY <1>2, <1>4, <1>5, DrawLeaves DEF BooksInvariant
<1>7. wallet'.available = Total(Available') /\ wallet'.reserved = wallet.reserved
  BY <1>3, <1>6 DEF BooksInvariant, TypeOK
<1>8. QED
  BY <1>3, <1>4, <1>7, BooksTake

LEMMA BooksReadBalance ==
  ASSUME BooksInvariant, TypeOK', ReadBalance
  PROVE  BooksInvariant'
<1>1. /\ UNCHANGED reservations /\ buckets' = Swept.buckets
      /\ wallet' = [wallet EXCEPT !.available = Swept.available]
  BY DEF ReadBalance
<1>2. Available' \in [BucketKeys -> Nat] /\ \A b \in BucketKeys : Available'[b] = Swept.buckets[b].available
  BY <1>1, ColumnTypesNext DEF Available
<1>3. Total(Available') = Swept.available
  BY <1>2, SweptBooks DEF BooksInvariant
<1>4. wallet'.available = Total(Available') /\ wallet'.reserved = wallet.reserved
  BY <1>1, <1>3 DEF BooksInvariant, TypeOK
<1>5. \A b \in BucketKeys : /\ buckets'[b].made = buckets[b].made
                            /\ buckets'[b].reserved = buckets[b].reserved
                            /\ buckets'[b].available <= buckets[b].available
  BY <1>1, SweptRow DEF BooksInvariant
<1>6. QED
  BY <1>1, <1>4, <1>5, BooksTake

LEMMA BooksRollover ==
  ASSUME BooksInvariant, TypeOK', NEW r \in Rollovers, Rollover(r)
  PROVE  BooksInvariant'
<1> DEFINE source == Newest(RolloverSources(r.period))
           moved == IF buckets[source].available < r.limit
                      THEN buckets[source].available ELSE r.limit
<1>1. r.key \in BucketKeys /\ r.limit \in Nat /\ ~Exists(r.key)
  BY ConstantsAssumption DEF AllRollovers, BucketKeys, Credits, Rollover
<1>2. source \in BucketKeys /\ Exists(source) /\ source # r.key
  <2> DEFINE S == RolloverSources(r.period)
  <2>1. S \in SUBSET BucketKeys /\ \A b \in S : buckets[b].available > 0
    BY DEF RolloverSources
  <2>2. \A b \in S : Exists(b)
    BY <2>1 DEF BooksInvariant, BucketsNumbered
  <2>3. S # {}
    BY DEF Rollover
  <2> HIDE DEF S
  <2>4. Newest(S) \in S
    BY <2>1, <2>2, <2>3, NewestIsOne DEF BooksInvariant
  <2>5. QED
    BY <1>1, <2>1, <2>2, <2>4 DEF S
<1>3. buckets' = [buckets EXCEPT ![source].available = @ - moved,
                                 ![r.key] = NewBucket(moved, r.expires, r.period)]
  BY DEF Rollover
<1>4. UNCHANGED <<wallet, reservations>>
  BY DEF Rollover
<1>5. buckets \in [BucketKeys -> BucketRow]
  BY DEF BooksInvariant, TypeOK
<1>6. moved \in Nat /\ moved <= buckets[source].available
  <2>1. buckets[source].available \in Nat
    BY <1>2, <1>5 DEF BucketRow
  <2>2. QED
    BY <1>1, <2>1
<1> HIDE DEF source, moved
<1>7. /\ buckets'[r.key].made = BucketCount + 1 /\ buckets'[r.key].reserved = 0
      /\ buckets'[r.key].available = moved
  BY <1>1, <1>3, <1>5 DEF NewBucket
<1>8. \A b \in BucketKeys : b # r.key /\ b # source => buckets'[b] = buckets[b]
  BY <1>3, <1>5
<1>9. buckets'[source] = [buckets[source] EXCEPT !.available = @ - moved]
  BY <1>2, <1>3, <1>5
<1> DEFINE kept == [b \in BucketKeys |-> IF b = source THEN buckets[b].available - moved
                                                     ELSE buckets[b].available]
           gone == [b \in BucketKeys |-> IF b = source THEN moved ELSE 0]
<1>10. kept \in [BucketKeys -> Nat]
  <2>1. \A b \in BucketKeys : buckets[b].available \in Nat
    BY <1>5 DEF BucketRow
  <2>2. QED
    BY <1>6, <2>1
<1>11. gone \in [BucketKeys -> Nat] /\ gone[source] = moved /\ \A b \in BucketKeys : b # source => gone[b] = 0
  BY <1>2, <1>6
<1>12. \A b \in BucketKeys : Available[b] = kept[b] + gone[b]
  <2>1. ASSUME NEW b \in BucketKeys
        PROVE  Available[b] = kept[b] + gone[b]
    <3>1. buckets[b].available \in Nat
      BY <1>5 DEF BucketRow
    <3>2. QED
      BY <1>6, <3>1 DEF Available
  <2>2. QED
    BY <2>1
<1>13. \A b \in BucketKeys \ {r.key} :
         /\ buckets'[b].made = buckets[b].made
         /\ buckets'[b].reserved = buckets[b].reserved
         /\ buckets'[b].available = kept[b]
         /\ kept[b] <= buckets[b].available
  <2>1. ASSUME NEW b \in BucketKeys \ {r.key}
        PROVE  /\ buckets'[b].made = buckets[b].made
               /\ buckets'[b].reserved = buckets[b].reserved
               /\ buckets'[b].available = kept[b]
               /\ kept[b] <= buckets[b].available
    <3>1. buckets[b] \in BucketRow /\ buckets[b].available \in Nat
      BY <1>5 DEF BucketRow
    <3>2. CASE b = source
      BY <1>6, <1>9, <3>1, <3>2 DEF BucketRow
    <3>3. CASE b # source
      BY <1>8, <3>1, <3>3
    <3>4. QED
      BY <3>2, <3>3
  <2>2. QED
    BY <2>1
<1>14. kept[r.key] = 0
  BY <1>1, <1>2 DEF BooksInvariant, BucketsNumbered
<1> HIDE DEF kept, gone
<1>15. wallet'.available = Total(kept) + moved /\ wallet'.reserved = wallet.reserved
  <2>1. IsFiniteSet(Units(kept)) /\ IsFiniteSet(Units(gone)) /\ Total(gone) = moved
    BY <1>2, <1>10, <1>11, ConstantsAssumption, TotalFinite, TotalOfOne
  <2>2. Total(Available) = Total(kept) + Total(gone)
    <3>1. PICK whole \in [BucketKeys -> Nat] : whole = Available
      BY ColumnTypes DEF BooksInvariant
    <3>2. gone \in [BucketKeys -> Nat] /\ \A b \in BucketKeys : whole[b] = kept[b] + gone[b]
      BY <1>11, <1>12, <3>1
    <3>3. Total(whole) = Total(kept) + Total(gone)
      BY <1>10, <2>1, <3>2, TotalOfSum
    <3>4. QED
      BY <3>1, <3>3
  <2>3. QED
    BY <1>4, <2>1, <2>2 DEF BooksInvariant, BucketsBackWallet
<1>16. QED
  BY <1>1, <1>4, <1>6, <1>7, <1>10, <1>13, <1>14, <1>15, BooksInsert

-----------------------------------------------------------------------------
(* Steps that open or close a reservation *)

LEMMA BooksReserve ==
  ASSUME BooksInvariant, TypeOK', NEW c \in Clients, Reserve(c)
  PROVE  BooksInvariant'
<1> DEFINE q == inflight[c]
           spendable == [b \in BucketKeys |-> Swept.buckets[b].available]
<1>0. PICK key \in ReserveKeys : key = q.key
  BY RequestType DEF BooksInvariant, TypeOK, Reserve, Commits
<1>1. PICK amount \in Nat : amount = q.amount
  BY RequestType DEF BooksInvariant, TypeOK, Reserve, Commits, Credits
<1>2. PICK from \in [BucketKeys -> 0 .. amount] :
        /\ DrawnInOrder(from, spendable, amount)
        /\ reservations' = [reservations EXCEPT ![key] =
             [status |-> "RESERVED", amount |-> amount, from |-> from]]
        /\ buckets' = [b \in BucketKeys |->
             [Swept.buckets[b] EXCEPT !.available = @ - from[b], !.reserved = @ + from[b]]]
  BY <1>0, <1>1 DEF Reserve
<1>3. /\ reservations[key].status = "none"
      /\ wallet' = [wallet EXCEPT !.available = Swept.available - amount, !.reserved = @ + amount]
  BY <1>0, <1>1 DEF Reserve
<1> HIDE DEF q
<1>4. spendable \in [BucketKeys -> Nat] /\ \A b \in BucketKeys : spendable[b] = Swept.buckets[b].available
  BY SweptRow DEF BooksInvariant
<1> HIDE DEF spendable
<1>5. from \in [BucketKeys -> Nat] /\ Total(from) = amount /\ IsFiniteSet(Units(from))
      /\ \A b \in BucketKeys : from[b] <= spendable[b]
  <2>1. from \in [BucketKeys -> Nat]
    BY BoundedIsNat
  <2>2. IsFiniteSet(Units(from))
    BY <2>1, ConstantsAssumption, TotalFinite
  <2>3. QED
    BY <1>2, <2>1, <2>2 DEF DrawnInOrder
<1>6. ASSUME NEW b \in BucketKeys
      PROVE  /\ buckets'[b].made = buckets[b].made
             /\ buckets'[b].reserved = buckets[b].reserved + from[b]
             /\ buckets'[b].available = Swept.buckets[b].available - from[b]
             /\ ~Exists(b) => from[b] = 0 /\ buckets'[b].available = 0 /\ buckets'[b].reserved = 0
  <2>1. Swept.buckets[b] \in BucketRow /\ from[b] \in Nat
    BY <1>5, SweptRow DEF BooksInvariant
  <2>2. buckets'[b] = [Swept.buckets[b] EXCEPT !.available = @ - from[b], !.reserved = @ + from[b]]
    BY <1>2
  <2>3. /\ buckets'[b].made = Swept.buckets[b].made
        /\ buckets'[b].reserved = Swept.buckets[b].reserved + from[b]
        /\ buckets'[b].available = Swept.buckets[b].available - from[b]
    BY <2>1, <2>2 DEF BucketRow
  <2>4. /\ Swept.buckets[b].made = buckets[b].made
        /\ Swept.buckets[b].reserved = buckets[b].reserved
        /\ Swept.buckets[b].available <= buckets[b].available
        /\ Swept.buckets[b].available \in Nat
    BY SweptRow DEF BooksInvariant
  <2>5. ASSUME ~Exists(b)
        PROVE  from[b] = 0 /\ Swept.buckets[b].available = 0 /\ buckets[b].reserved = 0
    <3>1. buckets[b].available = 0 /\ buckets[b].reserved = 0
      BY <2>5 DEF BooksInvariant, BucketsNumbered
    <3>2. from[b] <= Swept.buckets[b].available
      BY <1>4, <1>5
    <3>3. QED
      BY <2>1, <2>4, <3>1, <3>2
  <2>6. QED
    BY <2>1, <2>3, <2>4, <2>5
<1>7. BucketsNumbered'
  BY <1>6, NumbersKept DEF BooksInvariant
<1>8. \A b \in BucketKeys : Exists(b)' <=> Exists(b)
  BY <1>6 DEF Exists
<1>9. wallet'.available = Swept.available - amount /\ wallet'.reserved = wallet.reserved + amount
  BY <1>3 DEF BooksInvariant, TypeOK
<1>10. wallet'.available = Total(Available')
  BY <1>2, <1>4, <1>6, <1>9, DrawLeaves DEF BooksInvariant
<1>11. wallet'.reserved = Total(Reserved')
  <2>1. \A b \in BucketKeys : Reserved'[b] = Reserved[b] + from[b]
    BY <1>6 DEF Reserved
  <2>2. /\ Reserved \in [BucketKeys -> Nat] /\ Reserved' \in [BucketKeys -> Nat]
        /\ IsFiniteSet(Units(Reserved))
    BY ColumnTypes, ColumnTypesNext, ConstantsAssumption, TotalFinite DEF BooksInvariant
  <2>3. Total(Reserved') = Total(Reserved) + amount
    BY <1>5, <2>1, <2>2, TotalOfSum
  <2>4. QED
    BY <1>9, <2>3 DEF BooksInvariant, BucketsBackWallet
<1>12. /\ reservations'[key].status = "RESERVED" /\ reservations'[key].amount = amount
       /\ reservations'[key].from = from
       /\ \A r \in ReserveKeys : r # key => reservations'[r] = reservations[r]
  BY <1>2 DEF BooksInvariant, TypeOK
<1>13. ASSUME NEW b \in BucketKeys
       PROVE  /\ IsFiniteSet(Units(HeldFrom(b)'))
              /\ buckets'[b].reserved = Total(HeldFrom(b)')
  <2> DEFINE one == [r \in ReserveKeys |-> IF r = key THEN from[b] ELSE 0]
  <2>1. one \in [ReserveKeys -> Nat] /\ one[key] = from[b] /\ \A r \in ReserveKeys : r # key => one[r] = 0
    BY <1>5
  <2>2. \A r \in ReserveKeys : HeldFrom(b)'[r] = HeldFrom(b)[r] + one[r]
    <3>1. HeldFrom(b)'[key] = from[b] /\ HeldFrom(b)[key] = 0
      BY <1>3, <1>12 DEF HeldFrom, Open
    <3>2. \A r \in ReserveKeys : r # key => HeldFrom(b)'[r] = HeldFrom(b)[r]
      BY <1>12 DEF HeldFrom, Open
    <3>3. \A r \in ReserveKeys : HeldFrom(b)[r] \in Nat
      BY ColumnTypes DEF BooksInvariant
    <3>4. from[b] \in Nat
      BY <1>5
    <3> HIDE DEF one
    <3>5. QED
      BY <2>1, <3>1, <3>2, <3>3, <3>4
  <2> HIDE DEF one
  <2>3. /\ HeldFrom(b) \in [ReserveKeys -> Nat] /\ HeldFrom(b)' \in [ReserveKeys -> Nat]
        /\ IsFiniteSet(Units(HeldFrom(b)))
    BY ColumnTypes, ColumnTypesNext DEF BooksInvariant, HeldCountable
  <2>4. IsFiniteSet(Units(one)) /\ Total(one) = from[b]
    BY <2>1, TotalOfOne
  <2>5. IsFiniteSet(Units(HeldFrom(b)')) /\ Total(HeldFrom(b)') = Total(HeldFrom(b)) + from[b]
    BY <2>1, <2>2, <2>3, <2>4, TotalOfSum
  <2>6. QED
    BY <1>6, <2>5 DEF BooksInvariant, HeldByOpenReservations
<1>14. IsFiniteSet(Units(Held')) /\ wallet'.reserved = Total(Held')
  <2> DEFINE one == [r \in ReserveKeys |-> IF r = key THEN amount ELSE 0]
  <2>1. one \in [ReserveKeys -> Nat] /\ one[key] = amount /\ \A r \in ReserveKeys : r # key => one[r] = 0
    OBVIOUS
  <2>2. \A r \in ReserveKeys : Held'[r] = Held[r] + one[r]
    <3>1. Held'[key] = amount /\ Held[key] = 0
      BY <1>3, <1>12 DEF Held, Open
    <3>2. \A r \in ReserveKeys : r # key => Held'[r] = Held[r]
      BY <1>12 DEF Held, Open
    <3>3. \A r \in ReserveKeys : Held[r] \in Nat
      BY ColumnTypes DEF BooksInvariant
    <3> HIDE DEF one
    <3>4. QED
      BY <2>1, <3>1, <3>2, <3>3
  <2> HIDE DEF one
  <2>3. /\ Held \in [ReserveKeys -> Nat] /\ Held' \in [ReserveKeys -> Nat]
        /\ IsFiniteSet(Units(Held))
    BY ColumnTypes, ColumnTypesNext DEF BooksInvariant, HeldCountable
  <2>4. IsFiniteSet(Units(one)) /\ Total(one) = amount
    BY <2>1, TotalOfOne
  <2>5. IsFiniteSet(Units(Held')) /\ Total(Held') = Total(Held) + amount
    BY <2>1, <2>2, <2>3, <2>4, TotalOfSum
  <2>6. QED
    BY <1>9, <2>5 DEF BooksInvariant, HeldByOpenReservations
<1>15. HoldsAllocated'
  <2>1. ASSUME NEW r \in ReserveKeys, Open(r)'
        PROVE  /\ Total(reservations'[r].from) = reservations'[r].amount
               /\ \A b \in BucketKeys : reservations'[r].from[b] > 0 => Exists(b)'
    <3>1. CASE r = key
      <4>1. \A b \in BucketKeys : from[b] > 0 => Exists(b)
        BY <1>5, <1>6
      <4>2. QED
        BY <1>5, <1>8, <1>12, <3>1, <4>1
    <3>2. CASE r # key
      BY <1>8, <1>12, <2>1, <3>2 DEF BooksInvariant, HoldsAllocated, Open
    <3>3. QED
      BY <3>1, <3>2
  <2>2. QED
    BY <2>1 DEF HoldsAllocated
<1>16. HeldByOpenReservations'
  BY <1>13, <1>14 DEF HeldByOpenReservations
<1>17. HeldCountable'
  BY <1>13, <1>14 DEF HeldCountable
<1>18. QED
  BY <1>7, <1>10, <1>11, <1>15, <1>16, <1>17 DEF BooksInvariant, BucketsBackWallet

LEMMA BooksSettle ==
  ASSUME BooksInvariant, TypeOK', NEW c \in Clients, Settle(c)
  PROVE  BooksInvariant'
<1> DEFINE q == inflight[c]
<1>0. PICK target \in ReserveKeys : target = q.reservation
  BY RequestType DEF BooksInvariant, TypeOK, Settle, Commits
<1>1. PICK settled \in Nat : settled = CreditsFromUsd(q.billable)
  BY RequestType, CreditsFromUsdType DEF BooksInvariant, TypeOK, Settle, Commits
<1> DEFINE amount == reservations[target].amount
           from == reservations[target].from
<1>2. amount \in Nat /\ from \in [BucketKeys -> Nat] /\ settled <= amount
      /\ reservations[target].status = "RESERVED"
  BY <1>0, <1>1 DEF BooksInvariant, TypeOK, Settle, Chargeable
<1>3. PICK released \in Nat : released = amount - settled /\ amount = settled + released
  BY <1>2
<1>4. /\ reservations' = [reservations EXCEPT ![target].status = "SETTLED"]
      /\ wallet' = [available |-> wallet.available + released,
                    reserved  |-> wallet.reserved - settled - released,
                    consumed  |-> wallet.consumed + settled]
  BY <1>0, <1>1, <1>3 DEF Settle
<1>5. PICK used \in [BucketKeys -> 0 .. settled] :
        /\ DrawnInOrder(used, from, settled)
        /\ \E back \in [BucketKeys -> 0 .. released] :
             /\ DrawnInReverse(back, from, released)
             /\ buckets' = [b \in BucketKeys |-> Freed(b, used, back)]
  BY <1>0, <1>1, <1>3 DEF Settle
<1>6. PICK back \in [BucketKeys -> 0 .. released] :
        /\ DrawnInReverse(back, from, released)
        /\ buckets' = [b \in BucketKeys |-> Freed(b, used, back)]
  BY <1>5
<1>7. Open(target) /\ Total(from) = amount /\ \A b \in BucketKeys : from[b] > 0 => Exists(b)
  BY <1>2 DEF BooksInvariant, HoldsAllocated, Open
<1>8. /\ reservations'[target].status = "SETTLED"
      /\ \A r \in ReserveKeys : r # target => reservations'[r] = reservations[r]
      /\ ~Open(target)'
  BY <1>4 DEF BooksInvariant, TypeOK, Open
<1> HIDE DEF q, amount, from
<1>9. used \in [BucketKeys -> Nat] /\ back \in [BucketKeys -> Nat]
  BY <1>1, <1>3
<1>10. \A b \in BucketKeys : used[b] + back[b] = from[b]
  BY <1>2, <1>3, <1>5, <1>6, <1>7, <1>9, DrawsMeet DEF BooksInvariant
<1>11. ASSUME NEW b \in BucketKeys
       PROVE  /\ buckets'[b].made = buckets[b].made
              /\ buckets'[b].available = buckets[b].available + back[b]
              /\ buckets'[b].reserved = buckets[b].reserved - from[b]
              /\ ~Exists(b) => buckets'[b].available = 0 /\ buckets'[b].reserved = 0
  <2>1. buckets[b] \in BucketRow /\ used[b] \in Nat /\ back[b] \in Nat /\ from[b] \in Nat
    BY <1>2, <1>9 DEF BooksInvariant, TypeOK
  <2>2. buckets'[b] = [buckets[b] EXCEPT !.available = @ + back[b],
                                         !.reserved = @ - used[b] - back[b]]
    BY <1>6 DEF Freed
  <2>3. /\ buckets'[b].made = buckets[b].made
        /\ buckets'[b].available = buckets[b].available + back[b]
        /\ buckets'[b].reserved = (buckets[b].reserved - used[b]) - back[b]
        /\ buckets[b].reserved \in Nat
    BY <2>1, <2>2 DEF BucketRow
  <2>4. used[b] + back[b] = from[b]
    BY <1>10
  <2>5. ASSUME ~Exists(b)
        PROVE  from[b] = 0 /\ back[b] = 0 /\ buckets[b].available = 0 /\ buckets[b].reserved = 0
    <3>1. buckets[b].available = 0 /\ buckets[b].reserved = 0
      BY <2>5 DEF BooksInvariant, BucketsNumbered
    <3>2. ~(from[b] > 0)
      BY <1>7, <2>5
    <3>3. QED
      BY <2>1, <2>4, <3>1, <3>2
  <2>6. (buckets[b].reserved - used[b]) - back[b] = buckets[b].reserved - from[b]
    BY <2>1, <2>3, <2>4
  <2>7. buckets'[b].reserved = buckets[b].reserved - from[b]
    BY <2>3, <2>6
  <2>8. QED
    BY <2>3, <2>5, <2>7
<1>12. BucketsNumbered'
  BY <1>11, NumbersKept DEF BooksInvariant
<1>13. \A b \in BucketKeys : Exists(b)' <=> Exists(b)
  BY <1>11 DEF Exists
<1>14. /\ wallet'.available = wallet.available + released
       /\ wallet'.reserved = wallet.reserved - amount
  <2>1. wallet.reserved \in Nat
    BY DEF BooksInvariant, TypeOK
  <2>2. /\ wallet'.available = wallet.available + released
        /\ wallet'.reserved = wallet.reserved - settled - released
    BY <1>4
  <2>3. (wallet.reserved - settled) - released = wallet.reserved - (settled + released)
    BY <2>1
  <2>4. QED
    BY <1>3, <2>2, <2>3
<1>15. wallet'.available = Total(Available')
  <2>1. \A b \in BucketKeys : Available'[b] = Available[b] + back[b]
    BY <1>11 DEF Available
  <2>2. /\ Available \in [BucketKeys -> Nat] /\ Available' \in [BucketKeys -> Nat]
        /\ IsFiniteSet(Units(Available)) /\ IsFiniteSet(Units(back))
    BY <1>9, ColumnTypes, ColumnTypesNext, ConstantsAssumption, TotalFinite DEF BooksInvariant
  <2>3. Total(Available') = Total(Available) + released
    <3>1. Total(back) = released
      BY <1>6 DEF DrawnInReverse
    <3>2. Total(Available') = Total(Available) + Total(back)
      BY <1>9, <2>1, <2>2, TotalOfSum
    <3>3. QED
      BY <3>1, <3>2
  <2>4. QED
    BY <1>14, <2>3 DEF BooksInvariant, BucketsBackWallet
<1>16. wallet'.reserved = Total(Reserved')
  <2>1. \A b \in BucketKeys : Reserved'[b] = Reserved[b] - from[b]
    BY <1>11 DEF Reserved
  <2>2. /\ Reserved \in [BucketKeys -> Nat] /\ Reserved' \in [BucketKeys -> Nat]
        /\ IsFiniteSet(Units(Reserved))
    BY ColumnTypes, ColumnTypesNext, ConstantsAssumption, TotalFinite DEF BooksInvariant
  <2>3. Total(Reserved') = Total(Reserved) - amount
    BY <1>2, <1>7, <2>1, <2>2, TotalOfRest
  <2>4. QED
    BY <1>14, <2>3 DEF BooksInvariant, BucketsBackWallet
<1>17. ASSUME NEW b \in BucketKeys
       PROVE  /\ IsFiniteSet(Units(HeldFrom(b)'))
              /\ buckets'[b].reserved = Total(HeldFrom(b)')
  <2> DEFINE one == [r \in ReserveKeys |-> IF r = target THEN from[b] ELSE 0]
  <2>1. one \in [ReserveKeys -> Nat] /\ one[target] = from[b]
        /\ \A r \in ReserveKeys : r # target => one[r] = 0
    BY <1>2
  <2>2. \A r \in ReserveKeys : HeldFrom(b)'[r] = HeldFrom(b)[r] - one[r]
    <3>1. HeldFrom(b)'[target] = 0 /\ HeldFrom(b)[target] = from[b]
      BY <1>7, <1>8 DEF HeldFrom, from
    <3>2. \A r \in ReserveKeys : r # target => HeldFrom(b)'[r] = HeldFrom(b)[r]
      BY <1>8 DEF HeldFrom, Open
    <3>3. \A r \in ReserveKeys : HeldFrom(b)[r] \in Nat
      BY ColumnTypes DEF BooksInvariant
    <3>4. from[b] \in Nat
      BY <1>2
    <3> HIDE DEF one
    <3>5. QED
      BY <2>1, <3>1, <3>2, <3>3, <3>4
  <2> HIDE DEF one
  <2>3. /\ HeldFrom(b) \in [ReserveKeys -> Nat] /\ HeldFrom(b)' \in [ReserveKeys -> Nat]
        /\ IsFiniteSet(Units(HeldFrom(b)))
    BY ColumnTypes, ColumnTypesNext DEF BooksInvariant, HeldCountable
  <2>4. Total(one) = from[b]
    BY <2>1, TotalOfOne
  <2>5. IsFiniteSet(Units(HeldFrom(b)')) /\ Total(HeldFrom(b)') = Total(HeldFrom(b)) - from[b]
    BY <2>1, <2>2, <2>3, <2>4, TotalOfRest
  <2>6. QED
    BY <1>11, <2>5 DEF BooksInvariant, HeldByOpenReservations
<1>18. IsFiniteSet(Units(Held')) /\ wallet'.reserved = Total(Held')
  <2> DEFINE one == [r \in ReserveKeys |-> IF r = target THEN amount ELSE 0]
  <2>1. one \in [ReserveKeys -> Nat] /\ one[target] = amount
        /\ \A r \in ReserveKeys : r # target => one[r] = 0
    BY <1>2
  <2>2. \A r \in ReserveKeys : Held'[r] = Held[r] - one[r]
    <3>1. Held'[target] = 0 /\ Held[target] = amount
      BY <1>7, <1>8 DEF Held, amount
    <3>2. \A r \in ReserveKeys : r # target => Held'[r] = Held[r]
      BY <1>8 DEF Held, Open
    <3>3. \A r \in ReserveKeys : Held[r] \in Nat
      BY ColumnTypes DEF BooksInvariant
    <3> HIDE DEF one
    <3>4. QED
      BY <1>2, <2>1, <3>1, <3>2, <3>3
  <2> HIDE DEF one
  <2>3. /\ Held \in [ReserveKeys -> Nat] /\ Held' \in [ReserveKeys -> Nat]
        /\ IsFiniteSet(Units(Held))
    BY ColumnTypes, ColumnTypesNext DEF BooksInvariant, HeldCountable
  <2>4. Total(one) = amount
    BY <2>1, TotalOfOne
  <2>5. IsFiniteSet(Units(Held')) /\ Total(Held') = Total(Held) - amount
    BY <2>1, <2>2, <2>3, <2>4, TotalOfRest
  <2>6. QED
    BY <1>14, <2>5 DEF BooksInvariant, HeldByOpenReservations
<1>19. HoldsAllocated'
  BY <1>8, <1>13 DEF BooksInvariant, HoldsAllocated, Open
<1>20. HeldByOpenReservations'
  BY <1>17, <1>18 DEF HeldByOpenReservations
<1>21. HeldCountable'
  BY <1>17, <1>18 DEF HeldCountable
<1>22. QED
  BY <1>12, <1>15, <1>16, <1>19, <1>20, <1>21 DEF BooksInvariant, BucketsBackWallet

-----------------------------------------------------------------------------
(* Every step keeps the books *)

\* They are kept in three tables.
LEMMA BooksFrame ==
  ASSUME BooksInvariant, TypeOK', UNCHANGED <<wallet, buckets, reservations>>
  PROVE  BooksInvariant'
<1>1. BucketsNumbered' /\ HoldsAllocated'
  BY DEF BooksInvariant, BucketsNumbered, BucketCount, HoldsAllocated, Exists, Open
<1>2. Available' = Available /\ Reserved' = Reserved
  BY DEF Available, Reserved
<1>3. Held' = Held /\ \A b \in BucketKeys : HeldFrom(b)' = HeldFrom(b)
  BY DEF Held, HeldFrom, Open
<1>4. HeldByOpenReservations' /\ HeldCountable' /\ BucketsBackWallet'
  BY <1>2, <1>3
  DEF BooksInvariant, HeldByOpenReservations, HeldCountable, BucketsBackWallet
<1>5. QED
  BY <1>1, <1>4 DEF BooksInvariant

LEMMA BooksNext == BooksInvariant /\ [Next]_vars => BooksInvariant'
<1> SUFFICES ASSUME BooksInvariant, [Next]_vars
             PROVE  BooksInvariant'
  OBVIOUS
<1>0. TypeOK'
  BY NextType DEF BooksInvariant
<1>1. ASSUME NEW c \in Clients, NEW q \in Requests, Begin(c, q)
      PROVE  BooksInvariant'
  BY <1>0, <1>1, BooksFrame DEF Begin, tables
<1>2. ASSUME NEW c \in Clients, Rollback(c)
      PROVE  BooksInvariant'
  BY <1>0, <1>2, BooksFrame DEF Rollback, tables
<1>3. ASSUME NEW c \in Clients, Grant(c) \/ AdjustUp(c) \/ AdjustDown(c)
      PROVE  BooksInvariant'
  BY <1>0, <1>3, BooksGrant, BooksAdjustUp, BooksAdjustDown
<1>4. ASSUME NEW c \in Clients, Reserve(c) \/ Settle(c)
      PROVE  BooksInvariant'
  BY <1>0, <1>4, BooksReserve, BooksSettle
<1>5. CASE ReadBalance
  BY <1>0, <1>5, BooksReadBalance
<1>6. ASSUME NEW r \in Rollovers, Rollover(r)
      PROVE  BooksInvariant'
  BY <1>0, <1>6, BooksRollover
<1>7. CASE Tick \/ UNCHANGED vars
  BY <1>0, <1>7, BooksFrame DEF Tick, vars, tables
<1>8. QED
  BY <1>1, <1>2, <1>3, <1>4, <1>5, <1>6, <1>7 DEF Next

\* What the wallet and its buckets have reserved is what open reservations
\* hold, for any number of buckets, reservations and connections.
THEOREM HeldIsReserved == Spec => []HeldByOpenReservations
BY BooksInit, BooksNext, PTL DEF Spec, BooksInvariant

\* The wallet shows the credits its buckets can pay, and no other.
THEOREM BucketsPayTheWallet == Spec => []BucketsBackWallet
BY BooksInit, BooksNext, PTL DEF Spec, BooksInvariant

-----------------------------------------------------------------------------
(* Reservations draw on the soonest unexpired credits *)

LEMMA SoonestStep ==
  ASSUME BooksInvariant, TypeOK', NEW c \in Clients, Reserve(c), NEW r \in ReserveKeys,
         reservations[r].status = "none", Open(r)', NEW b \in BucketKeys,
         reservations'[r].from[b] > 0
  PROVE  ~Expired(b) /\ \A x \in BucketKeys : Before(x, b) => buckets'[x].available = 0
<1> DEFINE q == inflight[c]
           spendable == [x \in BucketKeys |-> Swept.buckets[x].available]
<1>0. PICK key \in ReserveKeys : key = q.key
  BY RequestType DEF BooksInvariant, TypeOK, Reserve, Commits
<1>1. PICK amount \in Nat : amount = q.amount
  BY RequestType DEF BooksInvariant, TypeOK, Reserve, Commits, Credits
<1>2. PICK from \in [BucketKeys -> 0 .. amount] :
        /\ DrawnInOrder(from, spendable, amount)
        /\ reservations' = [reservations EXCEPT ![key] =
             [status |-> "RESERVED", amount |-> amount, from |-> from]]
        /\ buckets' = [x \in BucketKeys |->
             [Swept.buckets[x] EXCEPT !.available = @ - from[x], !.reserved = @ + from[x]]]
  BY <1>0, <1>1 DEF Reserve
<1> HIDE DEF q
<1>3. spendable \in [BucketKeys -> Nat] /\ \A x \in BucketKeys : spendable[x] = Swept.buckets[x].available
  BY SweptRow DEF BooksInvariant
<1> HIDE DEF spendable
<1>4. r = key /\ reservations'[r].from = from
  <2>1. r # key => reservations'[r] = reservations[r]
    BY <1>2 DEF BooksInvariant, TypeOK
  <2>2. r = key
    BY <2>1 DEF Open
  <2>3. QED
    BY <1>2, <2>2 DEF BooksInvariant, TypeOK
<1>5. from[b] > 0 /\ from[b] \in Nat /\ from[b] <= spendable[b]
  <2>1. from \in [BucketKeys -> Nat]
    BY BoundedIsNat
  <2>2. from[b] > 0
    BY <1>4
  <2>3. QED
    BY <1>2, <2>1, <2>2 DEF DrawnInOrder
<1>6. ~Expired(b)
  BY <1>3, <1>5, SweptRow DEF BooksInvariant
<1>7. ASSUME NEW x \in BucketKeys, Before(x, b)
      PROVE  buckets'[x].available = 0
  <2>1. from[x] = spendable[x] /\ from[x] = Swept.buckets[x].available
    BY <1>2, <1>3, <1>5, <1>7 DEF DrawnInOrder
  <2>2. Swept.buckets[x] \in BucketRow
    BY SweptRow DEF BooksInvariant
  <2>3. buckets'[x].available = Swept.buckets[x].available - from[x]
    BY <1>2, <2>2 DEF BucketRow
  <2>4. QED
    BY <2>1, <2>2, <2>3 DEF BucketRow
<1>8. QED
  BY <1>6, <1>7

\* A row of reservations is made by Reserve and by no other step.
LEMMA OnlyReserveMakes ==
  ASSUME TypeOK, [Next]_vars, NEW r \in ReserveKeys,
         reservations[r].status = "none", Open(r)'
  PROVE  \E c \in Clients : Reserve(c)
<1>1. reservations' # reservations
  BY DEF Open
<1>2. ASSUME NEW c \in Clients, Settle(c)
      PROVE  FALSE
  <2> DEFINE q == inflight[c]
  <2>0. PICK target \in ReserveKeys : target = q.reservation
    BY <1>2, RequestType DEF TypeOK, Settle, Commits
  <2>1. reservations' = [reservations EXCEPT ![target].status = "SETTLED"]
    BY <1>2, <2>0 DEF Settle
  <2> HIDE DEF q
  <2>2. reservations'[target].status = "SETTLED" /\ \A k \in ReserveKeys : k # target => reservations'[k] = reservations[k]
    BY <2>1 DEF TypeOK
  <2>3. QED
    BY <2>2 DEF Open
<1>3. ASSUME NEW c \in Clients, NEW q \in Requests, Begin(c, q)
      PROVE  FALSE
  BY <1>1, <1>3 DEF Begin, tables
<1>4. ASSUME NEW c \in Clients, Rollback(c) \/ Grant(c) \/ AdjustUp(c) \/ AdjustDown(c)
      PROVE  FALSE
  BY <1>1, <1>4 DEF Rollback, Grant, AdjustUp, AdjustDown, tables
<1>5. ASSUME NEW k \in Rollovers, Rollover(k)
      PROVE  FALSE
  BY <1>1, <1>5 DEF Rollover
<1>6. ~ReadBalance /\ ~Tick /\ ~UNCHANGED vars
  BY <1>1 DEF ReadBalance, Tick, vars, tables
<1>7. QED
  BY <1>2, <1>3, <1>4, <1>5, <1>6 DEF Next

\* No reservation takes credits of a bucket that has expired, nor of one while
\* a bucket that expires sooner has credits left.
THEOREM DrawsSoonestFirst == Spec => SoonestUnexpiredFirst
<1> DEFINE Soonest ==
      \A r \in ReserveKeys : reservations[r].status = "none" /\ Open(r)' =>
        \A b \in BucketKeys : reservations'[r].from[b] > 0 =>
          /\ ~Expired(b)
          /\ \A x \in BucketKeys : Before(x, b) => buckets'[x].available = 0
<1>1. BooksInvariant /\ BooksInvariant' /\ [Next]_vars => Soonest
  <2>1. SUFFICES ASSUME BooksInvariant, TypeOK', [Next]_vars, NEW r \in ReserveKeys,
                        reservations[r].status = "none", Open(r)', NEW b \in BucketKeys,
                        reservations'[r].from[b] > 0
                 PROVE  ~Expired(b) /\ \A x \in BucketKeys : Before(x, b) => buckets'[x].available = 0
    BY DEF BooksInvariant
  <2>2. PICK c \in Clients : Reserve(c)
    BY <2>1, OnlyReserveMakes DEF BooksInvariant
  <2>3. QED
    BY <2>1, <2>2, SoonestStep
<1>2. Spec => []BooksInvariant
  BY BooksInit, BooksNext, PTL DEF Spec
<1>3. Spec => [][Soonest]_vars
  <2> HIDE DEF Soonest
  <2>1. QED
    BY <1>1, <1>2, PTL DEF Spec
<1>4. QED
  BY <1>3 DEF SoonestUnexpiredFirst

-----------------------------------------------------------------------------
(* The ledger covers the wallet *)

LEMMA LedgerInit == Init => LedgerCoversWallet
BY DEF Init, LedgerCoversWallet

LEMMA LedgerNext == TypeOK /\ LedgerCoversWallet /\ [Next]_vars => LedgerCoversWallet'
<1> SUFFICES ASSUME TypeOK, LedgerCoversWallet, [Next]_vars
             PROVE  LedgerCoversWallet'
  OBVIOUS
<1>1. /\ wallet \in [available : Nat, reserved : Nat, consumed : Nat]
      /\ ledgerSum \in [available : Int, reserved : Int, consumed : Int]
  BY DEF TypeOK
<1>2. /\ Swept.available = wallet.available - Total(Stale)
      /\ Swept.logged = Total(LoggedExpiry)
      /\ Total(LoggedExpiry) \in Nat /\ Total(Stale) \in Nat
      /\ Total(LoggedExpiry) <= Total(Stale)
  BY StaleType DEF Swept
<1>3. ASSUME UNCHANGED <<wallet, ledgerSum>>
      PROVE  LedgerCoversWallet'
  BY <1>3 DEF LedgerCoversWallet
<1>4. ASSUME NEW c \in Clients, Grant(c)
      PROVE  LedgerCoversWallet'
  <2>1. PICK amount \in Nat : amount = inflight[c].amount
    BY <1>4, RequestType DEF TypeOK, Grant, Commits, Credits
  <2>2. /\ wallet' = [wallet EXCEPT !.available = @ + amount]
        /\ ledgerSum' = [ledgerSum EXCEPT !.available = @ + amount]
    BY <1>4, <2>1 DEF Grant
  <2>3. QED
    BY <1>1, <2>2 DEF LedgerCoversWallet
<1>5. ASSUME NEW c \in Clients, Reserve(c)
      PROVE  LedgerCoversWallet'
  <2>1. PICK amount \in Nat : amount = inflight[c].amount
    BY <1>5, RequestType DEF TypeOK, Reserve, Commits, Credits
  <2>2. /\ wallet' = [wallet EXCEPT !.available = Swept.available - amount, !.reserved = @ + amount]
        /\ ledgerSum' = [ledgerSum EXCEPT !.available = @ - Swept.logged - amount,
                                          !.reserved = @ + amount]
    BY <1>5, <2>1 DEF Reserve
  <2>3. QED
    BY <1>1, <1>2, <2>2 DEF LedgerCoversWallet
<1>6. ASSUME NEW c \in Clients, Settle(c)
      PROVE  LedgerCoversWallet'
  <2>1. PICK settled, released :
          /\ settled \in Int /\ released \in Int
          /\ wallet' = [available |-> wallet.available + released,
                        reserved  |-> wallet.reserved - settled - released,
                        consumed  |-> wallet.consumed + settled]
          /\ ledgerSum' = [available |-> ledgerSum.available + released,
                           reserved  |-> ledgerSum.reserved - settled - released,
                           consumed  |-> ledgerSum.consumed + settled]
    <3> DEFINE q == inflight[c]
               settled == CreditsFromUsd(q.billable)
               released == reservations[q.reservation].amount - settled
    <3>1. q.reservation \in ReserveKeys /\ settled \in Nat
      BY <1>6, RequestType, CreditsFromUsdType DEF TypeOK, Settle, Commits
    <3>2. released \in Int
      BY <3>1 DEF TypeOK
    <3>3. /\ wallet' = [available |-> wallet.available + released,
                        reserved  |-> wallet.reserved - settled - released,
                        consumed  |-> wallet.consumed + settled]
          /\ ledgerSum' = [available |-> ledgerSum.available + released,
                           reserved  |-> ledgerSum.reserved - settled - released,
                           consumed  |-> ledgerSum.consumed + settled]
      BY <1>6 DEF Settle
    <3> HIDE DEF q, settled, released
    <3>4. QED
      BY <3>1, <3>2, <3>3
  <2>2. QED
    BY <1>1, <2>1 DEF LedgerCoversWallet
<1>7. ASSUME NEW c \in Clients, AdjustUp(c) \/ AdjustDown(c)
      PROVE  LedgerCoversWallet'
  <2>1. PICK amount \in Nat : amount = inflight[c].amount
    BY <1>7, RequestType DEF TypeOK, AdjustUp, AdjustDown, Commits, Credits
  <2>2. CASE AdjustUp(c)
    <3>1. /\ wallet' = [wallet EXCEPT !.available = Swept.available + amount]
          /\ ledgerSum' = [ledgerSum EXCEPT !.available = @ - Swept.logged + amount]
      BY <2>1, <2>2 DEF AdjustUp
    <3>2. QED
      BY <1>1, <1>2, <3>1 DEF LedgerCoversWallet
  <2>3. CASE AdjustDown(c)
    <3>1. /\ wallet' = [wallet EXCEPT !.available = Swept.available - amount]
          /\ ledgerSum' = [ledgerSum EXCEPT !.available = @ - Swept.logged - amount]
      BY <2>1, <2>3 DEF AdjustDown
    <3>2. QED
      BY <1>1, <1>2, <3>1 DEF LedgerCoversWallet
  <2>4. QED
    BY <1>7, <2>2, <2>3
<1>8. CASE ReadBalance
  <2>1. /\ wallet' = [wallet EXCEPT !.available = Swept.available]
        /\ ledgerSum' = [ledgerSum EXCEPT !.available = @ - Swept.logged]
    BY <1>8 DEF ReadBalance
  <2>2. QED
    BY <1>1, <1>2, <2>1 DEF LedgerCoversWallet
<1>9. ASSUME NEW c \in Clients, NEW q \in Requests, Begin(c, q)
       PROVE  LedgerCoversWallet'
  BY <1>3, <1>9 DEF Begin, tables
<1>10. ASSUME NEW c \in Clients, Rollback(c)
       PROVE  LedgerCoversWallet'
  BY <1>3, <1>10 DEF Rollback, tables
<1>11. ASSUME NEW r \in Rollovers, Rollover(r)
       PROVE  LedgerCoversWallet'
  BY <1>3, <1>11 DEF Rollover
<1>12. CASE Tick \/ UNCHANGED vars
  BY <1>3, <1>12 DEF Tick, vars, tables
<1>13. QED
  BY <1>4, <1>5, <1>6, <1>7, <1>8, <1>9, <1>10, <1>11, <1>12 DEF Next

\* The ledger accounts for every credit held and consumed, and never for fewer
\* available ones than the wallet shows.
THEOREM LedgerCovers == Spec => []LedgerCoversWallet
BY InitType, NextType, LedgerInit, LedgerNext, PTL DEF Spec

-----------------------------------------------------------------------------
(* The store implements the account *)

\* The hold that a reservation is to the abstract account.
HoldOf(r) ==
  [status |-> CASE reservations[r].status = "none" -> "none"
                [] reservations[r].status = "RESERVED" -> "open"
                [] reservations[r].status = "SETTLED" -> "closed",
   amount |-> reservations[r].amount]

LEMMA AccountInit == Init => Account!Init
BY DEF Init, Account!Init

\* Reservations that do not change are holds that do not change, so a step that
\* touches only the available balance is a deposit, a write-off or a stutter.
LEMMA AccountBalanceStep ==
  ASSUME TypeOK, UNCHANGED reservations, wallet'.available \in Nat,
         wallet'.reserved = wallet.reserved, wallet'.consumed = wallet.consumed
  PROVE  [Account!Next]_(Account!account)
<1>1. wallet.available \in Nat
  BY DEF TypeOK
<1>2. \/ wallet'.available = wallet.available
      \/ wallet'.available > wallet.available
      \/ wallet'.available < wallet.available
  BY <1>1
<1>3. CASE wallet'.available = wallet.available
  BY <1>3 DEF Account!account
<1>4. CASE wallet'.available > wallet.available
  BY <1>4 DEF Account!Next, Account!Deposit
<1>5. CASE wallet'.available < wallet.available
  BY <1>5 DEF Account!Next, Account!WriteOff
<1>6. QED
  BY <1>2, <1>3, <1>4, <1>5

LEMMA AccountReserveStep ==
  ASSUME TypeOK, NEW c \in Clients, Reserve(c)
  PROVE  Account!Next
<1> DEFINE q == inflight[c]
           amount == q.amount
           stale == Total(Stale)
           holds == [r \in ReserveKeys |-> HoldOf(r)]
<1>0. PICK key \in ReserveKeys : key = q.key
  BY RequestType DEF TypeOK, Reserve, Commits
<1>1. amount \in Nat
  BY RequestType DEF TypeOK, Reserve, Commits, Credits
<1>2. PICK from : reservations' = [reservations EXCEPT ![key] =
        [status |-> "RESERVED", amount |-> amount, from |-> from]]
  BY <1>0 DEF Reserve
<1>3. /\ reservations[key].status = "none"
      /\ stale \in Nat
      /\ wallet' = [wallet EXCEPT !.available = (wallet.available - stale) - amount,
                                  !.reserved = @ + amount]
      /\ wallet'.available \in Nat
  BY <1>0, StaleType DEF Reserve, Swept, ChecksHold
<1> HIDE DEF q, amount, stale
<1>4. \A r \in ReserveKeys : r # key => reservations'[r] = reservations[r]
  BY <1>2 DEF TypeOK
<1>5. reservations'[key].status = "RESERVED" /\ reservations'[key].amount = amount
  BY <1>1, <1>2 DEF TypeOK
<1>6. holds' = [holds EXCEPT ![key] = holds'[key]]
  BY <1>4 DEF HoldOf
<1>7. /\ holds[key].status = "none"
      /\ holds'[key].status = "open"
      /\ holds'[key].amount = amount
  BY <1>1, <1>3, <1>5 DEF HoldOf
<1>8. /\ wallet'.reserved = wallet.reserved + amount
      /\ wallet'.available <= wallet.available - amount
      /\ wallet'.available >= 0
      /\ wallet'.consumed = wallet.consumed
  BY <1>1, <1>3 DEF TypeOK
<1>9. Account!Open(key)
  BY <1>6, <1>7, <1>8 DEF Account!Open, HoldOf
<1>10. QED
  BY <1>9 DEF Account!Next

LEMMA AccountSettleStep ==
  ASSUME TypeOK, NEW c \in Clients, Settle(c)
  PROVE  Account!Next
<1> DEFINE q == inflight[c]
           settled == CreditsFromUsd(q.billable)
           holds == [r \in ReserveKeys |-> HoldOf(r)]
<1>0. PICK target \in ReserveKeys : target = q.reservation
  BY RequestType DEF TypeOK, Settle, Commits
<1>1. settled \in Nat
  BY RequestType, CreditsFromUsdType DEF TypeOK, Settle, Commits
<1> DEFINE amount == reservations[target].amount
<1>2. /\ reservations[target].status = "RESERVED"
      /\ settled <= amount
      /\ reservations' = [reservations EXCEPT ![target].status = "SETTLED"]
      /\ wallet' = [available |-> wallet.available + (amount - settled),
                    reserved  |-> wallet.reserved - settled - (amount - settled),
                    consumed  |-> wallet.consumed + settled]
  BY <1>0 DEF Settle, Chargeable
<1> HIDE DEF q, settled
<1>3. amount \in Nat
  BY <1>1 DEF TypeOK
<1>4. /\ reservations'[target].status = "SETTLED"
      /\ reservations'[target].amount = amount
      /\ \A r \in ReserveKeys : r # target => reservations'[r] = reservations[r]
  BY <1>1, <1>2 DEF TypeOK
<1>5. holds[target].status = "open" /\ holds[target].amount = amount
  BY <1>1, <1>2 DEF HoldOf
<1>6. holds' = [holds EXCEPT ![target].status = "closed"]
  BY <1>1, <1>2, <1>4 DEF HoldOf
<1>7. /\ wallet'.reserved = wallet.reserved - amount
      /\ wallet'.consumed >= wallet.consumed
      /\ wallet'.consumed - wallet.consumed <= amount
      /\ wallet'.available + wallet'.consumed = wallet.available + wallet.consumed + amount
  BY <1>1, <1>2, <1>3 DEF TypeOK
<1>8. Account!Close(target)
  BY <1>5, <1>6, <1>7 DEF Account!Close, HoldOf
<1>9. QED
  BY <1>8 DEF Account!Next

LEMMA AccountStep == TypeOK /\ [Next]_vars => [Account!Next]_(Account!account)
<1> SUFFICES ASSUME TypeOK, [Next]_vars
             PROVE  [Account!Next]_(Account!account)
  OBVIOUS
<1>1. ASSUME UNCHANGED <<wallet, reservations>>
      PROVE  [Account!Next]_(Account!account)
  BY <1>1 DEF Account!account
<1>2. ASSUME NEW c \in Clients, NEW q \in Requests, Begin(c, q)
      PROVE  [Account!Next]_(Account!account)
  BY <1>1, <1>2 DEF Begin, tables
<1>3. ASSUME NEW c \in Clients, Rollback(c)
      PROVE  [Account!Next]_(Account!account)
  BY <1>1, <1>3 DEF Rollback, tables
<1>4. ASSUME NEW c \in Clients, Grant(c) \/ AdjustUp(c) \/ AdjustDown(c)
      PROVE  [Account!Next]_(Account!account)
  <2>1. UNCHANGED reservations /\ wallet'.available \in Nat
    BY <1>4 DEF Grant, AdjustUp, AdjustDown, ChecksHold
  <2>2. wallet'.reserved = wallet.reserved /\ wallet'.consumed = wallet.consumed
    BY <1>4 DEF Grant, AdjustUp, AdjustDown, TypeOK
  <2>3. QED
    BY <2>1, <2>2, AccountBalanceStep
<1>5. CASE ReadBalance
  <2>1. UNCHANGED reservations /\ wallet'.available \in Nat
    BY <1>5 DEF ReadBalance, ChecksHold
  <2>2. wallet'.reserved = wallet.reserved /\ wallet'.consumed = wallet.consumed
    BY <1>5 DEF ReadBalance, TypeOK
  <2>3. QED
    BY <2>1, <2>2, AccountBalanceStep
<1>6. ASSUME NEW c \in Clients, Reserve(c) \/ Settle(c)
      PROVE  [Account!Next]_(Account!account)
  BY <1>6, AccountReserveStep, AccountSettleStep
<1>7. ASSUME NEW r \in Rollovers, Rollover(r)
      PROVE  [Account!Next]_(Account!account)
  BY <1>1, <1>7 DEF Rollover
<1>8. CASE Tick \/ UNCHANGED vars
  BY <1>1, <1>8 DEF Tick, vars, tables
<1>9. QED
  BY <1>2, <1>3, <1>4, <1>5, <1>6, <1>7, <1>8 DEF Next

\* Whatever transactions interleave, expire and roll over, the owner sees an
\* account that holds a task's credits once, spends at most what it held and
\* gives the rest back.
THEOREM StoreImplementsAccount == Spec => ImplementsAccount
<1>1. Spec => []TypeOK
  BY TypeCorrect
<1>2. QED
  BY <1>1, AccountInit, AccountStep, PTL DEF Spec, ImplementsAccount, Account!Spec

-----------------------------------------------------------------------------
(* Payments: the webhook's handlers over the wallet of an organization.    *)

-----------------------------------------------------------------------------
(* What a handler calls *)

\* The calls a handler makes.
EffectNames ==
  {"rollover", "grant", "payment", "refund", "subscribe", "status", "plan", "entitle"}

\* The effects a handler of e may have left.
Touches(e) ==
  e.type \notin {"payment.captured", "payment.failed", "refund.created",
                 "payment.dispute.created"}
Fits(e, effect) ==
  /\ effect = "rollover" => e.type = "subscription.charged"
  /\ effect = "grant" => e.type = "subscription.charged" \/ e.topUp
  /\ effect = "entitle" => e.org
  /\ effect \in {"plan", "entitle"} => e.type \in Endings \cup {"subscription.charged"}
  /\ effect = "subscribe" => e.type \in {"subscription.charged", "subscription.authenticated"}
  /\ effect = "status" =>
       e.type \in Endings \cup {"subscription.activated", "subscription.pending"}

Called(l) == {l[i] : i \in 1 .. Len(l)}

HandlersFit ==
  /\ scenario \in Scenarios
  /\ handler \in [Handlers -> [event : Events \cup {NoEvent}, left : Seq(EffectNames)]]
  /\ \A h \in Handlers : Busy(h) =>
       \A x \in Called(handler[h].left) : Fits(handler[h].event, x)

\* The events of a scenario are events.
LEMMA EventType ==
  ASSUME WebhookConstants, scenario \in Scenarios, NEW e \in Events
  PROVE  e \in AllEvents /\ e # NoEvent
BY DEF WebhookConstants, Events

\* What the branch of an event's type calls.
LEMMA EffectsAre ==
  ASSUME NEW e \in AllEvents
  PROVE  /\ Effects(e) \in Seq(EffectNames)
         /\ \A x \in Called(Effects(e)) : Fits(e, x)
         /\ e.type \in Endings =>
              /\ "plan" \in Called(Effects(e))
              /\ e.org => "entitle" \in Called(Effects(e))
         /\ Touches(e) /\ e.type \notin Endings =>
              {"subscribe", "status"} \cap Called(Effects(e)) # {}
<1>p. PICK effects : effects = Effects(e)
  OBVIOUS
<1>0. e.type \in EventTypes /\ e.org \in BOOLEAN /\ e.topUp \in BOOLEAN
  BY DEF AllEvents
<1>1. CASE e.type = "subscription.charged" /\ e.org
  <2>1. effects = <<"rollover", "payment", "subscribe", "grant", "entitle", "plan">>
    BY Zenon, <1>p, <1>1 DEF Effects, Endings
  <2>2. Len(effects) = 6 /\ effects \in Seq(EffectNames)
    BY <2>1 DEF EffectNames
  <2>3. /\ effects[1] = "rollover" /\ effects[2] = "payment" /\ effects[3] = "subscribe"
        /\ effects[4] = "grant" /\ effects[5] = "entitle" /\ effects[6] = "plan"
    BY <2>1
  <2>4. ASSUME NEW i \in 1 .. 6
        PROVE  Fits(e, effects[i])
    BY <1>1, <2>3 DEF Fits, Endings
  <2>5. /\ "plan" \in Called(effects) \/ e.type \notin Endings
        /\ "entitle" \in Called(effects) \/ ~e.org \/ e.type \notin Endings
        /\ \/ {"subscribe", "status"} \cap Called(effects) # {}
           \/ ~Touches(e) \/ e.type \in Endings
    BY <1>1, <2>2, <2>3 DEF Endings, Touches, Called
  <2>6. QED
    BY <1>p, <2>2, <2>4, <2>5 DEF Called
<1>2. CASE e.type = "subscription.charged" /\ ~e.org
  <2>1. effects = <<"rollover", "payment", "subscribe", "grant", "plan">>
    BY Zenon, <1>p, <1>2 DEF Effects, Endings
  <2>2. Len(effects) = 5 /\ effects \in Seq(EffectNames)
    BY <2>1 DEF EffectNames
  <2>3. /\ effects[1] = "rollover" /\ effects[2] = "payment" /\ effects[3] = "subscribe"
        /\ effects[4] = "grant" /\ effects[5] = "plan"
    BY <2>1
  <2>4. ASSUME NEW i \in 1 .. 5
        PROVE  Fits(e, effects[i])
    BY <1>2, <2>3 DEF Fits, Endings
  <2>5. /\ "plan" \in Called(effects) \/ e.type \notin Endings
        /\ "entitle" \in Called(effects) \/ ~e.org \/ e.type \notin Endings
        /\ \/ {"subscribe", "status"} \cap Called(effects) # {}
           \/ ~Touches(e) \/ e.type \in Endings
    BY <1>2, <2>2, <2>3 DEF Endings, Touches, Called
  <2>6. QED
    BY <1>p, <2>2, <2>4, <2>5 DEF Called
<1>3. CASE e.type = "subscription.authenticated"
  <2>1. effects = <<"subscribe">>
    BY Zenon, <1>p, <1>3 DEF Effects, Endings
  <2>2. Len(effects) = 1 /\ effects \in Seq(EffectNames)
    BY <2>1 DEF EffectNames
  <2>3. effects[1] = "subscribe"
    BY <2>1
  <2>4. ASSUME NEW i \in 1 .. 1
        PROVE  Fits(e, effects[i])
    BY <1>3, <2>3 DEF Fits, Endings
  <2>5. /\ "plan" \in Called(effects) \/ e.type \notin Endings
        /\ "entitle" \in Called(effects) \/ ~e.org \/ e.type \notin Endings
        /\ \/ {"subscribe", "status"} \cap Called(effects) # {}
           \/ ~Touches(e) \/ e.type \in Endings
    BY <1>3, <2>2, <2>3 DEF Endings, Touches, Called
  <2>6. QED
    BY <1>p, <2>2, <2>4, <2>5 DEF Called
<1>4. CASE e.type \in {"subscription.activated", "subscription.pending"}
  <2>1. effects = <<"status">>
    BY Zenon, <1>p, <1>4 DEF Effects, Endings
  <2>2. Len(effects) = 1 /\ effects \in Seq(EffectNames)
    BY <2>1 DEF EffectNames
  <2>3. effects[1] = "status"
    BY <2>1
  <2>4. ASSUME NEW i \in 1 .. 1
        PROVE  Fits(e, effects[i])
    BY <1>4, <2>3 DEF Fits, Endings
  <2>5. /\ "plan" \in Called(effects) \/ e.type \notin Endings
        /\ "entitle" \in Called(effects) \/ ~e.org \/ e.type \notin Endings
        /\ \/ {"subscribe", "status"} \cap Called(effects) # {}
           \/ ~Touches(e) \/ e.type \in Endings
    BY <1>4, <2>2, <2>3 DEF Endings, Touches, Called
  <2>6. QED
    BY <1>p, <2>2, <2>4, <2>5 DEF Called
<1>5. CASE e.type \in Endings /\ e.org
  <2>1. effects = <<"status", "plan", "entitle">>
    BY Zenon, <1>p, <1>5 DEF Effects, Endings
  <2>2. Len(effects) = 3 /\ effects \in Seq(EffectNames)
    BY <2>1 DEF EffectNames
  <2>3. effects[1] = "status" /\ effects[2] = "plan" /\ effects[3] = "entitle"
    BY <2>1
  <2>4. ASSUME NEW i \in 1 .. 3
        PROVE  Fits(e, effects[i])
    BY <1>5, <2>3 DEF Fits, Endings
  <2>5. /\ "plan" \in Called(effects) \/ e.type \notin Endings
        /\ "entitle" \in Called(effects) \/ ~e.org \/ e.type \notin Endings
        /\ \/ {"subscribe", "status"} \cap Called(effects) # {}
           \/ ~Touches(e) \/ e.type \in Endings
    BY <1>5, <2>2, <2>3 DEF Endings, Touches, Called
  <2>6. QED
    BY <1>p, <2>2, <2>4, <2>5 DEF Called
<1>6. CASE e.type \in Endings /\ ~e.org
  <2>1. effects = <<"status", "plan">>
    BY Zenon, <1>p, <1>6 DEF Effects, Endings
  <2>2. Len(effects) = 2 /\ effects \in Seq(EffectNames)
    BY <2>1 DEF EffectNames
  <2>3. effects[1] = "status" /\ effects[2] = "plan"
    BY <2>1
  <2>4. ASSUME NEW i \in 1 .. 2
        PROVE  Fits(e, effects[i])
    BY <1>6, <2>3 DEF Fits, Endings
  <2>5. /\ "plan" \in Called(effects) \/ e.type \notin Endings
        /\ "entitle" \in Called(effects) \/ ~e.org \/ e.type \notin Endings
        /\ \/ {"subscribe", "status"} \cap Called(effects) # {}
           \/ ~Touches(e) \/ e.type \in Endings
    BY <1>6, <2>2, <2>3 DEF Endings, Touches, Called
  <2>6. QED
    BY <1>p, <2>2, <2>4, <2>5 DEF Called
<1>7. CASE e.type = "payment.captured" /\ e.topUp
  <2>1. effects = <<"grant", "payment">>
    BY Zenon, <1>p, <1>7 DEF Effects, Endings
  <2>2. Len(effects) = 2 /\ effects \in Seq(EffectNames)
    BY <2>1 DEF EffectNames
  <2>3. effects[1] = "grant" /\ effects[2] = "payment"
    BY <2>1
  <2>4. ASSUME NEW i \in 1 .. 2
        PROVE  Fits(e, effects[i])
    BY <1>7, <2>3 DEF Fits, Endings
  <2>5. /\ "plan" \in Called(effects) \/ e.type \notin Endings
        /\ "entitle" \in Called(effects) \/ ~e.org \/ e.type \notin Endings
        /\ \/ {"subscribe", "status"} \cap Called(effects) # {}
           \/ ~Touches(e) \/ e.type \in Endings
    BY <1>7, <2>2, <2>3 DEF Endings, Touches, Called
  <2>6. QED
    BY <1>p, <2>2, <2>4, <2>5 DEF Called
<1>8. CASE e.type = "payment.captured" /\ ~e.topUp
  <2>1. effects = <<"payment">>
    BY Zenon, <1>p, <1>8 DEF Effects, Endings
  <2>2. Len(effects) = 1 /\ effects \in Seq(EffectNames)
    BY <2>1 DEF EffectNames
  <2>3. effects[1] = "payment"
    BY <2>1
  <2>4. ASSUME NEW i \in 1 .. 1
        PROVE  Fits(e, effects[i])
    BY <1>8, <2>3 DEF Fits, Endings
  <2>5. /\ "plan" \in Called(effects) \/ e.type \notin Endings
        /\ "entitle" \in Called(effects) \/ ~e.org \/ e.type \notin Endings
        /\ \/ {"subscribe", "status"} \cap Called(effects) # {}
           \/ ~Touches(e) \/ e.type \in Endings
    BY <1>8, <2>2, <2>3 DEF Endings, Touches, Called
  <2>6. QED
    BY <1>p, <2>2, <2>4, <2>5 DEF Called
<1>9. CASE e.type = "payment.failed"
  <2>1. effects = <<"payment">>
    BY Zenon, <1>p, <1>9 DEF Effects, Endings
  <2>2. Len(effects) = 1 /\ effects \in Seq(EffectNames)
    BY <2>1 DEF EffectNames
  <2>3. effects[1] = "payment"
    BY <2>1
  <2>4. ASSUME NEW i \in 1 .. 1
        PROVE  Fits(e, effects[i])
    BY <1>9, <2>3 DEF Fits, Endings
  <2>5. /\ "plan" \in Called(effects) \/ e.type \notin Endings
        /\ "entitle" \in Called(effects) \/ ~e.org \/ e.type \notin Endings
        /\ \/ {"subscribe", "status"} \cap Called(effects) # {}
           \/ ~Touches(e) \/ e.type \in Endings
    BY <1>9, <2>2, <2>3 DEF Endings, Touches, Called
  <2>6. QED
    BY <1>p, <2>2, <2>4, <2>5 DEF Called
<1>10. CASE e.type \in {"refund.created", "payment.dispute.created"}
  <2>1. effects = <<"refund">>
    BY Zenon, <1>p, <1>10 DEF Effects, Endings
  <2>2. Len(effects) = 1 /\ effects \in Seq(EffectNames)
    BY <2>1 DEF EffectNames
  <2>3. effects[1] = "refund"
    BY <2>1
  <2>4. ASSUME NEW i \in 1 .. 1
        PROVE  Fits(e, effects[i])
    BY <1>10, <2>3 DEF Fits, Endings
  <2>5. /\ "plan" \in Called(effects) \/ e.type \notin Endings
        /\ "entitle" \in Called(effects) \/ ~e.org \/ e.type \notin Endings
        /\ \/ {"subscribe", "status"} \cap Called(effects) # {}
           \/ ~Touches(e) \/ e.type \in Endings
    BY <1>10, <2>2, <2>3 DEF Endings, Touches, Called
  <2>6. QED
    BY <1>p, <2>2, <2>4, <2>5 DEF Called
<1>11. QED
  BY <1>0, <1>1, <1>2, <1>3, <1>4, <1>5, <1>6, <1>7, <1>8, <1>9, <1>10
     DEF EventTypes, Paying

\* A subscription's event ends it exactly when its type is one of the endings.
LEMMA StatusIs ==
  ASSUME NEW e \in AllEvents, Touches(e)
  PROVE  (StatusOf(e) \in Ended) <=> (e.type \in Endings)
<1>1. CASE e.type \in {"subscription.charged", "subscription.activated"}
  <2>1. StatusOf(e) = "ACTIVE"
    BY Zenon, <1>1 DEF StatusOf
  <2>2. QED
    BY <1>1, <2>1 DEF Ended, Endings
<1>2. CASE e.type = "subscription.authenticated"
  <2>1. StatusOf(e) = "AUTHENTICATED"
    BY Zenon, <1>2 DEF StatusOf
  <2>2. QED
    BY <1>2, <2>1 DEF Ended, Endings
<1>3. CASE e.type = "subscription.pending"
  <2>1. StatusOf(e) = "PENDING"
    BY Zenon, <1>3 DEF StatusOf
  <2>2. QED
    BY <1>3, <2>1 DEF Ended, Endings
<1>4. CASE e.type = "subscription.halted"
  <2>1. StatusOf(e) = "HALTED"
    BY Zenon, <1>4 DEF StatusOf
  <2>2. QED
    BY <1>4, <2>1 DEF Ended, Endings
<1>5. CASE e.type = "subscription.cancelled"
  <2>1. StatusOf(e) = "CANCELLED"
    BY Zenon, <1>5 DEF StatusOf
  <2>2. QED
    BY <1>5, <2>1 DEF Ended, Endings
<1>6. CASE e.type = "subscription.completed"
  <2>1. StatusOf(e) = "COMPLETED"
    BY Zenon, <1>6 DEF StatusOf
  <2>2. QED
    BY <1>6, <2>1 DEF Ended, Endings
<1>7. QED
  BY <1>1, <1>2, <1>3, <1>4, <1>5, <1>6
     DEF AllEvents, EventTypes, Paying, Endings, Touches

\* What an effect does to the subscription, the plan and the entitlement.
LEMMA EffectDoes ==
  ASSUME NEW e \in AllEvents, NEW x, Fits(e, x), Apply(e, x)
  PROVE  /\ subscription' = subscription \/ x \in {"subscribe", "status"}
         /\ x \in {"subscribe", "status"} =>
              /\ subscription' \in {"none", StatusOf(e)}
              /\ Touches(e)
         /\ IF x = "plan" THEN userPlan' = PlanAfter(e) /\ Touches(e)
                          ELSE userPlan' = userPlan
         /\ IF x = "entitle"
              THEN /\ entitlement' = IF e.type \in Endings THEN "CLOSED" ELSE "ACTIVE"
                   /\ Touches(e) /\ e.org
              ELSE entitlement' = entitlement
<1>1. CASE x = "rollover" /\ DoRollover(e)
  BY <1>1 DEF DoRollover, paymentTables
<1>2. CASE x = "grant" /\ DoGrant(e)
  BY <1>2 DEF DoGrant, paymentTables
<1>3. CASE x = "payment" /\ SavePayment(e)
  BY <1>3 DEF SavePayment, PutPayment
<1>4. CASE x = "refund" /\ SaveRefund(e)
  BY <1>4 DEF SaveRefund, PutPayment
<1>5. CASE x = "subscribe" /\ SaveSubscription(e)
  BY <1>5 DEF SaveSubscription, Fits, Touches
<1>6. CASE x = "status" /\ UpdateStatus(e)
  BY <1>6 DEF UpdateStatus, Fits, Touches, Endings
<1>7. CASE x = "plan" /\ AssignPlan(e)
  BY <1>7 DEF AssignPlan, Fits, Touches, Endings
<1>8. CASE x = "entitle" /\ SetEntitlement(e)
  <2>1. Touches(e) /\ e.org
    BY <1>8 DEF Fits, Touches, Endings
  <2>2. QED
    BY <1>8, <2>1, StatusIs DEF SetEntitlement
<1>9. QED
  BY <1>1, <1>2, <1>3, <1>4, <1>5, <1>6, <1>7, <1>8 DEF Apply

\* The call that is made next, and those after it.
LEMMA CallNext ==
  ASSUME NEW l \in Seq(EffectNames), l # <<>>
  PROVE  /\ Tail(l) \in Seq(EffectNames)
         /\ Called(l) = {Head(l)} \cup Called(Tail(l))
<1>1. Len(l) \in Nat /\ Len(l) > 0 /\ Len(Tail(l)) = Len(l) - 1 /\ Tail(l) \in Seq(EffectNames)
  OBVIOUS
<1>2. Head(l) = l[1] /\ \A i \in 1 .. Len(l) - 1 : Tail(l)[i] = l[i + 1]
  OBVIOUS
<1>3. ASSUME NEW y \in Called(l), y # Head(l)
      PROVE  y \in Called(Tail(l))
  <2>1. PICK i \in 1 .. Len(l) : y = l[i]
    BY <1>3 DEF Called
  <2>2. i - 1 \in 1 .. Len(l) - 1
    BY <1>1, <1>2, <1>3, <2>1
  <2>3. Tail(l)[i - 1] = y
    BY <1>2, <2>1, <2>2
  <2>4. QED
    BY <1>1, <2>2, <2>3 DEF Called
<1>4. ASSUME NEW y \in Called(Tail(l))
      PROVE  y \in Called(l)
  <2>1. PICK i \in 1 .. Len(l) - 1 : y = Tail(l)[i]
    BY <1>1, <1>4 DEF Called
  <2>2. i + 1 \in 1 .. Len(l) /\ y = l[i + 1]
    BY <1>1, <1>2, <2>1
  <2>3. QED
    BY <2>2 DEF Called
<1>5. Head(l) \in Called(l)
  BY <1>1, <1>2 DEF Called
<1>6. QED
  BY <1>1, <1>3, <1>4, <1>5

-----------------------------------------------------------------------------
(* Handlers, one at a time *)

\* An entitlement is active only if an organization has been charged.
Opened ==
  entitlement = "ACTIVE" =>
    \E e \in Events : e.type = "subscription.charged" /\ e.org

\* What EndedIsFree says while no event is at work or half done.
OverIsFree ==
  subscription \in Ended => userPlan = "FREE" /\ entitlement # "ACTIVE"

\* Events of the subscription that were begun and not handled to the end.
Begun == {e \in partial : Touches(e)}

\* The effects that a handler of e has left, l, lead to where OverIsFree holds.
WillBeFree(e, l) ==
  /\ e.type \in Endings =>
       /\ userPlan = "FREE" \/ "plan" \in Called(l)
       /\ entitlement # "ACTIVE" \/ "entitle" \in Called(l)
  /\ e.type \notin Endings /\ Touches(e) =>
       \/ subscription \notin Ended
       \/ {"subscribe", "status"} \cap Called(l) # {}
  /\ ~Touches(e) => OverIsFree

\* While at most one handler has been at work: what holds between handlers, and what
\* the one at work will lead to if no other event of the subscription is half done.
OneByOne ==
  /\ \A g, h \in Handlers : Busy(g) /\ Busy(h) => g = h
  /\ \A h \in Handlers : Busy(h) => handler[h].event \in partial
  /\ (\A h \in Handlers : ~Busy(h)) /\ Begun = {} => OverIsFree
  /\ \A h \in Handlers : Busy(h) /\ Begun \subseteq {handler[h].event} =>
       WillBeFree(handler[h].event, handler[h].left)

\* The inductive invariant behind EndedIsFree.
EndingsInvariant ==
  /\ HandlersFit
  /\ Opened
  /\ ~overlapped => OneByOne

\* EndingsInvariant holds at first, and every action of a handler keeps it.
LEMMA EndingsInit == WebhookConstants /\ PaymentInit => EndingsInvariant
<1> SUFFICES ASSUME WebhookConstants, PaymentInit
             PROVE  EndingsInvariant
  OBVIOUS
<1>1. \A h \in Handlers : handler[h] = [event |-> NoEvent, left |-> <<>>]
  BY DEF PaymentInit, Idle
<1>2. HandlersFit
  BY <1>1 DEF HandlersFit, PaymentInit, Idle, Busy
<1>3. Opened /\ OneByOne
  BY <1>1 DEF Opened, OneByOne, OverIsFree, PaymentInit, Busy, Ended
<1>4. QED
  BY <1>2, <1>3 DEF EndingsInvariant

LEMMA EndingsFrame ==
  ASSUME EndingsInvariant,
         UNCHANGED <<scenario, handler, subscription, userPlan, entitlement, partial, overlapped>>
  PROVE  EndingsInvariant'
BY DEF EndingsInvariant, HandlersFit, Opened, OneByOne, OverIsFree, Begun, WillBeFree,
       Busy, Events

LEMMA EndingsDeliver ==
  ASSUME WebhookConstants, EndingsInvariant, NEW h \in Handlers,
         NEW e \in AllScenarioEvents, Deliver(h, e), e \in Events
  PROVE  EndingsInvariant'
<1>1. e \in AllEvents /\ e # NoEvent
  BY EventType DEF EndingsInvariant, HandlersFit
<1>2. /\ ~Busy(h)
      /\ handler' = [handler EXCEPT ![h] = [event |-> e, left |-> Effects(e)]]
      /\ partial' = partial \cup {e}
      /\ overlapped' = (overlapped \/ \E g \in Handlers : Busy(g))
      /\ UNCHANGED <<scenario, subscription, userPlan, entitlement>>
  BY DEF Deliver, paymentTables
<1>3. PICK l \in Seq(EffectNames) : l = Effects(e)
  BY <1>1, EffectsAre
<1>4. /\ handler'[h].event = e /\ handler'[h].left = l
      /\ \A g \in Handlers \ {h} : handler'[g] = handler[g]
      /\ handler' \in [Handlers -> [event : Events \cup {NoEvent}, left : Seq(EffectNames)]]
  BY <1>2, <1>3 DEF EndingsInvariant, HandlersFit
<1>5. HandlersFit'
  BY <1>1, <1>2, <1>3, <1>4, EffectsAre
     DEF EndingsInvariant, HandlersFit, Events, Busy
<1>6. Opened'
  BY <1>2 DEF EndingsInvariant, Opened, Events
<1>7. ASSUME ~overlapped'
      PROVE  OneByOne'
  <2>1. ~overlapped /\ \A g \in Handlers : ~Busy(g)
    BY <1>2, <1>7
  <2>2. \A g \in Handlers : (Busy(g))' <=> g = h
    BY <1>1, <1>4, <2>1 DEF Busy
  <2>3. OneByOne /\ (Begun = {} => OverIsFree)
    BY <2>1 DEF EndingsInvariant, OneByOne
  <2>4. ASSUME Begun' \subseteq {e}
        PROVE  WillBeFree(e, l)'
    <3>1. CASE Touches(e)
      <4>1. e.type \in Endings /\ ~e.org => entitlement # "ACTIVE"
        <5>1. ASSUME e.type \in Endings, ~e.org, entitlement = "ACTIVE"
              PROVE  FALSE
          <6>1. PICK d \in Events : d.type = "subscription.charged" /\ d.org
            BY <5>1 DEF EndingsInvariant, Opened
          <6>2. scenario \in Scenarios /\ d \in scenario.events /\ e \in scenario.events
            BY DEF EndingsInvariant, HandlersFit, Events
          <6>3. QED
            BY <5>1, <6>1, <6>2 DEF WebhookConstants
        <5>2. QED
          BY <5>1
      <4>2. QED
        BY <1>1, <1>2, <1>3, <3>1, <4>1, EffectsAre DEF WillBeFree
    <3>2. CASE ~Touches(e)
      <4>1. Begun = {}
        BY <1>2, <2>4, <3>2 DEF Begun
      <4>2. e.type \notin Endings
        BY <3>2 DEF Touches, Endings
      <4>3. QED
        BY <1>2, <2>3, <3>2, <4>1, <4>2 DEF WillBeFree, OverIsFree
    <3>3. QED
      BY <3>1, <3>2
  <2>5. QED
    BY <1>2, <1>4, <2>2, <2>4 DEF OneByOne
<1>8. QED
  BY <1>5, <1>6, <1>7 DEF EndingsInvariant

\* An effect that is applied leaves the others to be applied.
LEMMA WillBeFreeStill ==
  ASSUME NEW e \in AllEvents, NEW l \in Seq(EffectNames), l # <<>>,
         Fits(e, Head(l)), Apply(e, Head(l)), WillBeFree(e, l)
  PROVE  WillBeFree(e, Tail(l))'
<1>1. Called(l) = {Head(l)} \cup Called(Tail(l))
  BY CallNext
<1>2. e.type \in Endings =>
        /\ userPlan' = "FREE" \/ "plan" \in Called(Tail(l))
        /\ entitlement' # "ACTIVE" \/ "entitle" \in Called(Tail(l))
  BY <1>1, EffectDoes, StatusIs DEF WillBeFree, PlanAfter
<1>3. e.type \notin Endings /\ Touches(e) =>
        \/ subscription' \notin Ended
        \/ {"subscribe", "status"} \cap Called(Tail(l)) # {}
  <2>1. "none" \notin Ended
    BY DEF Ended
  <2>2. QED
    BY <1>1, <2>1, EffectDoes, StatusIs DEF WillBeFree
<1>4. ~Touches(e) => OverIsFree'
  BY EffectDoes DEF WillBeFree, OverIsFree
<1>5. QED
  BY <1>2, <1>3, <1>4 DEF WillBeFree

\* The next effect of a busy handler.
LEMMA NextCall ==
  ASSUME WebhookConstants, HandlersFit, NEW h \in Handlers, Busy(h),
         handler[h].left # <<>>
  PROVE  \E e \in AllEvents, l \in Seq(EffectNames) :
           /\ e = handler[h].event /\ l = handler[h].left /\ l # <<>>
           /\ e \in Events /\ Fits(e, Head(l))
<1>1. handler[h].event \in Events /\ handler[h].left \in Seq(EffectNames)
  BY DEF HandlersFit, Busy
<1>2. handler[h].event \in AllEvents
  BY <1>1, EventType DEF HandlersFit
<1>3. Head(handler[h].left) \in Called(handler[h].left)
  BY <1>1, CallNext
<1>4. QED
  BY <1>1, <1>2, <1>3 DEF HandlersFit

\* Every effect keeps Opened.
LEMMA OpenedStill ==
  ASSUME Opened, UNCHANGED scenario, NEW e \in AllEvents, e \in Events,
         NEW x, Fits(e, x), Apply(e, x)
  PROVE  Opened'
<1>1. Events' = Events
  BY DEF Events
<1>2. CASE entitlement' = entitlement
  BY <1>1, <1>2 DEF Opened
<1>3. CASE entitlement' # entitlement
  <2>1. x = "entitle" /\ e.org /\ (entitlement' = "ACTIVE" => e.type \notin Endings)
    BY <1>3, EffectDoes
  <2>2. entitlement' = "ACTIVE" => e.type = "subscription.charged"
    BY <2>1 DEF Fits
  <2>3. QED
    BY <1>1, <2>1, <2>2 DEF Opened
<1>4. QED
  BY <1>2, <1>3

LEMMA EndingsStep ==
  ASSUME WebhookConstants, EndingsInvariant, NEW h \in Handlers, Step(h)
  PROVE  EndingsInvariant'
<1>1. /\ Busy(h) /\ handler[h].left # <<>>
      /\ handler' = [handler EXCEPT ![h].left = Tail(@)]
      /\ UNCHANGED <<scenario, partial, overlapped>>
      /\ Apply(handler[h].event, Head(handler[h].left))
  BY DEF Step, history
<1>2. HandlersFit /\ Opened
  BY DEF EndingsInvariant
<1>3. PICK e \in AllEvents, l \in Seq(EffectNames) :
        /\ e = handler[h].event /\ l = handler[h].left /\ l # <<>>
        /\ e \in Events /\ Fits(e, Head(l))
  BY <1>1, <1>2, NextCall
<1>4. Apply(e, Head(l))
  BY <1>1, <1>3
<1>5. Tail(l) \in Seq(EffectNames) /\ Called(l) = {Head(l)} \cup Called(Tail(l))
  BY <1>3, CallNext
<1>6. /\ handler'[h].event = e /\ handler'[h].left = Tail(l)
      /\ \A g \in Handlers \ {h} : handler'[g] = handler[g]
      /\ handler' \in [Handlers -> [event : Events \cup {NoEvent}, left : Seq(EffectNames)]]
  <2>1. handler' = [handler EXCEPT ![h] = [event |-> e, left |-> Tail(l)]]
    <3>1. PICK rest : rest = Tail(l)
      OBVIOUS
    <3>2. handler[h] = [event |-> e, left |-> l]
      BY <1>2, <1>3 DEF HandlersFit
    <3>3. [[event |-> e, left |-> l] EXCEPT !.left = rest] = [event |-> e, left |-> rest]
      OBVIOUS
    <3>4. handler' = [handler EXCEPT ![h] = [handler[h] EXCEPT !.left = rest]]
      BY <1>1, <1>3, <3>1
    <3>5. QED
      BY <3>1, <3>2, <3>3, <3>4
  <2>2. QED
    BY <1>2, <1>3, <1>5, <2>1 DEF HandlersFit
<1>7. \A g \in Handlers : (Busy(g))' <=> Busy(g)
  BY <1>3, <1>6 DEF Busy
<1>8. HandlersFit'
  <2>1. ASSUME NEW g \in Handlers, (Busy(g))', NEW x \in Called(handler'[g].left)
        PROVE  Fits(handler'[g].event, x)
    <3>1. Busy(g)
      BY <1>7, <2>1
    <3>2. CASE g = h
      BY <1>2, <1>3, <1>5, <1>6, <2>1, <3>1, <3>2 DEF HandlersFit
    <3>3. CASE g # h
      BY <1>2, <1>6, <2>1, <3>1, <3>3 DEF HandlersFit
    <3>4. QED
      BY <3>2, <3>3
  <2>2. QED
    BY <1>1, <1>2, <1>6, <2>1 DEF HandlersFit, Events
<1>9. Opened'
  BY <1>1, <1>2, <1>3, <1>4, OpenedStill
<1>10. ASSUME ~overlapped'
       PROVE  OneByOne'
  <2>1. OneByOne
    BY <1>1, <1>10 DEF EndingsInvariant
  <2>2. Begun' = Begun
    BY <1>1 DEF Begun
  <2>3. ASSUME Begun' \subseteq {e}
        PROVE  WillBeFree(e, Tail(l))'
    <3>1. WillBeFree(e, l)
      BY <1>1, <1>3, <2>1, <2>2, <2>3 DEF OneByOne
    <3>2. QED
      BY <1>3, <1>4, <3>1, WillBeFreeStill
  <2>4. \A g \in Handlers : Busy(g) => g = h
    BY <1>1, <2>1 DEF OneByOne
  <2>5. QED
    BY <1>1, <1>3, <1>6, <1>7, <2>1, <2>3, <2>4 DEF OneByOne
<1>11. QED
  BY <1>8, <1>9, <1>10 DEF EndingsInvariant

\* A handler that leaves its event.
LEMMA HandlerIdle ==
  ASSUME HandlersFit, NEW h \in Handlers, UNCHANGED scenario,
         handler' = [handler EXCEPT ![h] = Idle]
  PROVE  /\ HandlersFit'
         /\ ~(Busy(h))'
         /\ \A g \in Handlers \ {h} : handler'[g] = handler[g] /\ ((Busy(g))' <=> Busy(g))
<1>1. handler'[h] = [event |-> NoEvent, left |-> <<>>]
  BY DEF HandlersFit, Idle
<1>2. handler' \in [Handlers -> [event : Events \cup {NoEvent}, left : Seq(EffectNames)]]
  BY DEF HandlersFit, Idle
<1>3. \A g \in Handlers \ {h} : handler'[g] = handler[g]
  BY DEF HandlersFit
<1>4. ~(Busy(h))'
      /\ \A g \in Handlers \ {h} : (Busy(g))' <=> Busy(g)
  BY <1>1, <1>3 DEF Busy
<1>5. ASSUME NEW g \in Handlers, (Busy(g))'
      PROVE  \A x \in Called(handler'[g].left) : Fits(handler'[g].event, x)
  BY <1>3, <1>4, <1>5 DEF HandlersFit
<1>6. HandlersFit'
  BY <1>2, <1>5 DEF HandlersFit, Events
<1>7. QED
  BY <1>3, <1>4, <1>6

LEMMA EndingsFinish ==
  ASSUME WebhookConstants, EndingsInvariant, NEW h \in Handlers, Finish(h)
  PROVE  EndingsInvariant'
<1>1. /\ Busy(h) /\ handler[h].left = <<>>
      /\ handler' = [handler EXCEPT ![h] = Idle]
      /\ partial' = partial \ {handler[h].event}
      /\ UNCHANGED <<scenario, subscription, userPlan, entitlement, overlapped>>
  BY DEF Finish, paymentTables
<1>2. HandlersFit /\ Opened
  BY DEF EndingsInvariant
<1>3. /\ HandlersFit'
      /\ ~(Busy(h))'
      /\ \A g \in Handlers \ {h} : handler'[g] = handler[g] /\ ((Busy(g))' <=> Busy(g))
  BY <1>1, <1>2, HandlerIdle
<1>4. Opened'
  BY <1>1, <1>2 DEF Opened, Events
<1>5. ASSUME ~overlapped'
      PROVE  OneByOne'
  <2>1. OneByOne
    BY <1>1, <1>5 DEF EndingsInvariant
  <2>2. \A g \in Handlers : ~(Busy(g))'
    BY <1>1, <1>3, <2>1 DEF OneByOne
  <2>3. ASSUME Begun' = {}
        PROVE  OverIsFree'
    <3>1. PICK e \in AllEvents : e = handler[h].event
      <4>1. handler[h].event \in Events
        BY <1>1, <1>2 DEF HandlersFit, Busy
      <4>2. QED
        BY <1>2, <4>1, EventType DEF HandlersFit
    <3>2. Begun \subseteq {e}
      BY <1>1, <2>3, <3>1 DEF Begun
    <3>3. WillBeFree(e, <<>>)
      BY <1>1, <2>1, <3>1, <3>2 DEF OneByOne
    <3>4. Called(<<>>) = {}
      BY DEF Called
    <3>5. OverIsFree
      BY <3>3, <3>4 DEF WillBeFree, OverIsFree
    <3>6. QED
      BY <1>1, <3>5 DEF OverIsFree
  <2>4. QED
    BY <2>2, <2>3 DEF OneByOne
<1>6. QED
  BY <1>3, <1>4, <1>5 DEF EndingsInvariant

LEMMA EndingsFail ==
  ASSUME WebhookConstants, EndingsInvariant, NEW h \in Handlers, Fail(h)
  PROVE  EndingsInvariant'
<1>1. /\ Busy(h) /\ handler[h].left # <<>>
      /\ handler' = [handler EXCEPT ![h] = Idle]
      /\ UNCHANGED <<scenario, partial, overlapped>>
      /\ \/ Apply(handler[h].event, Head(handler[h].left))
         \/ UNCHANGED paymentTables
  BY DEF Fail, history
<1>2. HandlersFit /\ Opened
  BY DEF EndingsInvariant
<1>3. /\ HandlersFit'
      /\ ~(Busy(h))'
      /\ \A g \in Handlers \ {h} : handler'[g] = handler[g] /\ ((Busy(g))' <=> Busy(g))
  BY <1>1, <1>2, HandlerIdle
<1>4. PICK e \in AllEvents, l \in Seq(EffectNames) :
        /\ e = handler[h].event /\ l = handler[h].left /\ l # <<>>
        /\ e \in Events /\ Fits(e, Head(l))
  BY <1>1, <1>2, NextCall
<1>5. Apply(e, Head(l)) \/ UNCHANGED <<subscription, userPlan, entitlement>>
  BY <1>1, <1>4 DEF paymentTables
<1>6. Opened'
  <2>1. CASE Apply(e, Head(l))
    BY <1>1, <1>2, <1>4, <2>1, OpenedStill
  <2>2. CASE UNCHANGED <<subscription, userPlan, entitlement>>
    BY <1>1, <1>2, <2>2 DEF Opened, Events
  <2>3. QED
    BY <1>5, <2>1, <2>2
<1>7. ASSUME ~overlapped'
      PROVE  OneByOne'
  <2>1. OneByOne
    BY <1>1, <1>7 DEF EndingsInvariant
  <2>2. \A g \in Handlers : ~(Busy(g))'
    BY <1>1, <1>3, <2>1 DEF OneByOne
  <2>3. ASSUME Begun' = {}
        PROVE  OverIsFree'
    <3>1. Begun = {} /\ e \in partial
      BY <1>1, <1>4, <2>1, <2>3 DEF Begun, OneByOne
    <3>2. ~Touches(e)
      BY <3>1 DEF Begun
    <3>3. WillBeFree(e, l)
      BY <1>1, <1>4, <2>1, <3>1 DEF OneByOne
    <3>4. OverIsFree
      BY <3>2, <3>3 DEF WillBeFree
    <3>5. UNCHANGED <<subscription, userPlan, entitlement>>
      BY <1>4, <1>5, <3>2, EffectDoes
    <3>6. QED
      BY <3>4, <3>5 DEF OverIsFree
  <2>4. QED
    BY <2>2, <2>3 DEF OneByOne
<1>8. QED
  BY <1>3, <1>6, <1>7 DEF EndingsInvariant

LEMMA EndingsCrash ==
  ASSUME WebhookConstants, EndingsInvariant, NEW h \in Handlers, Crash(h)
  PROVE  EndingsInvariant'
<1>1. /\ Busy(h)
      /\ handler' = [handler EXCEPT ![h] = Idle]
      /\ UNCHANGED <<scenario, subscription, userPlan, entitlement, partial, overlapped>>
  BY DEF Crash, paymentTables
<1>2. HandlersFit /\ Opened
  BY DEF EndingsInvariant
<1>3. /\ HandlersFit'
      /\ ~(Busy(h))'
      /\ \A g \in Handlers \ {h} : handler'[g] = handler[g] /\ ((Busy(g))' <=> Busy(g))
  BY <1>1, <1>2, HandlerIdle
<1>4. Opened'
  BY <1>1, <1>2 DEF Opened, Events
<1>5. ASSUME ~overlapped'
      PROVE  OneByOne'
  <2>1. OneByOne
    BY <1>1, <1>5 DEF EndingsInvariant
  <2>2. \A g \in Handlers : ~(Busy(g))'
    BY <1>1, <1>3, <2>1 DEF OneByOne
  <2>3. ASSUME Begun' = {}
        PROVE  OverIsFree'
    <3>1. Begun = {} /\ handler[h].event \in partial
      BY <1>1, <2>1, <2>3 DEF Begun, OneByOne
    <3>2. ~Touches(handler[h].event) /\ WillBeFree(handler[h].event, handler[h].left)
      BY <1>1, <2>1, <3>1 DEF Begun, OneByOne
    <3>3. OverIsFree
      BY <3>2 DEF WillBeFree
    <3>4. QED
      BY <1>1, <3>3 DEF OverIsFree
  <2>4. QED
    BY <2>2, <2>3 DEF OneByOne
<1>6. QED
  BY <1>3, <1>4, <1>5 DEF EndingsInvariant

-----------------------------------------------------------------------------
(* The wallet of the organization *)

\* A bucket that is not made is empty and in no hold; who holds the lock of the wallet's
\* row asks for a reservation that is not made yet.
UnmadeEmpty ==
  \A b \in OrgBucketKeys : ~Made(b) => orgBuckets[b] = NoOrgBucket

HolderAsks ==
  holder # Nobody =>
    /\ holder.request \in Tasks /\ holder.request.op = "reserve"
    /\ orgReservations[holder.request.key].status = "none"
    /\ holder.sees \subseteq MadeBuckets

HoldsOfMade ==
  \A r \in OrgReserveKeys, b \in OrgBucketKeys :
    orgReservations[r].from[b] > 0 => Made(b)

\* The buckets are numbered in the order they were made.
Numbered ==
  \A b \in OrgBucketKeys :
    /\ orgBuckets[b].made <= Cardinality(MadeBuckets)
    /\ \A c \in OrgBucketKeys :
         Made(b) /\ orgBuckets[b].made = orgBuckets[c].made => b = c

WalletSound == WalletTypeOK /\ UnmadeEmpty /\ HolderAsks /\ HoldsOfMade /\ Numbered

ReserveTasks == {q \in Tasks : q.op = "reserve"}
SettleTasks == {q \in Tasks : q.op = "settle"}

\* What the tasks of the scenarios ask for.
LEMMA TaskType ==
  ASSUME WebhookConstants
  PROVE  /\ \A q \in ReserveTasks : q.key \in OrgReserveKeys /\ q.amount \in Nat /\ q.amount > 0
         /\ \A q \in SettleTasks : /\ q.key \in OrgSettleKeys /\ q.reservation \in OrgReserveKeys
                                   /\ q.settled \in Nat
<1>1. Tasks \subseteq AllTasks
  BY DEF WebhookConstants, Tasks
<1>2. QED
  BY <1>1 DEF ReserveTasks, SettleTasks, AllTasks

\* The grants and rollovers of an organization's events.
OrgGrants ==
  {e \in PayingEvents :
     e \in AllEvents /\ e.org /\ GrantKey(e) \in OrgBucketKeys}
OrgCharges ==
  {e \in PayingEvents :
     e \in AllEvents /\ e.org /\ RolloverOf(e).key \in OrgBucketKeys}

\* The transactions of the organization's wallet.
WalletStep ==
  \/ \E e \in OrgGrants : OrgGrant(GrantOf(e, now))
  \/ \E e \in OrgCharges : OrgRollover(RolloverOf(e))
  \/ \E q \in ReserveTasks : LockWallet(q)
  \/ OrgReserve
  \/ RollBack
  \/ \E q \in SettleTasks : OrgSettle(q)
  \/ \E q \in SettleTasks : SettleUndone(q)
  \/ OrgTick
  \/ NoWallet

\* Every step of the handlers and the tasks is one transaction or none.
LEMMA EffectTransacts ==
  ASSUME WebhookConstants, scenario \in Scenarios, NEW e \in AllEvents,
         e \in Events, NEW x, Fits(e, x), Apply(e, x)
  PROVE  WalletStep
<1>1. e \in AllScenarioEvents
  BY DEF Events, AllScenarioEvents
<1>2. e.org => GrantKey(e) \in OrgBucketKeys /\ RolloverOf(e).key \in OrgBucketKeys
  BY DEF WebhookConstants, Events
<1>3. CASE x = "rollover" /\ DoRollover(e)
  <2>1. e \in PayingEvents
    BY <1>1, <1>3 DEF Fits, PayingEvents
  <2>2. QED
    BY <1>2, <1>3, <2>1 DEF DoRollover, WalletStep, OrgCharges
<1>4. CASE x = "grant" /\ DoGrant(e)
  <2>1. e \in PayingEvents
    BY <1>1, <1>4 DEF Fits, PayingEvents
  <2>2. QED
    BY <1>2, <1>4, <2>1 DEF DoGrant, WalletStep, OrgGrants
<1>5. CASE x \notin {"rollover", "grant"}
  BY <1>5 DEF Apply, SavePayment, SaveRefund, PutPayment,
              SaveSubscription, UpdateStatus, AssignPlan,
              SetEntitlement, WalletStep
<1>6. QED
  BY <1>3, <1>4, <1>5 DEF Apply

\* Every step of the webhook is one of the wallet's, or leaves the wallet alone.
LEMMA Transacts ==
  ASSUME WebhookConstants, HandlersFit, [PaymentNext]_paymentVars
  PROVE  WalletStep
<1>1. ASSUME NEW h \in Handlers, Step(h) \/ Fail(h)
      PROVE  WalletStep
  <2>1. /\ Busy(h) /\ handler[h].left # <<>>
        /\ \/ Apply(handler[h].event, Head(handler[h].left))
           \/ NoWallet
    BY <1>1 DEF Step, Fail
  <2>2. PICK e \in AllEvents, l \in Seq(EffectNames) :
          /\ e = handler[h].event /\ l = handler[h].left /\ l # <<>>
          /\ e \in Events /\ Fits(e, Head(l))
    BY <2>1, NextCall
  <2>3. CASE Apply(e, Head(l))
    BY <2>2, <2>3, EffectTransacts DEF HandlersFit
  <2>4. CASE NoWallet
    BY <2>4 DEF WalletStep
  <2>5. QED
    BY <2>1, <2>2, <2>3, <2>4
<1>2. ASSUME NEW h \in Handlers, NEW e \in AllScenarioEvents, Deliver(h, e)
      PROVE  WalletStep
  BY <1>2 DEF Deliver, WalletStep
<1>3. ASSUME NEW h \in Handlers, Finish(h) \/ Crash(h)
      PROVE  WalletStep
  BY <1>3 DEF Finish, Crash, WalletStep
<1>4. ASSUME NEW e \in AllScenarioEvents, Ignore(e) \/ Repeat(e)
      PROVE  WalletStep
  BY <1>4 DEF Ignore, Repeat, WalletStep
<1>5. ASSUME NEW q \in Tasks, BeginReserve(q) \/ Charge(q) \/ Undo(q)
      PROVE  WalletStep
  BY <1>5 DEF BeginReserve, Charge, Undo, WalletStep, ReserveTasks, SettleTasks
<1>6. CASE Commit \/ Abort \/ Pass
  BY <1>6 DEF Commit, Abort, Pass, WalletStep
<1>7. CASE UNCHANGED paymentVars
  BY <1>7 DEF paymentVars, NoWallet, WalletStep
<1>8. QED
  BY <1>1, <1>2, <1>3, <1>4, <1>5, <1>6, <1>7 DEF PaymentNext

\* The clock, and the two times that stand for no time.
LEMMA PoolTimes ==
  ASSUME WalletConstants
  PROVE  /\ Times \subseteq Nat /\ Never \in Nat /\ NoCycle \in Nat
         /\ MaxTime \in Nat /\ NoCycle = 0
BY DEF WalletConstants, Times, Never, NoCycle

\* What a paid event asks the wallet for.
LEMMA GrantOfType ==
  ASSUME WalletConstants, WebhookConstants, NEW e \in OrgGrants, NEW n \in Times
  PROVE  LET q == GrantOf(e, n) IN
           /\ q.key \in OrgBucketKeys /\ q.amount \in Nat /\ q.amount > 0
           /\ q.expires \in Times \cup {Never}
           /\ q.cycle \in Times \cup {NoCycle}
<1>1. e.at \in 1 .. MaxTime /\ Monthly \in Nat /\ Monthly > 0
  BY DEF OrgGrants, AllEvents, Times, WebhookConstants
<1>2. e.at + 1 \in Times \cup {Never}
  BY <1>1, PoolTimes DEF Times, Never
<1>3. TopUpExpiresAt(n) \in Times \cup {Never}
  <2>1. PICK k \in Nat \ {0} : k = TopUpPeriods
    BY DEF WebhookConstants
  <2>2. PICK m \in Nat : m = n /\ 1 <= m
    BY PoolTimes DEF Times
  <2>3. m + k <= MaxTime => m + k \in 1 .. MaxTime
    BY <2>1, <2>2, PoolTimes
  <2>4. QED
    BY <2>1, <2>2, <2>3 DEF TopUpExpiresAt, Times
<1>4. QED
  BY <1>1, <1>2, <1>3 DEF OrgGrants, GrantOf, Times

LEMMA RolloverOfType ==
  ASSUME WalletConstants, WebhookConstants, NEW e \in OrgCharges
  PROVE  LET q == RolloverOf(e) IN
           /\ q.key \in OrgBucketKeys /\ q.limit \in Nat
           /\ q.expires \in Times \cup {Never}
           /\ q.period \in Times
<1>1. e.at \in 1 .. MaxTime /\ Monthly \in Nat /\ Monthly > 0
  BY DEF OrgCharges, AllEvents, Times, WebhookConstants
<1>2. e.at + 1 \in Times \cup {Never}
  BY <1>1, PoolTimes DEF Times, Never
<1>3. QED
  BY <1>1, <1>2 DEF OrgCharges, RolloverOf, Times

\* A number cut off at zero and at a bound.
LEMMA WithinType ==
  ASSUME NEW n \in Int, NEW m \in Nat
  PROVE  Within(n, m) \in Nat /\ Within(n, m) <= m
BY DEF Within

LEMMA PoolTotal ==
  ASSUME WalletConstants, NEW f \in [OrgBucketKeys -> Nat]
  PROVE  Total(f) \in Nat
<1>1. IsFiniteSet(OrgBucketKeys)
  BY DEF WalletConstants
<1>2. QED
  BY <1>1, TotalFinite

\* An amount drawn from buckets, or given back to them, in any order.
LEMMA DrawnType ==
  ASSUME WalletConstants, NEW rows, NEW whole \in [OrgBucketKeys -> Nat], NEW amount \in Int
  PROVE  /\ Drawn(rows, whole, amount) \in [OrgBucketKeys -> Nat]
         /\ \A b \in OrgBucketKeys : Drawn(rows, whole, amount)[b] <= whole[b]
         /\ GivenBack(rows, whole, amount) \in [OrgBucketKeys -> Nat]
         /\ \A b \in OrgBucketKeys : GivenBack(rows, whole, amount)[b] <= whole[b]
<1>1. ASSUME NEW f \in [OrgBucketKeys -> Nat], NEW m \in Nat
      PROVE  Within(amount - Total(f), m) \in Nat
             /\ Within(amount - Total(f), m) <= m
  <2>1. PICK n \in Int : n = amount - Total(f)
    BY PoolTotal
  <2>2. QED
    BY <2>1, WithinType
<1>2. ASSUME NEW b \in OrgBucketKeys
      PROVE  /\ [c \in OrgBucketKeys |-> IF Sooner(rows, c, b) THEN whole[c] ELSE 0]
                  \in [OrgBucketKeys -> Nat]
             /\ [c \in OrgBucketKeys |-> IF Sooner(rows, b, c) THEN whole[c] ELSE 0]
                  \in [OrgBucketKeys -> Nat]
  OBVIOUS
<1>3. DOMAIN whole = OrgBucketKeys
  OBVIOUS
<1>4. ASSUME NEW b \in OrgBucketKeys
      PROVE  /\ Drawn(rows, whole, amount)[b] \in Nat
             /\ Drawn(rows, whole, amount)[b] <= whole[b]
             /\ GivenBack(rows, whole, amount)[b] \in Nat
             /\ GivenBack(rows, whole, amount)[b] <= whole[b]
  BY <1>1, <1>2, <1>3 DEF Drawn, GivenBack
<1>5. /\ Drawn(rows, whole, amount) = [b \in OrgBucketKeys |-> Drawn(rows, whole, amount)[b]]
      /\ GivenBack(rows, whole, amount)
           = [b \in OrgBucketKeys |-> GivenBack(rows, whole, amount)[b]]
  BY <1>3 DEF Drawn, GivenBack
<1>6. QED
  BY <1>4, <1>5

\* The columns of the wallet's rows.
LEMMA PoolColumns ==
  ASSUME WalletConstants, WalletTypeOK
  PROVE  /\ now \in Nat
         /\ \A b \in OrgBucketKeys :
              /\ orgBuckets[b] \in OrgBucketRow
              /\ orgBuckets[b].made \in Nat /\ orgBuckets[b].available \in Nat
              /\ orgBuckets[b].reserved \in Nat /\ orgBuckets[b].expires \in Nat
              /\ orgBuckets[b].cycle \in Nat
         /\ \A r \in OrgReserveKeys :
              /\ orgReservations[r].status \in {"none", "RESERVED", "SETTLED"}
              /\ orgReservations[r].amount \in Nat /\ orgReservations[r].settled \in Nat
              /\ orgReservations[r].from \in [OrgBucketKeys -> Nat]
         /\ orgWallet.available \in Nat /\ orgWallet.reserved \in Nat /\ orgWallet.consumed \in Nat
<1>1. \A b \in OrgBucketKeys : orgBuckets[b] \in OrgBucketRow
  BY DEF WalletTypeOK
<1>2. QED
  BY <1>1, PoolTimes DEF WalletTypeOK, OrgBucketRow

\* What is expired and what may be spent among the rows S.
LEMMA StaleOf ==
  ASSUME WalletConstants, WalletTypeOK, NEW S
  PROVE  /\ StaleIn(S) \in [OrgBucketKeys -> Nat]
         /\ Spendable(S) \in [OrgBucketKeys -> Nat]
         /\ \A b \in OrgBucketKeys :
              /\ StaleIn(S)[b] <= orgBuckets[b].available
              /\ b \in S => Spendable(S)[b] = orgBuckets[b].available - StaleIn(S)[b]
              /\ b \notin S => Spendable(S)[b] = 0 /\ StaleIn(S)[b] = 0
<1>1. ASSUME NEW b \in OrgBucketKeys
      PROVE  /\ StaleIn(S)[b] \in Nat /\ StaleIn(S)[b] <= orgBuckets[b].available
             /\ b \notin S => StaleIn(S)[b] = 0
  BY PoolColumns DEF StaleIn
<1>2. ASSUME NEW b \in OrgBucketKeys
      PROVE  /\ Spendable(S)[b] \in Nat
             /\ Spendable(S)[b] = IF b \in S THEN orgBuckets[b].available - StaleIn(S)[b] ELSE 0
  BY <1>1, PoolColumns DEF Spendable
<1>3. StaleIn(S) \in [OrgBucketKeys -> Nat]
  BY <1>1 DEF StaleIn
<1>4. Spendable(S) \in [OrgBucketKeys -> Nat]
  BY <1>2 DEF Spendable
<1>5. QED
  BY <1>1, <1>2, <1>3, <1>4

\* There are finitely many buckets.
LEMMA MadeCount ==
  ASSUME WalletConstants
  PROVE  IsFiniteSet(MadeBuckets) /\ Cardinality(MadeBuckets) \in Nat
<1>1. MadeBuckets \subseteq OrgBucketKeys
  BY DEF MadeBuckets
<1>2. IsFiniteSet(OrgBucketKeys)
  BY DEF WalletConstants
<1>3. IsFiniteSet(MadeBuckets)
  BY <1>1, <1>2, FS_Subset
<1>4. QED
  BY <1>3, FS_CardinalityType

LEMMA PoolNewBucketType ==
  ASSUME WalletConstants, NEW amount \in Nat, NEW expires \in Times \cup {Never},
         NEW cycle \in Times \cup {NoCycle}
  PROVE  /\ NewOrgBucket(amount, expires, cycle) \in OrgBucketRow
         /\ NewOrgBucket(amount, expires, cycle).made = Cardinality(MadeBuckets) + 1
         /\ NewOrgBucket(amount, expires, cycle).available = amount
         /\ NewOrgBucket(amount, expires, cycle).reserved = 0
         /\ NewOrgBucket(amount, expires, cycle).expires = expires
         /\ NewOrgBucket(amount, expires, cycle).cycle = cycle
BY MadeCount DEF NewOrgBucket, OrgBucketRow

\* A step that leaves the lock free and no reservation behind keeps the rest.
LEMMA SoundFrame ==
  ASSUME WalletSound, UNCHANGED <<now, account, holder, raced>>
  PROVE  WalletSound'
<1>1. MadeBuckets' = MadeBuckets
  BY DEF account, MadeBuckets, Made
<1>2. QED
  BY <1>1 DEF WalletSound, WalletTypeOK, UnmadeEmpty, HolderAsks, HoldsOfMade, Numbered,
              account, Made

\* The buckets keep their numbers, or one more is made.
LEMMA NumbersStay ==
  ASSUME Numbered, \A b \in OrgBucketKeys : orgBuckets'[b].made = orgBuckets[b].made
  PROVE  MadeBuckets' = MadeBuckets /\ Numbered'
<1>1. MadeBuckets' = MadeBuckets
  BY DEF MadeBuckets, Made
<1>2. QED
  BY <1>1 DEF Numbered, Made

LEMMA PoolNumbersGrow ==
  ASSUME WalletConstants, Numbered, NEW k \in OrgBucketKeys, ~Made(k),
         \A b \in OrgBucketKeys : orgBuckets[b].made \in Nat,
         orgBuckets'[k].made = Cardinality(MadeBuckets) + 1,
         \A b \in OrgBucketKeys : b # k => orgBuckets'[b].made = orgBuckets[b].made
  PROVE  MadeBuckets' = MadeBuckets \cup {k} /\ Numbered'
<1>1. IsFiniteSet(MadeBuckets) /\ Cardinality(MadeBuckets) \in Nat
  BY MadeCount
<1>2. MadeBuckets' = MadeBuckets \cup {k}
  BY <1>1 DEF MadeBuckets, Made
<1>3. Cardinality(MadeBuckets') = Cardinality(MadeBuckets) + 1
  BY <1>1, <1>2, FS_AddElement DEF MadeBuckets
<1>4. \A b \in OrgBucketKeys : orgBuckets'[b].made <= Cardinality(MadeBuckets')
  BY <1>1, <1>3 DEF Numbered
<1>5. ASSUME NEW b \in OrgBucketKeys, NEW c \in OrgBucketKeys, orgBuckets'[b].made > 0,
             orgBuckets'[b].made = orgBuckets'[c].made
      PROVE  b = c
  BY <1>1, <1>5 DEF Numbered, Made
<1>6. QED
  BY <1>2, <1>4, <1>5 DEF Numbered, Made

\* WalletSound holds at first, and every transaction keeps it.
LEMMA SoundInit ==
  ASSUME WalletConstants, WalletInit
  PROVE  WalletSound
<1>1. NoOrgBucket \in OrgBucketRow
  BY PoolTimes DEF NoOrgBucket, OrgBucketRow
<1>2. ReservationRow("none", 0, [b \in OrgBucketKeys |-> 0]) \in
        [status : {"none", "RESERVED", "SETTLED"}, amount : Nat, settled : Nat, from : [OrgBucketKeys -> Nat]]
  BY DEF ReservationRow
<1>3. now \in Times /\ orgWallet \in [available : Nat, reserved : Nat, consumed : Nat]
  BY DEF WalletInit, WalletConstants, Times, NoCredits
<1>4. WalletTypeOK
  BY <1>1, <1>2, <1>3 DEF WalletTypeOK, WalletInit
<1>5. \A r \in OrgReserveKeys, b \in OrgBucketKeys : orgReservations[r].from[b] = 0
  BY DEF WalletInit, ReservationRow
<1>6. UnmadeEmpty /\ HolderAsks /\ HoldsOfMade
  BY <1>5 DEF UnmadeEmpty, HolderAsks, HoldsOfMade, WalletInit
<1>7. \A b \in OrgBucketKeys : orgBuckets[b].made = 0
  BY DEF WalletInit, NoOrgBucket
<1>8. Numbered
  BY <1>7, MadeCount DEF Numbered, Made
<1>9. QED
  BY <1>4, <1>6, <1>8 DEF WalletSound

LEMMA SoundGrant ==
  ASSUME WalletConstants, WebhookConstants, WalletSound, NEW e \in OrgGrants,
         OrgGrant(GrantOf(e, now))
  PROVE  WalletSound'
<1> DEFINE q == GrantOf(e, now)
           row == NewOrgBucket(q.amount, q.expires, q.cycle)
<1>1. /\ q.key \in OrgBucketKeys /\ q.amount \in Nat
      /\ row \in OrgBucketRow /\ row.made > 0
      /\ row.made = Cardinality(MadeBuckets) + 1
  <2>1. /\ q.key \in OrgBucketKeys /\ q.amount \in Nat
        /\ q.expires \in Times \cup {Never}
        /\ q.cycle \in Times \cup {NoCycle}
    BY GrantOfType DEF WalletSound, WalletTypeOK
  <2> HIDE DEF q
  <2>4. PICK amount \in Nat, expires \in Times \cup {Never},
             cycle \in Times \cup {NoCycle} :
          amount = q.amount /\ expires = q.expires /\ cycle = q.cycle
    BY <2>1
  <2>5. /\ NewOrgBucket(amount, expires, cycle) \in OrgBucketRow
        /\ NewOrgBucket(amount, expires, cycle).made = Cardinality(MadeBuckets) + 1
    BY PoolNewBucketType
  <2>2. row \in OrgBucketRow /\ row.made = Cardinality(MadeBuckets) + 1
    BY <2>4, <2>5
  <2>3. QED
    BY <2>1, <2>2, MadeCount
<1>2. /\ holder = Nobody /\ holder' = holder /\ ~Made(q.key)
      /\ orgWallet' = [orgWallet EXCEPT !.available = @ + q.amount]
      /\ orgBuckets' = [orgBuckets EXCEPT ![q.key] = row]
      /\ UNCHANGED <<now, orgReservations, orgSettlements, raced>>
  BY DEF OrgGrant
<1> HIDE DEF q, row
<1>3. WalletTypeOK'
  <2>1. orgWallet' \in [available : Nat, reserved : Nat, consumed : Nat]
    BY <1>1, <1>2 DEF WalletSound, WalletTypeOK
  <2>2. orgBuckets' \in [OrgBucketKeys -> OrgBucketRow]
    BY <1>1, <1>2 DEF WalletSound, WalletTypeOK
  <2>3. QED
    BY <1>2, <2>1, <2>2 DEF WalletSound, WalletTypeOK
<1>4. \A b \in OrgBucketKeys : orgBuckets'[b] = IF b = q.key THEN row ELSE orgBuckets[b]
  BY <1>2 DEF WalletSound, WalletTypeOK
<1>5. UnmadeEmpty' /\ HolderAsks' /\ HoldsOfMade'
  BY <1>1, <1>2, <1>4 DEF WalletSound, UnmadeEmpty, HolderAsks, HoldsOfMade, Made
<1>6. Numbered'
  <2>1. PICK k \in OrgBucketKeys : k = q.key
    BY <1>1
  <2>2. QED
    BY <1>1, <1>2, <1>4, <2>1, PoolNumbersGrow, PoolColumns DEF WalletSound
<1>7. QED
  BY <1>3, <1>5, <1>6 DEF WalletSound

LEMMA SoundLock ==
  ASSUME WalletSound, NEW q \in ReserveTasks, LockWallet(q)
  PROVE  WalletSound'
<1>1. /\ holder' = [request |-> q, sees |-> MadeBuckets]
      /\ orgReservations[q.key].status = "none"
      /\ UNCHANGED <<now, orgWallet, orgBuckets, orgReservations, orgSettlements, raced>>
  BY DEF LockWallet, account
<1>2. MadeBuckets' = MadeBuckets /\ (WalletTypeOK)' /\ UnmadeEmpty' /\ HoldsOfMade'
      /\ Numbered'
  BY <1>1, NumbersStay
     DEF WalletSound, WalletTypeOK, UnmadeEmpty, HoldsOfMade, Made
<1>3. holder'.request = q /\ holder'.sees = MadeBuckets
  BY <1>1
<1>4. HolderAsks'
  BY <1>1, <1>2, <1>3 DEF HolderAsks, ReserveTasks
<1>5. QED
  BY <1>2, <1>4 DEF WalletSound

\* A bucket's row with both its amounts changed.
LEMMA RowChanged ==
  ASSUME NEW row \in OrgBucketRow, NEW x \in Int, NEW y \in Int
  PROVE  [row EXCEPT !.available = x, !.reserved = y]
           = [made |-> row.made, available |-> x, reserved |-> y,
              expires |-> row.expires, cycle |-> row.cycle]
<1>1. PICK m : m = [row EXCEPT !.available = x]
  OBVIOUS
<1>2. m = [made |-> row.made, available |-> x, reserved |-> row.reserved,
           expires |-> row.expires, cycle |-> row.cycle]
  BY <1>1 DEF OrgBucketRow
<1>3. [m EXCEPT !.reserved = y] = [made |-> row.made, available |-> x, reserved |-> y,
                                   expires |-> row.expires, cycle |-> row.cycle]
  BY <1>2
<1>4. QED
  BY <1>1, <1>3

\* What a reservation that commits has read, and what it writes.
ReserveReads(q, S, stale, spendable, from) ==
  /\ S = holder.sees /\ stale = StaleIn(S) /\ spendable = Spendable(S)
  /\ from = Drawn(orgBuckets, spendable, q.amount)
  /\ holder # Nobody
  /\ q.key \in OrgReserveKeys /\ q.amount \in Nat /\ q.amount > 0
  /\ orgReservations[q.key].status = "none"
  /\ orgWallet.available - Total(stale) >= q.amount
  /\ Total(spendable) > 0 => Total(from) = q.amount
  /\ \A b \in OrgBucketKeys :
       /\ stale[b] <= orgBuckets[b].available /\ from[b] <= spendable[b]
       /\ b \in S => spendable[b] = orgBuckets[b].available - stale[b]
       /\ b \notin S => spendable[b] = 0 /\ stale[b] = 0

ReserveWrites(q, S, stale, spendable, from) ==
  /\ orgReservations' = [orgReservations EXCEPT ![q.key] =
       [status |-> "RESERVED", amount |-> q.amount, settled |-> 0, from |-> from]]
  /\ orgBuckets' = [b \in OrgBucketKeys |->
       [made |-> orgBuckets[b].made,
        available |-> orgBuckets[b].available - stale[b] - from[b],
        reserved |-> orgBuckets[b].reserved + from[b],
        expires |-> orgBuckets[b].expires, cycle |-> orgBuckets[b].cycle]]
  /\ orgWallet' = [available |-> orgWallet.available - Total(stale) - q.amount,
                   reserved |-> orgWallet.reserved + q.amount,
                   consumed |-> orgWallet.consumed]
  /\ ledger' = ledger \cup Expiries(S)
       \cup {LedgerEntry(<<"entry", q.key>>, -q.amount, q.amount, 0)}
  /\ holder' = Nobody
  /\ raced' = (raced \/ S # MadeBuckets)
  /\ UNCHANGED <<now, orgSettlements, refused>>
  /\ \A b \in OrgBucketKeys : orgBuckets'[b].available >= 0

\* A reservation that commits is described by ReserveReads and ReserveWrites.
LEMMA ReserveDoes ==
  ASSUME WalletConstants, WebhookConstants, WalletSound, OrgReserve
  PROVE  \E q \in ReserveTasks, S \in SUBSET MadeBuckets,
            stale \in [OrgBucketKeys -> Nat], spendable \in [OrgBucketKeys -> Nat],
            from \in [OrgBucketKeys -> Nat] :
           ReserveReads(q, S, stale, spendable, from) /\ ReserveWrites(q, S, stale, spendable, from)
<1>1. WalletTypeOK /\ HolderAsks /\ holder # Nobody
  BY DEF WalletSound, OrgReserve
<1>2. PICK q \in ReserveTasks : q = holder.request
  BY <1>1 DEF HolderAsks, ReserveTasks
<1>3. PICK S \in SUBSET MadeBuckets : S = holder.sees
  BY <1>1 DEF HolderAsks
<1>4. q.key \in OrgReserveKeys /\ q.amount \in Nat /\ q.amount > 0
  BY TaskType
<1>5. PICK stale \in [OrgBucketKeys -> Nat] : stale = StaleIn(S)
  BY <1>1, StaleOf
<1>6. PICK spendable \in [OrgBucketKeys -> Nat] : spendable = Spendable(S)
  BY <1>1, StaleOf
<1>7. PICK from \in [OrgBucketKeys -> Nat] : from = Drawn(orgBuckets, spendable, q.amount)
  <2>1. PICK amount \in Int : amount = q.amount
    BY <1>4
  <2>2. PICK rows : rows = orgBuckets
    OBVIOUS
  <2>3. Drawn(rows, spendable, amount) \in [OrgBucketKeys -> Nat]
    BY DrawnType
  <2>4. QED
    BY <2>1, <2>2, <2>3
<1>8. \A b \in OrgBucketKeys :
        /\ stale[b] <= orgBuckets[b].available /\ from[b] <= spendable[b]
        /\ b \in S => spendable[b] = orgBuckets[b].available - stale[b]
        /\ b \notin S => spendable[b] = 0 /\ stale[b] = 0
  <2>1. \A b \in OrgBucketKeys :
          /\ stale[b] <= orgBuckets[b].available
          /\ b \in S => spendable[b] = orgBuckets[b].available - stale[b]
          /\ b \notin S => spendable[b] = 0 /\ stale[b] = 0
    BY <1>1, <1>5, <1>6, StaleOf
  <2>2. \A b \in OrgBucketKeys : from[b] <= spendable[b]
    <3>1. PICK amount \in Int : amount = q.amount
      BY <1>4
    <3>4. PICK rows : rows = orgBuckets
      OBVIOUS
    <3>2. \A b \in OrgBucketKeys : Drawn(rows, spendable, amount)[b] <= spendable[b]
      BY DrawnType
    <3>3. QED
      BY <1>7, <3>1, <3>2, <3>4
  <2>3. QED
    BY <2>1, <2>2
<1>9. from = Allocated(S, q.amount)
  BY <1>6, <1>7 DEF Allocated
<1>10. Total(stale) \in Nat
  BY PoolTotal
<1>11. /\ orgWallet.available - Total(stale) >= q.amount
       /\ Total(spendable) > 0 => Total(from) = q.amount
       /\ orgReservations' = [orgReservations EXCEPT ![q.key] = ReservationRow("RESERVED", q.amount, from)]
       /\ orgWallet' = [orgWallet EXCEPT !.available = @ - Total(stale) - q.amount,
                                         !.reserved = @ + q.amount]
       /\ ledger' = ledger \cup Expiries(S)
            \cup {LedgerEntry(<<"entry", q.key>>, -q.amount, q.amount, 0)}
       /\ holder' = Nobody
       /\ raced' = (raced \/ S # MadeBuckets)
       /\ UNCHANGED <<now, orgSettlements, refused>>
       /\ \A b \in OrgBucketKeys : orgBuckets'[b].available >= 0
  BY <1>2, <1>3, <1>5, <1>6, <1>9 DEF OrgReserve, OrgChecksHold
<1>12. orgBuckets' = [b \in OrgBucketKeys |->
         [orgBuckets[b] EXCEPT !.available = orgBuckets[b].available - stale[b] - from[b],
                               !.reserved = orgBuckets[b].reserved + from[b]]]
  BY <1>2, <1>3, <1>5, <1>9 DEF OrgReserve
<1>13. ASSUME NEW b \in OrgBucketKeys
       PROVE  [orgBuckets[b] EXCEPT !.available = orgBuckets[b].available - stale[b] - from[b],
                                    !.reserved = orgBuckets[b].reserved + from[b]]
              = [made |-> orgBuckets[b].made,
                 available |-> orgBuckets[b].available - stale[b] - from[b],
                 reserved |-> orgBuckets[b].reserved + from[b],
                 expires |-> orgBuckets[b].expires, cycle |-> orgBuckets[b].cycle]
  <2>1. PICK row \in OrgBucketRow : row = orgBuckets[b]
    BY <1>1, PoolColumns
  <2>2. PICK x \in Int : x = orgBuckets[b].available - stale[b] - from[b]
    BY <1>1, PoolColumns
  <2>3. PICK y \in Int : y = orgBuckets[b].reserved + from[b]
    BY <1>1, PoolColumns
  <2>4. [row EXCEPT !.available = x, !.reserved = y]
          = [made |-> row.made, available |-> x, reserved |-> y,
             expires |-> row.expires, cycle |-> row.cycle]
    BY RowChanged
  <2>5. QED
    BY <2>1, <2>2, <2>3, <2>4
<1>14. orgBuckets' = [b \in OrgBucketKeys |->
         [made |-> orgBuckets[b].made,
          available |-> orgBuckets[b].available - stale[b] - from[b],
          reserved |-> orgBuckets[b].reserved + from[b],
          expires |-> orgBuckets[b].expires, cycle |-> orgBuckets[b].cycle]]
  BY <1>12, <1>13
<1>15. orgWallet' = [available |-> orgWallet.available - Total(stale) - q.amount,
                     reserved |-> orgWallet.reserved + q.amount,
                     consumed |-> orgWallet.consumed]
  <2>1. orgWallet \in [available : Nat, reserved : Nat, consumed : Nat]
    BY <1>1 DEF WalletTypeOK
  <2>2. PICK w \in [available : Nat, reserved : Nat, consumed : Nat] : w = orgWallet
    BY <2>1
  <2>3. PICK x \in Int : x = w.available - Total(stale) - q.amount
    BY <1>4, <1>10, <2>2
  <2>4. PICK y \in Int : y = w.reserved + q.amount
    BY <1>4, <2>2
  <2>5. [w EXCEPT !.available = x, !.reserved = y] = [available |-> x, reserved |-> y, consumed |-> w.consumed]
    <3>1. PICK m : m = [w EXCEPT !.available = x]
      OBVIOUS
    <3>2. m = [available |-> x, reserved |-> w.reserved, consumed |-> w.consumed]
      BY <3>1
    <3>3. [m EXCEPT !.reserved = y] = [available |-> x, reserved |-> y, consumed |-> w.consumed]
      BY <3>2
    <3>4. QED
      BY <3>1, <3>2, <3>3
  <2>6. orgWallet' = [w EXCEPT !.available = x, !.reserved = y]
    BY <1>10, <1>11, <2>2, <2>3, <2>4
  <2>7. QED
    BY <2>2, <2>3, <2>4, <2>5, <2>6
<1>16. ReservationRow("RESERVED", q.amount, from)
         = [status |-> "RESERVED", amount |-> q.amount, settled |-> 0, from |-> from]
  BY DEF ReservationRow
<1>17. orgReservations[q.key].status = "none"
  BY <1>1, <1>2 DEF HolderAsks
<1>18. ReserveReads(q, S, stale, spendable, from)
  BY <1>1, <1>3, <1>4, <1>5, <1>6, <1>7, <1>8, <1>10, <1>11, <1>17 DEF ReserveReads
<1>19. orgReservations' = [orgReservations EXCEPT ![q.key] =
         [status |-> "RESERVED", amount |-> q.amount, settled |-> 0, from |-> from]]
  BY <1>11, <1>16
<1>20. ReserveWrites(q, S, stale, spendable, from)
  BY <1>11, <1>14, <1>15, <1>19 DEF ReserveWrites
<1>21. QED
  BY <1>18, <1>20

LEMMA SoundReserve ==
  ASSUME WalletConstants, WebhookConstants, WalletSound, OrgReserve
  PROVE  WalletSound'
<1>1. PICK q \in ReserveTasks, S \in SUBSET MadeBuckets,
           stale \in [OrgBucketKeys -> Nat], spendable \in [OrgBucketKeys -> Nat],
           from \in [OrgBucketKeys -> Nat] :
        ReserveReads(q, S, stale, spendable, from) /\ ReserveWrites(q, S, stale, spendable, from)
  BY ReserveDoes
<1>2. WalletTypeOK /\ UnmadeEmpty /\ HoldsOfMade /\ Numbered
  BY DEF WalletSound
<1>3. ASSUME NEW b \in OrgBucketKeys
      PROVE  /\ orgBuckets[b].available - stale[b] - from[b] \in Nat
             /\ from[b] > 0 => b \in S
  BY <1>1, <1>2, PoolColumns DEF ReserveReads
<1>4. ASSUME NEW b \in OrgBucketKeys
      PROVE  /\ orgBuckets'[b] = [made |-> orgBuckets[b].made,
                  available |-> orgBuckets[b].available - stale[b] - from[b],
                  reserved |-> orgBuckets[b].reserved + from[b],
                  expires |-> orgBuckets[b].expires, cycle |-> orgBuckets[b].cycle]
             /\ orgBuckets'[b].made = orgBuckets[b].made
  BY <1>1 DEF ReserveWrites
<1>5. orgBuckets' \in [OrgBucketKeys -> OrgBucketRow]
  <2>1. ASSUME NEW b \in OrgBucketKeys
        PROVE  [made |-> orgBuckets[b].made,
                available |-> orgBuckets[b].available - stale[b] - from[b],
                reserved |-> orgBuckets[b].reserved + from[b],
                expires |-> orgBuckets[b].expires, cycle |-> orgBuckets[b].cycle] \in OrgBucketRow
    <3>1. PICK row \in OrgBucketRow : row = orgBuckets[b]
      BY <1>2, PoolColumns
    <3>2. PICK x \in Nat : x = orgBuckets[b].available - stale[b] - from[b]
      BY <1>3
    <3>3. PICK y \in Nat : y = orgBuckets[b].reserved + from[b]
      BY <1>2, PoolColumns
    <3>4. [made |-> row.made, available |-> x, reserved |-> y, expires |-> row.expires,
           cycle |-> row.cycle] \in OrgBucketRow
      BY DEF OrgBucketRow
    <3>5. QED
      BY <3>1, <3>2, <3>3, <3>4
  <2>2. QED
    BY <1>1, <2>1 DEF ReserveWrites
<1>6. orgWallet' \in [available : Nat, reserved : Nat, consumed : Nat]
  <2>1. Total(stale) \in Nat
    BY PoolTotal
  <2>2. QED
    BY <1>1, <1>2, <2>1, PoolColumns DEF ReserveReads, ReserveWrites
<1> DEFINE new == [status |-> "RESERVED", amount |-> q.amount, settled |-> 0, from |-> from]
<1>7. orgReservations' \in
        [OrgReserveKeys -> [status : {"none", "RESERVED", "SETTLED"}, amount : Nat,
                            settled : Nat, from : [OrgBucketKeys -> Nat]]]
  <2>1. new \in [status : {"none", "RESERVED", "SETTLED"}, amount : Nat,
                 settled : Nat, from : [OrgBucketKeys -> Nat]]
    BY <1>1 DEF ReserveReads
  <2>2. orgReservations' = [orgReservations EXCEPT ![q.key] = new]
    BY <1>1 DEF ReserveWrites
  <2> HIDE DEF new
  <2>3. QED
    BY <1>2, <2>1, <2>2 DEF WalletTypeOK
<1>8. WalletTypeOK'
  BY <1>1, <1>2, <1>5, <1>6, <1>7 DEF WalletTypeOK, ReserveWrites
<1>9. MadeBuckets' = MadeBuckets /\ Numbered'
  BY <1>2, <1>4, NumbersStay
<1>10. UnmadeEmpty'
  <2>1. SUFFICES ASSUME NEW b \in OrgBucketKeys, ~Made(b)'
                 PROVE  orgBuckets'[b] = NoOrgBucket
    BY DEF UnmadeEmpty
  <2>2. ~Made(b)
    BY <1>4, <2>1 DEF Made
  <2>3. orgBuckets[b] = NoOrgBucket
    BY <1>2, <2>2 DEF UnmadeEmpty
  <2>4. orgBuckets[b].available = 0 /\ stale[b] = 0 /\ from[b] = 0
    BY <1>1, <1>2, <2>3, PoolColumns DEF ReserveReads, NoOrgBucket
  <2>5. QED
    BY <1>4, <2>3, <2>4 DEF NoOrgBucket
<1>11. HoldsOfMade'
  <2>1. ASSUME NEW r \in OrgReserveKeys
        PROVE  orgReservations'[r] = IF r = q.key THEN new ELSE orgReservations[r]
    BY <1>1, <1>2 DEF ReserveWrites, WalletTypeOK
  <2>2. ASSUME NEW r \in OrgReserveKeys, NEW b \in OrgBucketKeys, orgReservations'[r].from[b] > 0
        PROVE  b \in MadeBuckets
    <3>1. CASE r = q.key
      BY <1>3, <2>1, <2>2, <3>1
    <3>2. CASE r # q.key
      BY <1>2, <2>1, <2>2, <3>2 DEF HoldsOfMade, MadeBuckets
    <3>3. QED
      BY <3>1, <3>2
  <2>3. \A b \in MadeBuckets : Made(b)'
    BY <1>9 DEF MadeBuckets
  <2>4. QED
    BY <2>2, <2>3 DEF HoldsOfMade
<1>12. HolderAsks'
  BY <1>1 DEF HolderAsks, ReserveWrites
<1>13. QED
  BY <1>8, <1>9, <1>10, <1>11, <1>12 DEF WalletSound

LEMMA SoundRollBack ==
  ASSUME WalletSound, RollBack
  PROVE  WalletSound'
<1>1. holder' = Nobody /\ UNCHANGED <<now, orgWallet, orgBuckets, orgReservations, orgSettlements, raced>>
  BY DEF RollBack, account
<1>2. MadeBuckets' = MadeBuckets /\ Numbered'
  BY <1>1, NumbersStay DEF WalletSound
<1>3. QED
  BY <1>1, <1>2 DEF WalletSound, WalletTypeOK, UnmadeEmpty, HolderAsks, HoldsOfMade, Made

LEMMA SoundTick ==
  ASSUME WalletConstants, WalletSound, OrgTick
  PROVE  WalletSound'
<1>1. now' = now + 1 /\ now < MaxTime /\ holder = Nobody
      /\ UNCHANGED <<holder, orgWallet, orgBuckets, orgReservations, orgSettlements, raced>>
  BY DEF OrgTick, account, walletVars
<1>2. MadeBuckets' = MadeBuckets /\ Numbered'
  BY <1>1, NumbersStay DEF WalletSound
<1>3. now' \in Times
  BY <1>1, PoolTimes DEF WalletSound, WalletTypeOK, Times
<1>4. QED
  BY <1>1, <1>2, <1>3
     DEF WalletSound, WalletTypeOK, UnmadeEmpty, HolderAsks, HoldsOfMade, Made

\* What a settlement reads and writes.
SettleReads(q, amount, released, from, back, used) ==
  /\ holder = Nobody
  /\ q.key \in OrgSettleKeys /\ q.reservation \in OrgReserveKeys /\ q.settled \in Nat
  /\ orgSettlements[q.key] = NoOrgReservation
  /\ orgReservations[q.reservation].status = "RESERVED"
  /\ orgReservations[q.reservation].amount = amount
  /\ orgReservations[q.reservation].from = from
  /\ q.settled <= amount /\ released = amount - q.settled
  /\ back = GivenBack(orgBuckets, from, released)
  /\ \A b \in OrgBucketKeys : back[b] <= from[b] /\ used[b] <= from[b]

SettleWrites(q, amount, released, from, back, used) ==
  /\ orgSettlements' = [orgSettlements EXCEPT ![q.key] = q.reservation]
  /\ orgReservations' = [r \in OrgReserveKeys |-> IF r = q.reservation
       THEN [status |-> "SETTLED", amount |-> amount, settled |-> q.settled, from |-> from]
       ELSE orgReservations[r]]
  /\ orgBuckets' = [b \in OrgBucketKeys |->
       [made |-> orgBuckets[b].made,
        available |-> orgBuckets[b].available + back[b],
        reserved |-> orgBuckets[b].reserved - used[b] - back[b],
        expires |-> orgBuckets[b].expires, cycle |-> orgBuckets[b].cycle]]
  /\ orgWallet' = [available |-> orgWallet.available + released,
                   reserved |-> orgWallet.reserved - q.settled - released,
                   consumed |-> orgWallet.consumed + q.settled]
  /\ ledger' = ledger \cup {LedgerEntry(<<"settlement", q.key>>, 0, -q.settled, q.settled)}
       \cup (IF released = 0 THEN {}
             ELSE {LedgerEntry(<<"release", q.key>>, released, -released, 0)})
  /\ UNCHANGED <<now, holder, raced, refused>>
  /\ orgWallet'.reserved >= 0
  /\ \A b \in OrgBucketKeys : orgBuckets'[b].reserved >= 0

\* A settlement that commits is described by SettleReads and SettleWrites.
LEMMA SettleDoes ==
  ASSUME WalletConstants, WebhookConstants, WalletSound,
         NEW q \in SettleTasks, OrgSettle(q)
  PROVE  \E amount \in Nat, released \in Nat, from \in [OrgBucketKeys -> Nat],
            back \in [OrgBucketKeys -> Nat], used \in [OrgBucketKeys -> Nat] :
           /\ SettleReads(q, amount, released, from, back, used)
           /\ SettleWrites(q, amount, released, from, back, used)
<1>1. WalletTypeOK
  BY DEF WalletSound
<1>2. q.key \in OrgSettleKeys /\ q.reservation \in OrgReserveKeys /\ q.settled \in Nat
  BY TaskType
<1>3. PICK amount \in Nat, from \in [OrgBucketKeys -> Nat] :
        amount = orgReservations[q.reservation].amount /\ from = orgReservations[q.reservation].from
  BY <1>1, <1>2, PoolColumns
<1>4. q.settled <= amount /\ holder = Nobody /\ orgSettlements[q.key] = NoOrgReservation
      /\ orgReservations[q.reservation].status = "RESERVED"
  BY <1>3 DEF OrgSettle, MaySettle
<1>5. PICK released \in Nat : released = amount - q.settled
  BY <1>2, <1>4
<1>6. PICK rows : rows = orgBuckets
  OBVIOUS
<1> DEFINE given == GivenBack(rows, from, released)
<1>7. given \in [OrgBucketKeys -> Nat] /\ \A b \in OrgBucketKeys : given[b] <= from[b]
  <2>1. PICK n \in Int : n = released
    OBVIOUS
  <2>2. /\ GivenBack(rows, from, n) \in [OrgBucketKeys -> Nat]
        /\ \A b \in OrgBucketKeys : GivenBack(rows, from, n)[b] <= from[b]
    BY DrawnType
  <2>3. QED
    BY <2>1, <2>2
<1>8. PICK back \in [OrgBucketKeys -> Nat] : back = given /\ \A b \in OrgBucketKeys : back[b] <= from[b]
  BY <1>7
<1>9. ASSUME NEW b \in OrgBucketKeys
      PROVE  Within(q.settled, from[b]) \in Nat /\ Within(q.settled, from[b]) <= from[b]
  <2>1. PICK n \in Int, m \in Nat : n = q.settled /\ m = from[b]
    BY <1>2
  <2>2. QED
    BY <2>1, WithinType
<1>10. PICK used \in [OrgBucketKeys -> Nat] :
         used = [b \in OrgBucketKeys |-> Within(q.settled, from[b])]
  BY <1>9
<1>11. \A b \in OrgBucketKeys : used[b] <= from[b]
  BY <1>9, <1>10
<1>12. SettleReads(q, amount, released, from, back, used)
  BY <1>2, <1>3, <1>4, <1>5, <1>6, <1>8, <1>11 DEF SettleReads
<1>13. back = Released(orgReservations[q.reservation], q.settled)
       /\ used = Used(orgReservations[q.reservation], q.settled)
  BY <1>3, <1>5, <1>6, <1>8, <1>10 DEF Released, Used
<1>14. orgBuckets' = [b \in OrgBucketKeys |->
         [orgBuckets[b] EXCEPT !.available = orgBuckets[b].available + back[b],
                               !.reserved = orgBuckets[b].reserved - used[b] - back[b]]]
  BY <1>13 DEF OrgSettle, SettledBuckets
<1>15. ASSUME NEW b \in OrgBucketKeys
       PROVE  [orgBuckets[b] EXCEPT !.available = orgBuckets[b].available + back[b],
                                    !.reserved = orgBuckets[b].reserved - used[b] - back[b]]
              = [made |-> orgBuckets[b].made,
                 available |-> orgBuckets[b].available + back[b],
                 reserved |-> orgBuckets[b].reserved - used[b] - back[b],
                 expires |-> orgBuckets[b].expires, cycle |-> orgBuckets[b].cycle]
  <2>1. PICK row \in OrgBucketRow : row = orgBuckets[b]
    BY <1>1, PoolColumns
  <2>2. PICK x \in Int : x = orgBuckets[b].available + back[b]
    BY <1>1, PoolColumns
  <2>3. PICK y \in Int : y = orgBuckets[b].reserved - used[b] - back[b]
    BY <1>1, PoolColumns
  <2>4. [row EXCEPT !.available = x, !.reserved = y]
          = [made |-> row.made, available |-> x, reserved |-> y,
             expires |-> row.expires, cycle |-> row.cycle]
    BY RowChanged
  <2>5. QED
    BY <2>1, <2>2, <2>3, <2>4
<1>16. orgBuckets' = [b \in OrgBucketKeys |->
         [made |-> orgBuckets[b].made,
          available |-> orgBuckets[b].available + back[b],
          reserved |-> orgBuckets[b].reserved - used[b] - back[b],
          expires |-> orgBuckets[b].expires, cycle |-> orgBuckets[b].cycle]]
  BY <1>14, <1>15
<1>17. orgReservations' = [r \in OrgReserveKeys |-> IF r = q.reservation
         THEN [status |-> "SETTLED", amount |-> amount, settled |-> q.settled, from |-> from]
         ELSE orgReservations[r]]
  <2>1. PICK m : m = [orgReservations EXCEPT ![q.reservation].status = "SETTLED"]
    OBVIOUS
  <2>2. orgReservations' = [m EXCEPT ![q.reservation].settled = q.settled]
    BY <2>1 DEF OrgSettle
  <2>3. PICK old \in [status : {"none", "RESERVED", "SETTLED"}, amount : Nat,
                      settled : Nat, from : [OrgBucketKeys -> Nat]] : old = orgReservations[q.reservation]
    BY <1>1, <1>2 DEF WalletTypeOK
  <2>4. DOMAIN orgReservations = OrgReserveKeys
        /\ orgReservations = [r \in OrgReserveKeys |-> orgReservations[r]]
    BY <1>1 DEF WalletTypeOK
  <2>5. m = [r \in OrgReserveKeys |-> IF r = q.reservation
               THEN [old EXCEPT !.status = "SETTLED"] ELSE orgReservations[r]]
    BY <1>2, <2>1, <2>3, <2>4
  <2>6. PICK one : one = [old EXCEPT !.status = "SETTLED"]
    OBVIOUS
  <2>7. one = [status |-> "SETTLED", amount |-> amount, settled |-> old.settled, from |-> from]
    BY <1>3, <2>3, <2>6
  <2>8. orgReservations' = [r \in OrgReserveKeys |-> IF r = q.reservation
               THEN [one EXCEPT !.settled = q.settled] ELSE orgReservations[r]]
    BY <1>2, <2>2, <2>5, <2>6
  <2>9. [one EXCEPT !.settled = q.settled]
          = [status |-> "SETTLED", amount |-> amount, settled |-> q.settled, from |-> from]
    BY <2>7
  <2>10. QED
    BY <2>8, <2>9
<1>18. /\ orgSettlements' = [orgSettlements EXCEPT ![q.key] = q.reservation]
       /\ orgWallet' = [available |-> orgWallet.available + released,
                        reserved |-> orgWallet.reserved - q.settled - released,
                        consumed |-> orgWallet.consumed + q.settled]
       /\ ledger' = ledger \cup {LedgerEntry(<<"settlement", q.key>>, 0, -q.settled, q.settled)}
            \cup (IF released = 0 THEN {}
                  ELSE {LedgerEntry(<<"release", q.key>>, released, -released, 0)})
       /\ UNCHANGED <<now, holder, raced, refused>>
       /\ orgWallet'.reserved >= 0
       /\ \A b \in OrgBucketKeys : orgBuckets'[b].reserved >= 0
  BY <1>3, <1>5 DEF OrgSettle, OrgChecksHold
<1>19. SettleWrites(q, amount, released, from, back, used)
  BY <1>16, <1>17, <1>18 DEF SettleWrites
<1>20. QED
  BY <1>12, <1>19

LEMMA SoundSettle ==
  ASSUME WalletConstants, WebhookConstants, WalletSound,
         NEW q \in SettleTasks, OrgSettle(q)
  PROVE  WalletSound'
<1>1. PICK amount \in Nat, released \in Nat, from \in [OrgBucketKeys -> Nat],
           back \in [OrgBucketKeys -> Nat], used \in [OrgBucketKeys -> Nat] :
        /\ SettleReads(q, amount, released, from, back, used)
        /\ SettleWrites(q, amount, released, from, back, used)
  BY SettleDoes
<1>2. WalletTypeOK /\ UnmadeEmpty /\ HoldsOfMade /\ Numbered
  BY DEF WalletSound
<1>3. ASSUME NEW b \in OrgBucketKeys
      PROVE  /\ orgBuckets'[b] = [made |-> orgBuckets[b].made,
                  available |-> orgBuckets[b].available + back[b],
                  reserved |-> orgBuckets[b].reserved - used[b] - back[b],
                  expires |-> orgBuckets[b].expires, cycle |-> orgBuckets[b].cycle]
             /\ orgBuckets'[b].made = orgBuckets[b].made
             /\ orgBuckets[b].reserved - used[b] - back[b] \in Nat
  <2>1. /\ orgBuckets'[b] = [made |-> orgBuckets[b].made,
             available |-> orgBuckets[b].available + back[b],
             reserved |-> orgBuckets[b].reserved - used[b] - back[b],
             expires |-> orgBuckets[b].expires, cycle |-> orgBuckets[b].cycle]
        /\ orgBuckets'[b].reserved >= 0
    BY <1>1 DEF SettleWrites
  <2>2. orgBuckets[b].reserved - used[b] - back[b] \in Int
    BY <1>2, PoolColumns
  <2>3. QED
    BY <2>1, <2>2
<1>4. orgBuckets' \in [OrgBucketKeys -> OrgBucketRow]
  <2>1. ASSUME NEW b \in OrgBucketKeys
        PROVE  [made |-> orgBuckets[b].made,
                available |-> orgBuckets[b].available + back[b],
                reserved |-> orgBuckets[b].reserved - used[b] - back[b],
                expires |-> orgBuckets[b].expires, cycle |-> orgBuckets[b].cycle] \in OrgBucketRow
    <3>1. PICK row \in OrgBucketRow : row = orgBuckets[b]
      BY <1>2, PoolColumns
    <3>2. PICK x \in Nat : x = orgBuckets[b].available + back[b]
      BY <1>2, PoolColumns
    <3>3. PICK y \in Nat : y = orgBuckets[b].reserved - used[b] - back[b]
      BY <1>3
    <3>4. [made |-> row.made, available |-> x, reserved |-> y, expires |-> row.expires,
           cycle |-> row.cycle] \in OrgBucketRow
      BY DEF OrgBucketRow
    <3>5. QED
      BY <3>1, <3>2, <3>3, <3>4
  <2>2. QED
    BY <1>1, <2>1 DEF SettleWrites
<1>5. orgWallet' \in [available : Nat, reserved : Nat, consumed : Nat]
  BY <1>1, <1>2, PoolColumns DEF SettleReads, SettleWrites
<1> DEFINE new == [status |-> "SETTLED", amount |-> amount, settled |-> q.settled, from |-> from]
<1>6. ASSUME NEW r \in OrgReserveKeys
      PROVE  orgReservations'[r] = IF r = q.reservation THEN new ELSE orgReservations[r]
  BY <1>1 DEF SettleWrites
<1>7. orgReservations' \in
        [OrgReserveKeys -> [status : {"none", "RESERVED", "SETTLED"}, amount : Nat,
                            settled : Nat, from : [OrgBucketKeys -> Nat]]]
  <2>1. new \in [status : {"none", "RESERVED", "SETTLED"}, amount : Nat,
                 settled : Nat, from : [OrgBucketKeys -> Nat]]
    BY <1>1 DEF SettleReads
  <2>2. orgReservations' = [r \in OrgReserveKeys |-> IF r = q.reservation THEN new ELSE orgReservations[r]]
    BY <1>1 DEF SettleWrites
  <2> HIDE DEF new
  <2>3. QED
    BY <1>2, <2>1, <2>2 DEF WalletTypeOK
<1>8. orgSettlements' \in [OrgSettleKeys -> OrgReserveKeys \cup {NoOrgReservation}]
  BY <1>1, <1>2 DEF SettleReads, SettleWrites, WalletTypeOK
<1>9. WalletTypeOK'
  BY <1>1, <1>2, <1>4, <1>5, <1>7, <1>8 DEF WalletTypeOK, SettleWrites
<1>10. MadeBuckets' = MadeBuckets /\ Numbered'
  BY <1>2, <1>3, NumbersStay
<1>11. ASSUME NEW r \in OrgReserveKeys
       PROVE  orgReservations'[r].from = orgReservations[r].from
  BY <1>1, <1>6 DEF SettleReads
<1>12. HoldsOfMade'
  <2>1. \A b \in OrgBucketKeys : Made(b)' <=> Made(b)
    BY <1>3 DEF Made
  <2>2. QED
    BY <1>2, <1>11, <2>1 DEF HoldsOfMade
<1>13. UnmadeEmpty'
  <2>1. SUFFICES ASSUME NEW b \in OrgBucketKeys, ~Made(b)'
                 PROVE  orgBuckets'[b] = NoOrgBucket
    BY DEF UnmadeEmpty
  <2>2. ~Made(b)
    BY <1>3, <2>1 DEF Made
  <2>3. orgBuckets[b] = NoOrgBucket
    BY <1>2, <2>2 DEF UnmadeEmpty
  <2>4. from[b] = 0
    <3>1. ~(orgReservations[q.reservation].from[b] > 0)
      BY <1>1, <1>2, <2>2 DEF HoldsOfMade, SettleReads
    <3>2. QED
      BY <1>1, <3>1 DEF SettleReads
  <2>5. back[b] = 0 /\ used[b] = 0
    BY <1>1, <2>4 DEF SettleReads
  <2>6. QED
    BY <1>3, <2>3, <2>5 DEF NoOrgBucket
<1>14. HolderAsks'
  BY <1>1 DEF HolderAsks, SettleReads, SettleWrites
<1>15. QED
  BY <1>9, <1>10, <1>12, <1>13, <1>14 DEF WalletSound

LEMMA SoundUndone ==
  ASSUME WalletSound, NEW q, SettleUndone(q)
  PROVE  WalletSound'
BY SoundFrame DEF SettleUndone

\* The bucket a rollover takes is one it may take.
LEMMA PoolNewestIsOne ==
  ASSUME WalletConstants, WalletTypeOK, Numbered, NEW S \in SUBSET OrgBucketKeys,
         S # {}, \A b \in S : Made(b)
  PROVE  /\ NewestSource(S) \in S
         /\ \A c \in S : orgBuckets[c].cycle <= orgBuckets[NewestSource(S)].cycle
<1>1. \A b \in OrgBucketKeys : /\ orgBuckets[b].cycle \in Nat /\ orgBuckets[b].cycle <= MaxTime
                               /\ orgBuckets[b].made \in Nat
  BY PoolColumns, PoolTimes DEF OrgBucketRow, Times
<1>2. Cardinality(MadeBuckets) \in Nat /\ MaxTime \in Nat
  BY MadeCount, PoolTimes
<1>3. \E b \in S : \A c \in S : orgBuckets[c].cycle <= orgBuckets[b].cycle
  <2> DEFINE cycles == {orgBuckets[b].cycle : b \in S}
  <2>1. cycles \subseteq Nat /\ cycles # {} /\ \A n \in cycles : n <= MaxTime
    BY <1>1
  <2>2. PICK n \in cycles : \A k \in cycles : k <= n
    BY <1>2, <2>1, HasGreatest
  <2>3. QED
    BY <2>2
<1>4. PICK latest \in S : \A c \in S : orgBuckets[c].cycle <= orgBuckets[latest].cycle
  BY <1>3
<1> DEFINE last == {b \in S : orgBuckets[b].cycle = orgBuckets[latest].cycle}
<1>5. \E b \in last : \A c \in last : orgBuckets[c].made <= orgBuckets[b].made
  <2> DEFINE numbers == {orgBuckets[b].made : b \in last}
  <2>0. PICK m \in Nat : m = Cardinality(MadeBuckets)
    BY <1>2
  <2>1. numbers \subseteq Nat /\ numbers # {} /\ \A n \in numbers : n <= m
    BY <1>1, <2>0 DEF Numbered
  <2>2. PICK n \in numbers : \A k \in numbers : k <= n
    BY <2>1, HasGreatest
  <2>3. QED
    BY <2>2
<1>6. PICK b \in last : \A c \in last : orgBuckets[c].made <= orgBuckets[b].made
  BY <1>5
<1>7. \A c \in S \ {b} :
        \/ orgBuckets[b].cycle > orgBuckets[c].cycle
        \/ orgBuckets[b].cycle = orgBuckets[c].cycle /\ orgBuckets[b].made > orgBuckets[c].made
  <2>1. ASSUME NEW c \in S \ {b}
        PROVE  \/ orgBuckets[b].cycle > orgBuckets[c].cycle
               \/ orgBuckets[b].cycle = orgBuckets[c].cycle /\ orgBuckets[b].made > orgBuckets[c].made
    <3>1. orgBuckets[b].made # orgBuckets[c].made
      BY DEF Numbered
    <3>2. orgBuckets[c].cycle <= orgBuckets[b].cycle
      BY <1>4
    <3>3. CASE c \in last
      BY <1>1, <1>6, <3>1, <3>3
    <3>4. CASE c \notin last
      BY <1>1, <3>2, <3>4
    <3>5. QED
      BY <3>3, <3>4
  <2>2. QED
    BY <2>1
<1>8. b \in S
  OBVIOUS
<1> HIDE DEF last
<1> DEFINE newest == NewestSource(S)
<1>9. /\ newest \in S
      /\ \A c \in S \ {newest} :
           \/ orgBuckets[newest].cycle > orgBuckets[c].cycle
           \/ orgBuckets[newest].cycle = orgBuckets[c].cycle /\ orgBuckets[newest].made > orgBuckets[c].made
  BY <1>7, <1>8 DEF NewestSource
<1> HIDE DEF newest
<1>10. ASSUME NEW c \in S
       PROVE  orgBuckets[c].cycle <= orgBuckets[newest].cycle
  BY <1>1, <1>9
<1>11. QED
  BY <1>9, <1>10 DEF newest

\* What a rollover reads and writes.
RolloverDone(q, source, moved, row) ==
  /\ q.key \in OrgBucketKeys /\ ~Made(q.key)
  /\ source \in Sources(q.period) /\ Made(source)
  /\ \A b \in Sources(q.period) : orgBuckets[b].cycle <= orgBuckets[source].cycle
  /\ moved = Within(q.limit, orgBuckets[source].available)
  /\ moved <= orgBuckets[source].available
  /\ row = NewOrgBucket(moved, q.expires, q.period)
  /\ row.made = Cardinality(MadeBuckets) + 1 /\ row.available = moved /\ row.reserved = 0
  /\ orgBuckets' = [b \in OrgBucketKeys |->
       IF b = q.key THEN row
       ELSE IF b = source THEN
         [made |-> orgBuckets[b].made, available |-> orgBuckets[b].available - moved,
          reserved |-> orgBuckets[b].reserved, expires |-> orgBuckets[b].expires,
          cycle |-> orgBuckets[b].cycle]
       ELSE orgBuckets[b]]
  /\ ledger' = ledger \cup {LedgerEntry(<<"source", q.key>>, -moved, 0, 0),
                            LedgerEntry(<<"target", q.key>>, moved, 0, 0)}
  /\ UNCHANGED <<now, orgWallet, orgReservations, orgSettlements, holder, raced, refused>>

\* A rollover is described by RolloverDone.
LEMMA RolloverDoes ==
  ASSUME WalletConstants, WebhookConstants, WalletSound, NEW e \in OrgCharges,
         OrgRollover(RolloverOf(e))
  PROVE  \E source \in OrgBucketKeys, moved \in Nat, row \in OrgBucketRow :
           RolloverDone(RolloverOf(e), source, moved, row)
<1> DEFINE q == RolloverOf(e)
<1>1. /\ q.key \in OrgBucketKeys /\ q.limit \in Nat
      /\ q.expires \in Times \cup {Never}
      /\ q.period \in Times
  BY RolloverOfType
<1>2. WalletTypeOK /\ UnmadeEmpty /\ Numbered
  BY DEF WalletSound
<1> DEFINE newest == NewestSource(Sources(q.period))
<1>3. /\ ~Made(q.key) /\ Sources(q.period) # {}
      /\ orgBuckets' = [orgBuckets EXCEPT
           ![newest].available = @ - Within(q.limit, orgBuckets[newest].available),
           ![q.key] = NewOrgBucket(Within(q.limit, orgBuckets[newest].available),
                                   q.expires, q.period)]
      /\ ledger' = ledger \cup
           {LedgerEntry(<<"source", q.key>>, -Within(q.limit, orgBuckets[newest].available), 0, 0),
            LedgerEntry(<<"target", q.key>>, Within(q.limit, orgBuckets[newest].available), 0, 0)}
      /\ UNCHANGED <<now, orgWallet, orgReservations, orgSettlements, holder, raced, refused>>
  BY DEF OrgRollover
<1> HIDE DEF q
<1>4. PICK S \in SUBSET OrgBucketKeys : S = Sources(q.period)
  BY DEF Sources
<1>5. ASSUME NEW b \in S
      PROVE  Made(b)
  <2>1. b \in OrgBucketKeys /\ orgBuckets[b].available > 0
    BY <1>4 DEF Sources
  <2>2. QED
    BY <1>2, <2>1 DEF UnmadeEmpty, NoOrgBucket
<1>6. /\ NewestSource(S) \in S
      /\ \A c \in S : orgBuckets[c].cycle <= orgBuckets[NewestSource(S)].cycle
  BY <1>2, <1>3, <1>4, <1>5, PoolNewestIsOne
<1>7. PICK source \in S : source = newest /\ \A c \in S : orgBuckets[c].cycle <= orgBuckets[source].cycle
  BY <1>4, <1>6
<1> HIDE DEF newest
<1>8. source \in OrgBucketKeys /\ Made(source) /\ source # q.key
  BY <1>3, <1>5
<1>9. PICK old \in OrgBucketRow : old = orgBuckets[source]
  BY <1>2, <1>8, PoolColumns
<1>10. old.available \in Nat
  BY <1>2, <1>8, <1>9, PoolColumns
<1>11. PICK moved \in Nat : moved = Within(q.limit, orgBuckets[source].available)
                            /\ moved <= orgBuckets[source].available
  <2>1. PICK n \in Int, m \in Nat : n = q.limit /\ m = old.available
    BY <1>1, <1>10
  <2>2. QED
    BY <1>9, <2>1, WithinType
<1>12. PICK row \in OrgBucketRow :
         /\ row = NewOrgBucket(moved, q.expires, q.period)
         /\ row.made = Cardinality(MadeBuckets) + 1 /\ row.available = moved /\ row.reserved = 0
  <2>1. PICK expires \in Times \cup {Never}, cycle \in Times \cup {NoCycle} :
          expires = q.expires /\ cycle = q.period
    BY <1>1
  <2>2. QED
    BY <2>1, PoolNewBucketType
<1>13. orgBuckets' = [b \in OrgBucketKeys |->
         IF b = q.key THEN row
         ELSE IF b = source THEN
           [made |-> orgBuckets[b].made, available |-> orgBuckets[b].available - moved,
            reserved |-> orgBuckets[b].reserved, expires |-> orgBuckets[b].expires,
            cycle |-> orgBuckets[b].cycle]
         ELSE orgBuckets[b]]
  <2>1. PICK m : m = [orgBuckets EXCEPT ![source].available = @ - moved]
    OBVIOUS
  <2>2. orgBuckets' = [m EXCEPT ![q.key] = row]
    BY <1>3, <1>7, <1>11, <1>12, <2>1
  <2>3. orgBuckets = [b \in OrgBucketKeys |-> orgBuckets[b]]
    BY <1>2 DEF WalletTypeOK
  <2>4. m = [b \in OrgBucketKeys |-> IF b = source THEN [old EXCEPT !.available = old.available - moved]
                                     ELSE orgBuckets[b]]
    BY <1>8, <1>9, <2>1, <2>3
  <2>5. [old EXCEPT !.available = old.available - moved]
          = [made |-> old.made, available |-> old.available - moved, reserved |-> old.reserved,
             expires |-> old.expires, cycle |-> old.cycle]
    BY DEF OrgBucketRow
  <2>6. QED
    BY <1>1, <1>9, <2>2, <2>4, <2>5
<1>14. /\ ledger' = ledger \cup {LedgerEntry(<<"source", q.key>>, -moved, 0, 0),
                                 LedgerEntry(<<"target", q.key>>, moved, 0, 0)}
  BY <1>3, <1>7, <1>11
<1>15. RolloverDone(q, source, moved, row)
  BY <1>1, <1>3, <1>4, <1>7, <1>8, <1>11, <1>12, <1>13, <1>14 DEF RolloverDone
<1>16. QED
  BY <1>8, <1>15 DEF q

LEMMA SoundRollover ==
  ASSUME WalletConstants, WebhookConstants, WalletSound, NEW e \in OrgCharges,
         OrgRollover(RolloverOf(e))
  PROVE  WalletSound'
<1> DEFINE q == RolloverOf(e)
<1>1. PICK source \in OrgBucketKeys, moved \in Nat, row \in OrgBucketRow :
        RolloverDone(q, source, moved, row)
  BY RolloverDoes
<1> HIDE DEF q
<1>2. WalletTypeOK /\ UnmadeEmpty /\ HoldsOfMade /\ Numbered /\ HolderAsks
  BY DEF WalletSound
<1>3. /\ q.key \in OrgBucketKeys /\ ~Made(q.key) /\ Made(source) /\ source # q.key
      /\ row.made = Cardinality(MadeBuckets) + 1 /\ row.made > 0
      /\ moved <= orgBuckets[source].available
      /\ UNCHANGED <<now, orgWallet, orgReservations, orgSettlements, holder, raced>>
  <2>1. Cardinality(MadeBuckets) \in Nat
    BY MadeCount
  <2>2. QED
    BY <1>1, <2>1 DEF RolloverDone
<1>4. ASSUME NEW b \in OrgBucketKeys
      PROVE  /\ orgBuckets'[b] \in OrgBucketRow
             /\ b = q.key => orgBuckets'[b] = row
             /\ b # q.key => orgBuckets'[b].made = orgBuckets[b].made
             /\ b \notin {q.key, source} => orgBuckets'[b] = orgBuckets[b]
  <2>1. PICK old \in OrgBucketRow : old = orgBuckets[b]
    BY <1>2, PoolColumns
  <2>2. orgBuckets'[b] = IF b = q.key THEN row
         ELSE IF b = source THEN
           [made |-> old.made, available |-> old.available - moved,
            reserved |-> old.reserved, expires |-> old.expires, cycle |-> old.cycle]
         ELSE old
    BY <1>1, <2>1 DEF RolloverDone
  <2>3. b = source => old.available - moved \in Nat
    BY <1>3, <2>1 DEF OrgBucketRow
  <2>4. b = source => [made |-> old.made, available |-> old.available - moved,
            reserved |-> old.reserved, expires |-> old.expires, cycle |-> old.cycle] \in OrgBucketRow
    BY <2>3 DEF OrgBucketRow
  <2>5. QED
    BY <2>1, <2>2, <2>4
<1>5. orgBuckets' \in [OrgBucketKeys -> OrgBucketRow]
  <2>1. orgBuckets' = [b \in OrgBucketKeys |-> orgBuckets'[b]]
    BY <1>1 DEF RolloverDone
  <2>2. QED
    BY <1>4, <2>1
<1>6. WalletTypeOK'
  BY <1>2, <1>3, <1>5 DEF WalletTypeOK
<1>7. Numbered'
  <2>1. PICK k \in OrgBucketKeys : k = q.key
    BY <1>3
  <2>2. \A b \in OrgBucketKeys : orgBuckets[b].made \in Nat
    BY <1>2, PoolColumns
  <2>3. QED
    BY <1>2, <1>3, <1>4, <2>1, <2>2, PoolNumbersGrow
<1>8. \A b \in OrgBucketKeys : /\ Made(b) => Made(b)'
                               /\ ~Made(b)' => ~Made(b) /\ b \notin {q.key, source}
  BY <1>3, <1>4 DEF Made
<1>9. UnmadeEmpty'
  BY <1>2, <1>4, <1>8 DEF UnmadeEmpty
<1>10. HoldsOfMade' /\ HolderAsks'
  <2>1. MadeBuckets \subseteq MadeBuckets'
    BY <1>8 DEF MadeBuckets
  <2>2. QED
    BY <1>2, <1>3, <1>8, <2>1 DEF HoldsOfMade, HolderAsks
<1>11. QED
  BY <1>6, <1>7, <1>9, <1>10 DEF WalletSound

\* WalletSound is inductive.
LEMMA SoundStep ==
  ASSUME WalletConstants, WebhookConstants, WalletSound, WalletStep
  PROVE  WalletSound'
<1>1. CASE NoWallet
  BY <1>1, SoundFrame DEF NoWallet, walletVars
<1>2. QED
  BY <1>1, SoundGrant, SoundRollover, SoundLock, SoundReserve, SoundRollBack, SoundSettle, SoundUndone,
     SoundTick DEF WalletStep

-----------------------------------------------------------------------------
(* Every step of the webhook *)

\* The status a subscription's event sets, and what an effect may write.
LEMMA StatusType ==
  ASSUME NEW e \in AllEvents, Touches(e)
  PROVE  StatusOf(e) \in {"AUTHENTICATED", "ACTIVE", "PENDING"} \cup Ended
<1>1. CASE e.type \in {"subscription.charged", "subscription.activated"}
  BY Zenon, <1>1 DEF StatusOf
<1>2. CASE e.type = "subscription.authenticated"
  BY Zenon, <1>2 DEF StatusOf
<1>3. CASE e.type = "subscription.pending"
  BY Zenon, <1>3 DEF StatusOf
<1>4. CASE e.type = "subscription.halted"
  BY Zenon, <1>4 DEF StatusOf, Ended
<1>5. CASE e.type = "subscription.cancelled"
  BY Zenon, <1>5 DEF StatusOf, Ended
<1>6. CASE e.type = "subscription.completed"
  BY Zenon, <1>6 DEF StatusOf, Ended
<1>7. QED
  BY <1>1, <1>2, <1>3, <1>4, <1>5, <1>6
     DEF AllEvents, EventTypes, Paying, Endings, Touches

TablesTyped ==
  /\ payments \in [PaymentNames -> PaymentStatuses]
  /\ subscription \in SubscriptionStatuses
  /\ userPlan \in {"FREE", "PAID"} /\ entitlement \in {"none", "ACTIVE", "CLOSED"}

\* No effect of an event leaves a status the tables do not know.
LEMMA EffectType ==
  ASSUME TablesTyped, NEW e \in AllEvents, e.payment \in PaymentNames,
         NEW x, Fits(e, x), Apply(e, x)
  PROVE  TablesTyped'
<1>1. payments' \in [PaymentNames -> PaymentStatuses]
  <2>1. CASE x \in {"payment", "refund"}
    <3>1. PICK status \in PaymentStatuses : PutPayment(e, status)
      <4>1. PaymentStatusOf(e) \in PaymentStatuses /\ "REFUNDED" \in PaymentStatuses
        BY DEF PaymentStatusOf, PaymentStatuses
      <4>2. QED
        BY <2>1, <4>1 DEF Apply, SavePayment, SaveRefund
    <3>2. QED
      BY <3>1 DEF PutPayment, TablesTyped
  <2>2. CASE x \notin {"payment", "refund"}
    <3>1. payments' = payments
      BY <2>2 DEF Apply, DoRollover, DoGrant, SaveSubscription,
                  UpdateStatus, AssignPlan, SetEntitlement, paymentTables
    <3>2. QED
      BY <3>1 DEF TablesTyped
  <2>3. QED
    BY <2>1, <2>2
<1>2. subscription' \in SubscriptionStatuses
  BY EffectDoes, StatusType DEF TablesTyped, SubscriptionStatuses
<1>3. userPlan' \in {"FREE", "PAID"} /\ entitlement' \in {"none", "ACTIVE", "CLOSED"}
  BY EffectDoes DEF TablesTyped, PlanAfter
<1>4. QED
  BY <1>1, <1>2, <1>3 DEF TablesTyped

\* The types of the webhook's own state.
WebhookTyped ==
  /\ scenario \in Scenarios
  /\ owed \subseteq Events /\ claims \subseteq Events
  /\ \A h \in Handlers : handler[h].event \in Events \cup {NoEvent}
  /\ payments \in [PaymentNames -> PaymentStatuses]
  /\ subscription \in SubscriptionStatuses
  /\ userPlan \in {"FREE", "PAID"} /\ entitlement \in {"none", "ACTIVE", "CLOSED"}
  /\ faults \in Nat /\ overlapped \in BOOLEAN
  /\ partial \subseteq Events /\ stopped \subseteq Events

PaymentsTyped == WebhookTyped /\ HandlersFit

LEMMA PaymentsTypeInit ==
  ASSUME WebhookConstants, PaymentInit
  PROVE  PaymentsTyped
<1>1. \A h \in Handlers : handler[h] = [event |-> NoEvent, left |-> <<>>]
  BY DEF PaymentInit, Idle
<1>2. HandlersFit
  BY <1>1 DEF HandlersFit, PaymentInit, Idle, Busy
<1>3. faults \in Nat /\ scenario \in Scenarios /\ owed = Events
  BY DEF WebhookConstants, PaymentInit, Events
<1>4. TablesTyped
  BY DEF PaymentInit, TablesTyped, PaymentStatuses, SubscriptionStatuses
<1>5. WebhookTyped
  <2>1. overlapped \in BOOLEAN /\ owed \subseteq Events
    BY <1>3 DEF PaymentInit
  <2>2. claims \subseteq Events /\ partial \subseteq Events /\ stopped \subseteq Events
    BY DEF PaymentInit
  <2>3. QED
    BY <1>1, <1>3, <1>4, <2>1, <2>2 DEF WebhookTyped, TablesTyped
<1>6. QED
  BY <1>2, <1>5 DEF PaymentsTyped

\* The payment of an event has a row.
LEMMA PaymentNamed ==
  ASSUME scenario \in Scenarios, NEW e \in Events
  PROVE  e.payment \in PaymentNames
BY DEF Events, PaymentNames

\* What a failed or completed effect leaves in the tables.
LEMMA TablesStep ==
  ASSUME WebhookConstants, PaymentsTyped, NEW h \in Handlers, Busy(h),
         handler[h].left # <<>>,
         \/ Apply(handler[h].event, Head(handler[h].left))
         \/ UNCHANGED paymentTables
  PROVE  TablesTyped' /\ handler[h].event \in Events
<1>1. TablesTyped
  BY DEF PaymentsTyped, WebhookTyped, TablesTyped
<1>2. PICK e \in AllEvents, l \in Seq(EffectNames) :
        /\ e = handler[h].event /\ l = handler[h].left /\ l # <<>>
        /\ e \in Events /\ Fits(e, Head(l))
  BY NextCall DEF PaymentsTyped
<1>3. e.payment \in PaymentNames
  BY <1>2, PaymentNamed DEF PaymentsTyped, HandlersFit
<1>4. CASE Apply(e, Head(l))
  BY <1>1, <1>2, <1>3, <1>4, EffectType
<1>5. CASE UNCHANGED paymentTables
  BY <1>1, <1>2, <1>5 DEF TablesTyped, paymentTables
<1>6. QED
  BY <1>2, <1>4, <1>5

LEMMA PaymentsTypeFrame ==
  ASSUME WebhookTyped,
         UNCHANGED <<scenario, provider, handler, paymentTables, faults, history>>
  PROVE  WebhookTyped'
BY DEF WebhookTyped, provider, paymentTables, history, Events

\* The actions other than those of a handler leave what is below alone.
Others ==
  \/ \E e \in AllScenarioEvents : Ignore(e) \/ Repeat(e)
  \/ Frame

\* The steps of a handler, and the others.
LEMMA NextCases ==
  ASSUME [PaymentNext]_paymentVars
  PROVE  \/ \E h \in Handlers :
              \/ \E e \in AllScenarioEvents : Deliver(h, e)
              \/ Step(h)
              \/ Finish(h)
              \/ Fail(h)
              \/ Crash(h)
         \/ Others
<1>1. CASE UNCHANGED paymentVars
  BY <1>1 DEF Others, Frame, paymentVars
<1>2. CASE PaymentNext
  BY <1>2 DEF Others, PaymentNext, BeginReserve, Charge, Undo, Commit,
              Abort, Pass
<1>3. QED
  BY <1>1, <1>2

LEMMA PaymentsTypeNext ==
  ASSUME WebhookConstants, PaymentsTyped, HandlersFit', [PaymentNext]_paymentVars
  PROVE  PaymentsTyped'
<1>0. WebhookTyped /\ scenario \in Scenarios
  BY DEF PaymentsTyped, HandlersFit
<1>1. ASSUME NEW h \in Handlers, NEW e \in AllScenarioEvents, Deliver(h, e)
      PROVE  WebhookTyped'
  <2>1. e \in Events
    BY <1>0, <1>1 DEF Deliver, WebhookTyped
  <2>2. \A g \in Handlers : handler'[g].event \in Events' \cup {NoEvent}
    BY DEF HandlersFit
  <2>3. QED
    BY <1>0, <1>1, <2>1, <2>2 DEF WebhookTyped, Deliver, paymentTables, Events,
                                   Claimed
<1>2. ASSUME NEW h \in Handlers, Step(h)
      PROVE  WebhookTyped'
  <2>1. TablesTyped'
    BY <1>2, TablesStep DEF Step
  <2>2. \A g \in Handlers : handler'[g].event \in Events' \cup {NoEvent}
    BY DEF HandlersFit
  <2>3. QED
    BY <1>0, <1>2, <2>1, <2>2 DEF WebhookTyped, TablesTyped, Step, provider,
                                   history, Events
<1>3. ASSUME NEW h \in Handlers, Finish(h)
      PROVE  WebhookTyped'
  <2>2. \A g \in Handlers : handler'[g].event \in Events' \cup {NoEvent}
    BY DEF HandlersFit
  <2>3. QED
    BY <1>0, <1>3, <2>2 DEF WebhookTyped, Finish, provider, paymentTables,
                             Events
<1>4. ASSUME NEW h \in Handlers, Fail(h)
      PROVE  WebhookTyped'
  <2>1. TablesTyped' /\ handler[h].event \in Events
    BY <1>4, TablesStep DEF Fail
  <2>2. \A g \in Handlers : handler'[g].event \in Events' \cup {NoEvent}
    BY DEF HandlersFit
  <2>3. QED
    BY <1>0, <1>4, <2>1, <2>2 DEF WebhookTyped, TablesTyped, Fail, ReleasedClaim,
                                   history, Events
<1>5. ASSUME NEW h \in Handlers, Crash(h)
      PROVE  WebhookTyped'
  <2>1. handler[h].event \in Events
    BY <1>0, <1>5 DEF Crash, WebhookTyped, Busy
  <2>2. \A g \in Handlers : handler'[g].event \in Events' \cup {NoEvent}
    BY DEF HandlersFit
  <2>3. QED
    BY <1>0, <1>5, <2>1, <2>2 DEF WebhookTyped, Crash, paymentTables, Events
<1>6. ASSUME NEW e \in AllScenarioEvents, Ignore(e)
      PROVE  WebhookTyped'
  BY <1>0, <1>6 DEF WebhookTyped, Ignore, paymentTables, history, Events
<1>7. ASSUME NEW e \in AllScenarioEvents, Repeat(e)
      PROVE  WebhookTyped'
  BY <1>0, <1>7 DEF WebhookTyped, Repeat, paymentTables, history, Events
<1>8. ASSUME Frame
      PROVE  WebhookTyped'
  BY <1>0, <1>8, PaymentsTypeFrame DEF Frame
<1>9. WebhookTyped'
  BY <1>1, <1>2, <1>3, <1>4, <1>5, <1>6, <1>7, <1>8, NextCases DEF Others
<1>10. QED
  BY <1>9 DEF PaymentsTyped

\* EndingsInvariant is inductive.
LEMMA EndingsNext ==
  ASSUME WebhookConstants, EndingsInvariant, WebhookTyped, [PaymentNext]_paymentVars
  PROVE  EndingsInvariant'
<1>1. ASSUME NEW h \in Handlers, NEW e \in AllScenarioEvents, Deliver(h, e)
      PROVE  EndingsInvariant'
  <2>1. e \in Events
    BY <1>1 DEF Deliver, WebhookTyped
  <2>2. QED
    BY <1>1, <2>1, EndingsDeliver
<1>2. ASSUME Others
      PROVE  EndingsInvariant'
  <2>1. UNCHANGED <<scenario, handler, subscription, userPlan, entitlement, partial, overlapped>>
    BY <1>2 DEF Others, Ignore, Repeat, Frame, paymentTables, history
  <2>2. QED
    BY <2>1, EndingsFrame
<1>3. QED
  BY <1>1, <1>2, NextCases, EndingsStep, EndingsFinish, EndingsFail, EndingsCrash

\* What holds in every state: the types, the calls that handlers still have to
\* make are those of their events, and the wallet's rows agree with each other.
PaymentsInvariant == PaymentsTyped /\ EndingsInvariant /\ WalletSound

\* The invariant holds at first.
LEMMA PaymentsInvariantInit ==
  ASSUME WalletConstants, WebhookConstants, PaymentInit
  PROVE  PaymentsInvariant
<1>1. WalletInit
  BY DEF PaymentInit
<1>2. QED
  BY <1>1, PaymentsTypeInit, EndingsInit, SoundInit DEF PaymentsInvariant

\* It is inductive, and each step is the wallet's step that it allows.
LEMMA PaymentsInvariantNext ==
  ASSUME WalletConstants, WebhookConstants, PaymentsInvariant,
         [PaymentNext]_paymentVars
  PROVE  PaymentsInvariant' /\ WalletStep
<1>1. EndingsInvariant'
  BY EndingsNext DEF PaymentsInvariant, PaymentsTyped
<1>2. HandlersFit /\ HandlersFit'
  BY <1>1 DEF PaymentsInvariant, EndingsInvariant
<1>3. PaymentsTyped'
  BY <1>2, PaymentsTypeNext DEF PaymentsInvariant
<1>4. WalletStep
  BY <1>2, Transacts
<1>5. WalletSound'
  BY <1>4, SoundStep DEF PaymentsInvariant
<1>6. QED
  BY <1>1, <1>3, <1>4, <1>5 DEF PaymentsInvariant

\* It holds in every state.
LEMMA PaymentsInvariantHolds == PaymentSpec => []PaymentsInvariant
<1>0. WalletConstants /\ WebhookConstants
  BY WalletAssumption, WebhookAssumption
<1>1. PaymentInit => PaymentsInvariant
  BY <1>0, PaymentsInvariantInit
<1>2. PaymentsInvariant /\ [PaymentNext]_paymentVars => PaymentsInvariant'
  BY <1>0, PaymentsInvariantNext
<1>3. QED
  BY <1>1, <1>2, PTL DEF PaymentSpec

\* The types of the webhook's and the wallet's state (TypeOK of PaymentWebhook,
\* handle over PostgresPaymentStore): every event at work is one of the
\* provider's, every status is one the tables know, and no balance of a
\* wallet's row or of a bucket ever falls below zero (the CHECKs of migration
\* 0011), although only what a transaction subtracts is compared.
THEOREM PaymentsTypeCorrect == PaymentSpec => []PaymentTypeOK
<1>1. PaymentsInvariant => PaymentTypeOK
  BY DEF PaymentsInvariant, PaymentsTyped, WebhookTyped, WalletSound, PaymentTypeOK
<1>2. QED
  BY <1>1, PaymentsInvariantHolds, PTL

\* While its row says that a subscription has ended the paid plan and the
\* entitlement are gone, however often its events came, failed and were retried,
\* if they were handled one at a time and none was left half done (handle, onSubscriptionCancelled,
\* onSubscriptionHalted, onOrganizationEntitlementChanged).
THEOREM EndedSubscriptionIsFree == PaymentSpec => []EndedIsFree
<1>1. EndingsInvariant => EndedIsFree
  <2> SUFFICES ASSUME EndingsInvariant, partial = {}, ~overlapped
               PROVE  OverIsFree
    BY DEF EndedIsFree, OverIsFree
  <2>1. OneByOne /\ Begun = {}
    BY DEF EndingsInvariant, Begun
  <2>2. \A h \in Handlers : ~Busy(h)
    BY <2>1 DEF OneByOne
  <2>3. QED
    BY <2>1, <2>2 DEF OneByOne
<1>2. PaymentsInvariant => EndedIsFree
  BY <1>1 DEF PaymentsInvariant
<1>3. QED
  BY <1>2, PaymentsInvariantHolds, PTL

-----------------------------------------------------------------------------
(* The wallet does what the store without transactions does *)

\* The buckets as the store without transactions has them.
PoolRows ==
  [b \in OrgBucketKeys |->
     [made |-> orgBuckets[b].made, remaining |-> orgBuckets[b].available,
      expires |-> orgBuckets[b].expires, cycle |-> orgBuckets[b].cycle]]

\* Sizes and sums are the same in the store without transactions.
LEMMA SameSizesInPool ==
  ASSUME NEW S
  PROVE  Pool!Cardinality(S) = Cardinality(S)
BY DEF Pool!Cardinality, Cardinality

LEMMA SameTotals ==
  ASSUME NEW f
  PROVE  Pool!Total(f) = Total(f)
<1>1. Pool!Units(f) = Units(f)
  BY DEF Pool!Units, Units
<1>2. QED
  BY <1>1, SameSizesInPool DEF Pool!Total, Total

\* So are the buckets, what has expired of them and what is logged,
LEMMA SameBuckets ==
  ASSUME UnmadeEmpty
  PROVE  /\ \A b \in OrgBucketKeys : Pool!Exists(b) <=> Made(b)
         /\ Pool!Count = Cardinality(MadeBuckets)
         /\ Pool!Stale = StaleIn(MadeBuckets)
         /\ Pool!Expiries = Expiries(MadeBuckets)
<1>1. \A b \in OrgBucketKeys : Pool!Exists(b) <=> Made(b)
  BY DEF Pool!Exists, Made
<1>2. {b \in OrgBucketKeys : Pool!Exists(b)} = MadeBuckets
  BY <1>1 DEF MadeBuckets
<1>3. Pool!Count = Cardinality(MadeBuckets)
  BY <1>2, SameSizesInPool DEF Pool!Count
<1>4. Pool!Stale = StaleIn(MadeBuckets)
  <2>1. ASSUME NEW b \in OrgBucketKeys, ~Made(b)
        PROVE  orgBuckets[b].available = 0
    BY <2>1 DEF UnmadeEmpty, NoOrgBucket
  <2>2. QED
    BY <2>1 DEF Pool!Stale, StaleIn, MadeBuckets
<1>5. Pool!Expiries = Expiries(MadeBuckets)
  BY <1>4 DEF Pool!Expiries, Expiries, Pool!Entry, LedgerEntry
<1>6. QED
  BY <1>1, <1>3, <1>4, <1>5

\* and what is drawn from them and given back.
LEMMA SameDraws ==
  ASSUME NEW whole, DOMAIN whole = OrgBucketKeys, NEW amount
  PROVE  /\ Pool!Drawn(PoolRows, whole, amount) = Drawn(orgBuckets, whole, amount)
         /\ Pool!GivenBack(PoolRows, whole, amount) = GivenBack(orgBuckets, whole, amount)
<1>1. \A b, c \in OrgBucketKeys : Pool!Sooner(PoolRows, c, b) <=> Sooner(orgBuckets, c, b)
  BY DEF Pool!Sooner, Sooner, PoolRows
<1>2. ASSUME NEW b \in OrgBucketKeys
      PROVE  /\ [c \in DOMAIN whole |-> IF Pool!Sooner(PoolRows, c, b) THEN whole[c] ELSE 0]
                  = [c \in DOMAIN whole |-> IF Sooner(orgBuckets, c, b) THEN whole[c] ELSE 0]
             /\ [c \in DOMAIN whole |-> IF Pool!Sooner(PoolRows, b, c) THEN whole[c] ELSE 0]
                  = [c \in DOMAIN whole |-> IF Sooner(orgBuckets, b, c) THEN whole[c] ELSE 0]
  BY <1>1
<1>3. \A n, m : Pool!Within(n, m) = Within(n, m)
  BY DEF Pool!Within, Within
<1>4. QED
  BY <1>2, <1>3, SameTotals DEF Pool!Drawn, Drawn, Pool!GivenBack, GivenBack

\* What each transaction of the wallet is asked is a request of the pool's.
LEMMA Asking ==
  /\ Tasks \subseteq PoolRequests
  /\ \A e \in PayingEvents : RolloverOf(e) \in PoolRequests
  /\ \A e \in PayingEvents : \A n \in Times : GrantOf(e, n) \in PoolRequests
<1>1. Tasks \subseteq PoolRequests
  BY DEF PoolRequests
<1>2. ASSUME NEW e \in PayingEvents PROVE RolloverOf(e) \in PoolRequests
  <2>1. RolloverOf(e) \in {RolloverOf(d) : d \in PayingEvents}
    OBVIOUS
  <2>2. QED
    BY <2>1 DEF PoolRequests
<1>3. ASSUME NEW e \in PayingEvents, NEW n \in Times PROVE GrantOf(e, n) \in PoolRequests
  <2>1. GrantOf(e, n) \in {GrantOf(d, m) : d \in PayingEvents, m \in Times}
    OBVIOUS
  <2>2. QED
    BY <2>1 DEF PoolRequests
<1>4. QED
  BY <1>1, <1>2, <1>3

\* Each transaction of the wallet is the operation of the same name.
LEMMA AgreesGrant ==
  ASSUME WalletConstants, WebhookConstants, WalletSound, NEW e \in OrgGrants,
         OrgGrant(GrantOf(e, now))
  PROVE  Pool!Next
<1>0. PICK q : q = GrantOf(e, now)
  OBVIOUS
<1>1. q.key \in OrgBucketKeys /\ now \in Times
  BY <1>0, GrantOfType DEF WalletSound, WalletTypeOK
<1>2. q.op = "grant" /\ q \in PoolRequests
  BY <1>0, <1>1, Asking DEF OrgGrants, GrantOf
<1>3. /\ ~Made(q.key)
      /\ orgWallet' = [orgWallet EXCEPT !.available = @ + q.amount]
      /\ orgBuckets' = [orgBuckets EXCEPT ![q.key] = NewOrgBucket(q.amount, q.expires, q.cycle)]
      /\ ledger' = ledger \cup {LedgerEntry(<<"entry", q.key>>, q.amount, 0, 0)}
      /\ UNCHANGED <<now, orgReservations, orgSettlements>>
  BY <1>0 DEF OrgGrant
<1>4. ~Pool!Exists(q.key)
  BY <1>1, <1>3, SameBuckets DEF WalletSound
<1>5. NewOrgBucket(q.amount, q.expires, q.cycle)
        = [made |-> Cardinality(MadeBuckets) + 1, available |-> q.amount, reserved |-> 0,
           expires |-> q.expires, cycle |-> q.cycle]
  BY DEF NewOrgBucket
<1>6. Pool!NewBucket(q.amount, q.expires, q.cycle)
        = [made |-> Cardinality(MadeBuckets) + 1, remaining |-> q.amount,
           expires |-> q.expires, cycle |-> q.cycle]
  BY SameBuckets DEF Pool!NewBucket, WalletSound
<1>7. PoolRows' = [PoolRows EXCEPT ![q.key] = Pool!NewBucket(q.amount, q.expires, q.cycle)]
  <2>1. PICK new : new = Pool!NewBucket(q.amount, q.expires, q.cycle)
    OBVIOUS
  <2>2. ASSUME NEW b \in OrgBucketKeys
        PROVE  PoolRows'[b] = IF b = q.key THEN new ELSE PoolRows[b]
    <3>1. PICK row : row = NewOrgBucket(q.amount, q.expires, q.cycle)
      OBVIOUS
    <3>2. orgBuckets'[b] = IF b = q.key THEN row ELSE orgBuckets[b]
      BY <1>3, <3>1 DEF WalletSound, WalletTypeOK
    <3>3. QED
      BY <1>5, <1>6, <2>1, <3>1, <3>2 DEF PoolRows
  <2>3. PoolRows' = [b \in OrgBucketKeys |-> PoolRows'[b]] /\ DOMAIN PoolRows = OrgBucketKeys
    BY DEF PoolRows
  <2>4. [PoolRows EXCEPT ![q.key] = new]
          = [b \in OrgBucketKeys |-> IF b = q.key THEN new ELSE PoolRows[b]]
    BY <2>3
  <2>5. QED
    BY <2>1, <2>2, <2>3, <2>4
<1>8. Pool!Grant(q)
  BY <1>3, <1>4, <1>7 DEF Pool!Grant, PoolRows, Pool!Entry, LedgerEntry
<1>9. QED
  BY <1>2, <1>8 DEF Pool!Next

LEMMA AgreesReserve ==
  ASSUME WalletConstants, WebhookConstants, WalletSound, OrgReserve, ~raced'
  PROVE  Pool!Next
<1>1. PICK q \in ReserveTasks, S \in SUBSET MadeBuckets,
           stale \in [OrgBucketKeys -> Nat], spendable \in [OrgBucketKeys -> Nat],
           from \in [OrgBucketKeys -> Nat] :
        ReserveReads(q, S, stale, spendable, from) /\ ReserveWrites(q, S, stale, spendable, from)
  BY ReserveDoes
<1>2. S = MadeBuckets
  BY <1>1 DEF ReserveWrites
<1>3. q.op = "reserve" /\ q \in PoolRequests
  BY Asking DEF ReserveTasks
<1>4. stale = Pool!Stale /\ Expiries(S) = Pool!Expiries
  BY <1>1, <1>2, SameBuckets DEF ReserveReads, WalletSound
<1> DEFINE left == [b \in OrgBucketKeys |-> PoolRows[b].remaining - Pool!Stale[b]]
<1>5. spendable = left
  <2>1. ASSUME NEW b \in OrgBucketKeys
        PROVE  spendable[b] = orgBuckets[b].available - stale[b]
    <3>1. CASE b \in S
      BY <1>1, <3>1 DEF ReserveReads
    <3>2. CASE b \notin S
      <4>1. orgBuckets[b].available = 0
        BY <1>2, <3>2 DEF WalletSound, UnmadeEmpty, NoOrgBucket, MadeBuckets
      <4>2. QED
        BY <1>1, <3>2, <4>1 DEF ReserveReads
    <3>3. QED
      BY <3>1, <3>2
  <2>2. QED
    BY <1>4, <2>1 DEF PoolRows
<1>6. from = Pool!Drawn(PoolRows, left, q.amount)
  BY <1>1, <1>5, SameDraws DEF ReserveReads
<1> HIDE DEF left
<1>7. /\ Pool!Total(stale) = Total(stale) /\ Pool!Total(spendable) = Total(spendable)
      /\ Pool!Total(from) = Total(from)
  BY SameTotals, PoolTotal
<1>8. PoolRows' = [b \in OrgBucketKeys |-> [PoolRows[b] EXCEPT !.remaining = left[b] - from[b]]]
  <2>1. ASSUME NEW b \in OrgBucketKeys
        PROVE  /\ PoolRows'[b] = [made |-> orgBuckets[b].made,
                    remaining |-> orgBuckets[b].available - stale[b] - from[b],
                    expires |-> orgBuckets[b].expires, cycle |-> orgBuckets[b].cycle]
               /\ [PoolRows[b] EXCEPT !.remaining = left[b] - from[b]]
                    = [made |-> orgBuckets[b].made, remaining |-> left[b] - from[b],
                       expires |-> orgBuckets[b].expires, cycle |-> orgBuckets[b].cycle]
    BY <1>1 DEF PoolRows, ReserveWrites
  <2>2. \A b \in OrgBucketKeys : left[b] = orgBuckets[b].available - stale[b]
    BY <1>4 DEF PoolRows, left
  <2>3. PoolRows' = [b \in OrgBucketKeys |-> PoolRows'[b]]
    BY DEF PoolRows
  <2>4. QED
    BY <2>1, <2>2, <2>3
<1>9. orgWallet' = [orgWallet EXCEPT !.available = @ - Total(stale) - q.amount, !.reserved = @ + q.amount]
  <2>1. PICK w \in [available : Nat, reserved : Nat, consumed : Nat] : w = orgWallet
    BY DEF WalletSound, WalletTypeOK
  <2>2. PICK x : x = w.available - Total(stale) - q.amount
    OBVIOUS
  <2>3. PICK y : y = w.reserved + q.amount
    OBVIOUS
  <2>4. PICK m : m = [w EXCEPT !.available = x]
    OBVIOUS
  <2>5. m = [available |-> x, reserved |-> w.reserved, consumed |-> w.consumed]
    BY <2>4
  <2>6. [m EXCEPT !.reserved = y] = [available |-> x, reserved |-> y, consumed |-> w.consumed]
    BY <2>5
  <2>7. [w EXCEPT !.available = x, !.reserved = y] = [available |-> x, reserved |-> y, consumed |-> w.consumed]
    BY <2>4, <2>5, <2>6
  <2>8. orgWallet' = [available |-> x, reserved |-> y, consumed |-> w.consumed]
    BY <1>1, <2>1, <2>2, <2>3 DEF ReserveWrites
  <2>9. QED
    BY <2>1, <2>2, <2>3, <2>7, <2>8
<1>10. Pool!Reserve(q)
  BY <1>1, <1>4, <1>5, <1>6, <1>7, <1>8, <1>9
     DEF Pool!Reserve, ReserveReads, ReserveWrites, PoolRows, left, Pool!Entry, LedgerEntry
<1>11. QED
  BY <1>3, <1>10 DEF Pool!Next

LEMMA AgreesSettle ==
  ASSUME WalletConstants, WebhookConstants, WalletSound,
         NEW q \in SettleTasks, OrgSettle(q)
  PROVE  Pool!Next
<1>1. PICK amount \in Nat, released \in Nat, from \in [OrgBucketKeys -> Nat],
           back \in [OrgBucketKeys -> Nat], used \in [OrgBucketKeys -> Nat] :
        /\ SettleReads(q, amount, released, from, back, used)
        /\ SettleWrites(q, amount, released, from, back, used)
  BY SettleDoes
<1>2. q.op = "settle" /\ q \in PoolRequests
  BY Asking DEF SettleTasks
<1>3. back = Pool!GivenBack(PoolRows, from, released)
  BY <1>1, SameDraws DEF SettleReads
<1>4. PoolRows' = [b \in OrgBucketKeys |-> [PoolRows[b] EXCEPT !.remaining = @ + back[b]]]
  <2>1. ASSUME NEW b \in OrgBucketKeys
        PROVE  PoolRows'[b] = [PoolRows[b] EXCEPT !.remaining = @ + back[b]]
    BY <1>1 DEF PoolRows, SettleWrites
  <2>2. PoolRows' = [b \in OrgBucketKeys |-> PoolRows'[b]]
    BY DEF PoolRows
  <2>3. QED
    BY <2>1, <2>2
<1>5. orgReservations' = [orgReservations EXCEPT ![q.reservation].status = "SETTLED",
                                                 ![q.reservation].settled = q.settled]
  BY DEF OrgSettle
<1>6. Pool!Settle(q)
  BY <1>1, <1>3, <1>4, <1>5
     DEF Pool!Settle, SettleReads, SettleWrites, PoolRows, Pool!Entry, LedgerEntry
<1>7. QED
  BY <1>2, <1>6 DEF Pool!Next

LEMMA AgreesRollover ==
  ASSUME WalletConstants, WebhookConstants, WalletSound, NEW e \in OrgCharges,
         OrgRollover(RolloverOf(e))
  PROVE  Pool!Next
<1> DEFINE q == RolloverOf(e)
<1>1. PICK source \in OrgBucketKeys, moved \in Nat, row \in OrgBucketRow :
        RolloverDone(q, source, moved, row)
  BY RolloverDoes
<1>2. q.op = "rollover" /\ q \in PoolRequests
  BY Asking DEF OrgCharges, RolloverOf
<1> HIDE DEF q
<1>3. Pool!Sources(q.period) = Sources(q.period)
  BY DEF Pool!Sources, Sources, Pool!NoCycle, NoCycle
<1>4. ~Pool!Exists(q.key) /\ source # q.key
  BY <1>1, SameBuckets DEF RolloverDone, WalletSound
<1>5. /\ source \in Pool!Sources(q.period)
      /\ \A b \in Pool!Sources(q.period) : PoolRows[b].cycle <= PoolRows[source].cycle
      /\ moved = Pool!Within(q.limit, PoolRows[source].remaining)
  BY <1>1, <1>3 DEF RolloverDone, PoolRows, Sources, Pool!Within, Within
<1>6. row = [made |-> Cardinality(MadeBuckets) + 1, available |-> moved, reserved |-> 0,
             expires |-> q.expires, cycle |-> q.period]
  BY <1>1 DEF RolloverDone, NewOrgBucket
<1>7. Pool!NewBucket(moved, q.expires, q.period)
        = [made |-> Cardinality(MadeBuckets) + 1, remaining |-> moved,
           expires |-> q.expires, cycle |-> q.period]
  BY SameBuckets DEF Pool!NewBucket, WalletSound
<1>8. PoolRows' = [PoolRows EXCEPT ![source].remaining = @ - moved,
                                   ![q.key] = Pool!NewBucket(moved, q.expires, q.period)]
  <2>1. PICK new : new = Pool!NewBucket(moved, q.expires, q.period)
    OBVIOUS
  <2>2. ASSUME NEW b \in OrgBucketKeys
        PROVE  PoolRows'[b] = IF b = q.key THEN new
                 ELSE IF b = source THEN [PoolRows[b] EXCEPT !.remaining = @ - moved] ELSE PoolRows[b]
    BY <1>1, <1>6, <1>7, <2>1 DEF RolloverDone, PoolRows
  <2>3. PoolRows' = [b \in OrgBucketKeys |-> PoolRows'[b]] /\ DOMAIN PoolRows = OrgBucketKeys
    BY DEF PoolRows
  <2>4. [PoolRows EXCEPT ![source].remaining = @ - moved, ![q.key] = new]
          = [b \in OrgBucketKeys |-> IF b = q.key THEN new
                 ELSE IF b = source THEN [PoolRows[b] EXCEPT !.remaining = @ - moved] ELSE PoolRows[b]]
    BY <1>4, <2>3
  <2>5. QED
    BY <2>1, <2>2, <2>3, <2>4
<1>9. Pool!Rollover(q)
  BY <1>1, <1>4, <1>5, <1>8
     DEF Pool!Rollover, RolloverDone, PoolRows, Pool!Entry, LedgerEntry
<1>10. QED
  BY <1>2, <1>9 DEF Pool!Next

LEMMA AgreesStep ==
  ASSUME WalletConstants, WebhookConstants, WalletSound, WalletStep
  PROVE  raced' \/ Pool!Next \/ UNCHANGED <<now, account>>
<1>1. CASE OrgTick
  <2>1. Pool!Tick
    BY <1>1 DEF OrgTick, Pool!Tick, Pool!pool, walletVars, account
  <2>2. QED
    BY <2>1 DEF Pool!Next
<1>2. CASE \E q \in ReserveTasks : LockWallet(q)
  BY <1>2 DEF LockWallet
<1>3. CASE RollBack
  BY <1>3 DEF RollBack
<1>4. CASE \E q \in SettleTasks : SettleUndone(q)
  BY <1>4 DEF SettleUndone
<1>5. CASE NoWallet
  BY <1>5 DEF NoWallet, walletVars
<1>6. QED
  BY <1>1, <1>2, <1>3, <1>4, <1>5, AgreesGrant, AgreesReserve, AgreesSettle, AgreesRollover DEF WalletStep

\* Each transaction of the organization's wallet is what the store without
\* transactions does for the same request, expiry, draw and rollover included,
\* and nothing else changes the balances, until a rollover has overtaken a
\* reservation (PostgresOrganizationBillingStore against
\* InMemoryOrganizationBillingStore): a refinement, step by step.
THEOREM WalletAgreesWithPool == PaymentSpec => AgreesWithPool
<1>0. WalletConstants /\ WebhookConstants
  BY WalletAssumption, WebhookAssumption
<1>1. PaymentsInvariant /\ [PaymentNext]_paymentVars
        => [raced' \/ Pool!Next]_<<now, account>>
  BY <1>0, PaymentsInvariantNext, AgreesStep DEF PaymentsInvariant
<1>2. QED
  BY <1>1, PaymentsInvariantHolds, PTL DEF PaymentSpec, AgreesWithPool

-----------------------------------------------------------------------------
(* Sums of parts, and of a table's rows *)

\* Some of the units of a total, counted off in an order: rest[x] are before those of x.
LEMMA FillsUp ==
  ASSUME NEW S, IsFiniteSet(S), NEW whole \in [S -> Nat], NEW rest \in [S -> Nat],
         \A x \in S : rest[x] + whole[x] <= Total(whole),
         \A x, y \in S : x # y /\ whole[x] > 0 /\ whole[y] > 0 =>
           rest[x] + whole[x] <= rest[y] \/ rest[y] + whole[y] <= rest[x],
         NEW n \in Nat, n <= Total(whole), NEW part \in [S -> Nat],
         \A x \in S : part[x] = IF n - rest[x] < 0 THEN 0
                                ELSE IF n - rest[x] < whole[x] THEN n - rest[x] ELSE whole[x]
  PROVE  Total(part) = n
<1> DEFINE rank == [u \in Units(whole) |-> rest[u[1]] + u[2]]
           low == [u \in Units(part) |-> rest[u[1]] + u[2]]
<1>1. IsFiniteSet(Units(whole)) /\ Total(whole) \in Nat
  BY TotalFinite
<1>2. ASSUME NEW x \in S, NEW i \in 1 .. whole[x]
      PROVE  <<x, i>> \in Units(whole) /\ rank[<<x, i>>] = rest[x] + i /\ rank[<<x, i>>] \in 1 .. Total(whole)
  <2>1. <<x, i>> \in Units(whole)
    BY UnitIs
  <2>2. rank[<<x, i>>] = rest[x] + i
    BY <2>1
  <2>3. rest[x] + whole[x] <= Total(whole) /\ rest[x] \in Nat /\ whole[x] \in Nat
    OBVIOUS
  <2>4. rest[x] + i \in 1 .. Total(whole)
    BY <1>1, <2>3
  <2>5. QED
    BY <2>1, <2>2, <2>4
<1>3. ASSUME NEW u \in Units(whole)
      PROVE  \E x \in S : \E i \in 1 .. whole[x] : u = <<x, i>>
  BY UnitIs
<1>4. rank \in [Units(whole) -> 1 .. Total(whole)]
  <2>1. ASSUME NEW u \in Units(whole)
        PROVE  rank[u] \in 1 .. Total(whole)
    <3>1. PICK x \in S : \E i \in 1 .. whole[x] : u = <<x, i>>
      BY <1>3
    <3>2. PICK i \in 1 .. whole[x] : u = <<x, i>>
      BY <3>1
    <3> HIDE DEF rank
    <3>3. QED
      BY <1>2, <3>2
  <2>2. QED
    BY <2>1
<1>5. ASSUME NEW u \in Units(whole), NEW v \in Units(whole), rank[u] = rank[v]
      PROVE  u = v
  <2>1. PICK x \in S : \E i \in 1 .. whole[x] : u = <<x, i>>
    BY <1>3
  <2>2. PICK i \in 1 .. whole[x] : u = <<x, i>>
    BY <2>1
  <2>3. PICK y \in S : \E j \in 1 .. whole[y] : v = <<y, j>>
    BY <1>3
  <2>4. PICK j \in 1 .. whole[y] : v = <<y, j>>
    BY <2>3
  <2>5. rest[x] + i = rest[y] + j
    BY <1>2, <1>5, <2>2, <2>4
  <2>6. whole[x] > 0 /\ whole[y] > 0 /\ rest[x] \in Nat /\ rest[y] \in Nat /\ whole[x] \in Nat /\ whole[y] \in Nat
    OBVIOUS
  <2>7. x = y
    <3>1. SUFFICES ASSUME x # y
                   PROVE  FALSE
      OBVIOUS
    <3>2. rest[x] + whole[x] <= rest[y] \/ rest[y] + whole[y] <= rest[x]
      BY <2>6, <3>1
    <3>3. QED
      BY <2>5, <2>6, <3>2
  <2>8. i = j
    BY <2>5, <2>6, <2>7
  <2>9. QED
    BY <2>2, <2>4, <2>7, <2>8
<1>6. rank \in Surjection(Units(whole), 1 .. Total(whole))
  <2>1. rank \in Injection(Units(whole), 1 .. Total(whole))
    <3> HIDE DEF rank
    <3>1. QED
      BY <1>4, <1>5 DEF Injection, IsInjective
  <2>2. IsFiniteSet(1 .. Total(whole)) /\ Cardinality(1 .. Total(whole)) = Total(whole)
    BY <1>1, FS_Interval
  <2>3. Cardinality(Units(whole)) = Total(whole)
    BY DEF Total
  <2> HIDE DEF rank
  <2>4. QED
    BY <2>1, <2>2, <2>3, FS_Injection
<1>7. ASSUME NEW x \in S, NEW i \in Nat
      PROVE  i \in 1 .. part[x] <=> i \in 1 .. whole[x] /\ rest[x] + i <= n
  <2>1. rest[x] \in Nat /\ whole[x] \in Nat /\ part[x] \in Nat
        /\ part[x] = IF n - rest[x] < 0 THEN 0
                     ELSE IF n - rest[x] < whole[x] THEN n - rest[x] ELSE whole[x]
    OBVIOUS
  <2>2. QED
    BY <2>1
<1>8. ASSUME NEW u \in Units(part)
      PROVE  u \in Units(whole) /\ low[u] = rank[u] /\ low[u] \in 1 .. n
  <2>1. PICK x \in S : \E i \in 1 .. part[x] : u = <<x, i>>
    BY UnitIs
  <2>2. PICK i \in 1 .. part[x] : u = <<x, i>>
    BY <2>1
  <2>3. i \in 1 .. whole[x] /\ rest[x] + i <= n /\ rest[x] \in Nat
    BY <1>7
  <2>4. u \in Units(whole) /\ rank[u] = rest[x] + i /\ low[u] = rest[x] + i
    BY <1>2, <2>2, <2>3
  <2>5. QED
    BY <2>3, <2>4
<1>9. ASSUME NEW m \in 1 .. n
      PROVE  \E u \in Units(part) : low[u] = m
  <2>1. m \in 1 .. Total(whole)
    BY <1>1
  <2>2. PICK u \in Units(whole) : rank[u] = m
    BY <1>6, <2>1 DEF Surjection
  <2>3. PICK x \in S : \E i \in 1 .. whole[x] : u = <<x, i>>
    BY <1>3
  <2>4. PICK i \in 1 .. whole[x] : u = <<x, i>>
    BY <2>3
  <2>5. rest[x] + i = m
    BY <1>2, <2>2, <2>4
  <2>6. i \in 1 .. part[x]
    BY <1>7, <2>5
  <2>7. u \in Units(part)
    BY <2>4, <2>6, UnitIs
  <2>8. QED
    BY <1>8, <2>2, <2>7
<1>10. low \in Bijection(Units(part), 1 .. n)
  <2>1. low \in [Units(part) -> 1 .. n]
    BY <1>8
  <2>2. \A u, v \in Units(part) : low[u] = low[v] => u = v
    BY <1>5, <1>8
  <2> HIDE DEF low
  <2>3. QED
    BY <1>9, <2>1, <2>2 DEF Bijection, Injection, Surjection, IsInjective
<1>11. IsFiniteSet(1 .. n) /\ Cardinality(1 .. n) = n
  BY FS_Interval
<1> HIDE DEF low
<1>12. Cardinality(Units(part)) = n
  <2>1. low \in Surjection(Units(part), 1 .. n) /\ low \in Injection(Units(part), 1 .. n)
    BY <1>10 DEF Bijection
  <2>2. QED
    BY <1>11, <2>1, FS_Injection
<1>13. QED
  BY <1>12 DEF Total

\* The rows of U in two parts.
Parts(U, S, T) == U = S \cup T /\ S \cap T = {}

\* The total over two parts of the rows.
LEMMA TotalOfParts ==
  ASSUME NEW U, NEW S, NEW T, Parts(U, S, T), NEW h \in [U -> Nat],
         NEW f \in [S -> Nat], NEW g \in [T -> Nat],
         \A x \in S : f[x] = h[x], \A x \in T : g[x] = h[x],
         IsFiniteSet(Units(f)), IsFiniteSet(Units(g))
  PROVE  IsFiniteSet(Units(h)) /\ Total(h) = Total(f) + Total(g)
<1>1. ASSUME NEW u
      PROVE  u \in Units(h) <=> u \in Units(f) \/ u \in Units(g)
  <2>1. u \in Units(h) <=> \E x \in U : \E i \in 1 .. h[x] : u = <<x, i>>
    BY UnitIs
  <2>2. u \in Units(f) <=> \E x \in S : \E i \in 1 .. f[x] : u = <<x, i>>
    BY UnitIs
  <2>3. u \in Units(g) <=> \E x \in T : \E i \in 1 .. g[x] : u = <<x, i>>
    BY UnitIs
  <2>4. QED
    BY <2>1, <2>2, <2>3 DEF Parts
<1>2. Units(f) \cap Units(g) = {}
  <2>1. ASSUME NEW u \in Units(f), u \in Units(g)
        PROVE  FALSE
    <3>1. PICK x \in S : \E i \in 1 .. f[x] : u = <<x, i>>
      BY UnitIs
    <3>2. PICK y \in T : \E i \in 1 .. g[y] : u = <<y, i>>
      BY <2>1, UnitIs
    <3>3. x = y
      BY <3>1, <3>2
    <3>4. QED
      BY <3>3 DEF Parts
  <2>2. QED
    BY <2>1
<1>3. Units(h) = Units(f) \cup Units(g)
  BY <1>1
<1>4. QED
  BY <1>2, <1>3, ApartSize DEF Total

\* Amounts that may be negative, as the gains and the losses of a balance.
LEMMA BalanceType ==
  ASSUME NEW S, IsFiniteSet(S), NEW f \in [S -> Int]
  PROVE  /\ Gains(f) \in [S -> Nat] /\ Losses(f) \in [S -> Nat]
         /\ IsFiniteSet(Units(Gains(f))) /\ IsFiniteSet(Units(Losses(f)))
         /\ Total(Gains(f)) \in Nat /\ Total(Losses(f)) \in Nat
         /\ Balance(f) = Total(Gains(f)) - Total(Losses(f)) /\ Balance(f) \in Int
<1>1. Gains(f) \in [S -> Nat] /\ Losses(f) \in [S -> Nat]
  BY DEF Gains, Losses
<1>2. QED
  BY <1>1, TotalFinite DEF Balance

\* The balance over two parts of the rows, and over one row.
LEMMA BalanceOfParts ==
  ASSUME NEW U, NEW S, NEW T, Parts(U, S, T), IsFiniteSet(S), IsFiniteSet(T),
         NEW h \in [U -> Int], NEW f \in [S -> Int], NEW g \in [T -> Int],
         \A x \in S : f[x] = h[x], \A x \in T : g[x] = h[x]
  PROVE  Balance(h) = Balance(f) + Balance(g)
<1>1. /\ Gains(f) \in [S -> Nat] /\ Losses(f) \in [S -> Nat]
      /\ Gains(g) \in [T -> Nat] /\ Losses(g) \in [T -> Nat]
      /\ Gains(h) \in [U -> Nat] /\ Losses(h) \in [U -> Nat]
      /\ \A x \in S : Gains(f)[x] = Gains(h)[x] /\ Losses(f)[x] = Losses(h)[x]
      /\ \A x \in T : Gains(g)[x] = Gains(h)[x] /\ Losses(g)[x] = Losses(h)[x]
  BY DEF Parts, Gains, Losses
<1>2. /\ IsFiniteSet(Units(Gains(f))) /\ IsFiniteSet(Units(Losses(f)))
      /\ IsFiniteSet(Units(Gains(g))) /\ IsFiniteSet(Units(Losses(g)))
      /\ Total(Gains(f)) \in Nat /\ Total(Losses(f)) \in Nat
      /\ Total(Gains(g)) \in Nat /\ Total(Losses(g)) \in Nat
  BY BalanceType
<1>3. Total(Gains(h)) = Total(Gains(f)) + Total(Gains(g))
  <2>1. PICK F \in [S -> Nat], G \in [T -> Nat], H \in [U -> Nat] :
          F = Gains(f) /\ G = Gains(g) /\ H = Gains(h)
    BY <1>1
  <2>2. /\ \A x \in S : F[x] = H[x]
        /\ \A x \in T : G[x] = H[x]
        /\ IsFiniteSet(Units(F)) /\ IsFiniteSet(Units(G))
    BY <1>1, <1>2, <2>1
  <2>3. Total(H) = Total(F) + Total(G)
    BY <2>2, TotalOfParts
  <2>4. QED
    BY <2>1, <2>3
<1>4. Total(Losses(h)) = Total(Losses(f)) + Total(Losses(g))
  <2>1. PICK F \in [S -> Nat], G \in [T -> Nat], H \in [U -> Nat] :
          F = Losses(f) /\ G = Losses(g) /\ H = Losses(h)
    BY <1>1
  <2>2. /\ \A x \in S : F[x] = H[x]
        /\ \A x \in T : G[x] = H[x]
        /\ IsFiniteSet(Units(F)) /\ IsFiniteSet(Units(G))
    BY <1>1, <1>2, <2>1
  <2>3. Total(H) = Total(F) + Total(G)
    BY <2>2, TotalOfParts
  <2>4. QED
    BY <2>1, <2>3
<1>5. QED
  BY <1>2, <1>3, <1>4 DEF Balance

LEMMA BalanceOfOne ==
  ASSUME NEW x, NEW f \in [{x} -> Int]
  PROVE  Balance(f) = f[x]
<1>1. Gains(f) \in [{x} -> Nat] /\ Losses(f) \in [{x} -> Nat]
  BY DEF Gains, Losses
<1>2. Total(Gains(f)) = Gains(f)[x]
  BY <1>1, TotalOfOne
<1>3. Total(Losses(f)) = Losses(f)[x]
  BY <1>1, TotalOfOne
<1>4. QED
  BY <1>2, <1>3 DEF Balance, Gains, Losses

\* One row of a table changes.
LEMMA TotalOfOneMore ==
  ASSUME NEW S, IsFiniteSet(S), NEW f \in [S -> Nat], NEW g \in [S -> Nat], NEW x \in S,
         \A y \in S : y # x => g[y] = f[y]
  PROVE  Total(g) = Total(f) - f[x] + g[x] /\ Total(f) \in Nat /\ Total(g) \in Nat
<1>1. PICK base \in [S -> Nat] : base = [y \in S |-> IF y = x THEN 0 ELSE f[y]]
  OBVIOUS
<1>2. PICK old \in [S -> Nat] : old = [y \in S |-> IF y = x THEN f[x] ELSE 0]
  OBVIOUS
<1>3. PICK new \in [S -> Nat] : new = [y \in S |-> IF y = x THEN g[x] ELSE 0]
  OBVIOUS
<1>4. IsFiniteSet(Units(base)) /\ Total(base) \in Nat /\ Total(f) \in Nat /\ Total(g) \in Nat
  BY TotalFinite
<1>5. IsFiniteSet(Units(old)) /\ Total(old) = f[x]
  <2>1. \A y \in S : y # x => old[y] = 0
    BY <1>2
  <2>2. old[x] = f[x]
    BY <1>2
  <2>3. QED
    BY <2>1, <2>2, TotalOfOne
<1>6. IsFiniteSet(Units(new)) /\ Total(new) = g[x]
  <2>1. \A y \in S : y # x => new[y] = 0
    BY <1>3
  <2>2. new[x] = g[x]
    BY <1>3
  <2>3. QED
    BY <2>1, <2>2, TotalOfOne
<1>7. Total(f) = Total(base) + f[x]
  <2>1. \A y \in S : f[y] = base[y] + old[y]
    BY <1>1, <1>2
  <2>2. QED
    BY <1>4, <1>5, <2>1, TotalOfSum
<1>8. Total(g) = Total(base) + g[x]
  <2>1. \A y \in S : g[y] = base[y] + new[y]
    BY <1>1, <1>3
  <2>2. QED
    BY <1>4, <1>6, <2>1, TotalOfSum
<1>9. QED
  BY <1>4, <1>7, <1>8

\* The columns of a ledger.
Deltas(L) == \A e \in L : e.available \in Int /\ e.reserved \in Int /\ e.consumed \in Int
AvailableSum(L) == Balance([e \in L |-> e.available])
ReservedSum(L) == Balance([e \in L |-> e.reserved])
ConsumedSum(L) == Balance([e \in L |-> e.consumed])

\* The sums of a ledger's columns are numbers.
LEMMA LedgerType ==
  ASSUME NEW L, IsFiniteSet(L), Deltas(L)
  PROVE  AvailableSum(L) \in Int /\ ReservedSum(L) \in Int /\ ConsumedSum(L) \in Int
<1>1. /\ [e \in L |-> e.available] \in [L -> Int] /\ [e \in L |-> e.reserved] \in [L -> Int]
      /\ [e \in L |-> e.consumed] \in [L -> Int]
  BY DEF Deltas
<1>2. QED
  BY <1>1, BalanceType DEF AvailableSum, ReservedSum, ConsumedSum

\* Two ledgers with no entry in common, and a ledger of one entry.
LEMMA LedgersAdd ==
  ASSUME NEW U, NEW L, NEW M, Parts(U, L, M), IsFiniteSet(L), IsFiniteSet(M), Deltas(L), Deltas(M)
  PROVE  /\ IsFiniteSet(U) /\ Deltas(U)
         /\ AvailableSum(U) = AvailableSum(L) + AvailableSum(M)
         /\ ReservedSum(U) = ReservedSum(L) + ReservedSum(M)
         /\ ConsumedSum(U) = ConsumedSum(L) + ConsumedSum(M)
<1>1. IsFiniteSet(U)
  BY FS_Union DEF Parts
<1>2. Deltas(U)
  BY DEF Deltas, Parts
<1>3. AvailableSum(U) = AvailableSum(L) + AvailableSum(M)
  <2>1. PICK h \in [U -> Int] : h = [e \in U |-> e.available]
    BY <1>2 DEF Deltas
  <2>2. PICK f \in [L -> Int] : f = [e \in L |-> e.available]
    BY DEF Deltas
  <2>3. PICK g \in [M -> Int] : g = [e \in M |-> e.available]
    BY DEF Deltas
  <2>4. (\A e \in L : f[e] = h[e]) /\ (\A e \in M : g[e] = h[e])
    BY <2>1, <2>2, <2>3 DEF Parts
  <2>5. Balance(h) = Balance(f) + Balance(g)
    BY <2>4, BalanceOfParts
  <2>6. QED
    BY <2>1, <2>2, <2>3, <2>5 DEF AvailableSum
<1>4. ReservedSum(U) = ReservedSum(L) + ReservedSum(M)
  <2>1. PICK h \in [U -> Int] : h = [e \in U |-> e.reserved]
    BY <1>2 DEF Deltas
  <2>2. PICK f \in [L -> Int] : f = [e \in L |-> e.reserved]
    BY DEF Deltas
  <2>3. PICK g \in [M -> Int] : g = [e \in M |-> e.reserved]
    BY DEF Deltas
  <2>4. (\A e \in L : f[e] = h[e]) /\ (\A e \in M : g[e] = h[e])
    BY <2>1, <2>2, <2>3 DEF Parts
  <2>5. Balance(h) = Balance(f) + Balance(g)
    BY <2>4, BalanceOfParts
  <2>6. QED
    BY <2>1, <2>2, <2>3, <2>5 DEF ReservedSum
<1>5. ConsumedSum(U) = ConsumedSum(L) + ConsumedSum(M)
  <2>1. PICK h \in [U -> Int] : h = [e \in U |-> e.consumed]
    BY <1>2 DEF Deltas
  <2>2. PICK f \in [L -> Int] : f = [e \in L |-> e.consumed]
    BY DEF Deltas
  <2>3. PICK g \in [M -> Int] : g = [e \in M |-> e.consumed]
    BY DEF Deltas
  <2>4. (\A e \in L : f[e] = h[e]) /\ (\A e \in M : g[e] = h[e])
    BY <2>1, <2>2, <2>3 DEF Parts
  <2>5. Balance(h) = Balance(f) + Balance(g)
    BY <2>4, BalanceOfParts
  <2>6. QED
    BY <2>1, <2>2, <2>3, <2>5 DEF ConsumedSum
<1>6. QED
  BY <1>1, <1>2, <1>3, <1>4, <1>5

LEMMA LedgerOfOne ==
  ASSUME NEW x, x.available \in Int, x.reserved \in Int, x.consumed \in Int
  PROVE  /\ IsFiniteSet({x}) /\ Deltas({x})
         /\ AvailableSum({x}) = x.available /\ ReservedSum({x}) = x.reserved
         /\ ConsumedSum({x}) = x.consumed
<1>1. IsFiniteSet({x}) /\ Deltas({x})
  BY FS_Singleton DEF Deltas
<1>2. /\ [e \in {x} |-> e.available] \in [{x} -> Int] /\ [e \in {x} |-> e.reserved] \in [{x} -> Int]
      /\ [e \in {x} |-> e.consumed] \in [{x} -> Int]
  OBVIOUS
<1>3. AvailableSum({x}) = x.available
  <2>1. Balance([e \in {x} |-> e.available]) = [e \in {x} |-> e.available][x]
    BY <1>2, BalanceOfOne
  <2>2. QED
    BY <2>1 DEF AvailableSum
<1>4. ReservedSum({x}) = x.reserved
  <2>1. Balance([e \in {x} |-> e.reserved]) = [e \in {x} |-> e.reserved][x]
    BY <1>2, BalanceOfOne
  <2>2. QED
    BY <2>1 DEF ReservedSum
<1>5. ConsumedSum({x}) = x.consumed
  <2>1. Balance([e \in {x} |-> e.consumed]) = [e \in {x} |-> e.consumed][x]
    BY <1>2, BalanceOfOne
  <2>2. QED
    BY <2>1 DEF ConsumedSum
<1>6. QED
  BY <1>1, <1>3, <1>4, <1>5

\* One more entry.
LEMMA EntryAdds ==
  ASSUME NEW L, IsFiniteSet(L), Deltas(L), NEW x, x \notin L,
         x.available \in Int, x.reserved \in Int, x.consumed \in Int
  PROVE  /\ IsFiniteSet(L \cup {x}) /\ Deltas(L \cup {x})
         /\ AvailableSum(L \cup {x}) = AvailableSum(L) + x.available
         /\ ReservedSum(L \cup {x}) = ReservedSum(L) + x.reserved
         /\ ConsumedSum(L \cup {x}) = ConsumedSum(L) + x.consumed
<1>1. PICK M : M = {x}
  OBVIOUS
<1>2. PICK U : U = L \cup {x}
  OBVIOUS
<1>3. Parts(U, L, M)
  BY <1>1, <1>2 DEF Parts
<1>4. /\ IsFiniteSet(M) /\ Deltas(M) /\ AvailableSum(M) = x.available
      /\ ReservedSum(M) = x.reserved /\ ConsumedSum(M) = x.consumed
  BY <1>1, LedgerOfOne
<1>5. /\ IsFiniteSet(U) /\ Deltas(U)
      /\ AvailableSum(U) = AvailableSum(L) + AvailableSum(M)
      /\ ReservedSum(U) = ReservedSum(L) + ReservedSum(M)
      /\ ConsumedSum(U) = ConsumedSum(L) + ConsumedSum(M)
  BY <1>3, <1>4, LedgersAdd
<1>6. QED
  BY <1>2, <1>4, <1>5

LEMMA EmptyLedger ==
  /\ IsFiniteSet({}) /\ Deltas({})
  /\ AvailableSum({}) = 0 /\ ReservedSum({}) = 0 /\ ConsumedSum({}) = 0
<1>1. IsFiniteSet({}) /\ Deltas({})
  BY FS_EmptySet DEF Deltas
<1>2. ASSUME NEW f \in [{} -> Int]
      PROVE  Balance(f) = 0
  <2>1. Gains(f) \in [{} -> Nat] /\ Losses(f) \in [{} -> Nat]
    BY DEF Gains, Losses
  <2>2. Total(Gains(f)) = 0 /\ Total(Losses(f)) = 0
    BY <2>1, TotalZero
  <2>3. QED
    BY <2>2 DEF Balance
<1>3. /\ [e \in {} |-> e.available] \in [{} -> Int] /\ [e \in {} |-> e.reserved] \in [{} -> Int]
      /\ [e \in {} |-> e.consumed] \in [{} -> Int]
  OBVIOUS
<1>4. QED
  BY <1>1, <1>2, <1>3 DEF AvailableSum, ReservedSum, ConsumedSum

-----------------------------------------------------------------------------
(* The books of the organization's wallet *)


\* Of a reservation's draws, all that is released is given back.
LEMMA GivesBackAll ==
  ASSUME WalletConstants, WalletTypeOK, Numbered, NEW from \in [OrgBucketKeys -> Nat],
         \A b \in OrgBucketKeys : from[b] > 0 => Made(b),
         NEW n \in Nat, n <= Total(from), NEW back \in [OrgBucketKeys -> Nat],
         back = GivenBack(orgBuckets, from, n)
  PROVE  Total(back) = n
<1>1. IsFiniteSet(OrgBucketKeys)
  BY DEF WalletConstants
<1>2. IsFiniteSet(Units(from)) /\ Total(from) \in Nat
  BY <1>1, TotalFinite
<1> DEFINE later(b) == [c \in OrgBucketKeys |-> IF Sooner(orgBuckets, b, c) THEN from[c] ELSE 0]
<1>3. ASSUME NEW b \in OrgBucketKeys
      PROVE  later(b) \in [OrgBucketKeys -> Nat] /\ Total(later(b)) \in Nat
  <2>1. later(b) \in [OrgBucketKeys -> Nat]
    OBVIOUS
  <2>2. QED
    BY <1>1, <2>1, TotalFinite
<1>4. PICK rest \in [OrgBucketKeys -> Nat] : rest = [b \in OrgBucketKeys |-> Total(later(b))]
  BY <1>3
<1>5. \A b \in OrgBucketKeys : orgBuckets[b].made \in Nat /\ orgBuckets[b].expires \in Nat
  BY PoolColumns
<1>6. \A b \in OrgBucketKeys : ~Sooner(orgBuckets, b, b)
  BY <1>5 DEF Sooner
<1>7. ASSUME NEW b \in OrgBucketKeys, NEW f \in [OrgBucketKeys -> Nat], IsFiniteSet(Units(f)),
             \A c \in OrgBucketKeys : Sooner(orgBuckets, b, c) \/ c = b => from[c] <= f[c]
      PROVE  rest[b] + from[b] <= Total(f)
  <2>1. PICK g \in [OrgBucketKeys -> Nat] : g = later(b)
    BY <1>3
  <2>2. PICK one \in [OrgBucketKeys -> Nat] : one = [c \in OrgBucketKeys |-> IF c = b THEN from[c] ELSE 0]
    OBVIOUS
  <2>3. PICK both \in [OrgBucketKeys -> Nat] : both = [c \in OrgBucketKeys |-> g[c] + one[c]]
    <3>1. \A c \in OrgBucketKeys : g[c] + one[c] \in Nat
      OBVIOUS
    <3>2. QED
      BY <3>1
  <2>4. IsFiniteSet(Units(g)) /\ IsFiniteSet(Units(one))
    BY <1>1, TotalFinite
  <2>5. Total(one) = from[b]
    <3>1. \A c \in OrgBucketKeys : c # b => one[c] = 0
      BY <2>2
    <3>2. one[b] = from[b]
      BY <2>2
    <3>3. QED
      BY <3>1, <3>2, TotalOfOne
  <2>6. Total(both) = Total(g) + Total(one)
    BY <2>3, <2>4, TotalOfSum
  <2>7. \A c \in OrgBucketKeys : both[c] <= f[c]
    BY <1>6, <1>7, <2>1, <2>2, <2>3
  <2>8. Total(both) <= Total(f)
    BY <1>7, <2>7, TotalGrows
  <2>9. rest[b] = Total(g)
    BY <1>4, <2>1
  <2>10. QED
    BY <2>5, <2>6, <2>8, <2>9
<1>8. \A b \in OrgBucketKeys : rest[b] + from[b] <= Total(from)
  BY <1>2, <1>7
<1>9. ASSUME NEW b \in OrgBucketKeys, NEW c \in OrgBucketKeys, Sooner(orgBuckets, b, c)
      PROVE  rest[c] + from[c] <= rest[b]
  <2>1. PICK f \in [OrgBucketKeys -> Nat] : f = later(b)
    BY <1>3
  <2>2. IsFiniteSet(Units(f)) /\ rest[b] = Total(f)
    BY <1>1, <1>4, <2>1, TotalFinite
  <2>3. ASSUME NEW d \in OrgBucketKeys, Sooner(orgBuckets, c, d) \/ d = c
        PROVE  from[d] <= f[d]
    <3>1. Sooner(orgBuckets, b, d)
      BY <1>5, <1>9, <2>3 DEF Sooner
    <3>2. QED
      BY <2>1, <3>1
  <2>4. QED
    BY <1>7, <2>2, <2>3
<1>10. ASSUME NEW b \in OrgBucketKeys, NEW c \in OrgBucketKeys, b # c, from[b] > 0, from[c] > 0
       PROVE  rest[b] + from[b] <= rest[c] \/ rest[c] + from[c] <= rest[b]
  <2>1. orgBuckets[b].made # orgBuckets[c].made
    BY <1>10 DEF Numbered
  <2>2. Sooner(orgBuckets, b, c) \/ Sooner(orgBuckets, c, b)
    BY <1>5, <2>1 DEF Sooner
  <2>3. QED
    BY <1>9, <2>2
<1>11. ASSUME NEW b \in OrgBucketKeys
       PROVE  back[b] = IF n - rest[b] < 0 THEN 0
                        ELSE IF n - rest[b] < from[b] THEN n - rest[b] ELSE from[b]
  <2>1. DOMAIN from = OrgBucketKeys
    OBVIOUS
  <2>2. back[b] = Within(n - Total(later(b)), from[b])
    BY <2>1 DEF GivenBack
  <2>3. Total(later(b)) = rest[b]
    <3>1. PICK f : f = later(b)
      OBVIOUS
    <3>2. QED
      BY <1>4, <3>1
  <2>4. QED
    BY <2>2, <2>3 DEF Within
<1> HIDE DEF later
<1>12. QED
  BY <1>1, <1>8, <1>10, <1>11, FillsUp

\* What a transaction logs as expired: no more than has expired.
LEMMA ExpiriesSum ==
  ASSUME WalletConstants, NEW S, NEW stale \in [OrgBucketKeys -> Nat], stale = StaleIn(S)
  PROVE  LET E == Expiries(S) IN
           /\ IsFiniteSet(E) /\ Deltas(E) /\ E \cap ledger = {}
           /\ AvailableSum(E) \in Int /\ AvailableSum(E) >= -Total(stale)
           /\ ReservedSum(E) = 0 /\ ConsumedSum(E) = 0
           /\ \A e \in E : e.key[1] = "expiry"
<1> DEFINE E == Expiries(S)
<1>1. IsFiniteSet(OrgBucketKeys)
  BY DEF WalletConstants
<1>2. IsFiniteSet(Units(stale)) /\ Total(stale) \in Nat
  BY <1>1, TotalFinite
<1>3. ASSUME NEW e \in E
      PROVE  \E b \in OrgBucketKeys :
               /\ e.key = <<"expiry", b>> /\ e.available = -stale[b] /\ e.reserved = 0 /\ e.consumed = 0
               /\ e = [key |-> <<"expiry", b>>, available |-> -stale[b], reserved |-> 0, consumed |-> 0]
               /\ e \notin ledger
  <2>1. PICK b \in OrgBucketKeys :
          /\ e = [key |-> <<"expiry", b>>, available |-> -stale[b], reserved |-> 0, consumed |-> 0]
          /\ \A d \in ledger : d.key # <<"expiry", b>>
    BY DEF Expiries, LedgerEntry
  <2>2. QED
    BY <2>1
<1> HIDE DEF E
<1>4. Deltas(E)
  BY <1>3 DEF Deltas
<1>5. E \cap ledger = {} /\ \A e \in E : e.key[1] = "expiry"
  BY <1>3
<1>6. IsFiniteSet(E)
  <2> DEFINE name == [e \in E |-> e.key[2]]
  <2>1. \A e \in E : name[e] \in OrgBucketKeys
    BY <1>3
  <2>2. ASSUME NEW d \in E, NEW e \in E, name[d] = name[e]
        PROVE  d = e
    BY <1>3, <2>2
  <2>3. name \in Injection(E, OrgBucketKeys)
    BY <2>1, <2>2 DEF Injection, IsInjective
  <2>4. QED
    BY <1>1, <2>3, FS_Injection
<1>7. ReservedSum(E) = 0 /\ ConsumedSum(E) = 0
  <2>1. ASSUME NEW f \in [E -> Int], \A e \in E : f[e] = 0
        PROVE  Balance(f) = 0
    <3>1. Gains(f) \in [E -> Nat] /\ Losses(f) \in [E -> Nat]
          /\ \A e \in E : Gains(f)[e] = 0 /\ Losses(f)[e] = 0
      BY <2>1 DEF Gains, Losses
    <3>2. Total(Gains(f)) = 0 /\ Total(Losses(f)) = 0
      BY <3>1, TotalZero
    <3>3. QED
      BY <3>2 DEF Balance
  <2>2. /\ [e \in E |-> e.reserved] \in [E -> Int] /\ [e \in E |-> e.consumed] \in [E -> Int]
        /\ \A x \in E : [e \in E |-> e.reserved][x] = 0 /\ [e \in E |-> e.consumed][x] = 0
    BY <1>3 DEF Deltas
  <2>3. QED
    BY <2>1, <2>2 DEF ReservedSum, ConsumedSum
<1>8. AvailableSum(E) \in Int /\ AvailableSum(E) >= -Total(stale)
  <2>1. PICK f \in [E -> Int] : f = [e \in E |-> e.available]
    BY <1>4 DEF Deltas
  <2>2. PICK gains \in [E -> Nat], losses \in [E -> Nat] : gains = Gains(f) /\ losses = Losses(f)
    BY <1>6, BalanceType
  <2>3. ASSUME NEW e \in E
        PROVE  /\ gains[e] = 0
               /\ \E b \in OrgBucketKeys : e.key[2] = b /\ losses[e] = stale[b]
                    /\ e = [key |-> <<"expiry", b>>, available |-> -stale[b], reserved |-> 0, consumed |-> 0]
    <3>1. PICK b \in OrgBucketKeys :
            /\ e.key = <<"expiry", b>> /\ e.available = -stale[b]
            /\ e = [key |-> <<"expiry", b>>, available |-> -stale[b], reserved |-> 0, consumed |-> 0]
      BY <1>3
    <3>2. f[e] = -stale[b] /\ stale[b] \in Nat
      BY <2>1, <3>1
    <3>3. gains[e] = 0 /\ losses[e] = stale[b]
      BY <2>2, <3>2 DEF Gains, Losses
    <3>4. QED
      BY <3>1, <3>3
  <2>4. Total(gains) = 0
    BY <2>3, TotalZero
  <2> DEFINE unit == [u \in Units(losses) |-> <<u[1].key[2], u[2]>>]
  <2>5. ASSUME NEW u \in Units(losses)
        PROVE  /\ unit[u] \in Units(stale)
               /\ \E e \in E : \E i \in 1 .. losses[e] : u = <<e, i>> /\ unit[u] = <<e.key[2], i>>
    <3>1. PICK e \in E : \E i \in 1 .. losses[e] : u = <<e, i>>
      BY UnitIs
    <3>2. PICK i \in 1 .. losses[e] : u = <<e, i>>
      BY <3>1
    <3>3. PICK b \in OrgBucketKeys : e.key[2] = b /\ losses[e] = stale[b]
      BY <2>3
    <3>4. unit[u] = <<e.key[2], i>>
      BY <3>2
    <3>5. <<b, i>> \in Units(stale)
      BY <3>3, UnitIs
    <3>6. QED
      BY <3>2, <3>3, <3>4, <3>5
  <2>6. ASSUME NEW u \in Units(losses), NEW v \in Units(losses), unit[u] = unit[v]
        PROVE  u = v
    <3>1. PICK d \in E : \E i \in 1 .. losses[d] : u = <<d, i>> /\ unit[u] = <<d.key[2], i>>
      BY <2>5
    <3>2. PICK i \in 1 .. losses[d] : u = <<d, i>> /\ unit[u] = <<d.key[2], i>>
      BY <3>1
    <3>3. PICK e \in E : \E j \in 1 .. losses[e] : v = <<e, j>> /\ unit[v] = <<e.key[2], j>>
      BY <2>5
    <3>4. PICK j \in 1 .. losses[e] : v = <<e, j>> /\ unit[v] = <<e.key[2], j>>
      BY <3>3
    <3>5. d.key[2] = e.key[2] /\ i = j
      BY <2>6, <3>2, <3>4
    <3>6. d = e
      BY <2>3, <3>5
    <3>7. QED
      BY <3>2, <3>4, <3>5, <3>6
  <2>7. unit \in Injection(Units(losses), Units(stale))
    <3>1. unit \in [Units(losses) -> Units(stale)]
      BY <2>5
    <3> HIDE DEF unit
    <3>2. QED
      BY <2>6, <3>1 DEF Injection, IsInjective
  <2>8. Total(losses) <= Total(stale) /\ Total(losses) \in Nat
    <3>1. IsFiniteSet(Units(losses)) /\ Cardinality(Units(losses)) <= Cardinality(Units(stale))
      BY <1>2, <2>7, FS_Injection
    <3>2. QED
      BY <3>1, FS_CardinalityType DEF Total
  <2>9. AvailableSum(E) = Total(gains) - Total(losses)
    BY <2>1, <2>2 DEF AvailableSum, Balance
  <2>10. QED
    BY <1>2, <2>4, <2>8, <2>9
<1>9. QED
  BY <1>4, <1>5, <1>6, <1>7, <1>8 DEF E

\* A reservation has drawn all of its amount from buckets or nothing.
HoldsDrawn ==
  \A r \in OrgReserveKeys :
    /\ Total(orgReservations[r].from) \in {0, orgReservations[r].amount}
    /\ orgReservations[r].settled <= orgReservations[r].amount
    /\ orgReservations[r].status = "none" => orgReservations[r].amount = 0

\* The key of an entry has been used: what would use it again is not in the ledger.
EntryKnown(e) ==
  /\ e.key[1] = "entry" /\ e.reserved = 0 => e.key[2] \in MadeBuckets
  /\ e.key[1] = "entry" /\ e.reserved # 0 =>
       \E r \in OrgReserveKeys : e.key[2] = r /\ orgReservations[r].status # "none"
  /\ e.key[1] \in {"source", "target"} => e.key[2] \in MadeBuckets
  /\ e.key[1] \in {"settlement", "release"} =>
       \E s \in OrgSettleKeys : e.key[2] = s /\ orgSettlements[s] # NoOrgReservation

LedgerKnown == IsFiniteSet(ledger) /\ Deltas(ledger) /\ \A e \in ledger : EntryKnown(e)

\* The columns that the books add up.
PoolAvailable == [b \in OrgBucketKeys |-> orgBuckets[b].available]
LooseOf(r) == IF Total(r.from) < r.amount THEN IF r.status = "SETTLED" THEN r.settled ELSE r.amount ELSE 0
PledgedOf(r) == IF r.status = "RESERVED" THEN r.amount ELSE 0
Loose == [r \in OrgReserveKeys |-> LooseOf(orgReservations[r])]
Pledged == [r \in OrgReserveKeys |-> PledgedOf(orgReservations[r])]

PoolBooksRight ==
  /\ orgWallet.available >= Total(PoolAvailable)
  /\ orgWallet.available = Total(PoolAvailable) + Legacy - Total(Loose)
  /\ orgWallet.reserved = Total(Pledged)
  /\ orgWallet.reserved = ReservedSum(ledger)
  /\ orgWallet.consumed = ConsumedSum(ledger)
  /\ orgWallet.available <= AvailableSum(ledger)

PoolBooks == HoldsDrawn /\ LedgerKnown /\ (raced \/ PoolBooksRight)

\* It is enough for BooksBalance.
LEMMA PoolBooksBalance ==
  ASSUME PoolBooks
  PROVE  BooksBalance
<1>1. ASSUME NEW r \in OrgReserveKeys
      PROVE  /\ (IF Unbucketed(r) THEN Kept(r) ELSE 0) = LooseOf(orgReservations[r])
             /\ (IF orgReservations[r].status = "RESERVED" THEN orgReservations[r].amount ELSE 0)
                  = PledgedOf(orgReservations[r])
  BY DEF Unbucketed, Kept, LooseOf, PledgedOf
<1>2. /\ [r \in OrgReserveKeys |-> IF Unbucketed(r) THEN Kept(r) ELSE 0] = Loose
      /\ [r \in OrgReserveKeys |->
            IF orgReservations[r].status = "RESERVED" THEN orgReservations[r].amount ELSE 0] = Pledged
  BY <1>1 DEF Loose, Pledged
<1>3. /\ Total([b \in OrgBucketKeys |-> orgBuckets[b].available]) = Total(PoolAvailable)
      /\ Total([r \in OrgReserveKeys |-> IF Unbucketed(r) THEN Kept(r) ELSE 0])
           = Total(Loose)
      /\ Total([r \in OrgReserveKeys |->
            IF orgReservations[r].status = "RESERVED" THEN orgReservations[r].amount ELSE 0]) = Total(Pledged)
  BY <1>2 DEF PoolAvailable
<1>4. /\ Balance([e \in ledger |-> e.available]) = AvailableSum(ledger)
      /\ Balance([e \in ledger |-> e.reserved]) = ReservedSum(ledger)
      /\ Balance([e \in ledger |-> e.consumed]) = ConsumedSum(ledger)
  BY DEF AvailableSum, ReservedSum, ConsumedSum
<1>5. QED
  BY <1>3, <1>4 DEF PoolBooks, PoolBooksRight, BooksBalance

\* The tables are finite.
LEMMA PoolFinite ==
  ASSUME WalletConstants
  PROVE  IsFiniteSet(OrgBucketKeys) /\ IsFiniteSet(OrgReserveKeys)
BY DEF WalletConstants

\* The columns that are added up hold amounts, also in the next state.
LEMMA ColumnsType ==
  ASSUME WalletConstants, WalletTypeOK
  PROVE  /\ PoolAvailable \in [OrgBucketKeys -> Nat] /\ Loose \in [OrgReserveKeys -> Nat]
         /\ Pledged \in [OrgReserveKeys -> Nat]
<1>1. \A r \in OrgReserveKeys : LooseOf(orgReservations[r]) \in Nat /\ PledgedOf(orgReservations[r]) \in Nat
  BY PoolColumns DEF LooseOf, PledgedOf
<1>2. QED
  BY <1>1, PoolColumns DEF PoolAvailable, Loose, Pledged

LEMMA ColumnsTypeNext ==
  ASSUME WalletConstants, WalletTypeOK'
  PROVE  /\ PoolAvailable' \in [OrgBucketKeys -> Nat] /\ Loose' \in [OrgReserveKeys -> Nat]
         /\ Pledged' \in [OrgReserveKeys -> Nat]
<1>1. ASSUME NEW r \in OrgReserveKeys
      PROVE  orgReservations'[r] \in [status : {"none", "RESERVED", "SETTLED"}, amount : Nat,
                                      settled : Nat, from : [OrgBucketKeys -> Nat]]
  BY DEF WalletTypeOK
<1>2. ASSUME NEW r \in OrgReserveKeys
      PROVE  (LooseOf(orgReservations[r]))' \in Nat /\ (PledgedOf(orgReservations[r]))' \in Nat
  BY <1>1 DEF LooseOf, PledgedOf
<1>3. ASSUME NEW b \in OrgBucketKeys
      PROVE  orgBuckets'[b].available \in Nat
  <2>1. orgBuckets'[b] \in OrgBucketRow
    BY DEF WalletTypeOK
  <2>2. QED
    BY <2>1 DEF OrgBucketRow
<1>4. QED
  BY <1>2, <1>3 DEF PoolAvailable, Loose, Pledged

\* The entries known stay known.
LEMMA LedgerKnownStill ==
  ASSUME LedgerKnown, NEW M, ledger' = ledger \cup M, IsFiniteSet(ledger'), Deltas(ledger'),
         \A b \in OrgBucketKeys : Made(b) => Made(b)',
         \A r \in OrgReserveKeys : orgReservations[r].status # "none" => orgReservations'[r].status # "none",
         \A s \in OrgSettleKeys : orgSettlements[s] # NoOrgReservation => orgSettlements'[s] # NoOrgReservation,
         \A e \in M : EntryKnown(e)'
  PROVE  LedgerKnown'
<1>1. MadeBuckets \subseteq MadeBuckets'
  BY DEF MadeBuckets
<1>2. ASSUME NEW e \in ledger
      PROVE  EntryKnown(e)'
  <2>1. EntryKnown(e)
    BY DEF LedgerKnown
  <2>2. QED
    BY <1>1, <2>1 DEF EntryKnown
<1>3. \A e \in ledger' : EntryKnown(e)'
  BY <1>2
<1>4. QED
  BY <1>3 DEF LedgerKnown

\* PoolBooks holds at first, and every transaction keeps it.
LEMMA PoolBooksInit ==
  ASSUME WalletConstants, WalletInit
  PROVE  PoolBooks
<1>1. Legacy \in Nat
  BY DEF WalletConstants
<1>2. ASSUME NEW r \in OrgReserveKeys
      PROVE  /\ orgReservations[r].amount = 0 /\ orgReservations[r].settled = 0
             /\ orgReservations[r].status = "none" /\ Total(orgReservations[r].from) = 0
  <2>1. PICK from \in [OrgBucketKeys -> Nat] : from = [b \in OrgBucketKeys |-> 0]
    OBVIOUS
  <2>2. orgReservations[r] = [status |-> "none", amount |-> 0, settled |-> 0, from |-> from]
    BY <2>1 DEF WalletInit, ReservationRow
  <2>3. Total(from) = 0
    BY <2>1, TotalZero
  <2>4. QED
    BY <2>2, <2>3
<1>3. HoldsDrawn
  BY <1>2 DEF HoldsDrawn
<1>4. PICK available \in [OrgBucketKeys -> Nat] :
        available = PoolAvailable /\ \A b \in OrgBucketKeys : available[b] = 0
  BY DEF PoolAvailable, WalletInit, NoOrgBucket
<1>12. ASSUME NEW r \in OrgReserveKeys
       PROVE  LooseOf(orgReservations[r]) = 0 /\ PledgedOf(orgReservations[r]) = 0
  BY <1>2 DEF LooseOf, PledgedOf
<1>5. PICK none \in [OrgReserveKeys -> Nat] : none = [r \in OrgReserveKeys |-> 0]
  OBVIOUS
<1>6. Loose = none /\ Pledged = none /\ \A r \in OrgReserveKeys : none[r] = 0
  BY <1>5, <1>12 DEF Loose, Pledged
<1>7. Total(PoolAvailable) = 0 /\ Total(Loose) = 0 /\ Total(Pledged) = 0
  BY <1>4, <1>6, TotalZero
<1>8. orgWallet.available = Legacy /\ orgWallet.reserved = 0 /\ orgWallet.consumed = 0
  BY DEF WalletInit, NoCredits
<1>9. /\ IsFiniteSet(ledger) /\ Deltas(ledger) /\ AvailableSum(ledger) = Legacy
      /\ ReservedSum(ledger) = 0 /\ ConsumedSum(ledger) = 0
  <2>1. CASE Legacy = 0
    BY <2>1, EmptyLedger DEF WalletInit
  <2>2. CASE Legacy # 0
    <3>1. PICK x : x = LedgerEntry(<<"legacy", 0>>, Legacy, 0, 0)
      OBVIOUS
    <3>2. x.available = Legacy /\ x.reserved = 0 /\ x.consumed = 0 /\ ledger = {x}
      BY <2>2, <3>1 DEF WalletInit, LedgerEntry
    <3>3. x.available \in Int /\ x.reserved \in Int /\ x.consumed \in Int
      BY <1>1, <3>2
    <3>4. /\ IsFiniteSet({x}) /\ Deltas({x}) /\ AvailableSum({x}) = x.available
          /\ ReservedSum({x}) = x.reserved /\ ConsumedSum({x}) = x.consumed
      BY <3>3, LedgerOfOne
    <3>5. QED
      BY <3>2, <3>4
  <2>3. QED
    BY <2>1, <2>2
<1>10. \A e \in ledger : EntryKnown(e)
  BY DEF EntryKnown, WalletInit, LedgerEntry
<1>11. QED
  BY <1>1, <1>3, <1>7, <1>8, <1>9, <1>10 DEF PoolBooks, LedgerKnown, PoolBooksRight

LEMMA PoolBooksFrame ==
  ASSUME PoolBooks, UNCHANGED <<account, raced>>
  PROVE  PoolBooks'
BY DEF PoolBooks, account, HoldsDrawn, LedgerKnown, EntryKnown, PoolBooksRight, PoolAvailable, Loose,
       Pledged, LooseOf, PledgedOf, MadeBuckets, Made

\* A transaction that touches no reservation.
LEMMA HoldsStay ==
  ASSUME HoldsDrawn, orgReservations' = orgReservations
  PROVE  HoldsDrawn' /\ Loose' = Loose /\ Pledged' = Pledged
BY DEF HoldsDrawn, Loose, Pledged, LooseOf, PledgedOf

LEMMA PoolBooksGrant ==
  ASSUME WalletConstants, WebhookConstants, WalletSound, PoolBooks, NEW e \in OrgGrants,
         OrgGrant(GrantOf(e, now))
  PROVE  PoolBooks'
<1>1. PICK q : q = GrantOf(e, now)
  OBVIOUS
<1>2. q.key \in OrgBucketKeys /\ q.amount \in Nat /\ q.amount > 0
  BY <1>1, GrantOfType DEF WalletSound, WalletTypeOK
<1>3. WalletSound' /\ WalletTypeOK /\ WalletTypeOK' /\ UnmadeEmpty
  BY SoundGrant DEF WalletSound
<1>4. /\ ~Made(q.key)
      /\ orgWallet' = [orgWallet EXCEPT !.available = @ + q.amount]
      /\ orgBuckets' = [orgBuckets EXCEPT ![q.key] = NewOrgBucket(q.amount, q.expires, q.cycle)]
      /\ ledger' = ledger \cup {LedgerEntry(<<"entry", q.key>>, q.amount, 0, 0)}
      /\ UNCHANGED <<now, orgReservations, orgSettlements, raced>>
  BY <1>1 DEF OrgGrant
<1>15. PICK row : row = NewOrgBucket(q.amount, q.expires, q.cycle)
  OBVIOUS
<1>5. row.available = q.amount /\ row.made = Cardinality(MadeBuckets) + 1
  <2>1. row = [made |-> Cardinality(MadeBuckets) + 1, available |-> q.amount, reserved |-> 0,
               expires |-> q.expires, cycle |-> q.cycle]
    BY <1>15 DEF NewOrgBucket
  <2>2. QED
    BY <2>1
<1>6. \A b \in OrgBucketKeys : orgBuckets'[b] = IF b = q.key THEN row ELSE orgBuckets[b]
  BY <1>3, <1>4, <1>15 DEF WalletTypeOK
<1>7. PICK x : x = LedgerEntry(<<"entry", q.key>>, q.amount, 0, 0)
  OBVIOUS
<1>8. x.key = <<"entry", q.key>> /\ x.available = q.amount /\ x.reserved = 0 /\ x.consumed = 0
  BY <1>7 DEF LedgerEntry
<1>9. LedgerKnown /\ HoldsDrawn
  BY DEF PoolBooks
<1>10. x \notin ledger
  <2>1. SUFFICES ASSUME x \in ledger
                 PROVE  FALSE
    OBVIOUS
  <2>2. EntryKnown(x)
    BY <1>9, <2>1 DEF LedgerKnown
  <2>3. q.key \in MadeBuckets
    BY <1>8, <2>2 DEF EntryKnown
  <2>4. QED
    BY <1>4, <2>3 DEF MadeBuckets
<1>11. /\ IsFiniteSet(ledger') /\ Deltas(ledger')
       /\ AvailableSum(ledger') = AvailableSum(ledger) + q.amount
       /\ ReservedSum(ledger') = ReservedSum(ledger) /\ ConsumedSum(ledger') = ConsumedSum(ledger)
  <2>1. PICK L : L = ledger
    OBVIOUS
  <2>2. /\ IsFiniteSet(L \cup {x}) /\ Deltas(L \cup {x})
        /\ AvailableSum(L \cup {x}) = AvailableSum(L) + x.available
        /\ ReservedSum(L \cup {x}) = ReservedSum(L) + x.reserved
        /\ ConsumedSum(L \cup {x}) = ConsumedSum(L) + x.consumed
    <3>1. IsFiniteSet(L) /\ Deltas(L)
      BY <1>9, <2>1 DEF LedgerKnown
    <3>2. x \notin L
      BY <1>10, <2>1
    <3>3. x.available \in Int /\ x.reserved \in Int /\ x.consumed \in Int
      BY <1>2, <1>8
    <3>4. QED
      BY <3>1, <3>2, <3>3, EntryAdds
  <2>3. ReservedSum(L) \in Int /\ ConsumedSum(L) \in Int
    BY <1>9, <2>1, LedgerType DEF LedgerKnown
  <2>4. ledger' = L \cup {x}
    BY <1>4, <1>7, <2>1
  <2>5. QED
    BY <1>8, <2>1, <2>2, <2>3, <2>4
<1>12. LedgerKnown'
  <2>1. \A b \in OrgBucketKeys : Made(b) => Made(b)'
    BY <1>4, <1>6 DEF Made
  <2>2. q.key \in MadeBuckets'
    <3>1. Cardinality(MadeBuckets) \in Nat
      BY MadeCount
    <3>2. orgBuckets'[q.key].made > 0
      BY <1>2, <1>5, <1>6, <3>1
    <3>3. QED
      BY <1>2, <3>2 DEF MadeBuckets, Made
  <2>3. PICK M : M = {x}
    OBVIOUS
  <2>4. \A d \in M : EntryKnown(d)'
    BY <1>8, <2>2, <2>3 DEF EntryKnown
  <2>5. ledger' = ledger \cup M
    BY <1>4, <1>7, <2>3
  <2>6. QED
    BY <1>4, <1>9, <1>11, <2>1, <2>4, <2>5, LedgerKnownStill
<1>13. HoldsDrawn' /\ Loose' = Loose /\ Pledged' = Pledged
  BY <1>4, <1>9, HoldsStay
<1>14. raced' \/ PoolBooksRight'
  <2>1. SUFFICES ASSUME ~raced'
                 PROVE  PoolBooksRight'
    OBVIOUS
  <2>2. PoolBooksRight
    BY <1>4, <2>1 DEF PoolBooks
  <2>3. PICK f \in [OrgBucketKeys -> Nat], g \in [OrgBucketKeys -> Nat] : f = PoolAvailable /\ g = PoolAvailable'
    BY <1>3, ColumnsType, ColumnsTypeNext
  <2>4. \A b \in OrgBucketKeys : b # q.key => g[b] = f[b]
    BY <1>6, <2>3 DEF PoolAvailable
  <2>5. f[q.key] = 0 /\ g[q.key] = q.amount
    BY <1>2, <1>3, <1>4, <1>5, <1>6, <2>3 DEF PoolAvailable, UnmadeEmpty, NoOrgBucket
  <2>6. Total(g) = Total(f) + q.amount /\ Total(f) \in Nat
    <3>1. PICK k \in OrgBucketKeys : k = q.key
      BY <1>2
    <3>2. Total(g) = Total(f) - f[k] + g[k] /\ Total(f) \in Nat /\ Total(g) \in Nat
      BY <2>4, <3>1, PoolFinite, TotalOfOneMore
    <3>3. QED
      BY <1>2, <2>5, <3>1, <3>2
  <2>7. /\ orgWallet'.available = orgWallet.available + q.amount
        /\ orgWallet'.reserved = orgWallet.reserved /\ orgWallet'.consumed = orgWallet.consumed
        /\ orgWallet.available \in Nat
    BY <1>3, <1>4 DEF WalletTypeOK
  <2>8. Total(Loose) \in Nat /\ Legacy \in Nat /\ AvailableSum(ledger) \in Int
    BY <1>3, <1>9, ColumnsType, PoolFinite, TotalFinite, LedgerType DEF WalletConstants, LedgerKnown
  <2>9. QED
    BY <1>2, <1>11, <1>13, <2>2, <2>3, <2>6, <2>7, <2>8 DEF PoolBooksRight
<1>16. QED
  BY <1>12, <1>13, <1>14 DEF PoolBooks

LEMMA PoolBooksRollover ==
  ASSUME WalletConstants, WebhookConstants, WalletSound, PoolBooks, NEW e \in OrgCharges,
         OrgRollover(RolloverOf(e))
  PROVE  PoolBooks'
<1>1. PICK q : q = RolloverOf(e)
  OBVIOUS
<1>2. PICK source \in OrgBucketKeys, moved \in Nat, row \in OrgBucketRow :
        RolloverDone(q, source, moved, row)
  BY <1>1, RolloverDoes
<1>3. WalletSound' /\ WalletTypeOK /\ WalletTypeOK' /\ UnmadeEmpty
  BY SoundRollover DEF WalletSound
<1>4. /\ q.key \in OrgBucketKeys /\ ~Made(q.key) /\ Made(source) /\ source # q.key
      /\ row.made = Cardinality(MadeBuckets) + 1 /\ row.available = moved
      /\ moved <= orgBuckets[source].available
      /\ ledger' = ledger \cup {LedgerEntry(<<"source", q.key>>, -moved, 0, 0),
                                LedgerEntry(<<"target", q.key>>, moved, 0, 0)}
      /\ UNCHANGED <<now, orgWallet, orgReservations, orgSettlements, raced>>
  BY <1>2 DEF RolloverDone
<1>5. \A b \in OrgBucketKeys :
        /\ b = q.key => orgBuckets'[b] = row
        /\ b = source => /\ orgBuckets'[b].available = orgBuckets[b].available - moved
                         /\ orgBuckets'[b].made = orgBuckets[b].made
        /\ b \notin {q.key, source} => orgBuckets'[b] = orgBuckets[b]
  BY <1>2, <1>4 DEF RolloverDone
<1>6. PICK x : x = LedgerEntry(<<"source", q.key>>, -moved, 0, 0)
  OBVIOUS
<1>7. PICK y : y = LedgerEntry(<<"target", q.key>>, moved, 0, 0)
  OBVIOUS
<1>8. /\ x.key = <<"source", q.key>> /\ x.available = -moved /\ x.reserved = 0 /\ x.consumed = 0
      /\ y.key = <<"target", q.key>> /\ y.available = moved /\ y.reserved = 0 /\ y.consumed = 0
      /\ x # y
  BY <1>6, <1>7 DEF LedgerEntry
<1>9. LedgerKnown /\ HoldsDrawn
  BY DEF PoolBooks
<1>10. x \notin ledger /\ y \notin ledger
  <2>1. SUFFICES ASSUME NEW z \in {x, y}, z \in ledger
                 PROVE  FALSE
    OBVIOUS
  <2>2. EntryKnown(z)
    BY <1>9, <2>1 DEF LedgerKnown
  <2>3. q.key \in MadeBuckets
    BY <1>8, <2>2 DEF EntryKnown
  <2>4. QED
    BY <1>4, <2>3 DEF MadeBuckets
<1>11. /\ IsFiniteSet(ledger') /\ Deltas(ledger')
       /\ AvailableSum(ledger') = AvailableSum(ledger)
       /\ ReservedSum(ledger') = ReservedSum(ledger) /\ ConsumedSum(ledger') = ConsumedSum(ledger)
  <2>1. PICK L : L = ledger
    OBVIOUS
  <2>2. PICK M : M = L \cup {x}
    OBVIOUS
  <2>3. /\ IsFiniteSet(M) /\ Deltas(M)
        /\ AvailableSum(M) = AvailableSum(L) + x.available
        /\ ReservedSum(M) = ReservedSum(L) + x.reserved
        /\ ConsumedSum(M) = ConsumedSum(L) + x.consumed
    BY <1>8, <1>9, <1>10, <2>1, <2>2, EntryAdds DEF LedgerKnown
  <2>4. /\ IsFiniteSet(M \cup {y}) /\ Deltas(M \cup {y})
        /\ AvailableSum(M \cup {y}) = AvailableSum(M) + y.available
        /\ ReservedSum(M \cup {y}) = ReservedSum(M) + y.reserved
        /\ ConsumedSum(M \cup {y}) = ConsumedSum(M) + y.consumed
    <3>1. y \notin M
      BY <1>8, <1>10, <2>1, <2>2
    <3>2. QED
      BY <1>8, <2>3, <3>1, EntryAdds
  <2>5. ReservedSum(L) \in Int /\ ConsumedSum(L) \in Int /\ AvailableSum(L) \in Int
    BY <1>9, <2>1, LedgerType DEF LedgerKnown
  <2>6. ledger' = M \cup {y}
    BY <1>4, <1>6, <1>7, <2>1, <2>2
  <2>7. QED
    BY <1>8, <2>1, <2>3, <2>4, <2>5, <2>6
<1>12. LedgerKnown'
  <2>1. \A b \in OrgBucketKeys : Made(b) => Made(b)'
    BY <1>4, <1>5 DEF Made
  <2>2. q.key \in MadeBuckets'
    <3>1. Cardinality(MadeBuckets) \in Nat
      BY MadeCount
    <3>2. orgBuckets'[q.key].made > 0
      BY <1>4, <1>5, <3>1
    <3>3. QED
      BY <1>4, <3>2 DEF MadeBuckets, Made
  <2>3. PICK M : M = {x, y}
    OBVIOUS
  <2>4. \A d \in M : EntryKnown(d)'
    BY <1>8, <2>2, <2>3 DEF EntryKnown
  <2>5. ledger' = ledger \cup M
    BY <1>4, <1>6, <1>7, <2>3
  <2>6. QED
    BY <1>4, <1>9, <1>11, <2>1, <2>4, <2>5, LedgerKnownStill
<1>13. HoldsDrawn' /\ Loose' = Loose /\ Pledged' = Pledged
  BY <1>4, <1>9, HoldsStay
<1>14. Total(PoolAvailable') = Total(PoolAvailable)
  <2>1. PICK f \in [OrgBucketKeys -> Nat], g \in [OrgBucketKeys -> Nat] : f = PoolAvailable /\ g = PoolAvailable'
    BY <1>3, ColumnsType, ColumnsTypeNext
  <2>2. PICK k \in OrgBucketKeys : k = q.key
    BY <1>4
  <2>3. f[k] = 0 /\ g[k] = moved /\ g[source] = f[source] - moved
    BY <1>3, <1>4, <1>5, <2>1, <2>2 DEF PoolAvailable, UnmadeEmpty, NoOrgBucket
  <2>4. \A b \in OrgBucketKeys : b \notin {k, source} => g[b] = f[b]
    BY <1>5, <2>1, <2>2 DEF PoolAvailable
  <2>5. PICK m \in [OrgBucketKeys -> Nat] : m = [b \in OrgBucketKeys |-> IF b = source THEN g[b] ELSE f[b]]
    OBVIOUS
  <2>6. /\ \A b \in OrgBucketKeys : b # source => m[b] = f[b]
        /\ \A b \in OrgBucketKeys : b # k => g[b] = m[b]
        /\ m[source] = g[source] /\ m[k] = f[k]
    BY <1>4, <2>2, <2>4, <2>5
  <2>7. Total(m) = Total(f) - f[source] + m[source] /\ Total(f) \in Nat
    BY <2>6, PoolFinite, TotalOfOneMore
  <2>8. Total(g) = Total(m) - m[k] + g[k] /\ Total(m) \in Nat /\ Total(g) \in Nat
    BY <2>6, PoolFinite, TotalOfOneMore
  <2>9. Total(g) = Total(f)
    BY <2>3, <2>6, <2>7, <2>8
  <2>10. QED
    BY <2>1, <2>9
<1>15. raced' \/ PoolBooksRight'
  BY <1>4, <1>11, <1>13, <1>14 DEF PoolBooks, PoolBooksRight
<1>16. QED
  BY <1>12, <1>13, <1>15 DEF PoolBooks

\* What a reservation adds to the ledger.
LEMMA ReserveEntries ==
  ASSUME WalletConstants, LedgerKnown, NEW q, q.amount \in Nat, q.amount > 0,
         q.key \in OrgReserveKeys, orgReservations[q.key].status = "none",
         NEW S, NEW stale \in [OrgBucketKeys -> Nat], stale = StaleIn(S),
         ledger' = ledger \cup Expiries(S)
           \cup {LedgerEntry(<<"entry", q.key>>, -q.amount, q.amount, 0)}
  PROVE  /\ IsFiniteSet(ledger') /\ Deltas(ledger')
         /\ AvailableSum(ledger) - Total(stale) - q.amount <= AvailableSum(ledger')
         /\ AvailableSum(ledger) \in Int /\ AvailableSum(ledger') \in Int
         /\ ReservedSum(ledger') = ReservedSum(ledger) + q.amount
         /\ ConsumedSum(ledger') = ConsumedSum(ledger)
         /\ \E M : /\ ledger' = ledger \cup M
                   /\ \A e \in M : \/ e.key[1] = "expiry"
                                   \/ e.key = <<"entry", q.key>> /\ e.reserved # 0
<1>1. PICK E : E = Expiries(S)
  OBVIOUS
<1>2. /\ IsFiniteSet(E) /\ Deltas(E) /\ E \cap ledger = {}
      /\ AvailableSum(E) \in Int /\ AvailableSum(E) >= -Total(stale)
      /\ ReservedSum(E) = 0 /\ ConsumedSum(E) = 0
      /\ \A e \in E : e.key[1] = "expiry"
  BY <1>1, ExpiriesSum
<1>3. PICK L : L = ledger
  OBVIOUS
<1>4. IsFiniteSet(L) /\ Deltas(L)
  BY <1>3 DEF LedgerKnown
<1>5. PICK U : U = L \cup E
  OBVIOUS
<1>6. Parts(U, L, E)
  BY <1>2, <1>3, <1>5 DEF Parts
<1>7. /\ IsFiniteSet(U) /\ Deltas(U)
      /\ AvailableSum(U) = AvailableSum(L) + AvailableSum(E)
      /\ ReservedSum(U) = ReservedSum(L) + ReservedSum(E)
      /\ ConsumedSum(U) = ConsumedSum(L) + ConsumedSum(E)
  BY <1>2, <1>4, <1>6, LedgersAdd
<1>8. PICK x : x = LedgerEntry(<<"entry", q.key>>, -q.amount, q.amount, 0)
  OBVIOUS
<1>9. x.key = <<"entry", q.key>> /\ x.available = -q.amount /\ x.reserved = q.amount /\ x.consumed = 0
  BY <1>8 DEF LedgerEntry
<1>10. x \notin U
  <2>1. ASSUME x \in L
        PROVE  FALSE
    <3>1. EntryKnown(x)
      BY <1>3, <2>1 DEF LedgerKnown
    <3>2. PICK r \in OrgReserveKeys : x.key[2] = r /\ orgReservations[r].status # "none"
      BY <1>9, <3>1 DEF EntryKnown
    <3>3. QED
      BY <1>9, <3>2
  <2>2. x \notin E
    BY <1>2, <1>9
  <2>3. QED
    BY <1>5, <2>1, <2>2
<1>11. /\ IsFiniteSet(U \cup {x}) /\ Deltas(U \cup {x})
       /\ AvailableSum(U \cup {x}) = AvailableSum(U) + x.available
       /\ ReservedSum(U \cup {x}) = ReservedSum(U) + x.reserved
       /\ ConsumedSum(U \cup {x}) = ConsumedSum(U) + x.consumed
  BY <1>7, <1>9, <1>10, EntryAdds
<1>12. ledger' = U \cup {x}
  BY <1>1, <1>3, <1>5, <1>8
<1>13. /\ AvailableSum(L) \in Int /\ ReservedSum(L) \in Int /\ ConsumedSum(L) \in Int
       /\ Total(stale) \in Nat
  BY <1>4, LedgerType, PoolFinite, TotalFinite
<1>14. \E M : /\ ledger' = ledger \cup M
              /\ \A e \in M : \/ e.key[1] = "expiry"
                              \/ e.key = <<"entry", q.key>> /\ e.reserved # 0
  <2>1. PICK M : M = E \cup {x}
    OBVIOUS
  <2>2. ledger' = ledger \cup M
    BY <1>3, <1>5, <1>12, <2>1
  <2>3. ASSUME NEW e \in M
        PROVE  e.key[1] = "expiry" \/ (e.key = <<"entry", q.key>> /\ e.reserved # 0)
    BY <1>2, <1>9, <2>1
  <2>4. QED
    BY <2>2, <2>3
<1>15. /\ AvailableSum(ledger') = AvailableSum(ledger) + AvailableSum(E) - q.amount
       /\ ReservedSum(ledger') = ReservedSum(ledger) + q.amount
       /\ ConsumedSum(ledger') = ConsumedSum(ledger)
  <2>1. ReservedSum(U) = ReservedSum(L) /\ ConsumedSum(U) = ConsumedSum(L)
    BY <1>2, <1>7, <1>13
  <2>2. /\ AvailableSum(ledger') = AvailableSum(U) + x.available
        /\ ReservedSum(ledger') = ReservedSum(U) + x.reserved
        /\ ConsumedSum(ledger') = ConsumedSum(U) + x.consumed
    BY <1>11, <1>12
  <2>3. QED
    BY <1>2, <1>3, <1>7, <1>9, <1>13, <2>1, <2>2
<1>16. /\ AvailableSum(ledger) \in Int /\ AvailableSum(ledger') \in Int
       /\ AvailableSum(ledger) - Total(stale) - q.amount <= AvailableSum(ledger')
  BY <1>2, <1>3, <1>13, <1>15
<1>17. IsFiniteSet(ledger') /\ Deltas(ledger')
  BY <1>11, <1>12
<1>18. QED
  BY <1>14, <1>15, <1>16, <1>17

\* What is left in the buckets when a reservation has drawn from all that are made.
LEMMA ReserveLeaves ==
  ASSUME WalletConstants, NEW have \in [OrgBucketKeys -> Nat], NEW stale \in [OrgBucketKeys -> Nat],
         NEW spendable \in [OrgBucketKeys -> Nat], NEW from \in [OrgBucketKeys -> Nat],
         NEW rest \in [OrgBucketKeys -> Nat],
         \A b \in OrgBucketKeys : spendable[b] = have[b] - stale[b] /\ rest[b] = spendable[b] - from[b]
  PROVE  /\ Total(rest) = Total(have) - Total(stale) - Total(from)
         /\ Total(spendable) = Total(have) - Total(stale)
         /\ Total(have) \in Nat /\ Total(stale) \in Nat /\ Total(from) \in Nat /\ Total(rest) \in Nat
<1>1. IsFiniteSet(Units(have)) /\ IsFiniteSet(Units(spendable))
  BY PoolFinite, TotalFinite
<1>2. Total(spendable) = Total(have) - Total(stale) /\ Total(have) \in Nat /\ Total(stale) \in Nat
  <2>1. \A b \in OrgBucketKeys : spendable[b] = have[b] - stale[b]
    OBVIOUS
  <2>2. IsFiniteSet(Units(have))
    BY <1>1
  <2>3. /\ Total(spendable) = Total(have) - Total(stale)
        /\ Total(have) \in Nat /\ Total(spendable) \in Nat /\ Total(stale) \in Nat
    BY <2>1, <2>2, TotalOfRest
  <2>4. QED
    BY <2>3
<1>3. Total(rest) = Total(spendable) - Total(from) /\ Total(rest) \in Nat /\ Total(from) \in Nat
  <2>1. \A b \in OrgBucketKeys : rest[b] = spendable[b] - from[b]
    OBVIOUS
  <2>2. IsFiniteSet(Units(spendable))
    BY <1>1
  <2>3. Total(rest) = Total(spendable) - Total(from) /\ Total(rest) \in Nat /\ Total(from) \in Nat
    BY <2>1, <2>2, TotalOfRest
  <2>4. QED
    BY <2>3
<1>4. QED
  BY <1>2, <1>3

\* A reservation has drawn all that it asked for, or there was nothing to draw.
LEMMA DrawsAllOrNone ==
  ASSUME WalletConstants, NEW spendable \in [OrgBucketKeys -> Nat], NEW from \in [OrgBucketKeys -> Nat],
         NEW amount, Total(spendable) > 0 => Total(from) = amount,
         \A b \in OrgBucketKeys : from[b] <= spendable[b]
  PROVE  Total(from) = amount \/ (Total(spendable) = 0 /\ Total(from) = 0)
<1>1. IsFiniteSet(Units(spendable)) /\ Total(spendable) \in Nat /\ Total(from) \in Nat
  BY PoolFinite, TotalFinite
<1>2. Total(from) <= Total(spendable)
  BY <1>1, TotalGrows
<1>3. QED
  BY <1>1, <1>2

LEMMA PoolBooksReserve ==
  ASSUME WalletConstants, WebhookConstants, WalletSound, PoolBooks, OrgReserve
  PROVE  PoolBooks'
<1>1. PICK q \in ReserveTasks, S \in SUBSET MadeBuckets,
           stale \in [OrgBucketKeys -> Nat], spendable \in [OrgBucketKeys -> Nat],
           from \in [OrgBucketKeys -> Nat] :
        ReserveReads(q, S, stale, spendable, from) /\ ReserveWrites(q, S, stale, spendable, from)
  BY ReserveDoes
<1>2. WalletSound' /\ WalletTypeOK /\ WalletTypeOK' /\ UnmadeEmpty
  BY SoundReserve DEF WalletSound
<1>3. /\ stale = StaleIn(S) /\ q.key \in OrgReserveKeys /\ q.amount \in Nat /\ q.amount > 0
      /\ orgReservations[q.key].status = "none"
      /\ orgWallet.available - Total(stale) >= q.amount
      /\ Total(spendable) > 0 => Total(from) = q.amount
      /\ \A b \in OrgBucketKeys :
           /\ from[b] <= spendable[b]
           /\ b \in S => spendable[b] = orgBuckets[b].available - stale[b]
           /\ b \notin S => spendable[b] = 0 /\ stale[b] = 0
  BY <1>1 DEF ReserveReads
<1>4. /\ orgReservations' = [orgReservations EXCEPT ![q.key] =
           [status |-> "RESERVED", amount |-> q.amount, settled |-> 0, from |-> from]]
      /\ orgWallet' = [available |-> orgWallet.available - Total(stale) - q.amount,
                       reserved |-> orgWallet.reserved + q.amount,
                       consumed |-> orgWallet.consumed]
      /\ ledger' = ledger \cup Expiries(S)
           \cup {LedgerEntry(<<"entry", q.key>>, -q.amount, q.amount, 0)}
      /\ raced' = (raced \/ S # MadeBuckets)
      /\ orgSettlements' = orgSettlements
  BY <1>1 DEF ReserveWrites
<1>5. ASSUME NEW b \in OrgBucketKeys
      PROVE  /\ orgBuckets'[b].available = orgBuckets[b].available - stale[b] - from[b]
             /\ orgBuckets'[b].made = orgBuckets[b].made
  BY <1>1 DEF ReserveWrites
<1>6. PICK new : new = [status |-> "RESERVED", amount |-> q.amount, settled |-> 0, from |-> from]
  OBVIOUS
<1>7. new.status = "RESERVED" /\ new.amount = q.amount /\ new.settled = 0 /\ new.from = from
  BY <1>6
<1>8. \A r \in OrgReserveKeys : orgReservations'[r] = IF r = q.key THEN new ELSE orgReservations[r]
  BY <1>2, <1>4, <1>6 DEF WalletTypeOK
<1>9. LedgerKnown /\ HoldsDrawn
  BY DEF PoolBooks
<1>10. Total(from) = q.amount \/ (Total(spendable) = 0 /\ Total(from) = 0)
  <2>1. PICK amount : amount = q.amount
    OBVIOUS
  <2>2. Total(from) = amount \/ (Total(spendable) = 0 /\ Total(from) = 0)
    BY <1>3, <2>1, DrawsAllOrNone
  <2>3. QED
    BY <2>1, <2>2
<1>11. HoldsDrawn'
  BY <1>3, <1>7, <1>8, <1>9, <1>10 DEF HoldsDrawn
<1>12. /\ IsFiniteSet(ledger') /\ Deltas(ledger')
       /\ AvailableSum(ledger) - Total(stale) - q.amount <= AvailableSum(ledger')
       /\ AvailableSum(ledger) \in Int /\ AvailableSum(ledger') \in Int
       /\ ReservedSum(ledger') = ReservedSum(ledger) + q.amount
       /\ ConsumedSum(ledger') = ConsumedSum(ledger)
       /\ \E M : /\ ledger' = ledger \cup M
                 /\ \A e \in M : \/ e.key[1] = "expiry"
                                 \/ e.key = <<"entry", q.key>> /\ e.reserved # 0
  BY <1>3, <1>4, <1>9, ReserveEntries
<1>13. LedgerKnown'
  <2>1. \A b \in OrgBucketKeys : Made(b) => Made(b)'
    BY <1>5 DEF Made
  <2>2. \A r \in OrgReserveKeys : orgReservations[r].status # "none" => orgReservations'[r].status # "none"
    BY <1>7, <1>8
  <2>3. PICK M : /\ ledger' = ledger \cup M
                 /\ \A e \in M : \/ e.key[1] = "expiry"
                                 \/ e.key = <<"entry", q.key>> /\ e.reserved # 0
    BY <1>12
  <2>4. orgReservations'[q.key].status # "none"
    BY <1>3, <1>7, <1>8
  <2>5. ASSUME NEW e \in M
        PROVE  EntryKnown(e)'
    <3>1. CASE e.key[1] = "expiry"
      BY <3>1 DEF EntryKnown
    <3>2. CASE e.key = <<"entry", q.key>> /\ e.reserved # 0
      BY <1>3, <2>4, <3>2 DEF EntryKnown
    <3>3. QED
      BY <2>3, <3>1, <3>2
  <2>6. QED
    BY <1>4, <1>9, <1>12, <2>1, <2>2, <2>3, <2>5, LedgerKnownStill
<1>14. raced' \/ PoolBooksRight'
  <2>1. SUFFICES ASSUME ~raced'
                 PROVE  PoolBooksRight'
    OBVIOUS
  <2>2. PoolBooksRight /\ S = MadeBuckets
    BY <1>4, <2>1 DEF PoolBooks
  <2>3. PICK f \in [OrgBucketKeys -> Nat], g \in [OrgBucketKeys -> Nat] : f = PoolAvailable /\ g = PoolAvailable'
    BY <1>2, ColumnsType, ColumnsTypeNext
  <2>4. \A b \in OrgBucketKeys : orgBuckets[b].available = f[b] /\ orgBuckets'[b].available = g[b]
    BY <2>3 DEF PoolAvailable
  <2>5. ASSUME NEW b \in OrgBucketKeys
        PROVE  spendable[b] = f[b] - stale[b] /\ g[b] = spendable[b] - from[b]
    <3>1. CASE b \in S
      BY <1>3, <1>5, <2>4, <3>1
    <3>2. CASE b \notin S
      <4>1. orgBuckets[b] = NoOrgBucket
        BY <1>2, <2>2, <3>2 DEF UnmadeEmpty, MadeBuckets
      <4>2. orgBuckets[b].available = 0
        BY <4>1 DEF NoOrgBucket
      <4>3. QED
        BY <1>3, <1>5, <2>4, <3>2, <4>2
    <3>3. QED
      BY <3>1, <3>2
  <2>6. /\ Total(g) = Total(f) - Total(stale) - Total(from)
        /\ Total(spendable) = Total(f) - Total(stale)
        /\ Total(f) \in Nat /\ Total(stale) \in Nat /\ Total(from) \in Nat /\ Total(g) \in Nat
    BY <2>5, ReserveLeaves
  <2>7. PICK k \in OrgReserveKeys : k = q.key
    BY <1>3
  <2>8. orgReservations[k].amount = 0
    BY <1>3, <1>9, <2>7 DEF HoldsDrawn
  <2>9. /\ Total(Loose') = Total(Loose) + (IF Total(from) < q.amount THEN q.amount ELSE 0)
        /\ Total(Loose) \in Nat
    <3>1. PICK old \in [OrgReserveKeys -> Nat], next \in [OrgReserveKeys -> Nat] : old = Loose /\ next = Loose'
      BY <1>2, ColumnsType, ColumnsTypeNext
    <3>2. ASSUME NEW r \in OrgReserveKeys
          PROVE  next[r] = IF r = k THEN LooseOf(new) ELSE old[r]
      BY <1>8, <2>7, <3>1 DEF Loose, LooseOf
    <3>3. old[k] = 0
      <4>1. PICK row : row = orgReservations[k]
        OBVIOUS
      <4>2. row.status = "none" /\ row.amount = 0
        BY <1>3, <2>7, <2>8, <4>1
      <4>3. LooseOf(row) = 0
        BY <4>2 DEF LooseOf
      <4>4. QED
        BY <3>1, <4>1, <4>3 DEF Loose
    <3>4. next[k] = IF Total(from) < q.amount THEN q.amount ELSE 0
      BY <1>7, <3>2 DEF LooseOf
    <3>5. Total(next) = Total(old) - old[k] + next[k] /\ Total(old) \in Nat
      BY <3>2, PoolFinite, TotalOfOneMore
    <3>6. QED
      BY <1>3, <3>1, <3>3, <3>4, <3>5
  <2>10. Total(Pledged') = Total(Pledged) + q.amount /\ Total(Pledged) \in Nat
    <3>1. PICK old \in [OrgReserveKeys -> Nat], next \in [OrgReserveKeys -> Nat] : old = Pledged /\ next = Pledged'
      BY <1>2, ColumnsType, ColumnsTypeNext
    <3>2. ASSUME NEW r \in OrgReserveKeys
          PROVE  next[r] = IF r = k THEN PledgedOf(new) ELSE old[r]
      BY <1>8, <2>7, <3>1 DEF Pledged, PledgedOf
    <3>3. old[k] = 0
      BY <1>3, <2>7, <3>1 DEF Pledged, PledgedOf
    <3>4. next[k] = q.amount
      BY <1>7, <3>2 DEF PledgedOf
    <3>5. Total(next) = Total(old) - old[k] + next[k] /\ Total(old) \in Nat
      BY <3>2, PoolFinite, TotalOfOneMore
    <3>6. QED
      BY <1>3, <3>1, <3>3, <3>4, <3>5
  <2>11. /\ orgWallet.available \in Nat /\ orgWallet.reserved \in Nat /\ orgWallet.consumed \in Nat
         /\ orgWallet'.available = orgWallet.available - Total(stale) - q.amount
         /\ orgWallet'.reserved = orgWallet.reserved + q.amount
         /\ orgWallet'.consumed = orgWallet.consumed
    BY <1>2, <1>4, PoolColumns
  <2>12. /\ orgWallet.available >= Total(f)
         /\ orgWallet.available = Total(f) + Legacy - Total(Loose)
         /\ orgWallet.reserved = Total(Pledged)
         /\ orgWallet.reserved = ReservedSum(ledger)
         /\ orgWallet.consumed = ConsumedSum(ledger)
         /\ orgWallet.available <= AvailableSum(ledger)
    BY <2>2, <2>3 DEF PoolBooksRight
  <2>13. Legacy \in Nat
    BY DEF WalletConstants
  <2>14. orgWallet'.available >= Total(g) /\ orgWallet'.available = Total(g) + Legacy - Total(Loose')
    <3>1. CASE Total(from) = q.amount
      BY <1>3, <2>6, <2>9, <2>11, <2>12, <2>13, <3>1
    <3>2. CASE Total(spendable) = 0 /\ Total(from) = 0
      <4>1. Total(f) = Total(stale) /\ Total(g) = 0
        <5>1. PICK a \in Nat, b \in Nat, c \in Nat : a = Total(f) /\ b = Total(stale) /\ c = Total(g)
          BY <2>6
        <5>2. 0 = a - b /\ c = a - b - 0
          BY <2>6, <3>2, <5>1
        <5>3. a = b /\ c = 0
          BY <5>2
        <5>4. QED
          BY <5>1, <5>3
      <4>2. Total(Loose') = Total(Loose) + q.amount
        BY <1>3, <2>9, <3>2
      <4>3. QED
        BY <1>3, <2>6, <2>9, <2>11, <2>12, <2>13, <4>1, <4>2
    <3>3. QED
      BY <1>10, <3>1, <3>2
  <2>15. /\ orgWallet'.reserved = Total(Pledged') /\ orgWallet'.reserved = ReservedSum(ledger')
         /\ orgWallet'.consumed = ConsumedSum(ledger')
    BY <1>12, <2>10, <2>11, <2>12
  <2>16. orgWallet'.available <= AvailableSum(ledger')
    BY <1>3, <1>12, <2>6, <2>11, <2>12
  <2>17. QED
    BY <2>3, <2>14, <2>15, <2>16 DEF PoolBooksRight
<1>15. QED
  BY <1>11, <1>13, <1>14 DEF PoolBooks

\* What a settlement adds to the ledger.
LEMMA SettleEntries ==
  ASSUME WalletConstants, LedgerKnown, NEW q, q.settled \in Nat, NEW released \in Nat,
         q.key \in OrgSettleKeys, orgSettlements[q.key] = NoOrgReservation,
         ledger' = ledger \cup {LedgerEntry(<<"settlement", q.key>>, 0, -q.settled, q.settled)}
           \cup (IF released = 0 THEN {}
                 ELSE {LedgerEntry(<<"release", q.key>>, released, -released, 0)})
  PROVE  /\ IsFiniteSet(ledger') /\ Deltas(ledger')
         /\ AvailableSum(ledger) \in Int
         /\ AvailableSum(ledger') = AvailableSum(ledger) + released
         /\ ReservedSum(ledger') = ReservedSum(ledger) - q.settled - released
         /\ ConsumedSum(ledger') = ConsumedSum(ledger) + q.settled
         /\ \E M : /\ ledger' = ledger \cup M
                   /\ \A e \in M : e.key \in {<<"settlement", q.key>>, <<"release", q.key>>}
<1>1. PICK L : L = ledger
  OBVIOUS
<1>2. IsFiniteSet(L) /\ Deltas(L)
  BY <1>1 DEF LedgerKnown
<1>3. PICK x : x = LedgerEntry(<<"settlement", q.key>>, 0, -q.settled, q.settled)
  OBVIOUS
<1>4. PICK y : y = LedgerEntry(<<"release", q.key>>, released, -released, 0)
  OBVIOUS
<1>5. /\ x.key = <<"settlement", q.key>> /\ x.available = 0 /\ x.reserved = -q.settled
      /\ x.consumed = q.settled
      /\ y.key = <<"release", q.key>> /\ y.available = released /\ y.reserved = -released
      /\ y.consumed = 0 /\ x # y
  BY <1>3, <1>4 DEF LedgerEntry
<1>6. x \notin L /\ y \notin L
  <2>1. SUFFICES ASSUME NEW z \in {x, y}, z \in L
                 PROVE  FALSE
    OBVIOUS
  <2>2. EntryKnown(z)
    BY <1>1, <2>1 DEF LedgerKnown
  <2>3. z.key[1] \in {"settlement", "release"} /\ z.key[2] = q.key
    BY <1>5
  <2>4. PICK s \in OrgSettleKeys : z.key[2] = s /\ orgSettlements[s] # NoOrgReservation
    BY <2>2, <2>3 DEF EntryKnown
  <2>5. QED
    BY <2>3, <2>4
<1>7. PICK U : U = L \cup {x}
  OBVIOUS
<1>8. /\ IsFiniteSet(U) /\ Deltas(U)
      /\ AvailableSum(U) = AvailableSum(L) + x.available
      /\ ReservedSum(U) = ReservedSum(L) + x.reserved
      /\ ConsumedSum(U) = ConsumedSum(L) + x.consumed
  BY <1>2, <1>5, <1>6, <1>7, EntryAdds
<1>9. AvailableSum(L) \in Int /\ ReservedSum(L) \in Int /\ ConsumedSum(L) \in Int
  BY <1>2, LedgerType
<1>10. /\ IsFiniteSet(ledger') /\ Deltas(ledger')
       /\ AvailableSum(ledger') = AvailableSum(U) + released
       /\ ReservedSum(ledger') = ReservedSum(U) - released
       /\ ConsumedSum(ledger') = ConsumedSum(U)
  <2>1. AvailableSum(U) \in Int /\ ReservedSum(U) \in Int /\ ConsumedSum(U) \in Int
    BY <1>8, LedgerType
  <2>2. CASE released = 0
    <3>1. ledger' = U
      BY <1>1, <1>3, <1>7, <2>2
    <3>2. IsFiniteSet(ledger') /\ Deltas(ledger')
      BY <1>8, <3>1
    <3>3. /\ AvailableSum(U) = AvailableSum(U) + 0 /\ ReservedSum(U) = ReservedSum(U) - 0
      BY <2>1
    <3>4. QED
      BY <2>2, <3>1, <3>2, <3>3
  <2>3. CASE released # 0
    <3>1. ledger' = U \cup {y}
      BY <1>1, <1>3, <1>4, <1>7, <2>3
    <3>2. y \notin U
      BY <1>5, <1>6, <1>7
    <3>3. /\ IsFiniteSet(U \cup {y}) /\ Deltas(U \cup {y})
          /\ AvailableSum(U \cup {y}) = AvailableSum(U) + y.available
          /\ ReservedSum(U \cup {y}) = ReservedSum(U) + y.reserved
          /\ ConsumedSum(U \cup {y}) = ConsumedSum(U) + y.consumed
      BY <1>5, <1>8, <3>2, EntryAdds
    <3>4. IsFiniteSet(ledger') /\ Deltas(ledger')
      BY <3>1, <3>3
    <3>5. /\ AvailableSum(U) + y.available = AvailableSum(U) + released
          /\ ReservedSum(U) + y.reserved = ReservedSum(U) - released
          /\ ConsumedSum(U) + y.consumed = ConsumedSum(U)
      BY <1>5, <2>1
    <3>6. QED
      BY <3>1, <3>3, <3>4, <3>5
  <2>4. QED
    BY <2>2, <2>3
<1>11. /\ AvailableSum(ledger') = AvailableSum(ledger) + released
       /\ ReservedSum(ledger') = ReservedSum(ledger) - q.settled - released
       /\ ConsumedSum(ledger') = ConsumedSum(ledger) + q.settled
       /\ AvailableSum(ledger) \in Int
  BY <1>1, <1>5, <1>8, <1>9, <1>10
<1>12. \E M : /\ ledger' = ledger \cup M
              /\ \A e \in M : e.key \in {<<"settlement", q.key>>, <<"release", q.key>>}
  <2>1. PICK M : M = {x} \cup (IF released = 0 THEN {} ELSE {y})
    OBVIOUS
  <2>2. ledger' = ledger \cup M
    BY <1>3, <1>4, <2>1
  <2>3. \A e \in M : e.key \in {<<"settlement", q.key>>, <<"release", q.key>>}
    BY <1>5, <2>1
  <2>4. QED
    BY <2>2, <2>3
<1>13. QED
  BY <1>10, <1>11, <1>12

\* A settlement gives all back that it has not used, or there was nothing to give back.
LEMMA GivesAllOrNone ==
  ASSUME WalletConstants, WalletSound, HoldsDrawn, NEW r \in OrgReserveKeys,
         NEW from \in [OrgBucketKeys -> Nat], from = orgReservations[r].from,
         NEW amount \in Nat, amount = orgReservations[r].amount,
         NEW released \in Nat, released <= amount, NEW back \in [OrgBucketKeys -> Nat],
         back = GivenBack(orgBuckets, from, released),
         \A b \in OrgBucketKeys : back[b] <= from[b]
  PROVE  \/ Total(from) = amount /\ Total(back) = released
         \/ Total(from) = 0 /\ Total(from) < amount /\ Total(back) = 0
<1>1. WalletTypeOK /\ Numbered /\ HoldsOfMade
  BY DEF WalletSound
<1>2. \A b \in OrgBucketKeys : from[b] > 0 => Made(b)
  BY <1>1 DEF HoldsOfMade
<1>3. Total(from) \in {0, amount}
  BY DEF HoldsDrawn
<1>4. CASE Total(from) = amount
  <2>1. Total(back) = released
    BY <1>1, <1>2, <1>4, GivesBackAll
  <2>2. QED
    BY <1>4, <2>1
<1>5. CASE Total(from) = 0 /\ Total(from) # amount
  <2>1. IsFiniteSet(Units(from))
    BY PoolFinite, TotalFinite
  <2>2. Total(back) <= Total(from)
    BY <2>1, TotalGrows
  <2>3. Total(back) \in Nat
    BY PoolFinite, TotalFinite
  <2>4. QED
    BY <1>5, <2>2, <2>3
<1>6. QED
  BY <1>3, <1>4, <1>5

LEMMA PoolBooksSettle ==
  ASSUME WalletConstants, WebhookConstants, WalletSound, PoolBooks,
         NEW q \in SettleTasks, OrgSettle(q)
  PROVE  PoolBooks'
<1>1. PICK amount \in Nat, released \in Nat, from \in [OrgBucketKeys -> Nat],
           back \in [OrgBucketKeys -> Nat], used \in [OrgBucketKeys -> Nat] :
        /\ SettleReads(q, amount, released, from, back, used)
        /\ SettleWrites(q, amount, released, from, back, used)
  BY SettleDoes
<1>2. WalletSound' /\ WalletTypeOK /\ WalletTypeOK'
  BY SoundSettle DEF WalletSound
<1>3. /\ q.key \in OrgSettleKeys /\ q.reservation \in OrgReserveKeys /\ q.settled \in Nat
      /\ orgSettlements[q.key] = NoOrgReservation
      /\ orgReservations[q.reservation].status = "RESERVED"
      /\ orgReservations[q.reservation].amount = amount
      /\ orgReservations[q.reservation].from = from
      /\ q.settled <= amount /\ released = amount - q.settled
      /\ back = GivenBack(orgBuckets, from, released)
      /\ \A b \in OrgBucketKeys : back[b] <= from[b]
  BY <1>1 DEF SettleReads
<1>4. /\ orgSettlements' = [orgSettlements EXCEPT ![q.key] = q.reservation]
      /\ orgWallet' = [available |-> orgWallet.available + released,
                       reserved |-> orgWallet.reserved - q.settled - released,
                       consumed |-> orgWallet.consumed + q.settled]
      /\ ledger' = ledger \cup {LedgerEntry(<<"settlement", q.key>>, 0, -q.settled, q.settled)}
           \cup (IF released = 0 THEN {}
                 ELSE {LedgerEntry(<<"release", q.key>>, released, -released, 0)})
      /\ raced' = raced
  BY <1>1 DEF SettleWrites
<1>5. ASSUME NEW b \in OrgBucketKeys
      PROVE  /\ orgBuckets'[b].available = orgBuckets[b].available + back[b]
             /\ orgBuckets'[b].made = orgBuckets[b].made
  BY <1>1 DEF SettleWrites
<1>6. PICK new : new = [status |-> "SETTLED", amount |-> amount, settled |-> q.settled, from |-> from]
  OBVIOUS
<1>7. new.status = "SETTLED" /\ new.amount = amount /\ new.settled = q.settled /\ new.from = from
  BY <1>6
<1>8. \A r \in OrgReserveKeys : orgReservations'[r] = IF r = q.reservation THEN new ELSE orgReservations[r]
  BY <1>1, <1>6 DEF SettleWrites
<1>9. LedgerKnown /\ HoldsDrawn
  BY DEF PoolBooks
<1>10. \/ Total(from) = amount /\ Total(back) = released
       \/ Total(from) = 0 /\ Total(from) < amount /\ Total(back) = 0
  <2>1. PICK r \in OrgReserveKeys : r = q.reservation
    BY <1>3
  <2>2. released <= amount
    BY <1>3
  <2>3. QED
    BY <1>3, <1>9, <2>1, <2>2, GivesAllOrNone
<1>11. HoldsDrawn'
  BY <1>3, <1>7, <1>8, <1>9 DEF HoldsDrawn
<1>12. /\ IsFiniteSet(ledger') /\ Deltas(ledger')
       /\ AvailableSum(ledger) \in Int
       /\ AvailableSum(ledger') = AvailableSum(ledger) + released
       /\ ReservedSum(ledger') = ReservedSum(ledger) - q.settled - released
       /\ ConsumedSum(ledger') = ConsumedSum(ledger) + q.settled
       /\ \E M : /\ ledger' = ledger \cup M
                 /\ \A e \in M : e.key \in {<<"settlement", q.key>>, <<"release", q.key>>}
  BY <1>3, <1>4, <1>9, SettleEntries
<1>13. LedgerKnown'
  <2>1. \A b \in OrgBucketKeys : Made(b) => Made(b)'
    BY <1>5 DEF Made
  <2>2. \A r \in OrgReserveKeys : orgReservations[r].status # "none" => orgReservations'[r].status # "none"
    BY <1>7, <1>8
  <2>3. PICK M : /\ ledger' = ledger \cup M
                 /\ \A e \in M : e.key \in {<<"settlement", q.key>>, <<"release", q.key>>}
    BY <1>12
  <2>4. q.reservation # NoOrgReservation
    BY <1>3 DEF WalletConstants
  <2>5. \A s \in OrgSettleKeys :
          orgSettlements'[s] = IF s = q.key THEN q.reservation ELSE orgSettlements[s]
    BY <1>2, <1>4 DEF WalletTypeOK
  <2>6. ASSUME NEW e \in M
        PROVE  EntryKnown(e)'
    <3>1. e.key[1] \in {"settlement", "release"} /\ e.key[2] = q.key
      BY <2>3
    <3>2. orgSettlements'[q.key] # NoOrgReservation
      BY <1>3, <2>4, <2>5
    <3>3. QED
      BY <1>3, <3>1, <3>2 DEF EntryKnown
  <2>7. \A s \in OrgSettleKeys : orgSettlements[s] # NoOrgReservation => orgSettlements'[s] # NoOrgReservation
    BY <2>4, <2>5
  <2>8. QED
    BY <1>9, <1>12, <2>1, <2>2, <2>3, <2>6, <2>7, LedgerKnownStill
<1>14. raced' \/ PoolBooksRight'
  <2>1. SUFFICES ASSUME ~raced'
                 PROVE  PoolBooksRight'
    OBVIOUS
  <2>2. PoolBooksRight
    BY <1>4, <2>1 DEF PoolBooks
  <2>3. PICK f \in [OrgBucketKeys -> Nat], g \in [OrgBucketKeys -> Nat] : f = PoolAvailable /\ g = PoolAvailable'
    BY <1>2, ColumnsType, ColumnsTypeNext
  <2>4. \A b \in OrgBucketKeys : g[b] = f[b] + back[b]
    BY <1>5, <2>3 DEF PoolAvailable
  <2>5. IsFiniteSet(Units(f)) /\ IsFiniteSet(Units(back)) /\ Total(f) \in Nat /\ Total(back) \in Nat
    BY PoolFinite, TotalFinite
  <2>6. Total(g) = Total(f) + Total(back)
    BY <2>4, <2>5, TotalOfSum
  <2>7. PICK k \in OrgReserveKeys : k = q.reservation
    BY <1>3
  <2>8. /\ Total(Loose') = Total(Loose) - (IF Total(from) < amount THEN released ELSE 0)
        /\ Total(Loose) \in Nat
    <3>1. PICK old \in [OrgReserveKeys -> Nat], next \in [OrgReserveKeys -> Nat] : old = Loose /\ next = Loose'
      BY <1>2, ColumnsType, ColumnsTypeNext
    <3>2. ASSUME NEW r \in OrgReserveKeys
          PROVE  next[r] = IF r = k THEN LooseOf(new) ELSE old[r]
      BY <1>8, <2>7, <3>1 DEF Loose, LooseOf
    <3>3. old[k] = IF Total(from) < amount THEN amount ELSE 0
      <4>1. PICK row : row = orgReservations[k]
        OBVIOUS
      <4>2. row.status = "RESERVED" /\ row.amount = amount /\ row.from = from
        BY <1>3, <2>7, <4>1
      <4>3. LooseOf(row) = IF Total(from) < amount THEN amount ELSE 0
        BY <4>2 DEF LooseOf
      <4>4. QED
        BY <3>1, <4>1, <4>3 DEF Loose
    <3>4. next[k] = IF Total(from) < amount THEN q.settled ELSE 0
      BY <1>7, <3>2 DEF LooseOf
    <3>5. Total(next) = Total(old) - old[k] + next[k] /\ Total(old) \in Nat
      BY <3>2, PoolFinite, TotalOfOneMore
    <3>6. CASE Total(from) < amount
      BY <1>3, <3>1, <3>3, <3>4, <3>5, <3>6
    <3>7. CASE ~(Total(from) < amount)
      BY <3>1, <3>3, <3>4, <3>5, <3>7
    <3>8. QED
      BY <3>6, <3>7
  <2>9. Total(Pledged') = Total(Pledged) - amount /\ Total(Pledged) \in Nat
    <3>1. PICK old \in [OrgReserveKeys -> Nat], next \in [OrgReserveKeys -> Nat] : old = Pledged /\ next = Pledged'
      BY <1>2, ColumnsType, ColumnsTypeNext
    <3>2. ASSUME NEW r \in OrgReserveKeys
          PROVE  next[r] = IF r = k THEN PledgedOf(new) ELSE old[r]
      BY <1>8, <2>7, <3>1 DEF Pledged, PledgedOf
    <3>3. old[k] = amount
      BY <1>3, <2>7, <3>1 DEF Pledged, PledgedOf
    <3>4. next[k] = 0
      BY <1>7, <3>2 DEF PledgedOf
    <3>5. Total(next) = Total(old) - old[k] + next[k] /\ Total(old) \in Nat
      BY <3>2, PoolFinite, TotalOfOneMore
    <3>6. QED
      BY <3>1, <3>3, <3>4, <3>5
  <2>10. /\ orgWallet.available \in Nat /\ orgWallet.reserved \in Nat /\ orgWallet.consumed \in Nat
         /\ orgWallet'.available = orgWallet.available + released
         /\ orgWallet'.reserved = orgWallet.reserved - q.settled - released
         /\ orgWallet'.consumed = orgWallet.consumed + q.settled
    BY <1>2, <1>4, PoolColumns
  <2>11. /\ orgWallet.available >= Total(f)
         /\ orgWallet.available = Total(f) + Legacy - Total(Loose)
         /\ orgWallet.reserved = Total(Pledged)
         /\ orgWallet.reserved = ReservedSum(ledger)
         /\ orgWallet.consumed = ConsumedSum(ledger)
         /\ orgWallet.available <= AvailableSum(ledger)
    BY <2>2, <2>3 DEF PoolBooksRight
  <2>12. Legacy \in Nat
    BY DEF WalletConstants
  <2>13. orgWallet'.available >= Total(g) /\ orgWallet'.available = Total(g) + Legacy - Total(Loose')
    <3>1. CASE Total(from) = amount /\ Total(back) = released
      <4>1. Total(Loose') = Total(Loose)
        BY <2>8, <3>1
      <4>2. QED
        BY <2>5, <2>6, <2>8, <2>10, <2>11, <2>12, <3>1, <4>1
    <3>2. CASE Total(from) = 0 /\ Total(from) < amount /\ Total(back) = 0
      <4>1. Total(Loose') = Total(Loose) - released /\ Total(g) = Total(f)
        BY <2>5, <2>6, <2>8, <3>2
      <4>2. QED
        BY <2>5, <2>8, <2>10, <2>11, <2>12, <4>1
    <3>3. QED
      BY <1>10, <3>1, <3>2
  <2>14. /\ orgWallet'.reserved = Total(Pledged') /\ orgWallet'.reserved = ReservedSum(ledger')
         /\ orgWallet'.consumed = ConsumedSum(ledger')
    BY <1>3, <1>12, <2>9, <2>10, <2>11
  <2>15. orgWallet'.available <= AvailableSum(ledger')
    BY <1>12, <2>10, <2>11
  <2>16. QED
    BY <2>3, <2>13, <2>14, <2>15 DEF PoolBooksRight
<1>15. QED
  BY <1>11, <1>13, <1>14 DEF PoolBooks

\* PoolBooks is inductive.
LEMMA PoolBooksStep ==
  ASSUME WalletConstants, WebhookConstants, WalletSound, PoolBooks, WalletStep
  PROVE  PoolBooks'
<1>1. CASE \/ RollBack \/ OrgTick \/ NoWallet
           \/ (\E q \in ReserveTasks : LockWallet(q))
           \/ \E q \in SettleTasks : SettleUndone(q)
  <2>1. UNCHANGED <<account, raced>>
    BY <1>1 DEF RollBack, OrgTick, NoWallet, LockWallet,
                SettleUndone, walletVars
  <2>2. QED
    BY <2>1, PoolBooksFrame
<1>2. QED
  BY <1>1, PoolBooksGrant, PoolBooksRollover, PoolBooksReserve, PoolBooksSettle DEF WalletStep

\* The books of an organization's wallet balance in every state (BooksBalance
\* of OrganizationWallet: grantCredits, reserveCredits, settleCredits and
\* rolloverSubscriptionCredits): whatever requests and payments run over each
\* other, no transaction loses or invents a credit, until a rollover overtakes
\* a reservation that waits for its bucket.
THEOREM PaymentsBooksBalance == PaymentSpec => []BooksBalance
<1>0. WalletConstants /\ WebhookConstants
  BY WalletAssumption, WebhookAssumption
<1>1. PaymentInit => PoolBooks
  BY <1>0, PoolBooksInit DEF PaymentInit
<1>2. PaymentsInvariant /\ PoolBooks /\ [PaymentNext]_paymentVars => PoolBooks'
  BY <1>0, PaymentsInvariantNext, PoolBooksStep DEF PaymentsInvariant
<1>3. PaymentSpec => []PoolBooks
  BY <1>1, <1>2, PaymentsInvariantHolds, PTL DEF PaymentSpec
<1>4. PoolBooks => BooksBalance
  BY PoolBooksBalance
<1>5. QED
  BY <1>3, <1>4, PTL
=============================================================================

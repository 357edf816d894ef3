-------------------------- MODULE AdmissionProofs --------------------------
(***************************************************************************)
(* Theorems about Admission, for any number of requests in progress, keys  *)
(* and principals and any limits, windows and capacities.                  *)
(***************************************************************************)
EXTENDS Admission, FiniteSetTheorems, NaturalsInduction, WellFoundedInduction, TLAPS

(* Maps.                                                                   *)

\* The keys before each key.
Older(table) == [k \in DOMAIN table |-> table[k].older]

\* They are those of a linear order of finitely many keys.
IsOrder(o) ==
  /\ IsFiniteSet(DOMAIN o)
  /\ \A k \in DOMAIN o : o[k] \subseteq DOMAIN o \ {k}
  /\ \A j, k \in DOMAIN o : j # k => j \in o[k] \/ k \in o[j]
  /\ \A j, k \in DOMAIN o : j \in o[k] => o[j] \subseteq o[k]

(* The limiter.                                                            *)

BucketOK(b) == b.count > 0 /\ b.resetAt >= WindowMs /\ b.resetAt <= now + WindowMs

\* A request that was let in came within the window of its bucket, the first when it opened.
AdmittedOK(r, limit) ==
  /\ r.nth \in 1..limit
  /\ r.opened <= r.at /\ r.at < r.opened + WindowMs /\ r.at <= now
  /\ r.nth = 1 => r.at = r.opened

\* Each is another of its bucket, and the windows of buckets do not overlap.
Distinct(r, s) ==
  /\ r.opened = s.opened /\ r.nth = s.nth => r = s
  /\ r.opened < s.opened => r.opened + WindowMs <= s.opened

\* It was counted by the bucket its key has, or that of its own is past.
Counted(k, r) ==
  IF k \in DOMAIN buckets
  THEN LET b == buckets[k] IN
       \/ r.opened + WindowMs = b.resetAt /\ r.nth <= b.count
       \/ r.opened + WindowMs + WindowMs <= b.resetAt
  ELSE r.opened + WindowMs <= now

LimiterInv ==
  /\ IsOrder(Older(buckets))
  /\ \A k \in DOMAIN buckets : BucketOK(buckets[k])
  /\ \A k \in Keys : \A r \in let[k] :
       /\ AdmittedOK(r, Limit[k[1]]) /\ Counted(k, r)
       /\ \A s \in let[k] : Distinct(r, s)

(* The throttle.                                                           *)

\* The guesses of p are told apart, and each is a failure of its entry unless it is too old.
GuessesOK(p) ==
  LET f == EntryOf(p).failures IN
  /\ IsFiniteSet(guesses[p]) /\ f \subseteq guesses[p]
  /\ \A g \in guesses[p] :
       /\ g.at <= now
       /\ g.nth <= Cardinality({h \in guesses[p] : h.at = g.at})
       /\ g \in f \/ g.at + FailureWindowMs <= now

\* The sign-ins for p being verified that began within the window that ends at t, and before.
Within(p, t) ==
  {c \in Calls : /\ call[c].phase = "verifying" /\ call[c].principal = p
                 /\ call[c].started <= t /\ call[c].started + FailureWindowMs > t}

Before(p, t) ==
  {c \in Calls : /\ call[c].phase = "verifying" /\ call[c].principal = p
                 /\ call[c].started + FailureWindowMs <= t}

\* Twice the guesses of the window still to be answered, when the lock has ended although
\* there are MaxFailures of them: `old` calls of n may end it again.
Unlocked(n, old) == (old + 1) * (2 * n - old)

\* The same while the lock lasts.
StillLocked(n, within, old) == 2 * within + old * (2 * n - old + 1)

Most(n) == 2 * MaxFailures + (n - 1) * (n + 2)

\* r guesses of a window of which i others can still come, and o calls that began before it;
\* none begins in it any more once it is late.
Bound(late, locked, r, i, o, n) ==
  IF late THEN 2 * r + 2 * i <= Most(n)
  ELSE \/ r < MaxFailures
       \/ 2 * r + Unlocked(n, o) <= Most(n)
       \/ locked /\ 2 * r + StillLocked(n, i, o) <= Most(n)

Answered(p, t) == Cardinality(During(guesses[p], t, FailureWindowMs))

WindowOK(p, t) ==
  Bound(now > t, EntryOf(p).blockedUntil > t, Answered(p, t),
        Cardinality(Within(p, t)), Cardinality(Before(p, t)), Cardinality(Calls))

PrincipalOK(p) == GuessesOK(p) /\ \A t \in Times : WindowOK(p, t)

CallOK(l) == l.started <= now /\ (l.phase # "idle" => l.principal \in Principals)

ThrottleInv ==
  /\ IsOrder(Older(entries))
  /\ \A c \in Calls : CallOK(call[c])
  /\ \A p \in Principals : PrincipalOK(p)

IndInv == AdmissionTypeOK /\ LimiterInv /\ ThrottleInv

-----------------------------------------------------------------------------
(* Lemmas about maps.                                                      *)

LEMMA Sizes ==
  ASSUME NEW S, IsFiniteSet(S)
  PROVE  Cardinality(S) \in Nat
BY FS_CardinalityType

\* What is left of an order is one.
LEMMA OrderWithout ==
  ASSUME NEW o, IsOrder(o), NEW D
  PROVE  IsOrder([k \in DOMAIN o \ D |-> o[k] \ D])
<1> DEFINE S == DOMAIN o
           r == [k \in S \ D |-> o[k] \ D]
<1>1. DOMAIN r = S \ D /\ \A k \in S \ D : r[k] = o[k] \ D
  OBVIOUS
<1>2. IsFiniteSet(S \ D)
  <2>1. IsFiniteSet(S) /\ S \ D \in SUBSET S
    BY DEF IsOrder
  <2> QED
    BY <2>1, FS_Subset
<1>3. /\ \A k \in S : o[k] \subseteq S \ {k}
      /\ \A j, k \in S : j # k => j \in o[k] \/ k \in o[j]
      /\ \A j, k \in S : j \in o[k] => o[j] \subseteq o[k]
  BY DEF IsOrder
<1> HIDE DEF r, S
<1>4. IsOrder(r)
  BY <1>1, <1>2, <1>3 DEF IsOrder
<1> QED
  BY <1>4 DEF r, S

\* A new key comes after all others.
LEMMA OrderPut ==
  ASSUME NEW o, IsOrder(o), NEW key
  PROVE  IsOrder([k \in DOMAIN o \union {key} |->
                    IF k # key THEN o[k] ELSE IF key \in DOMAIN o THEN o[key] ELSE DOMAIN o])
<1> DEFINE S == DOMAIN o
           r == [k \in S \union {key} |->
                   IF k # key THEN o[k] ELSE IF key \in S THEN o[key] ELSE S]
<1>1. DOMAIN r = S \union {key} /\ \A k \in S : r[k] = o[k]
  OBVIOUS
<1>2. r[key] = IF key \in S THEN o[key] ELSE S
  OBVIOUS
<1>3. IsFiniteSet(S \union {key})
  BY FS_AddElement DEF IsOrder
<1>4. /\ \A k \in S : o[k] \subseteq S \ {k}
      /\ \A j, k \in S : j # k => j \in o[k] \/ k \in o[j]
      /\ \A j, k \in S : j \in o[k] => o[j] \subseteq o[k]
  BY DEF IsOrder
<1> HIDE DEF r, S
<1>5. IsOrder(r)
  BY <1>1, <1>2, <1>3, <1>4 DEF IsOrder
<1> QED
  BY <1>5 DEF r, S

\* A set of natural numbers that is not empty has a least one.
LEMMA Least ==
  ASSUME NEW S \in SUBSET Nat, S # {}
  PROVE  \E n \in S : \A m \in S : n <= m
<1> DEFINE R == {p \in Nat \X Nat : p[1] < p[2]}
<1>1. OpToRel(<, Nat) = R
  BY DEF OpToRel
<1>2. IsWellFoundedOn(R, Nat)
  BY <1>1, NatLessThanWellFounded
<1>3. PICK n \in S : \A m \in S : ~(<<m, n>> \in R)
  <2> HIDE DEF R
  <2> QED
    BY <1>2, WFMin
<1>4. ASSUME NEW m \in S PROVE n <= m
  <2>1. m \in Nat /\ n \in Nat /\ <<m, n>> \in Nat \X Nat
    OBVIOUS
  <2>2. ~(m < n)
    BY <1>3, <2>1
  <2> QED
    BY <2>1, <2>2
<1> QED
  BY <1>4

\* An order has a first key: one with the least number of keys before it.
LEMMA First ==
  ASSUME NEW o, IsOrder(o), DOMAIN o # {}
  PROVE  \E k \in DOMAIN o : o[k] = {}
<1> DEFINE N == {Cardinality(o[k]) : k \in DOMAIN o}
<1>1. \A k \in DOMAIN o : IsFiniteSet(o[k])
  <2>1. \A k \in DOMAIN o : o[k] \in SUBSET DOMAIN o
    BY DEF IsOrder
  <2>2. IsFiniteSet(DOMAIN o)
    BY DEF IsOrder
  <2> QED
    BY <2>1, <2>2, FS_Subset
<1>2. N \in SUBSET Nat /\ N # {}
  BY <1>1, Sizes
<1>3. PICK n \in N : \A m \in N : n <= m
  BY <1>2, Least
<1>4. PICK k \in DOMAIN o : \A j \in DOMAIN o : Cardinality(o[k]) <= Cardinality(o[j])
  BY <1>3
<1>5. ASSUME NEW j \in o[k] PROVE FALSE
  <2>1. j \in DOMAIN o /\ o[j] \subseteq o[k] /\ j \notin o[j]
    BY DEF IsOrder
  <2>2. o[j] \in SUBSET o[k] /\ o[j] # o[k]
    BY <2>1
  <2>3. Cardinality(o[j]) <= Cardinality(o[k]) /\ Cardinality(o[j]) # Cardinality(o[k])
    BY <1>1, <2>2, FS_Subset
  <2> QED
    BY <1>1, <1>4, <2>1, <2>3, Sizes
<1> QED
  BY <1>5

\* Both maps: removing keys, adding one and making room keep the order; room is made.
HasOlder(e) == "older" \in DOMAIN e

Reordered(e, f) == \E S \in SUBSET e.older : f = [e EXCEPT !.older = S]

LEMMA ReorderedOlder ==
  ASSUME NEW e, HasOlder(e), NEW S
  PROVE  [e EXCEPT !.older = S].older = S /\ HasOlder([e EXCEPT !.older = S])
BY DEF HasOlder

LEMMA WithoutIs ==
  ASSUME NEW t, IsOrder(Older(t)), \A k \in DOMAIN t : HasOlder(t[k]), NEW D
  PROVE  /\ DOMAIN Without(t, D) = DOMAIN t \ D
         /\ \A k \in DOMAIN t \ D : Without(t, D)[k] = [t[k] EXCEPT !.older = @ \ D]
         /\ IsOrder(Older(Without(t, D)))
<1>1. /\ DOMAIN Without(t, D) = DOMAIN t \ D
      /\ \A k \in DOMAIN t \ D : Without(t, D)[k] = [t[k] EXCEPT !.older = @ \ D]
  BY DEF Without
<1>2. ASSUME NEW k \in DOMAIN t \ D PROVE Without(t, D)[k].older = t[k].older \ D
  <2>1. HasOlder(t[k]) /\ Without(t, D)[k] = [t[k] EXCEPT !.older = t[k].older \ D]
    BY <1>1
  <2> QED
    BY <2>1, ReorderedOlder
<1>3. Older(Without(t, D)) = [k \in DOMAIN t \ D |-> t[k].older \ D]
  BY <1>1, <1>2 DEF Older
<1>4. DOMAIN Older(t) = DOMAIN t /\ \A k \in DOMAIN t : Older(t)[k] = t[k].older
  BY DEF Older
<1>5. [k \in DOMAIN t \ D |-> t[k].older \ D]
        = [k \in DOMAIN Older(t) \ D |-> Older(t)[k] \ D]
  BY <1>4
<1> QED
  BY <1>1, <1>3, <1>5, OrderWithout

LEMMA PutIs ==
  ASSUME NEW t, IsOrder(Older(t)), NEW key, NEW e, e.older = Place(t, key)
  PROVE  /\ DOMAIN Put(t, key, e) = DOMAIN t \union {key}
         /\ Put(t, key, e)[key] = e
         /\ \A k \in DOMAIN t \ {key} : Put(t, key, e)[k] = t[k]
         /\ IsOrder(Older(Put(t, key, e)))
<1>1. /\ DOMAIN Put(t, key, e) = DOMAIN t \union {key}
      /\ Put(t, key, e)[key] = e
      /\ \A k \in DOMAIN t \ {key} : Put(t, key, e)[k] = t[k]
  BY DEF Put
<1>2. DOMAIN Older(t) = DOMAIN t /\ \A k \in DOMAIN t : Older(t)[k] = t[k].older
  BY DEF Older
<1> DEFINE r == [k \in DOMAIN Older(t) \union {key} |->
                   IF k # key THEN Older(t)[k]
                   ELSE IF key \in DOMAIN Older(t) THEN Older(t)[key] ELSE DOMAIN Older(t)]
<1>3. IsOrder(r)
  BY OrderPut
<1>4. Older(Put(t, key, e)) = r
  <2>1. DOMAIN r = DOMAIN t \union {key}
    BY <1>2
  <2>2. ASSUME NEW k \in DOMAIN t \union {key} PROVE Put(t, key, e)[k].older = r[k]
    BY <1>1, <1>2, <2>2 DEF Place
  <2> HIDE DEF r
  <2>3. Older(Put(t, key, e)) = [k \in DOMAIN t \union {key} |-> Put(t, key, e)[k].older]
    BY <1>1 DEF Older
  <2>4. r = [k \in DOMAIN t \union {key} |-> r[k]]
    BY <2>1 DEF r
  <2> QED
    BY <2>2, <2>3, <2>4
<1> QED
  BY <1>1, <1>3, <1>4

\* A table loses the keys that are `gone`, those swept and, if that is none, one; there is
\* then room for another.
LosesFor(t, D, capacity, room) ==
  \E gone \in SUBSET DOMAIN t :
    /\ DOMAIN room = DOMAIN t \ gone
    /\ \A k \in DOMAIN room : Reordered(t[k], room[k])
    /\ IsOrder(Older(room))
    /\ Size(room) < capacity
    /\ D \subseteq gone /\ (gone # D => D = {})

LEMMA MakeRoomIs ==
  ASSUME NEW t, IsOrder(Older(t)), \A k \in DOMAIN t : HasOlder(t[k]),
         NEW D, D \subseteq DOMAIN t, NEW capacity, capacity \in Nat \ {0}, Size(t) <= capacity
  PROVE  LosesFor(t, D, capacity, MakeRoom(t, Without(t, D), capacity))
<1> DEFINE w == Without(t, D)
<1>1. /\ DOMAIN w = DOMAIN t \ D
      /\ \A k \in DOMAIN t \ D : w[k] = [t[k] EXCEPT !.older = @ \ D]
      /\ IsOrder(Older(w))
  BY WithoutIs
<1>2. /\ IsFiniteSet(DOMAIN t) /\ IsFiniteSet(DOMAIN w)
      /\ Size(t) \in Nat /\ Size(w) \in Nat
  BY <1>1, Sizes DEF IsOrder, Older, Size
<1>3. CASE Size(w) < capacity
  <2>1. MakeRoom(t, w, capacity) = w
    BY <1>3 DEF MakeRoom
  <2>2. \A k \in DOMAIN w : Reordered(t[k], w[k])
    BY <1>1 DEF Reordered
  <2>3. LosesFor(t, D, capacity, w)
    BY <1>1, <1>3, <2>2 DEF LosesFor
  <2> QED
    BY <2>1, <2>3
<1>4. CASE ~(Size(w) < capacity)
  <2>1. D = {}
    <3>1. DOMAIN w \in SUBSET DOMAIN t
      BY <1>1
    <3>2. Cardinality(DOMAIN w) <= Cardinality(DOMAIN t)
          /\ (Cardinality(DOMAIN t) = Cardinality(DOMAIN w) => DOMAIN t = DOMAIN w)
      BY <1>2, <3>1, FS_Subset
    <3>3. DOMAIN t = DOMAIN w
      BY <1>2, <1>4, <3>2 DEF Size
    <3> QED
      BY <1>1, <3>3
  <2> DEFINE E == {k \in DOMAIN w : w[k].older = {}}
             rest == Without(w, E)
  <2>2. MakeRoom(t, w, capacity) = rest
    BY <1>4 DEF MakeRoom, WithoutOldest
  <2>3. \A k \in DOMAIN w : HasOlder(w[k])
    BY <1>1, ReorderedOlder
  <2>4. /\ DOMAIN rest = DOMAIN w \ E
        /\ \A k \in DOMAIN w \ E : rest[k] = [w[k] EXCEPT !.older = @ \ E]
        /\ IsOrder(Older(rest))
    <3> HIDE DEF w, E
    <3> QED
      BY <1>1, <2>3, WithoutIs
  <2>5. E # {}
    <3>1. DOMAIN w # {}
      <4>1. Cardinality({}) = 0
        BY FS_EmptySet
      <4> QED
        BY <1>2, <1>4, <4>1 DEF Size
    <3>2. DOMAIN Older(w) = DOMAIN w /\ \A k \in DOMAIN w : Older(w)[k] = w[k].older
      BY DEF Older
    <3> QED
      BY <1>1, <3>1, <3>2, First
  <2>6. Size(rest) < capacity
    <3>1. DOMAIN rest \in SUBSET DOMAIN w /\ DOMAIN rest # DOMAIN w
      BY <2>4, <2>5
    <3>2. Cardinality(DOMAIN rest) <= Cardinality(DOMAIN w)
          /\ Cardinality(DOMAIN rest) # Cardinality(DOMAIN w) /\ IsFiniteSet(DOMAIN rest)
      BY <1>2, <3>1, FS_Subset
    <3>3. Size(w) <= capacity
      BY <1>1, <2>1 DEF Size
    <3> QED
      BY <1>2, <3>2, <3>3, Sizes DEF Size
  <2>7. ASSUME NEW k \in DOMAIN rest
        PROVE  Reordered(t[k], rest[k])
    <3>1. k \in DOMAIN w \ E /\ k \in DOMAIN t
      BY <1>1, <2>4, <2>7
    <3>2. w[k] = [t[k] EXCEPT !.older = t[k].older \ D] /\ w[k].older = t[k].older \ D
      <4>1. HasOlder(t[k]) /\ w[k] = [t[k] EXCEPT !.older = t[k].older \ D]
        BY <1>1, <3>1
      <4> HIDE DEF w
      <4> QED
        BY <4>1, ReorderedOlder
    <3>3. rest[k] = [w[k] EXCEPT !.older = w[k].older \ E]
      BY <2>4, <3>1
    <3>4. rest[k] = [t[k] EXCEPT !.older = (t[k].older \ D) \ E]
      BY <3>2, <3>3
    <3> QED
      BY <3>4 DEF Reordered
  <2>8. E \in SUBSET DOMAIN t /\ DOMAIN rest = DOMAIN t \ E
    BY <1>1, <2>1, <2>4
  <2> HIDE DEF E, rest
  <2>9. LosesFor(t, D, capacity, rest)
    BY <2>1, <2>4, <2>6, <2>7, <2>8 DEF LosesFor
  <2> QED
    BY <2>2, <2>9
<1> QED
  BY <1>3, <1>4

-----------------------------------------------------------------------------
(* The limiter.                                                            *)

LEMMA Policies ==
  /\ WindowMs \in Nat \ {0} /\ MaxKeys \in Nat \ {0} /\ MaxPrincipals \in Nat \ {0}
  /\ MaxFailures \in Nat \ {0} /\ FailureWindowMs \in Nat \ {0} /\ LockMs \in Nat \ {0}
  /\ LockMs >= FailureWindowMs /\ MaxTime \in Nat
  /\ \A k \in Keys : Limit[k[1]] \in Nat \ {0}
BY AdmissionAssumption DEF Keys

\* The table in which a request for the key is counted has lost the keys that are `gone`.
LEMMA RoomForKeyIs ==
  ASSUME AdmissionTypeOK, LimiterInv, NEW key \in Keys
  PROVE  \E gone \in SUBSET DOMAIN buckets :
           /\ DOMAIN RoomForKey(key, now) = DOMAIN buckets \ gone
           /\ \A k \in DOMAIN buckets \ gone :
                LET b == RoomForKey(key, now)[k] IN
                b \in Bucket /\ b.count = buckets[k].count /\ b.resetAt = buckets[k].resetAt
           /\ IsOrder(Older(RoomForKey(key, now)))
           /\ IF key \in DOMAIN buckets THEN RoomForKey(key, now) = buckets /\ gone = {}
              ELSE Size(RoomForKey(key, now)) < MaxKeys
           /\ \A k \in gone : ~Expired(buckets[k], now)
                => \A j \in DOMAIN buckets : ~Expired(buckets[j], now)
<1> DEFINE room == RoomForKey(key, now)
<1>1. \A k \in DOMAIN buckets : buckets[k] \in Bucket
  BY DEF AdmissionTypeOK
<1>2. IsOrder(Older(buckets)) /\ Size(buckets) <= MaxKeys /\ MaxKeys \in Nat \ {0}
  BY Policies DEF AdmissionTypeOK, LimiterInv
<1>3. CASE key \in DOMAIN buckets \/ Size(buckets) < MaxKeys
  <2>1. room = buckets
    BY <1>3 DEF RoomForKey
  <2> QED
    BY <1>1, <1>2, <1>3, <2>1
<1>4. CASE ~(key \in DOMAIN buckets \/ Size(buckets) < MaxKeys)
  <2> DEFINE D == {k \in DOMAIN buckets : Expired(buckets[k], now)}
  <2>1. room = MakeRoom(buckets, Without(buckets, D), MaxKeys)
    BY <1>4 DEF RoomForKey
  <2>2. \A k \in DOMAIN buckets : HasOlder(buckets[k])
    BY <1>1 DEF HasOlder, Bucket
  <2>3. D \in SUBSET DOMAIN buckets
    OBVIOUS
  <2>4. PICK gone \in SUBSET DOMAIN buckets :
          /\ DOMAIN room = DOMAIN buckets \ gone
          /\ \A k \in DOMAIN room : Reordered(buckets[k], room[k])
          /\ IsOrder(Older(room))
          /\ Size(room) < MaxKeys
          /\ D \subseteq gone /\ (gone # D => D = {})
    <3>1. LosesFor(buckets, D, MaxKeys, MakeRoom(buckets, Without(buckets, D), MaxKeys))
      <4> HIDE DEF D
      <4> QED
        BY <1>2, <2>2, <2>3, MakeRoomIs
    <3> QED
      BY <2>1, <3>1 DEF LosesFor
  <2>5. ASSUME NEW k \in DOMAIN buckets \ gone
        PROVE  room[k] \in Bucket /\ room[k].count = buckets[k].count
                 /\ room[k].resetAt = buckets[k].resetAt
    <3> HIDE DEF room
    <3>1. PICK S \in SUBSET buckets[k].older : room[k] = [buckets[k] EXCEPT !.older = S]
      BY <2>4 DEF Reordered
    <3> QED
      BY <1>1, <3>1 DEF Bucket
  <2>6. ASSUME NEW k \in gone, ~Expired(buckets[k], now), NEW j \in DOMAIN buckets
        PROVE  ~Expired(buckets[j], now)
    BY <2>4, <2>6
  <2> HIDE DEF D, room
  <2> QED
    BY <1>4, <2>4, <2>5, <2>6 DEF room
<1> QED
  BY <1>3, <1>4

\* A request for a key whose bucket is live: counted there.
LEMMA LiveBucket ==
  ASSUME AdmissionTypeOK, LimiterInv, NEW key \in DOMAIN buckets, ~Expired(buckets[key], now),
         NEW b \in Bucket, b.resetAt = buckets[key].resetAt,
         b.count = IF buckets[key].count <= Limit[key[1]] THEN buckets[key].count + 1
                   ELSE buckets[key].count,
         NEW a, a = [at |-> now, opened |-> b.resetAt - WindowMs, nth |-> b.count]
  PROVE  /\ BucketOK(b)
         /\ \A r \in let[key] : \/ r.opened + WindowMs = b.resetAt /\ r.nth <= b.count
                                \/ r.opened + WindowMs + WindowMs <= b.resetAt
         /\ b.count <= Limit[key[1]] =>
              /\ a \in Admitted /\ AdmittedOK(a, Limit[key[1]])
              /\ a.opened + WindowMs = b.resetAt
              /\ \A r \in let[key] : Distinct(r, a) /\ Distinct(a, r)
<1> DEFINE w == WindowMs
           old == buckets[key]
<1>1. key \in Keys /\ old \in Bucket /\ BucketOK(old)
  BY DEF AdmissionTypeOK, LimiterInv
<1>2. /\ old.count \in Nat /\ old.resetAt \in Nat /\ old.count > 0
      /\ old.resetAt >= w /\ old.resetAt <= now + w /\ old.resetAt > now
  BY <1>1, Policies DEF Bucket, BucketOK, Expired, AdmissionTypeOK, Times
<1>3. w \in Nat \ {0} /\ Limit[key[1]] \in Nat \ {0} /\ now \in Nat /\ now <= MaxTime
      /\ MaxTime \in Nat
  BY <1>1, Policies DEF AdmissionTypeOK, Times
<1>4. BucketOK(b)
  BY <1>2, <1>3 DEF BucketOK
<1>5. ASSUME NEW r \in let[key]
      PROVE  /\ r \in Admitted /\ r.opened \in Nat /\ r.nth \in Nat
             /\ \/ r.opened + w = old.resetAt /\ r.nth <= old.count
                \/ r.opened + w + w <= old.resetAt
  <2>1. r \in Admitted /\ Counted(key, r)
    BY <1>1 DEF AdmissionTypeOK, LimiterInv
  <2> QED
    BY <2>1 DEF Counted, Admitted, Times
<1>6. ASSUME NEW r \in let[key]
      PROVE  \/ r.opened + WindowMs = b.resetAt /\ r.nth <= b.count
             \/ r.opened + WindowMs + WindowMs <= b.resetAt
  BY <1>2, <1>3, <1>5
<1>7. ASSUME b.count <= Limit[key[1]]
      PROVE  /\ a \in Admitted /\ AdmittedOK(a, Limit[key[1]])
             /\ a.opened + WindowMs = b.resetAt
             /\ \A r \in let[key] : Distinct(r, a) /\ Distinct(a, r)
  <2>1. b.count = old.count + 1
    BY <1>2, <1>3, <1>7
  <2>2. a.at = now /\ a.opened = old.resetAt - w /\ a.nth = old.count + 1
    BY <2>1
  <2>3. a \in Admitted /\ a.opened \in Nat /\ a.nth \in Nat
    BY <1>2, <1>3, <2>1 DEF Admitted, Times
  <2>4. AdmittedOK(a, Limit[key[1]])
    BY <1>2, <1>3, <1>7, <2>1, <2>2 DEF AdmittedOK
  <2>5. ASSUME NEW r \in let[key] PROVE Distinct(r, a) /\ Distinct(a, r)
    BY <1>2, <1>3, <1>5, <2>2 DEF Distinct
  <2> QED
    BY <1>2, <1>3, <2>2, <2>3, <2>4, <2>5
<1> QED
  BY <1>4, <1>6, <1>7

\* A request for any other key: it opens a bucket, later than the window of each before.
LEMMA NewBucket ==
  ASSUME AdmissionTypeOK, LimiterInv, NEW key \in Keys,
         key \in DOMAIN buckets => Expired(buckets[key], now),
         NEW b \in Bucket, b.resetAt = now + WindowMs, b.count = 1,
         NEW a, a = [at |-> now, opened |-> b.resetAt - WindowMs, nth |-> b.count]
  PROVE  /\ BucketOK(b)
         /\ \A r \in let[key] : r.opened + WindowMs + WindowMs <= b.resetAt
         /\ a \in Admitted /\ AdmittedOK(a, Limit[key[1]])
         /\ a.opened + WindowMs = b.resetAt
         /\ \A r \in let[key] : Distinct(r, a) /\ Distinct(a, r)
<1> DEFINE w == WindowMs
<1>1. w \in Nat \ {0} /\ Limit[key[1]] \in Nat \ {0} /\ now \in Nat /\ now <= MaxTime
      /\ MaxTime \in Nat
  BY Policies DEF AdmissionTypeOK, Times
<1>2. ASSUME NEW r \in let[key] PROVE r.opened \in Nat /\ r.opened + w <= now
  <2>1. r \in Admitted /\ Counted(key, r)
    BY DEF AdmissionTypeOK, LimiterInv
  <2>2. key \in DOMAIN buckets => buckets[key] \in Bucket /\ buckets[key].resetAt <= now
    BY DEF AdmissionTypeOK, Expired
  <2> QED
    BY <1>1, <2>1, <2>2 DEF Counted, Admitted, Times, Bucket
<1>3. a.at = now /\ a.opened = now /\ a.nth = 1
  BY <1>1
<1>4. a \in Admitted /\ AdmittedOK(a, Limit[key[1]])
  BY <1>1, <1>3 DEF Admitted, AdmittedOK, Times
<1>5. ASSUME NEW r \in let[key] PROVE Distinct(r, a) /\ Distinct(a, r)
  BY <1>1, <1>2, <1>3 DEF Distinct
<1>6. BucketOK(b)
  BY <1>1 DEF BucketOK
<1> QED
  BY <1>1, <1>2, <1>3, <1>4, <1>5, <1>6

\* The limiter's part of the types.
LimiterTypeOK ==
  /\ DOMAIN buckets \subseteq Keys /\ \A k \in DOMAIN buckets : buckets[k] \in Bucket
  /\ Size(buckets) <= MaxKeys
  /\ now \in Times
  /\ let \in [Keys -> SUBSET Admitted]

LEMMA RequestKeeps ==
  ASSUME AdmissionTypeOK, LimiterInv, NEW c \in Calls, NEW o \in Operations, NEW peer \in Peers,
         Request(c, o, peer)
  PROVE  /\ LimiterTypeOK' /\ LimiterInv'
         /\ \A k \in DOMAIN buckets \ DOMAIN buckets' : ~Expired(buckets[k], now)
              => \A j \in DOMAIN buckets : ~Expired(buckets[j], now)
<1> DEFINE key == <<o, peer>>
           limit == Limit[key[1]]
           room == RoomForKey(key, now)
           last == Current(key, now, room)
           bucket == [last EXCEPT !.count = IF @ <= limit THEN @ + 1 ELSE @]
           kept == Forgotten(let, buckets, room, LAMBDA b : ~Expired(b, now))
           admitted == [at |-> now, opened |-> bucket.resetAt - WindowMs, nth |-> bucket.count]
<1>1. /\ buckets' = Put(room, key, bucket) /\ now' = now
      /\ let' = IF bucket.count <= limit
                THEN [kept EXCEPT ![key] = @ \union {admitted}] ELSE kept
  BY DEF Request, Allowed
<1>2. key \in Keys /\ limit \in Nat \ {0} /\ WindowMs \in Nat \ {0} /\ now \in Nat
  BY Policies DEF Keys, AdmissionTypeOK, Times
<1>3. PICK gone \in SUBSET DOMAIN buckets :
        /\ DOMAIN room = DOMAIN buckets \ gone
        /\ \A k \in DOMAIN buckets \ gone :
             room[k] \in Bucket /\ room[k].count = buckets[k].count
               /\ room[k].resetAt = buckets[k].resetAt
        /\ IsOrder(Older(room))
        /\ IF key \in DOMAIN buckets THEN room = buckets /\ gone = {} ELSE Size(room) < MaxKeys
        /\ \A k \in gone : ~Expired(buckets[k], now)
             => \A j \in DOMAIN buckets : ~Expired(buckets[j], now)
  BY <1>2, RoomForKeyIs
<1>4. /\ kept \in [Keys -> SUBSET Admitted]
      /\ \A k \in Keys : kept[k] = IF k \in gone /\ ~Expired(buckets[k], now) THEN {} ELSE let[k]
  <2>1. let \in [Keys -> SUBSET Admitted] /\ DOMAIN buckets \ DOMAIN room = gone
    BY <1>3 DEF AdmissionTypeOK
  <2> HIDE DEF room
  <2> QED
    BY <2>1 DEF Forgotten
<1>5. kept[key] = let[key]
  BY <1>2, <1>3, <1>4
<1> DEFINE isLive == key \in DOMAIN buckets /\ ~Expired(buckets[key], now)
<1>6. /\ last \in [count : Nat, resetAt : Nat, older : SUBSET Keys]
      /\ last.older = Place(room, key)
      /\ IF isLive THEN last = buckets[key] ELSE last.count = 0 /\ last.resetAt = now + WindowMs
  <2>1. DOMAIN room \subseteq Keys /\ \A k \in DOMAIN room : room[k] \in Bucket
    BY <1>3 DEF AdmissionTypeOK
  <2>2. Place(room, key) \in SUBSET Keys
    BY <2>1 DEF Place, Bucket
  <2>3. CASE isLive
    <3>1. last = buckets[key] /\ room = buckets /\ last \in Bucket
      BY <1>3, <2>3 DEF Current, AdmissionTypeOK
    <3> QED
      BY <2>3, <3>1 DEF Bucket, Place
  <2>4. CASE ~isLive
    <3>1. last = [count |-> 0, resetAt |-> now + WindowMs, older |-> Place(room, key)]
      BY <2>4 DEF Current
    <3> HIDE DEF last, room, isLive
    <3> QED
      BY <1>2, <2>2, <2>4, <3>1
  <2> QED
    BY <2>3, <2>4
<1>7. /\ bucket \in Bucket /\ bucket.older = Place(room, key) /\ bucket.resetAt = last.resetAt
      /\ bucket.count = IF last.count <= limit THEN last.count + 1 ELSE last.count
  <2> HIDE DEF last, limit, room
  <2> QED
    BY <1>2, <1>6 DEF Bucket
<1>8. /\ BucketOK(bucket)
      /\ \A r \in let[key] : \/ r.opened + WindowMs = bucket.resetAt /\ r.nth <= bucket.count
                             \/ r.opened + WindowMs + WindowMs <= bucket.resetAt
      /\ bucket.count <= limit =>
           /\ admitted \in Admitted /\ AdmittedOK(admitted, limit)
           /\ admitted.opened + WindowMs = bucket.resetAt
           /\ \A r \in let[key] : Distinct(r, admitted) /\ Distinct(admitted, r)
  <2>1. CASE isLive
    <3>1. /\ bucket.resetAt = buckets[key].resetAt
          /\ bucket.count = IF buckets[key].count <= limit THEN buckets[key].count + 1
                            ELSE buckets[key].count
      BY <1>6, <1>7, <2>1
    <3> HIDE DEF bucket, last, room, kept, key
    <3> QED
      BY <1>7, <2>1, <3>1, LiveBucket
  <2>2. CASE ~isLive
    <3>1. bucket.resetAt = now + WindowMs /\ bucket.count = 1
      BY <1>2, <1>6, <1>7, <2>2
    <3> HIDE DEF bucket, last, room, kept, key
    <3> QED
      BY <1>2, <1>7, <2>2, <3>1, NewBucket
  <2> QED
    BY <2>1, <2>2
<1> HIDE DEF key, limit, room, last, bucket, kept, admitted, isLive
<1>9. /\ DOMAIN buckets' = (DOMAIN buckets \ gone) \union {key}
      /\ buckets'[key] = bucket
      /\ \A k \in DOMAIN buckets \ gone : k # key =>
           /\ buckets'[k] \in Bucket /\ buckets'[k].count = buckets[k].count
           /\ buckets'[k].resetAt = buckets[k].resetAt
      /\ IsOrder(Older(buckets'))
  <2>1. /\ DOMAIN Put(room, key, bucket) = DOMAIN room \union {key}
        /\ Put(room, key, bucket)[key] = bucket
        /\ \A k \in DOMAIN room \ {key} : Put(room, key, bucket)[k] = room[k]
        /\ IsOrder(Older(Put(room, key, bucket)))
    BY <1>3, <1>7, PutIs
  <2> QED
    BY <1>1, <1>3, <2>1
<1>10. /\ let' \in [Keys -> SUBSET Admitted]
       /\ \A k \in Keys \ {key} : let'[k] = kept[k]
       /\ let'[key] = IF bucket.count <= limit THEN let[key] \union {admitted} ELSE let[key]
  BY <1>1, <1>2, <1>4, <1>5, <1>8
<1>11. Size(buckets') <= MaxKeys
  <2>1. CASE key \in DOMAIN buckets
    <3>1. DOMAIN buckets' = DOMAIN buckets
      BY <1>3, <1>9, <2>1
    <3> QED
      BY <3>1 DEF AdmissionTypeOK, Size
  <2>2. CASE key \notin DOMAIN buckets
    <3>1. DOMAIN buckets' = DOMAIN room \union {key} /\ key \notin DOMAIN room
          /\ Cardinality(DOMAIN room) < MaxKeys
      BY <1>3, <1>9, <2>2 DEF Size
    <3>2. IsFiniteSet(DOMAIN room)
      BY <1>3 DEF IsOrder, Older
    <3>3. /\ Cardinality(DOMAIN room \union {key}) = Cardinality(DOMAIN room) + 1
          /\ Cardinality(DOMAIN room) \in Nat
      BY <3>1, <3>2, FS_AddElement, Sizes
    <3> QED
      BY <3>1, <3>3, Policies DEF Size
  <2> QED
    BY <2>1, <2>2
<1>12. LimiterTypeOK'
  <2>1. DOMAIN buckets' \subseteq Keys /\ \A k \in DOMAIN buckets' : buckets'[k] \in Bucket
    BY <1>2, <1>7, <1>9 DEF AdmissionTypeOK
  <2> QED
    BY <1>1, <1>10, <1>11, <2>1 DEF LimiterTypeOK, AdmissionTypeOK
<1>13. ASSUME NEW k \in DOMAIN buckets' PROVE BucketOK(buckets[k])'
  <2>1. CASE k = key
    BY <1>1, <1>8, <1>9, <2>1 DEF BucketOK
  <2>2. CASE k # key
    BY <1>1, <1>9, <1>13, <2>2 DEF BucketOK, LimiterInv
  <2> QED
    BY <2>1, <2>2
<1>14. ASSUME NEW k \in Keys, NEW r \in let'[k]
       PROVE  /\ AdmittedOK(r, Limit[k[1]])' /\ Counted(k, r)'
              /\ \A s \in let'[k] : Distinct(r, s)
  <2>1. \A x \in let[k] : /\ AdmittedOK(x, Limit[k[1]]) /\ Counted(k, x)
                          /\ \A s \in let[k] : Distinct(x, s)
    BY DEF LimiterInv
  <2>2. CASE k = key
    <3>1. \A x \in let[k] : AdmittedOK(x, limit) /\ \A s \in let[k] : Distinct(x, s)
      BY <2>1, <2>2 DEF limit
    <3>2. k \in DOMAIN buckets' /\ buckets'[k] = bucket
      BY <1>9, <2>2
    <3>3. CASE r \in let[k]
      <4>1. AdmittedOK(r, Limit[k[1]])'
        BY <1>1, <2>1, <3>3 DEF AdmittedOK
      <4>2. Counted(k, r)'
        BY <1>8, <2>2, <3>2, <3>3 DEF Counted
      <4>3. \A s \in let'[k] : Distinct(r, s)
        BY <1>8, <1>10, <2>2, <3>1, <3>3
      <4> QED
        BY <4>1, <4>2, <4>3
    <3>4. CASE r \notin let[k]
      <4>1. bucket.count <= limit /\ r = admitted
        BY <1>10, <1>14, <2>2, <3>4
      <4>2. AdmittedOK(r, Limit[k[1]])'
        BY <1>1, <1>8, <2>2, <4>1 DEF AdmittedOK, limit
      <4>3. Counted(k, r)'
        <5>1. r.nth = bucket.count /\ bucket.count \in Nat
          BY <1>7, <4>1 DEF admitted, Bucket
        <5> QED
          BY <1>8, <3>2, <4>1, <5>1 DEF Counted
      <4>4. Distinct(admitted, admitted)
        <5>1. admitted.opened \in Nat
          BY <1>8, <4>1 DEF Admitted, Times
        <5> QED
          BY <5>1 DEF Distinct
      <4>5. \A s \in let'[k] : Distinct(r, s)
        BY <1>8, <1>10, <2>2, <4>1, <4>4
      <4> QED
        BY <4>2, <4>3, <4>5
    <3> QED
      BY <3>3, <3>4
  <2>3. CASE k # key
    <3>1. let'[k] = kept[k] /\ r \in let[k] /\ ~(k \in gone /\ ~Expired(buckets[k], now))
          /\ let'[k] = let[k]
      BY <1>4, <1>10, <1>14, <2>3
    <3>2. AdmittedOK(r, Limit[k[1]])' /\ \A s \in let'[k] : Distinct(r, s)
      BY <1>1, <2>1, <3>1 DEF AdmittedOK
    <3>3. CASE k \in DOMAIN buckets'
      <4>1. k \in DOMAIN buckets /\ buckets'[k].count = buckets[k].count
            /\ buckets'[k].resetAt = buckets[k].resetAt
        BY <1>9, <2>3, <3>3
      <4>2. Counted(k, r)'
        BY <2>1, <3>1, <3>3, <4>1 DEF Counted
      <4> QED
        BY <3>2, <4>2
    <3>4. CASE k \notin DOMAIN buckets'
      <4>1. k \in DOMAIN buckets => Expired(buckets[k], now)
        BY <1>9, <3>1, <3>4
      <4>2. k \in DOMAIN buckets => buckets[k].resetAt \in Nat
        BY DEF AdmissionTypeOK, Bucket
      <4>3. r.opened \in Nat
        BY <3>1 DEF AdmissionTypeOK, Admitted, Times
      <4>4. r.opened + WindowMs <= now
        BY <1>2, <2>1, <3>1, <4>1, <4>2, <4>3 DEF Counted, Expired
      <4>5. Counted(k, r)'
        BY <1>1, <3>4, <4>4 DEF Counted
      <4> QED
        BY <3>2, <4>5
    <3> QED
      BY <3>3, <3>4
  <2> QED
    BY <2>2, <2>3
<1>15. LimiterInv'
  BY <1>9, <1>13, <1>14 DEF LimiterInv, Distinct
<1>16. \A k \in DOMAIN buckets \ DOMAIN buckets' : ~Expired(buckets[k], now)
         => \A j \in DOMAIN buckets : ~Expired(buckets[j], now)
  BY <1>3, <1>9
<1> QED
  BY <1>12, <1>15, <1>16

LEMMA TickKeepsLimiter ==
  ASSUME AdmissionTypeOK, LimiterInv, Tick
  PROVE  LimiterTypeOK' /\ LimiterInv'
<1>1. /\ now' = now + 1 /\ now < MaxTime /\ now \in Nat /\ MaxTime \in Nat
      /\ UNCHANGED buckets /\ WindowMs \in Nat
      /\ let' = [k \in Keys |-> {r \in let[k] : r.at + WindowMs > now'}]
  BY Policies DEF Tick, AdmissionTypeOK, Times
<1>2. \A k \in Keys : let'[k] \in SUBSET let[k]
  BY <1>1
<1>3. LimiterTypeOK'
  <2>1. let' \in [Keys -> SUBSET Admitted]
    BY <1>1 DEF AdmissionTypeOK
  <2> QED
    BY <1>1, <2>1 DEF LimiterTypeOK, AdmissionTypeOK, Times, Size
<1>4. \A k \in DOMAIN buckets' : BucketOK(buckets[k])'
  BY <1>1 DEF LimiterInv, BucketOK, AdmissionTypeOK, Bucket
<1>5. ASSUME NEW k \in Keys, NEW r \in let'[k]
      PROVE  /\ AdmittedOK(r, Limit[k[1]])' /\ Counted(k, r)'
             /\ \A s \in let'[k] : Distinct(r, s)
  <2>1. /\ r \in let[k] /\ AdmittedOK(r, Limit[k[1]]) /\ Counted(k, r)
        /\ \A s \in let'[k] : Distinct(r, s)
    BY <1>2, <1>5 DEF LimiterInv
  <2>2. r.at \in Nat /\ r.opened \in Nat
    BY <2>1 DEF AdmissionTypeOK, Admitted, Times
  <2> QED
    BY <1>1, <2>1, <2>2 DEF AdmittedOK, Counted
<1>6. IsOrder(Older(buckets'))
  BY <1>1 DEF LimiterInv
<1> QED
  BY <1>3, <1>4, <1>5, <1>6 DEF LimiterInv, Distinct

\* The requests let in within one window fall into at most two buckets, and the request that
\* opened the first of two is no longer in the window.
LEMMA RateFollows ==
  ASSUME AdmissionTypeOK, LimiterInv
  PROVE  RateIsBounded
<1> SUFFICES ASSUME NEW k \in Keys
             PROVE  Cardinality(During(let[k], now, WindowMs)) <= 2 * Limit[k[1]] - 1
  BY DEF RateIsBounded
<1> DEFINE X == During(let[k], now, WindowMs)
           n == Limit[k[1]]
           w == WindowMs
<1>1. n \in Nat \ {0} /\ w \in Nat \ {0} /\ now \in Nat
  BY Policies DEF AdmissionTypeOK, Times
<1>2. ASSUME NEW r \in X
      PROVE  /\ r.at \in Nat /\ r.opened \in Nat /\ r.nth \in 1..n
             /\ r.opened <= r.at /\ r.at < r.opened + w
             /\ r.nth = 1 => r.at = r.opened
             /\ r.at <= now /\ r.at + w > now
             /\ \A s \in X : Distinct(r, s)
  <2>1. r \in let[k] /\ r \in Admitted /\ r.at <= now /\ r.at + w > now
    BY DEF During, AdmissionTypeOK
  <2>2. AdmittedOK(r, n) /\ \A s \in X : Distinct(r, s)
    BY <2>1 DEF LimiterInv, During
  <2> QED
    BY <2>1, <2>2 DEF AdmittedOK, Admitted, Times
<1> HIDE DEF X, n, w
<1>3. CASE X = {}
  BY <1>1, <1>3, FS_EmptySet DEF X, n
<1>4. CASE X # {}
  <2>1. PICK m \in X : \A r \in X : r.opened <= m.opened
    <3>1. PICK r0 \in X : TRUE
      BY <1>4
    <3>2. CASE \E r \in X : r0.opened < r.opened
      <4>1. PICK m \in X : r0.opened < m.opened
        BY <3>2
      <4>2. ASSUME NEW r \in X PROVE r.opened <= m.opened
        <5>1. r0.opened + w <= m.opened
          BY <1>2, <4>1 DEF Distinct, w
        <5>2. m.opened < r.opened => m.opened + w <= r.opened
          BY <1>2 DEF Distinct, w
        <5>3. r.opened < r0.opened + w + w
          BY <1>1, <1>2
        <5> QED
          BY <1>1, <1>2, <5>1, <5>2, <5>3
      <4> QED
        BY <4>2
    <3>3. CASE ~\E r \in X : r0.opened < r.opened
      BY <1>2, <3>3
    <3> QED
      BY <3>2, <3>3
  <2>2. ASSUME NEW r \in X, r.opened # m.opened
        PROVE  r.nth # 1
    <3>1. r.opened + w <= m.opened
      BY <1>2, <2>1, <2>2 DEF Distinct, w
    <3> QED
      BY <1>1, <1>2, <3>1
  <2>3. ASSUME NEW r \in X, r.opened # m.opened, NEW s \in X, s.opened # m.opened
        PROVE  r.opened = s.opened
    <3>1. r.opened + w <= m.opened /\ s.opened + w <= m.opened
      BY <1>2, <2>1, <2>3 DEF Distinct, w
    <3>2. /\ r.opened < s.opened => r.opened + w <= s.opened
          /\ s.opened < r.opened => s.opened + w <= r.opened
      BY <1>2 DEF Distinct, w
    <3> QED
      BY <1>1, <1>2, <3>1, <3>2
  <2> DEFINE place == [r \in X |-> IF r.opened = m.opened THEN r.nth ELSE n + r.nth - 1]
  <2>4. place \in [X -> 1..(2 * n - 1)]
    <3>1. ASSUME NEW r \in X
          PROVE  (IF r.opened = m.opened THEN r.nth ELSE n + r.nth - 1) \in 1..(2 * n - 1)
      BY <1>1, <1>2, <2>2
    <3> QED
      BY <3>1
  <2>5. ASSUME NEW r \in X, NEW s \in X, place[r] = place[s]
        PROVE  r = s
    <3>1. /\ r.nth \in 1..n /\ s.nth \in 1..n
          /\ r.opened # m.opened => r.nth # 1
          /\ s.opened # m.opened => s.nth # 1
      BY <1>2, <2>2
    <3>2. /\ (IF r.opened = m.opened THEN r.nth ELSE n + r.nth - 1)
               = (IF s.opened = m.opened THEN s.nth ELSE n + s.nth - 1)
      BY <2>5
    <3>3. r.opened = s.opened /\ r.nth = s.nth
      BY <1>1, <2>3, <3>1, <3>2
    <3> QED
      BY <1>2, <3>3 DEF Distinct
  <2>6. place \in Injection(X, 1..(2 * n - 1))
    BY <2>4, <2>5 DEF Injection, IsInjective
  <2>7. IsFiniteSet(1..(2 * n - 1)) /\ Cardinality(1..(2 * n - 1)) = 2 * n - 1
    <3>1. 2 * n - 1 \in Int /\ 1 \in Int /\ ~(1 > 2 * n - 1) /\ (2 * n - 1) - 1 + 1 = 2 * n - 1
      BY <1>1
    <3> HIDE DEF place
    <3> QED
      BY <3>1, FS_Interval
  <2>8. Cardinality(X) <= Cardinality(1..(2 * n - 1))
    BY <2>6, <2>7, FS_Injection
  <2> QED
    BY <2>7, <2>8 DEF X, n
<1> QED
  BY <1>3, <1>4

-----------------------------------------------------------------------------
(* The throttle: what the calls being verified may still add to a window.  *)

LEMMA Potential ==
  ASSUME NEW n \in Nat, NEW i \in Nat, NEW o \in Nat, i + o <= n
  PROVE  /\ Unlocked(n, o) \in Int /\ StillLocked(n, i, o) \in Int /\ Most(n) \in Int
         /\ 2 * i <= StillLocked(n, i, o) /\ StillLocked(n, i, o) <= Unlocked(n, o)
         /\ 2 * n <= Most(n) /\ 2 * (MaxFailures - 1 + n) <= Most(n)
<1>1. MaxFailures \in Nat /\ MaxFailures >= 1
  BY Policies
<1> DEFINE x == o * (2 * n - o + 1)
<1>2. x \in Int /\ x >= 0
  <2>1. 2 * n - o + 1 \in Nat
    OBVIOUS
  <2> QED
    BY <2>1
<1>3. StillLocked(n, i, o) = 2 * i + x
  BY DEF StillLocked
<1>4. Unlocked(n, o) = x + 2 * n - 2 * o
  BY DEF Unlocked
<1>5. Most(n) = 2 * MaxFailures + n * n + n - 2 /\ n * n \in Int
  BY <1>1 DEF Most
<1>6. n <= n * n
  OBVIOUS
<1> HIDE DEF x
<1> QED
  BY <1>1, <1>2, <1>3, <1>4, <1>5, <1>6

\* One fewer of the calls that began before the window.
LEMMA PotentialFalls ==
  ASSUME NEW n \in Nat, NEW i \in Nat, NEW o \in Nat \ {0}, i + o <= n
  PROVE  /\ Unlocked(n, o - 1) <= StillLocked(n, i, o)
         /\ Unlocked(n, o - 1) <= Unlocked(n, o)
         /\ StillLocked(n, i, o - 1) <= StillLocked(n, i, o)
<1> DEFINE y == o * (2 * n - o + 1)
           z == (o - 1) * (2 * n - (o - 1) + 1)
<1>1. y \in Int /\ z \in Int
  OBVIOUS
<1>2. Unlocked(n, o - 1) = y
  BY DEF Unlocked
<1>3. Unlocked(n, o) = y + 2 * n - 2 * o
  BY DEF Unlocked
<1>4. StillLocked(n, i, o) = 2 * i + y /\ StillLocked(n, i, o - 1) = 2 * i + z
  BY DEF StillLocked
<1>5. z = y - 2 * n + 2 * o - 2
  OBVIOUS
<1> HIDE DEF y, z
<1> QED
  BY <1>1, <1>2, <1>3, <1>4, <1>5

\* The first lock of a window leaves at most all other calls.
LEMMA PotentialFirst ==
  ASSUME NEW n \in Nat, NEW i \in Nat, NEW o \in Nat, i + o <= n - 1
  PROVE  2 * MaxFailures + StillLocked(n, i, o) <= Most(n)
<1>1. MaxFailures \in Nat /\ MaxFailures >= 1
  BY Policies
<1> DEFINE d == n - o
<1>2. d \in Nat /\ d >= 1 /\ n = d + o
  OBVIOUS
<1>3. o * (2 * n - o + 1) = n * n - d * d + o
  BY <1>2
<1>4. StillLocked(n, i, o) = 2 * i + n * n - d * d + o
  <2> DEFINE y == o * (2 * n - o + 1)
  <2>1. StillLocked(n, i, o) = 2 * i + y
    BY DEF StillLocked
  <2>2. y = n * n - d * d + o /\ n * n \in Int /\ d * d \in Int
    BY <1>2, <1>3
  <2> HIDE DEF y, d
  <2> QED
    BY <1>2, <2>1, <2>2
<1>5. Most(n) = 2 * MaxFailures + n * n + n - 2
  BY <1>1 DEF Most
<1>6. d <= d * d /\ d * d \in Int /\ n * n \in Int
  BY <1>2
<1> HIDE DEF d
<1>7. 2 * i <= 2 * d - 2
  BY <1>2
<1> QED
  BY <1>1, <1>2, <1>4, <1>5, <1>6, <1>7

(* How a bound goes over from one state to the next.                       *)

LEMMA BoundEmpty ==
  ASSUME NEW n \in Nat, NEW i \in Nat, NEW o \in Nat, i + o <= n, NEW late, NEW locked
  PROVE  Bound(late, locked, 0, i, o, n)
BY Potential, Policies DEF Bound

\* Calls of any kind give up; a lock may have been renewed.
LEMMA BoundAbandoned ==
  ASSUME NEW n \in Nat, NEW i \in Nat, NEW o \in Nat, i + o <= n, NEW r \in Nat,
         NEW late \in BOOLEAN, NEW locked \in BOOLEAN, Bound(late, locked, r, i, o, n),
         NEW j \in Nat, j <= i, NEW m \in Nat, m = o \/ m = o - 1,
         NEW holds \in BOOLEAN, ~late => (locked => holds)
  PROVE  Bound(late, holds, r, j, m, n)
<1>1. Unlocked(n, m) <= Unlocked(n, o) /\ StillLocked(n, i, m) <= StillLocked(n, i, o)
  <2>1. CASE m = o
    <3>1. Unlocked(n, o) \in Int /\ StillLocked(n, i, o) \in Int
      BY Potential
    <3> QED
      BY <2>1, <3>1
  <2>2. CASE m = o - 1
    <3>1. o \in Nat \ {0}
      BY <2>2
    <3> QED
      BY <2>2, <3>1, PotentialFalls
  <2> QED
    BY <2>1, <2>2
<1>2. StillLocked(n, j, m) <= StillLocked(n, i, m)
  <2>1. m * (2 * n - m + 1) \in Int
    OBVIOUS
  <2> QED
    BY <2>1 DEF StillLocked
<1>3. /\ Unlocked(n, m) \in Int /\ StillLocked(n, j, m) \in Int /\ StillLocked(n, i, m) \in Int
      /\ Unlocked(n, o) \in Int /\ StillLocked(n, i, o) \in Int /\ Most(n) \in Int
  <2>1. j + m <= n /\ i + m <= n
    OBVIOUS
  <2> QED
    BY <2>1, Potential
<1> QED
  BY <1>1, <1>2, <1>3, Policies DEF Bound

\* A guess of the window is answered: it is the last before the lock, or renews the lock.
LEMMA BoundGuessed ==
  ASSUME NEW n \in Nat, NEW i \in Nat \ {0}, NEW o \in Nat, i + o <= n, NEW r \in Nat,
         NEW late \in BOOLEAN, NEW locked \in BOOLEAN, Bound(late, locked, r, i, o, n),
         NEW holds \in BOOLEAN, ~late => (r + 1 >= MaxFailures => holds)
  PROVE  Bound(late, holds, r + 1, i - 1, o, n)
<1>1. StillLocked(n, i, o) = StillLocked(n, i - 1, o) + 2
  <2>1. o * (2 * n - o + 1) \in Int
    OBVIOUS
  <2> QED
    BY <2>1 DEF StillLocked
<1>2. /\ Unlocked(n, o) \in Int /\ StillLocked(n, i, o) \in Int /\ Most(n) \in Int
      /\ StillLocked(n, i - 1, o) \in Int /\ StillLocked(n, i, o) <= Unlocked(n, o)
  <2>1. i - 1 \in Nat /\ (i - 1) + o <= n
    OBVIOUS
  <2> QED
    BY <2>1, Potential
<1>3. 2 * MaxFailures + StillLocked(n, i - 1, o) <= Most(n)
  <2>1. i - 1 \in Nat /\ (i - 1) + o <= n - 1
    OBVIOUS
  <2> QED
    BY <2>1, PotentialFirst
<1> QED
  BY <1>1, <1>2, <1>3, Policies DEF Bound

\* A call that began before the window fails, and may end the lock.
LEMMA BoundReleased ==
  ASSUME NEW n \in Nat, NEW i \in Nat, NEW o \in Nat \ {0}, i + o <= n, NEW r \in Nat,
         NEW late \in BOOLEAN, NEW locked \in BOOLEAN, Bound(late, locked, r, i, o, n),
         NEW holds \in BOOLEAN
  PROVE  Bound(late, holds, r, i, o - 1, n)
<1>1. /\ Unlocked(n, o) \in Int /\ StillLocked(n, i, o) \in Int /\ Most(n) \in Int
      /\ Unlocked(n, o - 1) \in Int
  <2>1. o - 1 \in Nat /\ i + (o - 1) <= n
    OBVIOUS
  <2> QED
    BY <2>1, Potential
<1> QED
  BY <1>1, PotentialFalls DEF Bound

\* The window ends: those that began within it may all still be answered.
LEMMA BoundEnded ==
  ASSUME NEW n \in Nat, NEW i \in Nat, NEW o \in Nat, i + o <= n, NEW r \in Nat,
         NEW late \in BOOLEAN, NEW locked \in BOOLEAN, Bound(late, locked, r, i, o, n)
  PROVE  Bound(TRUE, locked, r, i, o, n)
<1>1. /\ Unlocked(n, o) \in Int /\ StillLocked(n, i, o) \in Int /\ Most(n) \in Int
      /\ 2 * i <= StillLocked(n, i, o) /\ StillLocked(n, i, o) <= Unlocked(n, o)
      /\ 2 * n <= Most(n) /\ 2 * (MaxFailures - 1 + n) <= Most(n)
  BY Potential
<1> QED
  BY <1>1, Policies DEF Bound

LEMMA BoundBounds ==
  ASSUME NEW n \in Nat, NEW i \in Nat, NEW o \in Nat, i + o <= n, NEW r \in Nat,
         NEW late \in BOOLEAN, NEW locked \in BOOLEAN, Bound(late, locked, r, i, o, n)
  PROVE  r <= MaxFailures + ((n - 1) * (n + 2)) \div 2
<1>1. 2 * r <= Most(n)
  <2>1. Bound(TRUE, locked, r, i, o, n)
    BY BoundEnded
  <2>2. Most(n) \in Int
    BY Potential
  <2> QED
    BY <2>1, <2>2 DEF Bound
<1> DEFINE x == (n - 1) * (n + 2)
<1>2. x \in Int /\ Most(n) = 2 * MaxFailures + x /\ MaxFailures \in Nat
  BY Policies DEF Most
<1> HIDE DEF x
<1>3. r <= MaxFailures + (x \div 2)
  BY <1>1, <1>2
<1> QED
  BY <1>3 DEF x

(* The throttle's table.                                                   *)

\* Entry f is entry e without some of what is past at the time.
Eases(e, f, time) ==
  /\ f.failures \subseteq e.failures
  /\ \A g \in e.failures \ f.failures : g.at + FailureWindowMs <= time
  /\ f.blockedUntil = e.blockedUntil \/ e.blockedUntil <= time

LEMMA PrunedIs ==
  ASSUME NEW e \in Entry, NEW time \in Nat
  PROVE  /\ Pruned(e, time) \in Entry /\ Pruned(e, time).older = e.older
         /\ Pruned(e, time).failures = {g \in e.failures : g.at + FailureWindowMs > time}
         /\ Pruned(e, time).blockedUntil = IF e.blockedUntil <= time THEN 0 ELSE e.blockedUntil
BY DEF Pruned, Entry

LEMMA PrunedEases ==
  ASSUME NEW e \in Entry, NEW time \in Nat
  PROVE  /\ Eases(e, Pruned(e, time), time)
         /\ Spent(Pruned(e, time)) => Eases(e, NoFailures, time)
<1>1. \A g \in e.failures : g.at \in Nat /\ FailureWindowMs \in Nat
  BY Policies DEF Entry, Guess, Times
<1>2. Eases(e, Pruned(e, time), time)
  BY <1>1, PrunedIs DEF Eases, Entry
<1>3. ASSUME Spent(Pruned(e, time)) PROVE Eases(e, NoFailures, time)
  BY <1>1, <1>3, PrunedIs DEF Eases, Entry, Spent, NoFailures
<1> QED
  BY <1>2, <1>3

LEMMA EntryOfIs ==
  ASSUME AdmissionTypeOK, NEW p \in Principals
  PROVE  EntryOf(p) \in Entry
BY DEF EntryOf, AdmissionTypeOK, NoFailures, Entry

\* The table in which a failure is recorded has lost the principals that are `gone`.
LEMMA RoomForPrincipalIs ==
  ASSUME AdmissionTypeOK, ThrottleInv, NEW p \in Principals, NEW time \in Nat
  PROVE  \E gone \in SUBSET DOMAIN entries :
           /\ DOMAIN RoomForPrincipal(p, time) = DOMAIN entries \ gone
           /\ \A q \in DOMAIN entries \ gone :
                /\ RoomForPrincipal(p, time)[q] \in Entry
                /\ Eases(entries[q], RoomForPrincipal(p, time)[q], time)
           /\ IsOrder(Older(RoomForPrincipal(p, time)))
           /\ IF p \in DOMAIN entries THEN RoomForPrincipal(p, time) = entries /\ gone = {}
              ELSE Size(RoomForPrincipal(p, time)) < MaxPrincipals
           /\ \A q \in gone : ~Spent(Pruned(entries[q], time))
                => \A j \in DOMAIN entries : ~Spent(Pruned(entries[j], time))
<1> DEFINE room == RoomForPrincipal(p, time)
<1>1. \A q \in DOMAIN entries : entries[q] \in Entry
  BY DEF AdmissionTypeOK
<1>2. IsOrder(Older(entries)) /\ Size(entries) <= MaxPrincipals /\ MaxPrincipals \in Nat \ {0}
  BY Policies DEF AdmissionTypeOK, ThrottleInv
<1>3. CASE p \in DOMAIN entries \/ Size(entries) < MaxPrincipals
  <2>1. room = entries
    BY <1>3 DEF RoomForPrincipal
  <2>2. \A q \in DOMAIN entries : Eases(entries[q], entries[q], time)
    BY DEF Eases
  <2>3. {} \in SUBSET DOMAIN entries /\ DOMAIN entries \ {} = DOMAIN entries
    OBVIOUS
  <2> QED
    BY <1>1, <1>2, <1>3, <2>1, <2>2, <2>3
<1>4. CASE ~(p \in DOMAIN entries \/ Size(entries) < MaxPrincipals)
  <2> DEFINE pruned == [q \in DOMAIN entries |-> Pruned(entries[q], time)]
             D == {q \in DOMAIN pruned : Spent(pruned[q])}
  <2>1. room = MakeRoom(pruned, Without(pruned, D), MaxPrincipals)
    BY <1>4 DEF RoomForPrincipal
  <2>2. /\ DOMAIN pruned = DOMAIN entries
        /\ \A q \in DOMAIN entries :
             /\ pruned[q] = Pruned(entries[q], time)
             /\ pruned[q] \in Entry /\ pruned[q].older = entries[q].older
             /\ Eases(entries[q], pruned[q], time)
    BY <1>1, PrunedIs, PrunedEases
  <2> HIDE DEF pruned, room
  <2>3. Older(pruned) = Older(entries) /\ Size(pruned) = Size(entries)
    BY <2>2 DEF Older, Size
  <2>4. \A q \in DOMAIN pruned : HasOlder(pruned[q])
    BY <2>2 DEF HasOlder, Entry
  <2>5. LosesFor(pruned, D, MaxPrincipals, MakeRoom(pruned, Without(pruned, D), MaxPrincipals))
    <3>1. D \subseteq DOMAIN pruned
      OBVIOUS
    <3> HIDE DEF D
    <3> QED
      BY <1>2, <2>3, <2>4, <3>1, MakeRoomIs
  <2>6. PICK gone \in SUBSET DOMAIN pruned :
          /\ DOMAIN room = DOMAIN pruned \ gone
          /\ \A q \in DOMAIN room : Reordered(pruned[q], room[q])
          /\ IsOrder(Older(room))
          /\ Size(room) < MaxPrincipals
          /\ D \subseteq gone /\ (gone # D => D = {})
    BY <2>1, <2>5 DEF LosesFor
  <2>7. ASSUME NEW q \in DOMAIN entries \ gone
        PROVE  room[q] \in Entry /\ Eases(entries[q], room[q], time)
    <3>1. PICK S \in SUBSET pruned[q].older : room[q] = [pruned[q] EXCEPT !.older = S]
      BY <2>2, <2>6 DEF Reordered
    <3>2. /\ room[q] \in Entry /\ room[q].failures = pruned[q].failures
          /\ room[q].blockedUntil = pruned[q].blockedUntil
      BY <2>2, <3>1 DEF Entry
    <3> QED
      BY <2>2, <3>2 DEF Eases
  <2>8. ASSUME NEW q \in gone, ~Spent(Pruned(entries[q], time)), NEW j \in DOMAIN entries
        PROVE  ~Spent(Pruned(entries[j], time))
    BY <2>2, <2>6, <2>8
  <2> HIDE DEF D
  <2> QED
    BY <1>4, <2>2, <2>6, <2>7, <2>8 DEF room
<1> QED
  BY <1>3, <1>4

(* The calls being verified, window by window.                             *)

LEMMA Counts ==
  ASSUME AdmissionTypeOK, ThrottleInv, NEW p \in Principals, NEW t \in Times
  PROVE  /\ IsFiniteSet(Within(p, t)) /\ IsFiniteSet(Before(p, t))
         /\ Cardinality(Within(p, t)) \in Nat /\ Cardinality(Before(p, t)) \in Nat
         /\ Cardinality(Calls) \in Nat
         /\ Cardinality(Within(p, t)) + Cardinality(Before(p, t)) <= Cardinality(Calls)
         /\ IsFiniteSet(During(guesses[p], t, FailureWindowMs)) /\ Answered(p, t) \in Nat
<1> DEFINE W == Within(p, t)
           B == Before(p, t)
<1>1. IsFiniteSet(Calls) /\ W \in SUBSET Calls /\ B \in SUBSET Calls
      /\ W \union B \in SUBSET Calls
  BY AdmissionAssumption DEF Within, Before
<1>2. W \intersect B = {}
  <2>1. \A c \in Calls : call[c].started \in Nat
    BY DEF AdmissionTypeOK, Call, Times
  <2>2. FailureWindowMs \in Nat /\ t \in Nat
    BY Policies DEF Times
  <2> QED
    BY <2>1, <2>2 DEF Within, Before
<1>3. During(guesses[p], t, FailureWindowMs) \in SUBSET guesses[p] /\ IsFiniteSet(guesses[p])
  BY DEF During, ThrottleInv, PrincipalOK, GuessesOK
<1> HIDE DEF W, B
<1>4. IsFiniteSet(W) /\ IsFiniteSet(B) /\ Cardinality(W \union B) <= Cardinality(Calls)
  BY <1>1, FS_Subset
<1>5. Cardinality(W \union B) = Cardinality(W) + Cardinality(B) - Cardinality(W \intersect B)
  BY <1>4, FS_Union
<1>6. /\ Cardinality(W) \in Nat /\ Cardinality(B) \in Nat /\ Cardinality(Calls) \in Nat
      /\ Cardinality(W \intersect B) = 0
  BY <1>1, <1>2, <1>4, Sizes, FS_EmptySet
<1>7. IsFiniteSet(During(guesses[p], t, FailureWindowMs)) /\ Answered(p, t) \in Nat
  BY <1>3, FS_Subset, Sizes DEF Answered
<1> QED
  BY <1>4, <1>5, <1>6, <1>7 DEF W, B

\* A call that is not verified for p after a step is gone from the windows of p.
LEMMA CallsApart ==
  ASSUME NEW c \in Calls, \A d \in Calls \ {c} : call'[d] = call[d], NEW p,
         ~(call'[c].phase = "verifying" /\ call'[c].principal = p), NEW t
  PROVE  Within(p, t)' = Within(p, t) \ {c} /\ Before(p, t)' = Before(p, t) \ {c}
BY DEF Within, Before

\* A principal of which a step forgets all, or only what is past, and for which no call begins.
LEMMA Unaffected ==
  ASSUME AdmissionTypeOK, ThrottleInv, NEW p \in Principals, now' = now, NEW c,
         \A t \in Times : /\ Within(p, t)' = Within(p, t) \ {c}
                          /\ Before(p, t)' = Before(p, t) \ {c},
         \/ guesses'[p] = {} /\ EntryOf(p)'.failures = {}
         \/ guesses'[p] = guesses[p] /\ Eases(EntryOf(p), EntryOf(p)', now)
  PROVE  PrincipalOK(p)'
<1>1. GuessesOK(p) /\ \A t \in Times : WindowOK(p, t)
  BY DEF ThrottleInv, PrincipalOK
<1>2. CASE guesses'[p] = {} /\ EntryOf(p)'.failures = {}
  <2>1. GuessesOK(p)'
    BY <1>2, FS_EmptySet DEF GuessesOK
  <2>2. ASSUME NEW t \in Times PROVE WindowOK(p, t)'
    <3>1. Answered(p, t)' = 0
      <4>1. During(guesses'[p], t, FailureWindowMs) = {}
        BY <1>2 DEF During
      <4> QED
        BY <4>1, FS_EmptySet DEF Answered
    <3> DEFINE i == Cardinality(Within(p, t) \ {c})
               o == Cardinality(Before(p, t) \ {c})
               n == Cardinality(Calls)
    <3>2. i \in Nat /\ o \in Nat /\ n \in Nat /\ i + o <= n
      <4>1. /\ IsFiniteSet(Within(p, t)) /\ IsFiniteSet(Before(p, t))
            /\ Cardinality(Within(p, t)) \in Nat /\ Cardinality(Before(p, t)) \in Nat
            /\ Cardinality(Within(p, t)) + Cardinality(Before(p, t)) <= n /\ n \in Nat
        BY Counts
      <4>2. /\ i = IF c \in Within(p, t) THEN Cardinality(Within(p, t)) - 1
                   ELSE Cardinality(Within(p, t))
            /\ o = IF c \in Before(p, t) THEN Cardinality(Before(p, t)) - 1
                   ELSE Cardinality(Before(p, t))
            /\ i \in Nat /\ o \in Nat
        BY <4>1, FS_RemoveElement, Sizes
      <4> HIDE DEF i, o, n
      <4> QED
        BY <4>1, <4>2
    <3>3. i = Cardinality(Within(p, t)') /\ o = Cardinality(Before(p, t)')
      OBVIOUS
    <3> HIDE DEF i, o, n
    <3>4. Bound(now > t, EntryOf(p)'.blockedUntil > t, 0, i, o, n)
      BY <3>2, BoundEmpty
    <3> QED
      BY <3>1, <3>3, <3>4 DEF WindowOK, n, Bound
  <2> QED
    BY <2>1, <2>2 DEF PrincipalOK
<1>3. CASE guesses'[p] = guesses[p] /\ Eases(EntryOf(p), EntryOf(p)', now)
  <2>1. GuessesOK(p)'
    BY <1>1, <1>3 DEF GuessesOK, Eases
  <2>2. ASSUME NEW t \in Times PROVE WindowOK(p, t)'
    <3>1. Answered(p, t)' = Answered(p, t)
      BY <1>3 DEF Answered
    <3> DEFINE j == Cardinality(Within(p, t) \ {c})
               m == Cardinality(Before(p, t) \ {c})
               i == Cardinality(Within(p, t))
               o == Cardinality(Before(p, t))
               n == Cardinality(Calls)
               r == Answered(p, t)
               late == now > t
               locked == EntryOf(p).blockedUntil > t
               holds == EntryOf(p)'.blockedUntil > t
    <3>2. /\ IsFiniteSet(Within(p, t)) /\ IsFiniteSet(Before(p, t))
          /\ i \in Nat /\ o \in Nat /\ i + o <= n /\ n \in Nat /\ r \in Nat
      BY Counts
    <3>3. /\ j = IF c \in Within(p, t) THEN i - 1 ELSE i
          /\ m = IF c \in Before(p, t) THEN o - 1 ELSE o
          /\ j \in Nat /\ m \in Nat
      BY <3>2, FS_RemoveElement, Sizes
    <3>4. j = Cardinality(Within(p, t)') /\ m = Cardinality(Before(p, t)')
      OBVIOUS
    <3>5. late \in BOOLEAN /\ locked \in BOOLEAN /\ holds \in BOOLEAN
      OBVIOUS
    <3>6. ~late => (locked => holds)
      <4>1. now \in Nat /\ t \in Nat /\ EntryOf(p).blockedUntil \in Nat
        BY EntryOfIs DEF AdmissionTypeOK, Times, Entry
      <4> QED
        BY <1>3, <4>1 DEF Eases
    <3>7. Bound(late, locked, r, i, o, n)
      BY <1>1 DEF WindowOK
    <3> HIDE DEF i, o, n, j, m, r, late, locked, holds
    <3>8. Bound(late, holds, r, j, m, n)
      <4>1. j <= i /\ (m = o \/ m = o - 1)
        BY <3>2, <3>3
      <4> QED
        BY <3>2, <3>3, <3>5, <3>6, <3>7, <4>1, BoundAbandoned
    <3> QED
      BY <3>1, <3>4, <3>8 DEF WindowOK, n, r, late, holds
  <2> QED
    BY <2>1, <2>2 DEF PrincipalOK
<1> QED
  BY <1>2, <1>3

(* The steps of the throttle.                                              *)

ThrottleTypeOK ==
  /\ DOMAIN entries \subseteq Principals /\ \A p \in DOMAIN entries : entries[p] \in Entry
  /\ Size(entries) <= MaxPrincipals
  /\ call \in [Calls -> Call]
  /\ now \in Times
  /\ guesses \in [Principals -> SUBSET Guess]

\* A table that lost the keys that are gone and nothing but the past of the others.
Relaxed(table, gone, time) ==
  /\ DOMAIN table = DOMAIN entries \ gone
  /\ \A q \in DOMAIN table : table[q] \in Entry /\ Eases(entries[q], table[q], time)
  /\ IsOrder(Older(table))

LEMMA SmallerTable ==
  ASSUME AdmissionTypeOK, ThrottleInv, NEW table, DOMAIN table \subseteq DOMAIN entries
  PROVE  Size(table) <= MaxPrincipals
<1>1. IsFiniteSet(DOMAIN entries) /\ Cardinality(DOMAIN entries) <= MaxPrincipals
  BY DEF ThrottleInv, IsOrder, Older, AdmissionTypeOK, Size
<1>2. DOMAIN table \in SUBSET DOMAIN entries
  OBVIOUS
<1>3. IsFiniteSet(DOMAIN table) /\ Cardinality(DOMAIN table) <= Cardinality(DOMAIN entries)
  BY <1>1, <1>2, FS_Subset
<1> QED
  BY <1>1, <1>3, Sizes, Policies DEF Size

LEMMA DroppedIs ==
  ASSUME AdmissionTypeOK, ThrottleInv, NEW p, NEW time
  PROVE  Relaxed(Without(entries, {p}), {p}, time)
<1>1. IsOrder(Older(entries)) /\ \A q \in DOMAIN entries : entries[q] \in Entry
  BY DEF AdmissionTypeOK, ThrottleInv
<1>2. \A q \in DOMAIN entries : HasOlder(entries[q])
  BY <1>1 DEF HasOlder, Entry
<1>3. /\ DOMAIN Without(entries, {p}) = DOMAIN entries \ {p}
      /\ \A q \in DOMAIN entries \ {p} :
           Without(entries, {p})[q] = [entries[q] EXCEPT !.older = @ \ {p}]
      /\ IsOrder(Older(Without(entries, {p})))
  BY <1>1, <1>2, WithoutIs
<1>4. ASSUME NEW e \in Entry
      PROVE  LET f == [e EXCEPT !.older = @ \ {p}] IN f \in Entry /\ Eases(e, f, time)
  BY DEF Entry, Eases
<1> QED
  BY <1>1, <1>3, <1>4 DEF Relaxed

LEMMA LookedIs ==
  ASSUME AdmissionTypeOK, ThrottleInv, NEW p \in Principals
  PROVE  \E gone \in SUBSET {p} :
           /\ Relaxed(Looked(p, now), gone, now)
           /\ p \in gone /\ p \in DOMAIN entries => Eases(entries[p], NoFailures, now)
<1>1. IsOrder(Older(entries)) /\ \A q \in DOMAIN entries : entries[q] \in Entry
  BY DEF AdmissionTypeOK, ThrottleInv
<1>2. now \in Nat
  BY DEF AdmissionTypeOK, Times
<1>3. CASE p \notin DOMAIN entries
  <2>1. Looked(p, now) = entries
    BY <1>3 DEF Looked
  <2>2. \A q \in DOMAIN entries : Eases(entries[q], entries[q], now)
    BY DEF Eases
  <2>3. Relaxed(Looked(p, now), {}, now)
    BY <1>1, <2>1, <2>2 DEF Relaxed
  <2> QED
    BY <2>3
<1>4. CASE p \in DOMAIN entries /\ Spent(Pruned(entries[p], now))
  <2>1. Looked(p, now) = Without(entries, {p})
    BY <1>4 DEF Looked, EntryOf
  <2>2. Relaxed(Looked(p, now), {p}, now)
    BY <2>1, DroppedIs
  <2>3. Eases(entries[p], NoFailures, now)
    BY <1>1, <1>2, <1>4, PrunedEases
  <2> QED
    BY <2>2, <2>3
<1>5. CASE p \in DOMAIN entries /\ ~Spent(Pruned(entries[p], now))
  <2> DEFINE e == Pruned(entries[p], now)
  <2>1. Looked(p, now) = Put(entries, p, e)
    BY <1>5 DEF Looked, EntryOf
  <2>2. e \in Entry /\ e.older = Place(entries, p) /\ Eases(entries[p], e, now)
    BY <1>1, <1>2, <1>5, PrunedIs, PrunedEases DEF Place
  <2> HIDE DEF e
  <2>3. /\ DOMAIN Put(entries, p, e) = DOMAIN entries \union {p}
        /\ Put(entries, p, e)[p] = e
        /\ \A q \in DOMAIN entries \ {p} : Put(entries, p, e)[q] = entries[q]
        /\ IsOrder(Older(Put(entries, p, e)))
    BY <1>1, <2>2, PutIs
  <2>4. \A q \in DOMAIN entries : Eases(entries[q], entries[q], now)
    BY DEF Eases
  <2>5. Relaxed(Looked(p, now), {}, now)
    BY <1>1, <1>5, <2>1, <2>2, <2>3, <2>4 DEF Relaxed
  <2> QED
    BY <2>5
<1> QED
  BY <1>3, <1>4, <1>5

\* What a principal's entry becomes in such a table.
LEMMA RelaxedEntry ==
  ASSUME AdmissionTypeOK, NEW gone, Relaxed(entries', gone, now), NEW q \in Principals,
         q \in gone /\ q \in DOMAIN entries => Eases(entries[q], NoFailures, now)
  PROVE  Eases(EntryOf(q), EntryOf(q)', now)
<1>1. Eases(NoFailures, NoFailures, now)
  BY DEF Eases, NoFailures
<1>2. CASE q \in DOMAIN entries \ gone
  BY <1>2 DEF Relaxed, EntryOf
<1>3. CASE q \in DOMAIN entries /\ q \in gone
  BY <1>3 DEF Relaxed, EntryOf
<1>4. CASE q \notin DOMAIN entries
  BY <1>1, <1>4 DEF Relaxed, EntryOf
<1> QED
  BY <1>2, <1>3, <1>4

\* A step in which a call that is not verified afterwards leaves the throttle as it is.
LEMMA ThrottleUntouched ==
  ASSUME AdmissionTypeOK, ThrottleInv, UNCHANGED <<entries, now, guesses>>, NEW c \in Calls,
         call' \in [Calls -> Call], \A d \in Calls \ {c} : call'[d] = call[d],
         call'[c].phase # "verifying", CallOK(call'[c])
  PROVE  ThrottleTypeOK' /\ ThrottleInv'
<1>1. ASSUME NEW p \in Principals PROVE PrincipalOK(p)'
  <2>1. \A t \in Times : /\ Within(p, t)' = Within(p, t) \ {c}
                         /\ Before(p, t)' = Before(p, t) \ {c}
    BY CallsApart
  <2>2. guesses'[p] = guesses[p] /\ Eases(EntryOf(p), EntryOf(p)', now)
    BY DEF Eases, EntryOf
  <2> QED
    BY <2>1, <2>2, Unaffected
<1>2. \A d \in Calls : CallOK(call[d])'
  BY DEF CallOK, ThrottleInv
<1>3. IsOrder(Older(entries'))
  BY DEF ThrottleInv
<1>4. ThrottleTypeOK'
  BY DEF ThrottleTypeOK, AdmissionTypeOK, Size
<1> QED
  BY <1>1, <1>2, <1>3, <1>4 DEF ThrottleInv

LEMMA RequestKeepsThrottle ==
  ASSUME AdmissionTypeOK, ThrottleInv, NEW c \in Calls, NEW o \in Operations, NEW peer \in Peers,
         Request(c, o, peer)
  PROVE  ThrottleTypeOK' /\ ThrottleInv'
<1>1. call[c].phase = "idle" /\ UNCHANGED <<entries, now, guesses>>
  BY DEF Request
<1>2. \/ UNCHANGED call
      \/ \E p \in Principals :
           call' = [call EXCEPT ![c] = [Idle EXCEPT !.phase = "signing-in", !.principal = p]]
  BY DEF Request
<1>3. call \in [Calls -> Call] /\ now \in Nat /\ CallOK(call[c])
  BY DEF AdmissionTypeOK, ThrottleInv, Times
<1>4. CASE UNCHANGED call
  BY <1>1, <1>3, <1>4, ThrottleUntouched
<1>5. ASSUME NEW p \in Principals,
             call' = [call EXCEPT ![c] = [Idle EXCEPT !.phase = "signing-in", !.principal = p]]
      PROVE  ThrottleTypeOK' /\ ThrottleInv'
  <2>1. call'[c] = [phase |-> "signing-in", principal |-> p, started |-> 0]
    BY <1>3, <1>5 DEF Idle
  <2>2. call'[c] \in Call /\ CallOK(call'[c]) /\ call'[c].phase # "verifying"
    BY <1>3, <2>1, Policies DEF Call, Times, CallOK
  <2>3. call' \in [Calls -> Call] /\ \A d \in Calls \ {c} : call'[d] = call[d]
    BY <1>3, <1>5, <2>2
  <2> QED
    BY <1>1, <2>2, <2>3, ThrottleUntouched
<1> QED
  BY <1>2, <1>4, <1>5

LEMMA AbandonKeeps ==
  ASSUME AdmissionTypeOK, ThrottleInv, NEW c \in Calls, Abandon(c)
  PROVE  ThrottleTypeOK' /\ ThrottleInv'
<1>1. call' = [call EXCEPT ![c] = Idle] /\ UNCHANGED <<entries, now, guesses>>
  BY DEF Abandon
<1>2. call \in [Calls -> Call] /\ now \in Nat
  BY DEF AdmissionTypeOK, Times
<1>3. Idle \in Call /\ CallOK(Idle) /\ Idle.phase = "idle"
  BY <1>2, Policies DEF Call, Idle, CallOK, Times
<1> QED
  BY <1>1, <1>2, <1>3, ThrottleUntouched

LEMMA SucceedKeeps ==
  ASSUME AdmissionTypeOK, ThrottleInv, NEW c \in Calls, Succeed(c)
  PROVE  /\ ThrottleTypeOK' /\ ThrottleInv'
         /\ DOMAIN entries \ DOMAIN entries' \subseteq {call[c].principal}
<1> DEFINE q == call[c].principal
<1>1. /\ entries' = Without(entries, {q}) /\ guesses' = [guesses EXCEPT ![q] = {}]
      /\ call' = [call EXCEPT ![c] = Idle] /\ now' = now
  BY DEF Succeed
<1>2. /\ call \in [Calls -> Call] /\ now \in Nat /\ now \in Times
      /\ guesses \in [Principals -> SUBSET Guess] /\ DOMAIN entries \subseteq Principals
  BY DEF AdmissionTypeOK, Times
<1>3. Idle \in Call /\ CallOK(Idle)' /\ Idle.phase = "idle"
  BY <1>1, <1>2, Policies DEF Call, Idle, CallOK, Times
<1>4. q \in Principals
  BY DEF Succeed, ThrottleInv, CallOK
<1>5. Relaxed(entries', {q}, now)
  BY <1>1, DroppedIs
<1> HIDE DEF q
<1>6. ASSUME NEW p \in Principals PROVE PrincipalOK(p)'
  <2>1. \A t \in Times : /\ Within(p, t)' = Within(p, t) \ {c}
                         /\ Before(p, t)' = Before(p, t) \ {c}
    <3>1. /\ \A d \in Calls \ {c} : call'[d] = call[d]
          /\ ~(call'[c].phase = "verifying" /\ call'[c].principal = p)
      BY <1>1, <1>2, <1>3
    <3> QED
      BY <3>1, CallsApart
  <2>2. CASE p = q
    <3>1. guesses'[p] = {} /\ EntryOf(p)'.failures = {}
      BY <1>1, <1>2, <1>4, <1>5, <2>2 DEF Relaxed, EntryOf, NoFailures
    <3> QED
      BY <1>1, <2>1, <3>1, Unaffected
  <2>3. CASE p # q
    <3>1. guesses'[p] = guesses[p]
      BY <1>1, <1>2, <2>3
    <3>2. Eases(EntryOf(p), EntryOf(p)', now)
      BY <1>5, <2>3, RelaxedEntry
    <3> QED
      BY <1>1, <2>1, <3>1, <3>2, Unaffected
  <2> QED
    BY <2>2, <2>3
<1>7. \A d \in Calls : CallOK(call[d])'
  BY <1>1, <1>2, <1>3 DEF CallOK, ThrottleInv
<1>8. ThrottleTypeOK'
  <2>1. Size(entries') <= MaxPrincipals
    BY <1>5, SmallerTable DEF Relaxed
  <2>2. call' \in [Calls -> Call]
    BY <1>1, <1>2, <1>3
  <2>3. guesses' \in [Principals -> SUBSET Guess]
    BY <1>1, <1>2
  <2> QED
    BY <1>1, <1>2, <1>5, <2>1, <2>2, <2>3 DEF ThrottleTypeOK, Relaxed, Size
<1>9. DOMAIN entries \ DOMAIN entries' \subseteq {q}
  BY <1>5 DEF Relaxed
<1> QED
  BY <1>5, <1>6, <1>7, <1>8, <1>9 DEF ThrottleInv, Relaxed, q

LEMMA TickKeepsThrottle ==
  ASSUME AdmissionTypeOK, ThrottleInv, Tick
  PROVE  ThrottleTypeOK' /\ ThrottleInv'
<1>1. /\ now' = now + 1 /\ now < MaxTime /\ now \in Nat /\ MaxTime \in Nat
      /\ UNCHANGED <<entries, call, guesses>>
  BY Policies DEF Tick, AdmissionTypeOK, Times
<1>2. ThrottleTypeOK'
  BY <1>1 DEF ThrottleTypeOK, AdmissionTypeOK, Times, Size
<1>3. \A c \in Calls : CallOK(call[c])'
  BY <1>1 DEF ThrottleInv, CallOK, AdmissionTypeOK, Call, Times
<1>4. ASSUME NEW p \in Principals PROVE PrincipalOK(p)'
  <2>1. GuessesOK(p) /\ EntryOf(p)' = EntryOf(p) /\ guesses'[p] = guesses[p]
    BY <1>1 DEF ThrottleInv, PrincipalOK, EntryOf
  <2>2. GuessesOK(p)'
    <3>1. \A g \in guesses[p] : g.at \in Nat
      BY DEF AdmissionTypeOK, Guess, Times
    <3>2. FailureWindowMs \in Nat
      BY Policies
    <3> QED
      BY <1>1, <2>1, <3>1, <3>2 DEF GuessesOK
  <2>3. ASSUME NEW t \in Times PROVE WindowOK(p, t)'
    <3> DEFINE i == Cardinality(Within(p, t))
               o == Cardinality(Before(p, t))
               n == Cardinality(Calls)
               r == Answered(p, t)
               late == now > t
               locked == EntryOf(p).blockedUntil > t
    <3>1. /\ i \in Nat /\ o \in Nat /\ i + o <= n /\ n \in Nat /\ r \in Nat
          /\ late \in BOOLEAN /\ locked \in BOOLEAN
      BY Counts
    <3>2. Bound(late, locked, r, i, o, n)
      BY DEF ThrottleInv, PrincipalOK, WindowOK
    <3>3. /\ r = Answered(p, t)' /\ i = Cardinality(Within(p, t)')
          /\ o = Cardinality(Before(p, t)') /\ locked = (EntryOf(p)'.blockedUntil > t)
      BY <1>1, <2>1 DEF Answered, Within, Before
    <3>4. t \in Nat /\ (late => now' > t)
      BY <1>1 DEF Times
    <3> HIDE DEF i, o, n, r, late, locked
    <3>5. CASE now' > t
      <4>1. Bound(TRUE, locked, r, i, o, n)
        BY <3>1, <3>2, BoundEnded
      <4> QED
        BY <3>3, <3>5, <4>1 DEF WindowOK, Bound, n
    <3>6. CASE ~(now' > t)
      BY <3>2, <3>3, <3>4, <3>6 DEF WindowOK, Bound, n
    <3> QED
      BY <3>5, <3>6
  <2> QED
    BY <2>2, <2>3 DEF PrincipalOK
<1> QED
  BY <1>1, <1>2, <1>3, <1>4 DEF ThrottleInv

LEMMA BeginKeeps ==
  ASSUME AdmissionTypeOK, ThrottleInv, NEW c \in Calls, Begin(c),
         NEW q \in Principals, q = call[c].principal
  PROVE  /\ ThrottleTypeOK' /\ ThrottleInv'
         /\ DOMAIN entries \ DOMAIN entries' \subseteq {q}
<1>1. call[c].phase = "signing-in" /\ now' = now /\ guesses' = guesses
  BY DEF Begin
<1>2. /\ call \in [Calls -> Call] /\ now \in Nat /\ now \in Times
      /\ guesses \in [Principals -> SUBSET Guess] /\ DOMAIN entries \subseteq Principals
  BY DEF AdmissionTypeOK, Times
<1>3. CASE Blocked(q, now)
  <2>1. call' = [call EXCEPT ![c] = Idle] /\ UNCHANGED entries
    BY <1>3 DEF Begin
  <2>2. Idle \in Call /\ CallOK(Idle) /\ Idle.phase = "idle"
    BY <1>2, Policies DEF Call, Idle, CallOK, Times
  <2> QED
    BY <1>1, <1>2, <2>1, <2>2, ThrottleUntouched
<1>4. CASE ~Blocked(q, now)
  <2>1. /\ call' = [call EXCEPT ![c].phase = "verifying", ![c].started = now]
        /\ entries' = Looked(q, now)
    BY <1>4 DEF Begin
  <2>2. PICK gone \in SUBSET {q} :
          /\ Relaxed(entries', gone, now)
          /\ q \in gone /\ q \in DOMAIN entries => Eases(entries[q], NoFailures, now)
    BY <1>1, <2>1, LookedIs
  <2>3. /\ call' \in [Calls -> Call] /\ \A d \in Calls \ {c} : call'[d] = call[d]
        /\ call'[c].phase = "verifying" /\ call'[c].principal = q /\ call'[c].started = now
    <3>1. call'[c] = [call[c] EXCEPT !.phase = "verifying", !.started = now]
      BY <1>2, <2>1
    <3>2. call[c] \in Call
      BY <1>2
    <3>3. /\ call'[c] \in Call /\ call'[c].phase = "verifying" /\ call'[c].principal = q
          /\ call'[c].started = now
      BY <1>2, <3>1, <3>2 DEF Call
    <3> QED
      BY <1>2, <2>1, <3>3
  <2>4. ASSUME NEW p \in Principals PROVE Eases(EntryOf(p), EntryOf(p)', now)
    <3>1. p \in gone /\ p \in DOMAIN entries => Eases(entries[p], NoFailures, now)
      BY <2>2
    <3> QED
      BY <2>2, <3>1, RelaxedEntry
  <2>5. ASSUME NEW p \in Principals, p # q PROVE PrincipalOK(p)'
    <3>1. \A t \in Times : /\ Within(p, t)' = Within(p, t) \ {c}
                           /\ Before(p, t)' = Before(p, t) \ {c}
      BY <2>3, <2>5, CallsApart
    <3>2. guesses'[p] = guesses[p]
      BY <1>1
    <3> QED
      BY <1>1, <2>4, <3>1, <3>2, Unaffected
  <2>6. PrincipalOK(q)'
    <3>1. GuessesOK(q) /\ EntryOf(q) \in Entry /\ EntryOf(q).blockedUntil <= now
      BY <1>1, <1>2, <1>4, EntryOfIs DEF ThrottleInv, PrincipalOK, Blocked, Entry
    <3>2. GuessesOK(q)'
      BY <1>1, <2>4, <3>1 DEF GuessesOK, Eases
    <3>3. ASSUME NEW t \in Times PROVE WindowOK(q, t)'
      <4> DEFINE i == Cardinality(Within(q, t))
                 o == Cardinality(Before(q, t))
                 n == Cardinality(Calls)
                 r == Answered(q, t)
                 locked == EntryOf(q).blockedUntil > t
                 holds == EntryOf(q)'.blockedUntil > t
      <4>1. /\ i \in Nat /\ o \in Nat /\ i + o <= n /\ n \in Nat /\ r \in Nat
            /\ IsFiniteSet(Within(q, t)) /\ locked \in BOOLEAN /\ holds \in BOOLEAN
        BY <1>1, Counts
      <4>2. Bound(now > t, locked, r, i, o, n)
        BY <1>1 DEF ThrottleInv, PrincipalOK, WindowOK
      <4>3. Answered(q, t)' = r /\ t \in Nat /\ FailureWindowMs \in Nat \ {0}
        BY <1>1, Policies DEF Answered, Times
      <4>4. CASE now > t
        <5>1. Within(q, t)' = Within(q, t)
          BY <1>1, <1>2, <2>3, <4>3, <4>4 DEF Within
        <5> HIDE DEF i, o, n, r, locked, holds
        <5>2. 2 * r + 2 * i <= Most(n)
          BY <4>2, <4>4 DEF Bound
        <5> QED
          BY <1>1, <4>3, <4>4, <5>1, <5>2 DEF WindowOK, Bound, n, i
      <4>5. CASE now <= t /\ now + FailureWindowMs > t
        <5>1. /\ Within(q, t)' = Within(q, t) \union {c}
              /\ Before(q, t)' = Before(q, t)
          BY <1>1, <1>2, <2>3, <4>3, <4>5 DEF Within, Before
        <5> DEFINE j == Cardinality(Within(q, t) \union {c})
        <5>2. j \in Nat
          BY <4>1, FS_AddElement, Sizes
        <5>3. ~locked
          BY <1>2, <3>1, <4>3, <4>5 DEF Entry
        <5>4. ~(now > t)
          BY <1>2, <4>3, <4>5
        <5> HIDE DEF i, o, n, r, locked, holds, j
        <5>5. r < MaxFailures \/ 2 * r + Unlocked(n, o) <= Most(n)
          BY <4>2, <5>3, <5>4 DEF Bound
        <5> QED
          BY <1>1, <4>3, <5>1, <5>4, <5>5 DEF WindowOK, Bound, n, o, j, holds
      <4>6. CASE now + FailureWindowMs <= t
        <5>1. \A g \in guesses[q] : g.at \in Nat /\ g.at <= now
          <6>1. guesses[q] \in SUBSET Guess
            BY <1>2
          <6>2. \A g \in guesses[q] : g.at <= now
            BY <3>1 DEF GuessesOK
          <6>3. \A g \in Guess : g.at \in Nat
            BY DEF Guess, Times
          <6> QED
            BY <6>1, <6>2, <6>3
        <5>2. During(guesses[q], t, FailureWindowMs) = {}
          BY <1>2, <4>3, <4>6, <5>1 DEF During
        <5>3. r = 0
          BY <5>2, FS_EmptySet DEF Answered
        <5>4. ~(now > t) /\ 0 < MaxFailures
          BY <1>2, <4>3, <4>6, Policies
        <5> HIDE DEF r
        <5> QED
          BY <1>1, <4>3, <5>3, <5>4 DEF WindowOK, Bound
      <4> QED
        BY <1>2, <4>3, <4>4, <4>5, <4>6
    <3> QED
      BY <3>2, <3>3 DEF PrincipalOK
  <2>7. ASSUME NEW d \in Calls PROVE CallOK(call[d])'
    <3>1. CASE d = c
      BY <1>1, <1>2, <2>3, <3>1 DEF CallOK
    <3>2. CASE d # c
      BY <1>1, <2>3, <3>2 DEF CallOK, ThrottleInv
    <3> QED
      BY <3>1, <3>2
  <2>8. Size(entries') <= MaxPrincipals
    BY <2>2, SmallerTable DEF Relaxed
  <2>9. ThrottleTypeOK'
    BY <1>1, <1>2, <2>2, <2>3, <2>8 DEF ThrottleTypeOK, Relaxed, Size
  <2>10. IsOrder(Older(entries')) /\ DOMAIN entries \ DOMAIN entries' \subseteq {q}
    BY <2>2 DEF Relaxed
  <2> QED
    BY <2>5, <2>6, <2>7, <2>9, <2>10 DEF ThrottleInv
<1> QED
  BY <1>3, <1>4

LEMMA EasesLater ==
  ASSUME NEW e \in Entry, NEW f, NEW time \in Nat, NEW later \in Nat, time <= later,
         Eases(e, f, time)
  PROVE  Eases(e, f, later)
<1>1. \A g \in e.failures : g.at \in Nat
  BY DEF Entry, Guess, Times
<1>2. e.blockedUntil \in Nat /\ FailureWindowMs \in Nat
  BY Policies DEF Entry
<1> QED
  BY <1>1, <1>2 DEF Eases

\* The entry of a failed sign-in, whose guess is another of those that began at its time.
GuessRecorded(p, s, room, guess, e) ==
  /\ guess \in Guess /\ guess.at = s /\ guess \notin guesses[p]
  /\ guess.nth = Cardinality({g \in guesses[p] : g.at = s}) + 1
  /\ IsFiniteSet({g \in guesses[p] : g.at = s})
  /\ e \in Entry /\ e.older = Place(room, p)
  /\ e.failures = {g \in EntryOf(p).failures : g.at + FailureWindowMs > s} \union {guess}
  /\ Cardinality(e.failures) >= MaxFailures => e.blockedUntil = s + LockMs

LEMMA FailedIs ==
  ASSUME AdmissionTypeOK, ThrottleInv, NEW p \in Principals, NEW s \in Times, NEW room,
         Place(room, p) \in SUBSET Principals,
         NEW guess, guess = NewGuess(p, s)
  PROVE  GuessRecorded(p, s, room, guess, Failed(p, guess, room))
<1> DEFINE same == {g \in guesses[p] : g.at = s}
           e0 == [EntryOf(p) EXCEPT !.older = Place(room, p)]
           pruned == Pruned(e0, s)
           e1 == [pruned EXCEPT !.failures = @ \union {guess}]
           e == Failed(p, guess, room)
<1>1. GuessesOK(p) /\ guesses[p] \in SUBSET Guess /\ s \in Nat /\ LockMs \in Nat
  BY Policies DEF ThrottleInv, PrincipalOK, AdmissionTypeOK, Times
<1>2. IsFiniteSet(same) /\ Cardinality(same) \in Nat
  <2>1. same \in SUBSET guesses[p] /\ IsFiniteSet(guesses[p])
    BY <1>1 DEF GuessesOK
  <2> HIDE DEF same
  <2> QED
    BY <2>1, FS_Subset, Sizes
<1>3. /\ guess = [at |-> s, nth |-> Cardinality(same) + 1]
      /\ guess \in Guess /\ guess.at = s /\ guess.nth = Cardinality(same) + 1
  BY <1>2 DEF NewGuess, Guess
<1>4. guess \notin guesses[p]
  <2>1. \A g \in guesses[p] : g.at = s => g.nth <= Cardinality(same)
    BY <1>1 DEF GuessesOK
  <2> HIDE DEF same
  <2> QED
    BY <1>2, <1>3, <2>1
<1>5. e0 \in Entry /\ e0.failures = EntryOf(p).failures /\ e0.older = Place(room, p)
  BY EntryOfIs DEF Entry
<1> HIDE DEF e0
<1>6. /\ pruned \in Entry /\ pruned.older = Place(room, p)
      /\ pruned.failures = {g \in EntryOf(p).failures : g.at + FailureWindowMs > s}
  BY <1>1, <1>5, PrunedIs
<1> HIDE DEF pruned
<1>7. /\ e1 \in Entry /\ e1.older = Place(room, p)
      /\ e1.failures = pruned.failures \union {guess}
  BY <1>3, <1>6 DEF Entry
<1>8. e = IF Cardinality(e1.failures) >= MaxFailures
          THEN [e1 EXCEPT !.blockedUntil = s + LockMs] ELSE e1
  BY <1>3 DEF Failed, Locked, e0, pruned
<1> HIDE DEF e1, e
<1>9. /\ e \in Entry /\ e.older = e1.older /\ e.failures = e1.failures
      /\ Cardinality(e.failures) >= MaxFailures => e.blockedUntil = s + LockMs
  <2>1. CASE Cardinality(e1.failures) >= MaxFailures
    <3>1. e = [e1 EXCEPT !.blockedUntil = s + LockMs] /\ s + LockMs \in Nat
      BY <1>1, <1>8, <2>1
    <3> QED
      BY <1>7, <3>1 DEF Entry
  <2>2. CASE ~(Cardinality(e1.failures) >= MaxFailures)
    BY <1>7, <1>8, <2>2
  <2> QED
    BY <2>1, <2>2
<1> QED
  BY <1>2, <1>3, <1>4, <1>6, <1>7, <1>9 DEF e, same, GuessRecorded

\* What a failed sign-in does to the windows of its principal.
LEMMA FailedWindow ==
  ASSUME AdmissionTypeOK, ThrottleInv, NEW c \in Calls, NEW p \in Principals, NEW s \in Times,
         call[c].phase = "verifying", call[c].principal = p, call[c].started = s,
         now' = now, NEW guess, guess.at = s, guess \notin guesses[p],
         guesses'[p] = guesses[p] \union {guess},
         EntryOf(p)'.failures
           = {g \in EntryOf(p).failures : g.at + FailureWindowMs > s} \union {guess},
         Cardinality(EntryOf(p)'.failures) >= MaxFailures
           => EntryOf(p)'.blockedUntil = s + LockMs,
         NEW t \in Times,
         Within(p, t)' = Within(p, t) \ {c}, Before(p, t)' = Before(p, t) \ {c}
  PROVE  WindowOK(p, t)'
<1> DEFINE w == FailureWindowMs
           X == During(guesses[p], t, w)
           i == Cardinality(Within(p, t))
           o == Cardinality(Before(p, t))
           n == Cardinality(Calls)
           r == Answered(p, t)
           late == now > t
           locked == EntryOf(p).blockedUntil > t
           holds == EntryOf(p)'.blockedUntil > t
<1>1. /\ i \in Nat /\ o \in Nat /\ i + o <= n /\ n \in Nat /\ r \in Nat
      /\ IsFiniteSet(Within(p, t)) /\ IsFiniteSet(Before(p, t)) /\ IsFiniteSet(X)
      /\ late \in BOOLEAN /\ locked \in BOOLEAN /\ holds \in BOOLEAN
  BY Counts
<1>2. Bound(late, locked, r, i, o, n)
  BY DEF ThrottleInv, PrincipalOK, WindowOK
<1>3. /\ s \in Nat /\ t \in Nat /\ now \in Nat /\ s <= now /\ w \in Nat \ {0}
      /\ MaxFailures \in Nat \ {0} /\ LockMs \in Nat /\ LockMs >= w
  BY Policies DEF Times, AdmissionTypeOK, ThrottleInv, CallOK
<1>4. During(guesses'[p], t, w) = IF s <= t /\ s + w > t THEN X \union {guess} ELSE X
  BY DEF During
<1>5. guess \notin X /\ r = Cardinality(X)
  BY DEF During, Answered
<1>6. /\ c \in Within(p, t) <=> s <= t /\ s + w > t
      /\ c \in Before(p, t) <=> s + w <= t
  BY DEF Within, Before
<1>7. Answered(p, t)' = Cardinality(During(guesses'[p], t, w))
  BY DEF Answered
<1> HIDE DEF i, o, n, r, late, locked, holds, X, w
<1>8. CASE s <= t /\ s + w > t
  <2>1. /\ Answered(p, t)' = r + 1 /\ Cardinality(X \union {guess}) = r + 1
    <3>1. Cardinality(X \union {guess}) = Cardinality(X) + 1
      BY <1>1, <1>5, FS_AddElement
    <3>2. During(guesses'[p], t, w) = X \union {guess}
      BY <1>4, <1>8
    <3> QED
      BY <1>5, <1>7, <3>1, <3>2
  <2>2. /\ Cardinality(Within(p, t)') = i - 1 /\ i \in Nat \ {0}
        /\ Cardinality(Before(p, t)') = o
    <3>1. c \in Within(p, t) /\ c \notin Before(p, t)
      BY <1>3, <1>6, <1>8
    <3>2. Cardinality(Within(p, t) \ {c}) = i - 1 /\ Cardinality(Before(p, t) \ {c}) = o
      BY <1>1, <3>1, FS_RemoveElement DEF i, o
    <3>3. i # 0
      BY <1>1, <3>1, FS_EmptySet DEF i
    <3> QED
      BY <1>1, <3>2, <3>3
  <2>3. ~late => (r + 1 >= MaxFailures => holds)
    <3> SUFFICES ASSUME ~late, r + 1 >= MaxFailures PROVE holds
      OBVIOUS
    <3>1. now <= t
      BY <1>3 DEF late
    <3>2. X \union {guess} \subseteq EntryOf(p)'.failures
      <4>1. ASSUME NEW g \in X PROVE g \in EntryOf(p).failures /\ g.at + w > s
        <5>1. g \in guesses[p] /\ g.at + w > t
          BY DEF X, During
        <5>2. g \in EntryOf(p).failures \/ g.at + w <= now
          BY <5>1 DEF ThrottleInv, PrincipalOK, GuessesOK, w
        <5>3. g.at \in Nat
          BY <5>1 DEF AdmissionTypeOK, Guess, Times
        <5> QED
          BY <1>3, <3>1, <5>1, <5>2, <5>3
      <4> QED
        BY <4>1 DEF w
    <3>3. IsFiniteSet(EntryOf(p)'.failures)
      <4>1. EntryOf(p).failures \subseteq guesses[p] /\ IsFiniteSet(guesses[p])
        BY DEF ThrottleInv, PrincipalOK, GuessesOK
      <4>2. {g \in EntryOf(p).failures : g.at + FailureWindowMs > s} \in SUBSET guesses[p]
        BY <4>1
      <4>3. IsFiniteSet({g \in EntryOf(p).failures : g.at + FailureWindowMs > s})
        BY <4>1, <4>2, FS_Subset
      <4> QED
        BY <4>3, FS_AddElement
    <3>4. Cardinality(EntryOf(p)'.failures) >= MaxFailures
      <4>1. /\ Cardinality(EntryOf(p)'.failures) \in Nat
            /\ Cardinality(X \union {guess}) <= Cardinality(EntryOf(p)'.failures)
        BY <3>2, <3>3, FS_Subset, Sizes
      <4> QED
        BY <1>1, <1>3, <2>1, <4>1
    <3> QED
      BY <1>3, <1>8, <3>4 DEF holds
  <2>4. Bound(late, holds, r + 1, i - 1, o, n)
    BY <1>1, <1>2, <2>2, <2>3, BoundGuessed
  <2> QED
    BY <2>1, <2>2, <2>4 DEF WindowOK, late, holds, n
<1>9. CASE s + w <= t
  <2>1. /\ Answered(p, t)' = r /\ Cardinality(Within(p, t)') = i
        /\ Cardinality(Before(p, t)') = o - 1 /\ o \in Nat \ {0}
    <3>1. c \notin Within(p, t) /\ c \in Before(p, t) /\ ~(s <= t /\ s + w > t)
      BY <1>3, <1>6, <1>9
    <3>2. Cardinality(Within(p, t) \ {c}) = i /\ Cardinality(Before(p, t) \ {c}) = o - 1
      BY <1>1, <3>1, FS_RemoveElement DEF i, o
    <3>3. o # 0
      BY <1>1, <3>1, FS_EmptySet DEF o
    <3> QED
      BY <1>1, <1>4, <1>5, <1>7, <3>1, <3>2, <3>3
  <2>2. Bound(late, holds, r, i, o - 1, n)
    BY <1>1, <1>2, <2>1, BoundReleased
  <2> QED
    BY <2>1, <2>2 DEF WindowOK, late, holds, n
<1>10. CASE s > t
  <2>1. Answered(p, t)' = r /\ Within(p, t)' = Within(p, t)
    <3>1. c \notin Within(p, t) /\ ~(s <= t /\ s + w > t)
      BY <1>3, <1>6, <1>10
    <3> QED
      BY <1>4, <1>5, <1>7, <3>1
  <2>2. late
    BY <1>3, <1>10 DEF late
  <2>3. 2 * r + 2 * i <= Most(n)
    BY <1>2, <2>2 DEF Bound
  <2> QED
    BY <2>1, <2>2, <2>3 DEF WindowOK, Bound, late, n, i
<1> QED
  BY <1>3, <1>8, <1>9, <1>10

IsFor(c, p, s) == call[c].principal = p /\ call[c].started = s

LEMMA FailKeeps ==
  ASSUME AdmissionTypeOK, ThrottleInv, NEW c \in Calls, Fail(c),
         NEW p \in Principals, NEW s \in Times, IsFor(c, p, s)
  PROVE  /\ ThrottleTypeOK' /\ ThrottleInv'
         /\ \A q \in DOMAIN entries \ DOMAIN entries' : ~Spent(Pruned(entries[q], s))
              => \A j \in DOMAIN entries : ~Spent(Pruned(entries[j], s))
<1> DEFINE guess == NewGuess(p, s)
           room == RoomForPrincipal(p, s)
           kept == Forgotten(guesses, entries, room, LAMBDA e : ~Spent(Pruned(e, s)))
           new == Failed(p, guess, room)
<1>1. /\ entries' = Put(room, p, new) /\ guesses' = [kept EXCEPT ![p] = @ \union {guess}]
      /\ call' = [call EXCEPT ![c] = Idle] /\ now' = now /\ call[c].phase = "verifying"
  BY DEF Fail, IsFor
<1>2. /\ call \in [Calls -> Call] /\ now \in Nat /\ now \in Times /\ s \in Nat /\ s <= now
      /\ guesses \in [Principals -> SUBSET Guess] /\ DOMAIN entries \subseteq Principals
      /\ \A q \in DOMAIN entries : entries[q] \in Entry
  BY DEF AdmissionTypeOK, Times, ThrottleInv, CallOK, IsFor
<1>3. PICK gone \in SUBSET DOMAIN entries :
        /\ DOMAIN room = DOMAIN entries \ gone
        /\ \A q \in DOMAIN entries \ gone :
             room[q] \in Entry /\ Eases(entries[q], room[q], s)
        /\ IsOrder(Older(room))
        /\ IF p \in DOMAIN entries THEN room = entries /\ gone = {}
           ELSE Size(room) < MaxPrincipals
        /\ \A q \in gone : ~Spent(Pruned(entries[q], s))
             => \A j \in DOMAIN entries : ~Spent(Pruned(entries[j], s))
  BY <1>2, RoomForPrincipalIs
<1>4. /\ kept \in [Principals -> SUBSET Guess]
      /\ \A q \in Principals :
           kept[q] = IF q \in gone /\ ~Spent(Pruned(entries[q], s)) THEN {} ELSE guesses[q]
  <2>1. DOMAIN entries \ DOMAIN room = gone
    BY <1>3
  <2> HIDE DEF room
  <2> QED
    BY <1>2, <2>1 DEF Forgotten
<1>5. kept[p] = guesses[p]
  BY <1>3, <1>4
<1>6. Place(room, p) \in SUBSET Principals
  BY <1>2, <1>3 DEF Place, Entry
<1>7. /\ guess \in Guess /\ guess.at = s /\ guess \notin guesses[p]
      /\ guess.nth = Cardinality({g \in guesses[p] : g.at = s}) + 1
      /\ IsFiniteSet({g \in guesses[p] : g.at = s})
      /\ new \in Entry /\ new.older = Place(room, p)
      /\ new.failures = {g \in EntryOf(p).failures : g.at + FailureWindowMs > s} \union {guess}
      /\ Cardinality(new.failures) >= MaxFailures => new.blockedUntil = s + LockMs
  <2>1. guess = NewGuess(p, s)
    OBVIOUS
  <2>2. GuessRecorded(p, s, room, guess, new)
    <3> HIDE DEF room, guess
    <3> QED
      BY <1>6, <2>1, FailedIs
  <2> HIDE DEF room, guess, new
  <2> QED
    BY <2>2 DEF GuessRecorded
<1> HIDE DEF guess, room, kept, new
<1>8. /\ DOMAIN entries' = (DOMAIN entries \ gone) \union {p}
      /\ entries'[p] = new
      /\ \A q \in DOMAIN entries \ gone : q # p => entries'[q] = room[q]
      /\ IsOrder(Older(entries'))
  <2>1. /\ DOMAIN Put(room, p, new) = DOMAIN room \union {p}
        /\ Put(room, p, new)[p] = new
        /\ \A q \in DOMAIN room \ {p} : Put(room, p, new)[q] = room[q]
        /\ IsOrder(Older(Put(room, p, new)))
    <3>1. IsOrder(Older(room)) /\ new.older = Place(room, p)
      BY <1>3, <1>7
    <3> QED
      BY <3>1, PutIs
  <2> QED
    BY <1>1, <1>3, <2>1
<1>9. /\ guesses' \in [Principals -> SUBSET Guess]
      /\ guesses'[p] = guesses[p] \union {guess}
      /\ \A q \in Principals \ {p} : guesses'[q] = kept[q]
  BY <1>1, <1>4, <1>5, <1>7
<1>10. Idle \in Call /\ CallOK(Idle) /\ Idle.phase = "idle"
  BY <1>2, Policies DEF Call, Idle, CallOK, Times
<1>11. /\ call' \in [Calls -> Call] /\ \A d \in Calls \ {c} : call'[d] = call[d]
       /\ call'[c] = Idle
  BY <1>1, <1>2, <1>10
<1>12. ASSUME NEW q
       PROVE  \A t \in Times : /\ Within(q, t)' = Within(q, t) \ {c}
                               /\ Before(q, t)' = Before(q, t) \ {c}
  BY <1>10, <1>11, CallsApart
<1>13. ASSUME NEW q \in Principals, q # p PROVE PrincipalOK(q)'
  <2>1. CASE q \in gone /\ ~Spent(Pruned(entries[q], s))
    <3>1. guesses'[q] = {} /\ EntryOf(q)'.failures = {}
      BY <1>4, <1>8, <1>9, <1>13, <2>1 DEF EntryOf, NoFailures
    <3> QED
      BY <1>1, <1>12, <3>1, Unaffected
  <2>2. CASE ~(q \in gone /\ ~Spent(Pruned(entries[q], s)))
    <3>1. guesses'[q] = guesses[q]
      BY <1>4, <1>9, <1>13, <2>2
    <3>2. Eases(EntryOf(q), EntryOf(q)', s)
      <4>1. CASE q \in gone
        <5>1. Eases(entries[q], NoFailures, s)
          BY <1>2, <2>2, <4>1, PrunedEases
        <5> QED
          BY <1>8, <1>13, <4>1, <5>1 DEF EntryOf
      <4>2. CASE q \in DOMAIN entries \ gone
        BY <1>3, <1>8, <1>13, <4>2 DEF EntryOf
      <4>3. CASE q \notin DOMAIN entries
        <5>1. EntryOf(q) = NoFailures /\ EntryOf(q)' = NoFailures
          BY <1>8, <1>13, <4>3 DEF EntryOf
        <5> QED
          BY <5>1 DEF Eases, NoFailures
      <4> QED
        BY <4>1, <4>2, <4>3
    <3>3. Eases(EntryOf(q), EntryOf(q)', now)
      BY <1>2, <3>2, EntryOfIs, EasesLater
    <3> QED
      BY <1>1, <1>12, <3>1, <3>3, Unaffected
  <2> QED
    BY <2>1, <2>2
<1>14. EntryOf(p)' = new
  BY <1>8 DEF EntryOf
<1>15. GuessesOK(p)'
  <2>1. GuessesOK(p) /\ FailureWindowMs \in Nat
    BY Policies DEF ThrottleInv, PrincipalOK
  <2>2. IsFiniteSet(guesses'[p])
    BY <1>9, <2>1, FS_AddElement DEF GuessesOK
  <2>3. new.failures \subseteq guesses'[p]
    BY <1>7, <1>9, <2>1 DEF GuessesOK
  <2>4. ASSUME NEW g \in guesses'[p]
        PROVE  g.at <= now /\ (g \in new.failures \/ g.at + FailureWindowMs <= now)
    <3>1. g.at \in Nat
      <4>1. g \in Guess
        BY <1>9, <2>4
      <4> QED
        BY <4>1 DEF Guess, Times
    <3>2. CASE g = guess
      BY <1>2, <1>7, <3>2
    <3>3. CASE g \in guesses[p]
      <4>1. g.at <= now /\ (g \in EntryOf(p).failures \/ g.at + FailureWindowMs <= now)
        BY <2>1, <3>3 DEF GuessesOK
      <4> QED
        BY <1>2, <1>7, <2>1, <3>1, <4>1
    <3> QED
      BY <1>9, <3>2, <3>3
  <2>5. ASSUME NEW g \in guesses'[p]
        PROVE  g.nth <= Cardinality({h \in guesses'[p] : h.at = g.at})
    <3> DEFINE old == {h \in guesses[p] : h.at = g.at}
               later == {h \in guesses'[p] : h.at = g.at}
    <3>1. IsFiniteSet(old) /\ Cardinality(old) \in Nat
      <4>1. old \in SUBSET guesses[p] /\ IsFiniteSet(guesses[p])
        BY <2>1 DEF GuessesOK
      <4> HIDE DEF old
      <4> QED
        BY <4>1, FS_Subset, Sizes
    <3>2. later = IF g.at = s THEN old \union {guess} ELSE old
      BY <1>7, <1>9
    <3>3. guess \notin old /\ (g.at = s => guess.nth = Cardinality(old) + 1)
      BY <1>7
    <3>4. g \in guesses[p] => g.nth <= Cardinality(old)
      BY <2>1 DEF GuessesOK
    <3>5. g \in guesses[p] => g.nth \in Nat
      BY <1>2 DEF Guess
    <3>6. g \in guesses[p] \/ (g = guess /\ g.at = s)
      BY <1>7, <1>9
    <3> HIDE DEF old, later
    <3>7. Cardinality(old \union {guess}) = Cardinality(old) + 1
      BY <3>1, <3>3, FS_AddElement
    <3>8. g.nth <= Cardinality(later)
      BY <3>1, <3>2, <3>3, <3>4, <3>5, <3>6, <3>7
    <3> QED
      BY <3>8 DEF later
  <2> QED
    BY <1>1, <1>14, <2>2, <2>3, <2>4, <2>5 DEF GuessesOK
<1>16. ASSUME NEW t \in Times PROVE WindowOK(p, t)'
  <2>1. /\ EntryOf(p)'.failures
             = {g \in EntryOf(p).failures : g.at + FailureWindowMs > s} \union {guess}
        /\ Cardinality(EntryOf(p)'.failures) >= MaxFailures
             => EntryOf(p)'.blockedUntil = s + LockMs
    BY <1>7, <1>14
  <2>2. call[c].phase = "verifying" /\ call[c].principal = p /\ call[c].started = s
    BY <1>1 DEF IsFor
  <2>3. guess.at = s /\ guess \notin guesses[p] /\ guesses'[p] = guesses[p] \union {guess}
    BY <1>7, <1>9
  <2>4. Within(p, t)' = Within(p, t) \ {c} /\ Before(p, t)' = Before(p, t) \ {c}
    BY <1>12
  <2> QED
    BY <1>1, <2>1, <2>2, <2>3, <2>4, FailedWindow
<1>17. \A d \in Calls : CallOK(call[d])'
  BY <1>1, <1>10, <1>11 DEF CallOK, ThrottleInv
<1>18. Size(entries') <= MaxPrincipals
  <2>1. CASE p \in DOMAIN entries
    <3>1. DOMAIN entries' = DOMAIN entries
      BY <1>3, <1>8, <2>1
    <3> QED
      BY <3>1 DEF AdmissionTypeOK, Size
  <2>2. CASE p \notin DOMAIN entries
    <3>1. DOMAIN entries' = DOMAIN room \union {p} /\ p \notin DOMAIN room
          /\ Cardinality(DOMAIN room) < MaxPrincipals
      BY <1>3, <1>8, <2>2 DEF Size
    <3>2. IsFiniteSet(DOMAIN room)
      BY <1>3 DEF IsOrder, Older
    <3>3. /\ Cardinality(DOMAIN room \union {p}) = Cardinality(DOMAIN room) + 1
          /\ Cardinality(DOMAIN room) \in Nat
      BY <3>1, <3>2, FS_AddElement, Sizes
    <3> QED
      BY <3>1, <3>3, Policies DEF Size
  <2> QED
    BY <2>1, <2>2
<1>19. ThrottleTypeOK'
  <2>1. DOMAIN entries' \subseteq Principals /\ \A q \in DOMAIN entries' : entries'[q] \in Entry
    BY <1>2, <1>3, <1>7, <1>8
  <2> QED
    BY <1>1, <1>2, <1>9, <1>11, <1>18, <2>1 DEF ThrottleTypeOK
<1>20. \A q \in DOMAIN entries \ DOMAIN entries' : ~Spent(Pruned(entries[q], s))
         => \A j \in DOMAIN entries : ~Spent(Pruned(entries[j], s))
  BY <1>3, <1>8
<1>21. ThrottleInv'
  <2>1. PrincipalOK(p)'
    BY <1>15, <1>16 DEF PrincipalOK
  <2> QED
    BY <1>8, <1>13, <1>17, <2>1 DEF ThrottleInv
<1> QED
  BY <1>19, <1>20, <1>21

-----------------------------------------------------------------------------
(* The invariant.                                                          *)

LEMMA InitInv ==
  ASSUME Init
  PROVE  IndInv
<1>1. /\ DOMAIN buckets = {} /\ DOMAIN entries = {}
      /\ call = [c \in Calls |-> Idle] /\ now = 0
      /\ let = [k \in Keys |-> {}] /\ guesses = [p \in Principals |-> {}]
  BY DEF Init
<1>2. IsFiniteSet({}) /\ Cardinality({}) = 0
  BY FS_EmptySet
<1>3. AdmissionTypeOK
  <2>1. Idle \in Call /\ now \in Times
    BY <1>1, Policies DEF Idle, Call, Times
  <2>2. Size(buckets) <= MaxKeys /\ Size(entries) <= MaxPrincipals
    BY <1>1, <1>2, Policies DEF Size
  <2> QED
    BY <1>1, <2>1, <2>2 DEF AdmissionTypeOK
<1>4. IsOrder(Older(buckets)) /\ IsOrder(Older(entries))
  BY <1>1, <1>2 DEF IsOrder, Older
<1>5. LimiterInv
  BY <1>1, <1>4 DEF LimiterInv
<1>6. \A c \in Calls : CallOK(call[c])
  BY <1>1 DEF CallOK, Idle
<1>7. ASSUME NEW p \in Principals PROVE PrincipalOK(p)
  <2>1. guesses[p] = {} /\ EntryOf(p).failures = {}
    BY <1>1 DEF EntryOf, NoFailures
  <2>2. GuessesOK(p)
    BY <1>2, <2>1 DEF GuessesOK
  <2>3. ASSUME NEW t \in Times PROVE WindowOK(p, t)
    <3>1. Answered(p, t) = 0
      <4>1. During(guesses[p], t, FailureWindowMs) = {}
        BY <2>1 DEF During
      <4> QED
        BY <1>2, <4>1 DEF Answered
    <3>2. ~(now > t) /\ 0 < MaxFailures
      BY <1>1, Policies DEF Times
    <3> QED
      BY <3>1, <3>2 DEF WindowOK, Bound
  <2> QED
    BY <2>2, <2>3 DEF PrincipalOK
<1> QED
  BY <1>3, <1>4, <1>5, <1>6, <1>7 DEF IndInv, ThrottleInv

\* The steps of the throttle leave the limiter alone, and lose no other principal but by need.
LEMMA ThrottleStep ==
  ASSUME IndInv, NEW c \in Calls, Begin(c) \/ Fail(c) \/ Succeed(c) \/ Abandon(c)
  PROVE  /\ ThrottleTypeOK' /\ ThrottleInv'
         /\ UNCHANGED <<buckets, now, let>> /\ \A d \in Calls \ {c} : call'[d] = call[d]
         /\ \A p \in DOMAIN entries \ DOMAIN entries' :
              call[c].principal # p /\ ~Spent(Pruned(entries[p], call[c].started))
              => \A q \in DOMAIN entries : ~Spent(Pruned(entries[q], call[c].started))
<1>1. AdmissionTypeOK /\ ThrottleInv
  BY DEF IndInv
<1>2. call \in [Calls -> Call] /\ call[c].started \in Times
      /\ (call[c].phase # "idle" => call[c].principal \in Principals)
  BY <1>1 DEF AdmissionTypeOK, Call, ThrottleInv, CallOK
<1>3. UNCHANGED <<buckets, now, let>> /\ \A d \in Calls \ {c} : call'[d] = call[d]
  BY <1>2 DEF Begin, Fail, Succeed, Abandon
<1>4. CASE Begin(c)
  <2>1. call[c].principal \in Principals
    BY <1>2, <1>4 DEF Begin
  <2>2. PICK q \in Principals : q = call[c].principal
    BY <2>1
  <2> QED
    BY <1>1, <1>3, <1>4, <2>2, BeginKeeps
<1>5. CASE Fail(c)
  <2>1. call[c].principal \in Principals
    BY <1>2, <1>5 DEF Fail
  <2>2. PICK p \in Principals, s \in Times : IsFor(c, p, s)
    BY <1>2, <2>1 DEF IsFor
  <2>3. /\ ThrottleTypeOK' /\ ThrottleInv'
        /\ \A q \in DOMAIN entries \ DOMAIN entries' : ~Spent(Pruned(entries[q], s))
             => \A j \in DOMAIN entries : ~Spent(Pruned(entries[j], s))
    BY <1>1, <1>5, <2>2, FailKeeps
  <2>4. s = call[c].started
    BY <2>2 DEF IsFor
  <2> QED
    BY <1>3, <2>3, <2>4
<1>6. CASE Succeed(c)
  BY <1>1, <1>3, <1>6, SucceedKeeps
<1>7. CASE Abandon(c)
  <2>1. UNCHANGED entries
    BY <1>7 DEF Abandon
  <2> QED
    BY <1>1, <1>3, <1>7, <2>1, AbandonKeeps
<1> QED
  BY <1>4, <1>5, <1>6, <1>7

LEMMA Step ==
  ASSUME IndInv, Next
  PROVE  IndInv'
<1>1. AdmissionTypeOK /\ LimiterInv /\ ThrottleInv
  BY DEF IndInv
<1>2. LimiterTypeOK' /\ ThrottleTypeOK' => AdmissionTypeOK'
  BY DEF LimiterTypeOK, ThrottleTypeOK, AdmissionTypeOK
<1>3. ASSUME NEW c \in Calls, NEW o \in Operations, NEW peer \in Peers, Request(c, o, peer)
      PROVE  IndInv'
  BY <1>1, <1>2, <1>3, RequestKeeps, RequestKeepsThrottle DEF IndInv
<1>4. ASSUME NEW c \in Calls, Begin(c) \/ Fail(c) \/ Succeed(c) \/ Abandon(c)
      PROVE  IndInv'
  <2>1. ThrottleTypeOK' /\ ThrottleInv' /\ UNCHANGED <<buckets, now, let>>
    BY <1>4, ThrottleStep
  <2>2. LimiterTypeOK' /\ LimiterInv'
    BY <1>1, <2>1 DEF AdmissionTypeOK, LimiterTypeOK, LimiterInv, BucketOK, AdmittedOK,
                      Counted, Distinct, Size
  <2> QED
    BY <1>2, <2>1, <2>2 DEF IndInv
<1>5. CASE Tick
  BY <1>1, <1>2, <1>5, TickKeepsLimiter, TickKeepsThrottle DEF IndInv
<1> QED
  BY <1>3, <1>4, <1>5 DEF Next

\* The inductive invariant of the rate limiter and of the throttle of sign-in.
THEOREM Invariance == Spec => []IndInv
<1>1. IndInv /\ UNCHANGED vars => IndInv'
  <2> SUFFICES ASSUME IndInv, UNCHANGED vars PROVE IndInv'
    OBVIOUS
  <2>1. AdmissionTypeOK'
    BY DEF vars, IndInv, AdmissionTypeOK, Size
  <2>2. LimiterInv'
    BY DEF vars, IndInv, LimiterInv, BucketOK, AdmittedOK, Counted, Distinct
  <2>3. ASSUME NEW p \in Principals PROVE PrincipalOK(p)'
    <3>1. GuessesOK(p) /\ EntryOf(p)' = EntryOf(p)
      BY DEF vars, IndInv, ThrottleInv, PrincipalOK, EntryOf
    <3>2. GuessesOK(p)'
      BY <3>1 DEF vars, GuessesOK
    <3>3. ASSUME NEW t \in Times PROVE WindowOK(p, t)'
      <4>1. Answered(p, t)' = Answered(p, t) /\ Within(p, t)' = Within(p, t)
            /\ Before(p, t)' = Before(p, t)
        BY DEF vars, Answered, Within, Before
      <4>2. WindowOK(p, t)
        BY DEF IndInv, ThrottleInv, PrincipalOK
      <4> QED
        BY <3>1, <4>1, <4>2 DEF vars, WindowOK, Bound
    <3> QED
      BY <3>2, <3>3 DEF PrincipalOK
  <2>4. ThrottleInv'
    BY <2>3 DEF vars, IndInv, ThrottleInv, CallOK
  <2> QED
    BY <2>1, <2>2, <2>4 DEF IndInv
<1> QED
  BY <1>1, InitInv, Step, PTL DEF Spec

\* The types; neither table grows beyond its capacity.
THEOREM TypeCorrect == Spec => []AdmissionTypeOK
<1>1. IndInv => AdmissionTypeOK
  BY DEF IndInv
<1> QED
  BY <1>1, Invariance, PTL

\* A window's length lets in less than two windows' worth of requests of one peer.
THEOREM RequestsAreLimited == Spec => []RateIsBounded
<1>1. IndInv => RateIsBounded
  BY RateFollows DEF IndInv
<1> QED
  BY <1>1, Invariance, PTL

\* The wrong guesses for an address that are answered, of those that begin in one window, are
\* MaxFailures and as many more as the other calls in progress can add.
THEOREM GuessesAreLimited == Spec => []GuessesAreBounded
<1>1. IndInv => GuessesAreBounded
  <2> SUFFICES ASSUME IndInv, NEW p \in Principals, NEW t \in Times
               PROVE  Answered(p, t) <= MostGuesses
    BY DEF GuessesAreBounded, Answered
  <2> DEFINE i == Cardinality(Within(p, t))
             o == Cardinality(Before(p, t))
             n == Cardinality(Calls)
             r == Answered(p, t)
             late == now > t
             locked == EntryOf(p).blockedUntil > t
  <2>1. /\ i \in Nat /\ o \in Nat /\ i + o <= n /\ n \in Nat /\ r \in Nat
        /\ late \in BOOLEAN /\ locked \in BOOLEAN
    BY Counts DEF IndInv
  <2>2. Bound(late, locked, r, i, o, n)
    BY DEF IndInv, ThrottleInv, PrincipalOK, WindowOK
  <2> HIDE DEF i, o, r, late, locked, n
  <2>3. r <= MaxFailures + ((n - 1) * (n + 2)) \div 2
    BY <2>1, <2>2, BoundBounds
  <2> QED
    BY <2>3 DEF MostGuesses, n, r
<1> QED
  BY <1>1, Invariance, PTL

\* A full table gives up a live count or a live lock only when it holds nothing else.
THEOREM LiveGoLast == Spec => ExpiredGoFirst
<1> DEFINE Lost ==
      /\ \A k \in DOMAIN buckets \ DOMAIN buckets' :
           ~Expired(buckets[k], now) => \A j \in DOMAIN buckets : ~Expired(buckets[j], now)
      /\ \A c \in Calls, p \in DOMAIN entries \ DOMAIN entries' :
           /\ call[c] # call'[c] /\ call[c].principal # p
           /\ ~Spent(Pruned(entries[p], call[c].started))
           => \A q \in DOMAIN entries : ~Spent(Pruned(entries[q], call[c].started))
<1>1. IndInv /\ [Next]_vars => [Lost]_vars
  <2> SUFFICES ASSUME IndInv, Next PROVE Lost
    OBVIOUS
  <2>1. ASSUME NEW c \in Calls, NEW o \in Operations, NEW peer \in Peers, Request(c, o, peer)
        PROVE  Lost
    <3>1. UNCHANGED entries
      BY <2>1 DEF Request
    <3>2. AdmissionTypeOK /\ LimiterInv
      BY DEF IndInv
    <3>3. \A k \in DOMAIN buckets \ DOMAIN buckets' : ~Expired(buckets[k], now)
            => \A j \in DOMAIN buckets : ~Expired(buckets[j], now)
      BY <2>1, <3>2, RequestKeeps
    <3> QED
      BY <3>1, <3>3
  <2>2. ASSUME NEW c \in Calls, Begin(c) \/ Fail(c) \/ Succeed(c) \/ Abandon(c)
        PROVE  Lost
    BY <2>2, ThrottleStep
  <2>3. CASE Tick
    BY <2>3 DEF Tick
  <2> QED
    BY <2>1, <2>2, <2>3 DEF Next
<1> QED
  BY <1>1, Invariance, PTL DEF Spec, ExpiredGoFirst
=============================================================================

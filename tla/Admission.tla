----------------------------- MODULE Admission -----------------------------
(***************************************************************************)
(* What the API lets in: the rate limiter of HttpSecurityGuard, which      *)
(* counts requests by operation and peer (process-rate-limiter.ts), and    *)
(* the throttle of IdentityService.signIn, which counts wrong passwords by *)
(* e-mail address (process-authentication-throttle.ts).  Both are tables   *)
(* of one process, with a capacity; the throttle is asked before the slow  *)
(* verification of the password and told of its result afterwards, while   *)
(* other sign-ins for the same address run.                                *)
(***************************************************************************)
EXTENDS Naturals, FiniteSets, Functions

CONSTANTS Calls,          \* requests in progress at the same time
          Operations,     \* operation ids
          Peers,          \* client addresses
          Principals,     \* normalized e-mail addresses
          SignIn,         \* the operation authSignIn
          NoPrincipal,
          Limit,          \* limit of each operation's rate policy
          WindowMs,       \* its window
          MaxKeys,        \* capacity of the rate limiter
          MaxFailures, FailureWindowMs, LockMs,  \* policy of the throttle
          MaxPrincipals,  \* its capacity
          MaxTime         \* bound on the clock

ASSUME AdmissionAssumption ==
  /\ IsFiniteSet(Calls)
  /\ SignIn \in Operations /\ NoPrincipal \notin Principals
  /\ Limit \in [Operations -> Nat \ {0}]
  /\ {WindowMs, MaxKeys, MaxFailures, FailureWindowMs, LockMs, MaxPrincipals} \subseteq Nat \ {0}
  /\ LockMs >= FailureWindowMs   \* DEFAULT_AUTHENTICATION_THROTTLE_POLICY: both 15 minutes
  /\ MaxTime \in Nat

VARIABLES buckets,   \* the limiter's map
          entries,   \* the throttle's map
          call, now,
          let,       \* the requests let in for each key in the last window, since it last lost
                     \* a live bucket
          guesses    \* the wrong guesses answered for each principal since its last success
                     \* or the loss of a live entry

vars == <<buckets, entries, call, now, let, guesses>>

Keys == Operations \X Peers
Times == 0..MaxTime

Bucket == [count : Nat, resetAt : Nat, older : SUBSET Keys]

\* The nth request of the bucket that was opened then.
Admitted == [at : Times, opened : Times, nth : Nat]

\* The nth wrong guess for a principal by a sign-in that began then.
Guess == [at : Times, nth : Nat]

\* blockedUntil is 0 for null.
Entry == [failures : SUBSET Guess, blockedUntil : Nat, older : SUBSET Principals]

Call == [phase : {"idle", "signing-in", "verifying"}, principal : Principals \union {NoPrincipal},
         started : Times]

Idle == [phase |-> "idle", principal |-> NoPrincipal, started |-> 0]

Init ==
  /\ buckets = [k \in {} |-> {}] /\ entries = [p \in {} |-> {}]
  /\ call = [c \in Calls |-> Idle]
  /\ now = 0
  /\ let = [k \in Keys |-> {}]
  /\ guesses = [p \in Principals |-> {}]

-----------------------------------------------------------------------------
(* A Map: a function over its keys.  It is iterated in the order in which  *)
(* they were inserted, so that each entry has the keys older than its own. *)

Size(table) == Cardinality(DOMAIN table)

Without(table, keys) ==
  [k \in DOMAIN table \ keys |-> [table[k] EXCEPT !.older = @ \ keys]]

\* Map.set: a present key keeps its place.
Put(table, key, e) == [k \in DOMAIN table \union {key} |-> IF k = key THEN e ELSE table[k]]

Place(table, key) == IF key \in DOMAIN table THEN table[key].older ELSE DOMAIN table

WithoutOldest(table) == Without(table, {k \in DOMAIN table : table[k].older = {}})

\* A mutant: a full table gives up its oldest entry without looking for expired ones.
OldestFirst(table, swept, capacity) ==
  IF Size(table) < capacity THEN table ELSE WithoutOldest(table)

\* Both tables, once swept of what has expired: a full one gives up its oldest entry.
MakeRoom(table, swept, capacity) ==
  IF Size(swept) < capacity THEN swept ELSE WithoutOldest(swept)

\* A key that loses a live entry starts from nothing.
Forgotten(history, before, after, IsLive(_)) ==
  [k \in DOMAIN history |->
     IF k \in DOMAIN before \ DOMAIN after /\ IsLive(before[k]) THEN {} ELSE history[k]]

-----------------------------------------------------------------------------
(* ProcessRateLimiter.                                                     *)

Expired(b, time) == b.resetAt <= time

\* evictExpiredOrOldest, when the key is new and the table full.
RoomForKey(key, time) ==
  IF key \in DOMAIN buckets \/ Size(buckets) < MaxKeys THEN buckets
  ELSE MakeRoom(buckets, Without(buckets, {k \in DOMAIN buckets : Expired(buckets[k], time)}),
                MaxKeys)

\* A mutant: the count is compared as it was before the request.
AllowedOneMore(o, bucket) == bucket.count <= Limit[o] + 1

Allowed(o, bucket) == bucket.count <= Limit[o]

\* The bucket a request falls into: the live one, or a new one.
Current(key, time, room) ==
  IF key \in DOMAIN buckets /\ ~Expired(buckets[key], time) THEN buckets[key]
  ELSE [count |-> 0, resetAt |-> time + WindowMs, older |-> Place(room, key)]

\* HttpSecurityGuard.canActivate: the limiter counts the request, then the body's type, the
\* session, the permission and the assurance decide (`passes`).  A handler other than sign-in
\* is not of this module.  The count of a bucket stops where it no longer matters.
Request(c, o, peer) ==
  /\ call[c].phase = "idle"
  /\ LET key == <<o, peer>>
         room == RoomForKey(key, now)
         bucket == [Current(key, now, room) EXCEPT !.count = IF @ <= Limit[o] THEN @ + 1 ELSE @]
         kept == Forgotten(let, buckets, room, LAMBDA b : ~Expired(b, now))
         admitted == [at |-> now, opened |-> bucket.resetAt - WindowMs, nth |-> bucket.count]
     IN  /\ buckets' = Put(room, key, bucket)
         /\ let' = IF Allowed(o, bucket) THEN [kept EXCEPT ![key] = @ \union {admitted}] ELSE kept
         /\ \E passes \in BOOLEAN :
              IF Allowed(o, bucket) /\ passes /\ o = SignIn
              THEN \E p \in Principals :
                     call' = [call EXCEPT ![c] = [Idle EXCEPT !.phase = "signing-in", !.principal = p]]
              ELSE UNCHANGED call
  /\ UNCHANGED <<entries, now, guesses>>

-----------------------------------------------------------------------------
(* ProcessAuthenticationThrottle and IdentityService.signIn.               *)

NoFailures == [failures |-> {}, blockedUntil |-> 0, older |-> {}]

EntryOf(p) == IF p \in DOMAIN entries THEN entries[p] ELSE NoFailures

Blocked(p, time) == EntryOf(p).blockedUntil > time

Pruned(e, time) ==
  [e EXCEPT !.blockedUntil = IF @ <= time THEN 0 ELSE @,
            !.failures = {f \in @ : f.at + FailureWindowMs > time}]

Spent(e) == e.failures = {} /\ e.blockedUntil = 0

\* isBlocked: an entry that is spent is dropped.
Looked(p, time) ==
  IF p \notin DOMAIN entries THEN entries
  ELSE IF Spent(Pruned(EntryOf(p), time)) THEN Without(entries, {p})
  ELSE Put(entries, p, Pruned(EntryOf(p), time))

Begin(c) ==
  /\ call[c].phase = "signing-in"
  /\ LET p == call[c].principal
     IN  IF Blocked(p, now)
         THEN /\ call' = [call EXCEPT ![c] = Idle]
              /\ UNCHANGED entries
         ELSE /\ call' = [call EXCEPT ![c].phase = "verifying", ![c].started = now]
              /\ entries' = Looked(p, now)
  /\ UNCHANGED <<buckets, now, let, guesses>>

\* evict, when the principal is new and the table full; the rest is pruned on the way.
RoomForPrincipal(p, time) ==
  IF p \in DOMAIN entries \/ Size(entries) < MaxPrincipals THEN entries
  ELSE LET pruned == [q \in DOMAIN entries |-> Pruned(entries[q], time)]
       IN  MakeRoom(pruned, Without(pruned, {q \in DOMAIN pruned : Spent(pruned[q])}), MaxPrincipals)

\* A mutant: one failure too many.
LockedLate(e, time) ==
  IF Cardinality(e.failures) > MaxFailures THEN [e EXCEPT !.blockedUntil = time + LockMs] ELSE e

Locked(e, time) ==
  IF Cardinality(e.failures) >= MaxFailures THEN [e EXCEPT !.blockedUntil = time + LockMs] ELSE e

\* recordFailure, with the time at which the sign-in began.
Failed(p, guess, room) ==
  LET e == [EntryOf(p) EXCEPT !.older = Place(room, p)]
  IN  Locked([Pruned(e, guess.at) EXCEPT !.failures = @ \union {guess}], guess.at)

\* The guesses answered for p, this one included, that began at its time.
NewGuess(p, time) ==
  [at |-> time, nth |-> Cardinality({g \in guesses[p] : g.at = time}) + 1]

\* Unknown account, wrong password, account that may not sign in.
Fail(c) ==
  /\ call[c].phase = "verifying"
  /\ LET p == call[c].principal
         time == call[c].started
         guess == NewGuess(p, time)
         room == RoomForPrincipal(p, time)
         kept == Forgotten(guesses, entries, room, LAMBDA e : ~Spent(Pruned(e, time)))
     IN  /\ entries' = Put(room, p, Failed(p, guess, room))
         /\ guesses' = [kept EXCEPT ![p] = @ \union {guess}]
  /\ call' = [call EXCEPT ![c] = Idle]
  /\ UNCHANGED <<buckets, now, let>>

\* recordSuccess forgets the principal, failures of sign-ins that ran meanwhile included.
Succeed(c) ==
  /\ call[c].phase = "verifying"
  /\ entries' = Without(entries, {call[c].principal})
  /\ guesses' = [guesses EXCEPT ![call[c].principal] = {}]
  /\ call' = [call EXCEPT ![c] = Idle]
  /\ UNCHANGED <<buckets, now, let>>

\* The database does not answer: the request fails and nothing is recorded.
Abandon(c) ==
  /\ call[c].phase \in {"signing-in", "verifying"}
  /\ call' = [call EXCEPT ![c] = Idle]
  /\ UNCHANGED <<buckets, entries, now, let, guesses>>

Tick ==
  /\ now < MaxTime
  /\ now' = now + 1
  /\ let' = [k \in Keys |-> {r \in let[k] : r.at + WindowMs > now'}]
  /\ UNCHANGED <<buckets, entries, call, guesses>>

Next ==
  \/ \E c \in Calls, o \in Operations, peer \in Peers : Request(c, o, peer)
  \/ \E c \in Calls : Begin(c) \/ Fail(c) \/ Succeed(c) \/ Abandon(c)
  \/ Tick

Spec == Init /\ [][Next]_vars

-----------------------------------------------------------------------------
(* Properties.                                                             *)

\* Types; neither table grows beyond its capacity.
AdmissionTypeOK ==
  /\ DOMAIN buckets \subseteq Keys /\ \A k \in DOMAIN buckets : buckets[k] \in Bucket
  /\ DOMAIN entries \subseteq Principals /\ \A p \in DOMAIN entries : entries[p] \in Entry
  /\ Size(buckets) <= MaxKeys /\ Size(entries) <= MaxPrincipals
  /\ call \in [Calls -> Call]
  /\ now \in Times
  /\ let \in [Keys -> SUBSET Admitted]
  /\ guesses \in [Principals -> SUBSET Guess]

\* What happened in the last w units of time, up to t.
During(history, t, w) == {r \in history : r.at <= t /\ r.at + w > t}

\* ProcessRateLimiter: whenever one looks, a window's length lets in less than two windows'
\* worth of requests of one peer for one operation (the request that opened a bucket is as
\* long before the next one), as long as the table did not have to give up its live bucket.
RateIsBounded ==
  \A k \in Keys : Cardinality(During(let[k], now, WindowMs)) <= 2 * Limit[k[1]] - 1

\* The throttle of sign-in: how many of the wrong guesses that begin within one window for
\* an address are answered.  Beyond MaxFailures, each of the other calls may add its own, for
\* it passed before the lock; and each that began before the window writes, when it fails,
\* its own older time and so ends the lock early, which lets all the others pass again.
MostGuesses ==
  LET n == Cardinality(Calls) IN MaxFailures + ((n - 1) * (n + 2)) \div 2

GuessesAreBounded ==
  \A p \in Principals, t \in Times :
    Cardinality(During(guesses[p], t, FailureWindowMs)) <= MostGuesses

\* A full table gives up a live count or a live lock only when it holds nothing else.
ExpiredGoFirst ==
  [][/\ \A k \in DOMAIN buckets \ DOMAIN buckets' :
          ~Expired(buckets[k], now) => \A j \in DOMAIN buckets : ~Expired(buckets[j], now)
     /\ \A c \in Calls, p \in DOMAIN entries \ DOMAIN entries' :
          /\ call[c] # call'[c] /\ call[c].principal # p
          /\ ~Spent(Pruned(entries[p], call[c].started))
          => \A q \in DOMAIN entries : ~Spent(Pruned(entries[q], call[c].started))]_vars
=============================================================================

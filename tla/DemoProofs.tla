----------------------------- MODULE DemoProofs -----------------------------
(***************************************************************************)
(* The invariants of the demo, for any addresses, calls, capacity and      *)
(* window.  The two halves of the state do not touch each other:           *)
(*                                                                         *)
(*  - the limiter.  What the watched address may still get through in its  *)
(*    window is bounded by the tokens of the bucket it has.  A bucket made *)
(*    before the watch gave a token to who made it, so it has at most      *)
(*    Capacity - 1 for the watch, and at most one more bucket fits in;     *)
(*                                                                         *)
(*  - the conversations.  All are settled, except that of the chat which   *)
(*    holds the mutex: its last turn is that chat's question.              *)
(***************************************************************************)
EXTENDS Demo, TLAPS

-----------------------------------------------------------------------------
(* The inductive invariant of the limiter.                                 *)
BucketOK(b) ==
    /\ b.tokens <= Capacity - 1
    /\ b.lastTouch <= now
    /\ b.resetAt <= b.lastTouch + Window

BudgetOK(b) ==
    LET end == watched.from + Window
    IN  /\ watched.let <= 2 * Capacity - 1
        /\ now <= end /\ b.resetAt < end => watched.let + b.tokens <= Capacity - 1
        /\ now <= end => watched.let + b.tokens <= 2 * Capacity - 1

IdleOK(b) ==
    LET end == watched.from + Window
    IN  watched.let = 0 /\ b.lastTouch <= end => b.resetAt <= end

LimiterInv ==
    /\ LimiterTypeOK
    /\ \A ip \in Addresses : BucketOK(buckets[ip])
    /\ watched # Nobody => /\ watched.from <= now
                           /\ BudgetOK(buckets[watched.ip])
                           /\ IdleOK(buckets[watched.ip])

Rows == [tokens : Nat, resetAt : Int, lastTouch : Int]

(* A bucket, or none, is three numbers.                                    *)
LEMMA BucketsAreRows ==
    LimiterTypeOK => \A ip \in Addresses : buckets[ip] \in Rows
  BY LimiterAssumption DEF LimiterTypeOK, Buckets, Times, NoBucket, Rows

(* No bucket and nobody watched.                                           *)
LEMMA LimiterInitInv == LimiterInit => LimiterInv
  BY LimiterAssumption DEF LimiterInit, LimiterInv, LimiterTypeOK, Times, NoBucket, Nobody, BucketOK

(* A bucket after a request of its address was let in: its row.            *)
Spent(ip) == [Current(ip) EXCEPT !.tokens = @ - 1]

(* The row of a request that was let in: it has a token less, and either   *)
(* the old end of its window or a whole new one.                           *)
LEMMA SpentRow ==
    ASSUME LimiterInv, NEW ip \in Addresses, HasToken(ip)
    PROVE  /\ Spent(ip) \in Buckets
           /\ Spent(ip).lastTouch = now
           /\ BucketOK(Spent(ip))
           /\ \/ /\ now <= buckets[ip].resetAt
                 /\ Spent(ip).resetAt = buckets[ip].resetAt
                 /\ Spent(ip).tokens = buckets[ip].tokens - 1
              \/ /\ now > buckets[ip].resetAt
                 /\ Spent(ip).resetAt = now + Window
                 /\ Spent(ip).tokens = Capacity - 1
  <1> USE LimiterAssumption DEF LimiterInv, LimiterTypeOK, Times
  <1>1. buckets[ip] \in Rows
    BY BucketsAreRows
  <1>2. CASE Expired(ip)
    <2>1. now > buckets[ip].resetAt
      BY <1>2 DEF Expired, NoBucket
    <2>2. Spent(ip) = [tokens |-> Capacity - 1, resetAt |-> now + Window, lastTouch |-> now]
      BY <1>2 DEF Spent, Current
    <2> QED BY <2>1, <2>2 DEF BucketOK, Buckets
  <1>3. CASE ~Expired(ip)
    <2>1. now <= buckets[ip].resetAt /\ buckets[ip] \in Buckets
      BY <1>1, <1>3 DEF Expired, Rows
    <2>2. /\ Current(ip).tokens = buckets[ip].tokens
          /\ Current(ip) \in Buckets
          /\ Current(ip).lastTouch = now
          /\ Current(ip).resetAt = buckets[ip].resetAt
      BY <1>3, <2>1 DEF Current, Buckets
    <2>3. buckets[ip].tokens > 0
      BY <2>2 DEF HasToken
    <2>4. /\ Spent(ip).tokens = buckets[ip].tokens - 1
          /\ Spent(ip).lastTouch = now
          /\ Spent(ip).resetAt = buckets[ip].resetAt
          /\ Spent(ip) \in Buckets
      BY <2>1, <2>2, <2>3 DEF Spent, Buckets
    <2> QED BY <2>1, <2>3, <2>4 DEF BucketOK, Buckets
  <1> QED BY <1>2, <1>3

(* What letting a request in does to the buckets.                          *)
LEMMA AllowBuckets ==
    ASSUME LimiterInv, NEW ip \in Addresses, Allow(ip)
    PROVE  /\ HasToken(ip)
           /\ buckets' \in [Addresses -> Buckets \cup {NoBucket}]
           /\ buckets'[ip] = Spent(ip)
           /\ \A q \in Addresses \ {ip} : \/ buckets'[q] = buckets[q]
                                          \/ buckets'[q] = NoBucket /\ Stale(buckets[q])
  <1> DEFINE after == [buckets EXCEPT ![ip] = Spent(ip)]
  <1> USE LimiterAssumption DEF LimiterInv, LimiterTypeOK, Times
  <1>1. HasToken(ip) /\ buckets' \in {after, Swept(after)}
    BY DEF Allow, Spent
  <1>2. /\ Spent(ip) \in Buckets /\ Spent(ip).lastTouch = now
    BY <1>1, SpentRow
  <1>3. /\ after \in [Addresses -> Buckets \cup {NoBucket}]
        /\ after[ip] = Spent(ip)
        /\ \A q \in Addresses \ {ip} : after[q] = buckets[q]
    BY <1>2
  <1>4. ~Stale(after[ip])
    BY <1>2, <1>3 DEF Stale
  <1> HIDE DEF after
  <1>5. CASE buckets' = after
    BY <1>1, <1>3, <1>5
  <1>6. CASE buckets' = Swept(after)
    BY <1>1, <1>3, <1>4, <1>6 DEF Swept
  <1> QED BY <1>1, <1>5, <1>6

(* A request that is let in, with or without a sweep.                      *)
LEMMA AllowInv ==
    ASSUME LimiterInv, NEW ip \in Addresses, Allow(ip)
    PROVE  LimiterInv'
  <1> USE LimiterAssumption
  <1>1. /\ HasToken(ip)
        /\ buckets' \in [Addresses -> Buckets \cup {NoBucket}]
        /\ buckets'[ip] = Spent(ip)
        /\ \A q \in Addresses \ {ip} : \/ buckets'[q] = buckets[q]
                                       \/ buckets'[q] = NoBucket /\ Stale(buckets[q])
    BY AllowBuckets
  <1>2. /\ now' = now /\ now \in Times
        /\ watched' = IF InWatch(ip) THEN [watched EXCEPT !.let = @ + 1] ELSE watched
        /\ watched \in [ip : Addresses, from : Times, let : Nat] \cup {Nobody}
    BY DEF Allow, LimiterInv, LimiterTypeOK
  <1>3. \A q \in Addresses : buckets[q] \in Rows /\ BucketOK(buckets[q])
    BY BucketsAreRows DEF LimiterInv
  <1>4. /\ Spent(ip) \in Buckets
        /\ Spent(ip).lastTouch = now
        /\ BucketOK(Spent(ip))
        /\ \/ /\ now <= buckets[ip].resetAt
              /\ Spent(ip).resetAt = buckets[ip].resetAt
              /\ Spent(ip).tokens = buckets[ip].tokens - 1
           \/ /\ now > buckets[ip].resetAt
              /\ Spent(ip).resetAt = now + Window
              /\ Spent(ip).tokens = Capacity - 1
    BY <1>1, SpentRow
  <1>5. LimiterTypeOK'
    BY <1>1, <1>2 DEF LimiterTypeOK, InWatch
  <1>6. ASSUME NEW q \in Addresses PROVE BucketOK(buckets[q])'
    <2>1. CASE q = ip
      BY <1>1, <1>2, <1>4, <2>1 DEF BucketOK
    <2>2. CASE q # ip
      BY <1>1, <1>2, <1>3, <2>2 DEF BucketOK, NoBucket, Times
    <2> QED BY <2>1, <2>2
  <1>7. ASSUME (watched # Nobody)'
        PROVE  (/\ watched.from <= now
                /\ BudgetOK(buckets[watched.ip])
                /\ IdleOK(buckets[watched.ip]))'
    <2>1. /\ watched # Nobody
          /\ watched \in [ip : Addresses, from : Times, let : Nat]
      BY <1>2, <1>7 DEF InWatch
    <2>2. /\ watched.from <= now
          /\ BudgetOK(buckets[watched.ip])
          /\ IdleOK(buckets[watched.ip])
      BY <2>1 DEF LimiterInv
    <2>3. CASE watched.ip = ip
      <3>1. CASE now <= watched.from + Window
        <4>1. /\ watched'.ip = ip
              /\ watched'.from = watched.from
              /\ watched'.let = watched.let + 1
          BY <1>2, <2>1, <2>3, <3>1 DEF InWatch
        <4> QED
          BY <1>1, <1>2, <1>3, <1>4, <2>1, <2>2, <2>3, <3>1, <4>1
             DEF BudgetOK, IdleOK, Rows, Times, Buckets
      <3>2. CASE ~(now <= watched.from + Window)
        <4>1. watched' = watched
          BY <1>2, <2>1, <2>3, <3>2 DEF InWatch
        <4> QED
          BY <1>1, <1>2, <1>3, <1>4, <2>1, <2>2, <2>3, <3>2, <4>1
             DEF BudgetOK, IdleOK, Rows, Times, Buckets
      <3> QED BY <3>1, <3>2
    <2>4. CASE watched.ip # ip
      <3>1. watched' = watched
        BY <1>2, <2>1, <2>4 DEF InWatch
      <3>2. CASE buckets'[watched.ip] = buckets[watched.ip]
        BY <1>2, <2>1, <2>2, <3>1, <3>2 DEF BudgetOK, IdleOK
      <3>3. CASE buckets'[watched.ip] = NoBucket /\ Stale(buckets[watched.ip])
        BY <1>2, <1>3, <2>1, <2>2, <3>1, <3>3
           DEF BudgetOK, IdleOK, BucketOK, Stale, NoBucket, Rows, Times
      <3> QED BY <1>1, <2>1, <2>4, <3>2, <3>3
    <2> QED BY <2>3, <2>4
  <1> QED BY <1>5, <1>6, <1>7 DEF LimiterInv

(* A request that is refused: it touches its bucket and takes no token.    *)
LEMMA RefuseInv ==
    ASSUME LimiterInv, NEW ip \in Addresses, Refuse(ip)
    PROVE  LimiterInv'
  <1> USE LimiterAssumption
  <1>1. /\ now' = now /\ now \in Times /\ watched' = watched
        /\ watched \in [ip : Addresses, from : Times, let : Nat] \cup {Nobody}
        /\ buckets \in [Addresses -> Buckets \cup {NoBucket}]
        /\ buckets' = [buckets EXCEPT ![ip] = Current(ip)]
    BY DEF Refuse, LimiterInv, LimiterTypeOK
  <1>2. ~Expired(ip)
    BY DEF Refuse, HasToken, Current
  <1>3. buckets[ip] \in Buckets /\ now <= buckets[ip].resetAt
    BY <1>1, <1>2, BucketsAreRows DEF Expired, Rows, Times, LimiterInv
  <1>4. /\ Current(ip) \in Buckets
        /\ Current(ip).tokens = buckets[ip].tokens
        /\ Current(ip).resetAt = buckets[ip].resetAt
        /\ Current(ip).lastTouch = now
    BY <1>1, <1>2, <1>3 DEF Current, Buckets
  <1>5. LimiterTypeOK'
    BY <1>1, <1>4 DEF LimiterTypeOK
  <1>6. /\ BucketOK(buckets[ip])
        /\ buckets'[ip] = Current(ip)
        /\ \A q \in Addresses \ {ip} : buckets'[q] = buckets[q]
    BY <1>1 DEF LimiterInv
  <1>7. ASSUME NEW q \in Addresses PROVE BucketOK(buckets[q])'
    <2>1. CASE q = ip
      BY <1>1, <1>3, <1>4, <1>6, <2>1 DEF BucketOK, Buckets, Times
    <2>2. CASE q # ip
      BY <1>1, <1>6, <2>2 DEF BucketOK, LimiterInv
    <2> QED BY <2>1, <2>2
  <1>8. ASSUME watched' # Nobody
        PROVE  (/\ watched.from <= now
                /\ BudgetOK(buckets[watched.ip])
                /\ IdleOK(buckets[watched.ip]))'
    <2>1. /\ watched \in [ip : Addresses, from : Times, let : Nat]
          /\ watched.from <= now
          /\ BudgetOK(buckets[watched.ip])
          /\ IdleOK(buckets[watched.ip])
      BY <1>1, <1>8 DEF LimiterInv
    <2>2. CASE watched.ip = ip
      BY <1>1, <1>3, <1>4, <1>6, <2>1, <2>2 DEF BudgetOK, IdleOK, BucketOK, Buckets, Times
    <2>3. CASE watched.ip # ip
      BY <1>1, <1>6, <2>1, <2>3 DEF BudgetOK, IdleOK
    <2> QED BY <2>2, <2>3
  <1> QED BY <1>5, <1>7, <1>8 DEF LimiterInv

(* Time passes, and the watch begins or ends.                              *)
LEMMA ClockInv ==
    LimiterInv /\ (Tick \/ StartWatch \/ Forget \/ UNCHANGED limiter) => LimiterInv'
  <1> SUFFICES ASSUME LimiterInv, Tick \/ StartWatch \/ Forget \/ UNCHANGED limiter
               PROVE  LimiterInv'
    OBVIOUS
  <1> USE LimiterAssumption
  <1>1. \A q \in Addresses : buckets[q] \in Rows /\ BucketOK(buckets[q])
    BY BucketsAreRows DEF LimiterInv
  <1>2. CASE Tick
    BY <1>1, <1>2 DEF Tick, LimiterInv, LimiterTypeOK, Times, BucketOK, BudgetOK, IdleOK, Rows
  <1>3. CASE StartWatch
    <2>1. PICK ip \in Addresses : watched' = [ip |-> ip, from |-> now, let |-> 0]
      BY <1>3 DEF StartWatch
    <2>2. now' = now /\ buckets' = buckets /\ now \in Times
      BY <1>3 DEF StartWatch, LimiterInv, LimiterTypeOK
    <2>3. LimiterTypeOK'
      BY <2>1, <2>2 DEF LimiterInv, LimiterTypeOK
    <2>4. /\ watched'.from <= now'
          /\ BudgetOK(buckets[ip])'
          /\ IdleOK(buckets[ip])'
      BY <1>1, <2>1, <2>2 DEF BudgetOK, IdleOK, BucketOK, Rows, Times
    <2> QED BY <1>1, <2>1, <2>2, <2>3, <2>4 DEF LimiterInv, BucketOK
  <1>4. CASE Forget
    BY <1>4 DEF Forget, LimiterInv, LimiterTypeOK, BucketOK, NoBucket, Times
  <1>5. CASE UNCHANGED limiter
    BY <1>5 DEF limiter, LimiterInv, LimiterTypeOK, BucketOK, BudgetOK, IdleOK
  <1> QED BY <1>2, <1>3, <1>4, <1>5


-----------------------------------------------------------------------------
(* The inductive invariant of the conversations.                           *)
ReceiptsFit(x, open) ==
    /\ 2 * Len(x.receipts) + (IF open THEN 2 ELSE 3) = Len(x.turns)
    /\ \A i \in 1 .. Len(x.receipts) : x.receipts[i] = 2 * i

Alternates(turns) ==
    \A i \in 1 .. Len(turns) : turns[i].role = IF i % 2 = 1 THEN "brand" ELSE "host"

Paired(turns) ==
    \A i \in 1 .. Len(turns) - 1 : i % 2 = 0 => turns[i+1].by = turns[i].by

Settled(x)   == Whole(x.turns) /\ ReceiptsFit(x, FALSE)
Open(x, c)   == /\ Alternates(x.turns) /\ Paired(x.turns)
                /\ ReceiptsFit(x, TRUE)
                /\ x.turns[Len(x.turns)].by = c

SessionsOK ==
    \A s \in DOMAIN sessions :
        IF mu # Free /\ pc[mu] = "asking" /\ into[mu] = s
        THEN Open(sessions[s], mu) ELSE Settled(sessions[s])

MutexOK ==
    /\ mu # Free /\ pc[mu] = "asking" => into[mu] \in DOMAIN sessions
    /\ MutexIsReleased

ShownOK == \A c \in Calls : shown[c] # Free => Settled(shown[c])

ChatTypeOK ==
    /\ mu \in Calls \cup {Free}
    /\ DOMAIN sessions \subseteq Calls
    /\ sessions \in [DOMAIN sessions -> Sessions]
    /\ pc \in [Calls -> {"idle", "waiting", "asking", "writing", "done"}]
    /\ call \in [Calls -> Requests]
    /\ into \in [Calls -> Calls \cup {Free}]
    /\ shown \in [Calls -> Sessions \cup {Free}]
    /\ restarts \in 0 .. MaxRestarts

ChatInv == ChatTypeOK /\ MutexOK /\ SessionsOK /\ ShownOK

(* Parity of the next number, and of twice one.                            *)
LEMMA Parity ==
    ASSUME NEW n \in Nat
    PROVE  /\ n % 2 = 1 => (n + 1) % 2 = 0
           /\ n % 2 = 0 => (n + 1) % 2 = 1
           /\ n % 2 \in {0, 1}
           /\ (2 * n) % 2 = 0
           /\ (2 * n + 1) % 2 = 1
           /\ (2 * n + 3) % 2 = 1
  OBVIOUS

(* The last brand turn of a whole conversation is its last turn.           *)
LEMMA LastBrandIsLast ==
    ASSUME NEW turns \in Seq(Turns), Whole(turns)
    PROVE  LastBrandTurn(turns) = Len(turns) - 1
  <1> DEFINE brands == {i \in DOMAIN turns : turns[i].role = "brand"}
  <1>1. Len(turns) \in Nat /\ DOMAIN turns = 1 .. Len(turns) /\ Len(turns) # 0
    BY DEF Whole
  <1>2. Len(turns) \in brands /\ \A j \in brands : j <= Len(turns)
    BY <1>1 DEF Whole
  <1>3. \A i \in brands : (\A j \in brands : j <= i) => i = Len(turns)
    BY <1>1, <1>2
  <1>4. (CHOOSE i \in brands : \A j \in brands : j <= i) = Len(turns)
    BY <1>2, <1>3
  <1> QED BY <1>2, <1>4 DEF LastBrandTurn

(* What appending does, element by element.                                *)
LEMMA Appended ==
    ASSUME NEW S, NEW s \in Seq(S), NEW e \in S
    PROVE  /\ Append(s, e) \in Seq(S)
           /\ Len(s) \in Nat
           /\ Len(Append(s, e)) = Len(s) + 1
           /\ \A i \in 1 .. Len(s) : Append(s, e)[i] = s[i]
           /\ Append(s, e)[Len(s) + 1] = e
  OBVIOUS

(* A turn of the right role keeps the alternation; one of the right call   *)
(* keeps the pairs.                                                        *)
LEMMA NextTurn ==
    ASSUME NEW t \in Seq(Turns), NEW turn \in Turns, Alternates(t), Paired(t),
           turn.role = IF Len(t) % 2 = 0 THEN "brand" ELSE "host",
           Len(t) # 0 /\ Len(t) % 2 = 0 => turn.by = t[Len(t)].by
    PROVE  /\ Alternates(Append(t, turn))
           /\ Paired(Append(t, turn))
  <1> DEFINE n == Len(t)
             u == Append(t, turn)
  <1>1. /\ n \in Nat /\ Len(u) = n + 1
        /\ \A i \in 1 .. n : u[i] = t[i]
        /\ u[n + 1] = turn
    BY Appended
  <1>2. /\ \A i \in 1 .. n : t[i].role = IF i % 2 = 1 THEN "brand" ELSE "host"
        /\ \A i \in 1 .. n - 1 : i % 2 = 0 => t[i+1].by = t[i].by
    BY DEF Alternates, Paired
  <1>3. /\ turn.role = IF n % 2 = 0 THEN "brand" ELSE "host"
        /\ n # 0 /\ n % 2 = 0 => turn.by = t[n].by
    OBVIOUS
  <1>4. (n + 1) % 2 = 1 <=> n % 2 = 0
    BY <1>1, Parity
  <1> HIDE DEF n, u
  <1>5. ASSUME NEW i \in 1 .. n + 1
        PROVE  u[i].role = IF i % 2 = 1 THEN "brand" ELSE "host"
    <2>1. CASE i = n + 1
      BY <1>1, <1>3, <1>4, <2>1
    <2>2. CASE i \in 1 .. n
      BY <1>1, <1>2, <2>2
    <2> QED BY <1>1, <2>1, <2>2
  <1>6. ASSUME NEW i \in 1 .. n, i % 2 = 0
        PROVE  u[i+1].by = u[i].by
    <2>1. CASE i = n
      BY <1>1, <1>3, <1>6, <2>1
    <2>2. CASE i \in 1 .. n - 1
      <3>1. t[i+1].by = t[i].by
        BY <1>2, <1>6, <2>2
      <3>2. i + 1 \in 1 .. n
        BY <1>1, <2>2
      <3> QED BY <1>1, <3>1, <3>2
    <2> QED BY <1>1, <2>1, <2>2
  <1>7. (n + 1) - 1 = n
    BY <1>1
  <1> QED BY <1>1, <1>5, <1>6, <1>7 DEF Alternates, Paired, u

(* A question turns a settled conversation into one open for its call.     *)
LEMMA AskOpens ==
    ASSUME NEW x \in Sessions, Settled(x), NEW c \in Calls
    PROVE  Continued(x, c) \in Sessions /\ Open(Continued(x, c), c)
  <1> DEFINE t == x.turns
             r == x.receipts
             q == Says("host", c)
             y == Continued(x, c)
  <1>1. /\ t \in Seq(Turns) /\ r \in Seq(Nat)
        /\ Len(t) \in Nat /\ Len(r) \in Nat
        /\ Len(t) = 2 * Len(r) + 3
        /\ \A i \in 1 .. Len(r) : r[i] = 2 * i
    BY DEF Sessions, Settled, ReceiptsFit
  <1>2. LastBrandTurn(t) = 2 * Len(r) + 2
    <2>1. LastBrandTurn(t) = Len(t) - 1
      BY <1>1, LastBrandIsLast DEF Settled
    <2> QED BY <1>1, <2>1
  <1>3. q \in Turns /\ q.role = "host" /\ q.by = c
    BY DEF Says, Turns
  <1>4. /\ y.turns = Append(t, q)
        /\ y.receipts = Append(r, 2 * Len(r) + 2)
    BY <1>2 DEF Continued
  <1>5. y \in Sessions
    BY <1>1, <1>2, <1>3 DEF Continued, Sessions
  <1>6. /\ Alternates(t) /\ Paired(t) /\ Len(t) % 2 = 1
    BY DEF Settled, Whole, Alternates, Paired
  <1> HIDE DEF t, r, q, y
  <1>7. Alternates(y.turns) /\ Paired(y.turns)
    <2>1. q.role = IF Len(t) % 2 = 0 THEN "brand" ELSE "host"
      BY <1>3, <1>6
    <2>2. ~(Len(t) % 2 = 0)
      BY <1>6
    <2>3. Alternates(Append(t, q)) /\ Paired(Append(t, q))
      BY <1>1, <1>3, <1>6, <2>1, <2>2, NextTurn
    <2> QED BY <1>4, <2>3
  <1>8. ReceiptsFit(y, TRUE)
    <2> DEFINE n == Len(r)
               e == 2 * n + 2
               s == Append(r, e)
    <2>1. n \in Nat /\ e \in Nat
      BY <1>1
    <2>2. /\ Len(s) = n + 1
          /\ \A i \in 1 .. n : s[i] = r[i]
          /\ s[n + 1] = e
      BY <1>1, <2>1, Appended
    <2>3. Len(Append(t, q)) = Len(t) + 1
      BY <1>1, <1>3, Appended
    <2>4. ASSUME NEW i \in 1 .. n + 1 PROVE s[i] = 2 * i
      <3>1. CASE i = n + 1
        BY <2>1, <2>2, <3>1
      <3>2. CASE i \in 1 .. n
        BY <1>1, <2>2, <3>2
      <3> QED BY <2>1, <3>1, <3>2
    <2> HIDE DEF s
    <2>5. y.receipts = s /\ y.turns = Append(t, q)
      BY <1>4 DEF s
    <2>6. 2 * Len(s) + 2 = Len(Append(t, q))
      BY <1>1, <2>1, <2>2, <2>3
    <2> QED BY <2>2, <2>4, <2>5, <2>6 DEF ReceiptsFit
  <1>9. y.turns[Len(y.turns)].by = c
    BY <1>1, <1>3, <1>4, Appended
  <1> QED BY <1>5, <1>7, <1>8, <1>9 DEF Open, y

(* A new conversation is open for the call that made it.                   *)
LEMMA OpenedIsOpen ==
    ASSUME NEW c \in Calls
    PROVE  Opened(c) \in Sessions /\ Open(Opened(c), c)
  <1> DEFINE b == Says("brand", c)
             h == Says("host", c)
             t == <<b, h>>
  <1>1. /\ b \in Turns /\ b.role = "brand" /\ b.by = c
        /\ h \in Turns /\ h.role = "host" /\ h.by = c
    BY DEF Says, Turns
  <1>2. Opened(c).turns = t /\ Opened(c).receipts = << >>
    BY DEF Opened
  <1>3. t \in Seq(Turns) /\ Len(t) = 2 /\ t[1] = b /\ t[2] = h
    BY <1>1
  <1>4. Opened(c) \in Sessions
    BY <1>3 DEF Opened, Sessions
  <1> HIDE DEF b, h, t
  <1>5. Alternates(t)
    <2>1. ASSUME NEW i \in 1 .. 2 PROVE t[i].role = IF i % 2 = 1 THEN "brand" ELSE "host"
      <3>1. i = 1 \/ i = 2
        OBVIOUS
      <3> QED BY <1>1, <1>3, <3>1
    <2> QED BY <1>3, <2>1 DEF Alternates
  <1>6. Paired(t)
    BY <1>3 DEF Paired
  <1>7. ReceiptsFit(Opened(c), TRUE)
    BY <1>2, <1>3 DEF ReceiptsFit
  <1> QED BY <1>1, <1>2, <1>3, <1>4, <1>5, <1>6, <1>7 DEF Open

(* The answer settles it.                                                  *)
LEMMA AnswerSettles ==
    ASSUME NEW x \in Sessions, NEW c \in Calls, Open(x, c)
    PROVE  Answered(x, c) \in Sessions /\ Settled(Answered(x, c))
  <1> DEFINE t == x.turns
             r == x.receipts
             a == Says("brand", c)
             y == Answered(x, c)
  <1>1. /\ t \in Seq(Turns) /\ r \in Seq(Nat)
        /\ Len(t) \in Nat /\ Len(r) \in Nat
        /\ Len(t) = 2 * Len(r) + 2
        /\ \A i \in 1 .. Len(r) : r[i] = 2 * i
        /\ Alternates(t) /\ Paired(t) /\ t[Len(t)].by = c
    BY DEF Sessions, Open, ReceiptsFit
  <1>2. a \in Turns /\ a.role = "brand" /\ a.by = c
    BY DEF Says, Turns
  <1>3. x = [turns |-> t, receipts |-> r]
    BY DEF Sessions
  <1>4. y = [turns |-> Append(t, a), receipts |-> r]
    BY <1>3 DEF Answered
  <1>5. y \in Sessions
    BY <1>1, <1>2, <1>4 DEF Sessions
  <1> HIDE DEF t, r, a, y
  <1>6. Len(t) % 2 = 0 /\ Len(t) # 0
    <2>1. Len(t) = 2 * (Len(r) + 1)
      BY <1>1
    <2> QED BY <1>1, <2>1, Parity
  <1>7. Alternates(y.turns) /\ Paired(y.turns)
    BY <1>1, <1>2, <1>4, <1>6, NextTurn
  <1>8. Len(y.turns) = 2 * Len(r) + 3 /\ y.receipts = r
    <2>1. Len(Append(t, a)) = Len(t) + 1
      BY <1>1, <1>2, Appended
    <2> QED BY <1>1, <1>4, <2>1
  <1>9. Len(y.turns) % 2 = 1
    BY <1>1, <1>8, Parity
  <1>10. ReceiptsFit(y, FALSE)
    BY <1>1, <1>8 DEF ReceiptsFit
  <1> QED BY <1>5, <1>7, <1>9, <1>10 DEF Settled, Whole, Alternates, Paired, y

-----------------------------------------------------------------------------
(* Each step keeps the invariant of the conversations.                     *)
LEMMA ChatInitInv == Init => ChatInv
  BY CallsAssumption, RestartsAssumption
     DEF Init, ChatInv, ChatTypeOK, Requests, MutexOK, MutexIsReleased, Locked, SessionsOK, ShownOK

(* A request arrives and waits for the mutex.                              *)
LEMMA ArriveInv ==
    ASSUME ChatInv, NEW c \in Calls, Arrive(c)
    PROVE  ChatInv'
  <1> USE DEF ChatInv, ChatTypeOK
  <1>1. call' \in [Calls -> Requests]
    <2>1. PICK request \in [op : {"chat", "audit"}, sid : KnownIds] :
              call' = [call EXCEPT ![c] = request]
      BY DEF Arrive
    <2>2. KnownIds \subseteq Calls \cup {Free}
      BY DEF KnownIds
    <2> QED BY <2>1, <2>2 DEF Requests
  <1>2. /\ UNCHANGED <<mu, sessions, into, shown, restarts>>
        /\ pc[c] = "idle" /\ pc' = [pc EXCEPT ![c] = "waiting"]
    BY DEF Arrive, Goto
  <1>3. MutexOK'
    BY <1>2, CallsAssumption DEF MutexOK, MutexIsReleased, Locked
  <1>4. SessionsOK' /\ ShownOK'
    BY <1>2 DEF SessionsOK, ShownOK
  <1> QED BY <1>1, <1>2, <1>3, <1>4

(* chat up to its LLM call: the question is appended, the mutex kept.      *)
LEMMA ChatAskInv ==
    ASSUME ChatInv, NEW c \in Calls, ChatAsk(c)
    PROVE  ChatInv'
  <1> USE CallsAssumption DEF ChatInv, ChatTypeOK
  <1>1. /\ mu = Free /\ mu' = c
        /\ pc' = [pc EXCEPT ![c] = "asking"]
        /\ UNCHANGED <<call, shown, restarts>>
    BY DEF ChatAsk, Holding, Goto
  <1>2. \A s \in DOMAIN sessions : sessions[s] \in Sessions /\ Settled(sessions[s])
    BY <1>1 DEF SessionsOK
  <1>3. \A d \in Calls : pc[d] \notin Locked
    BY <1>1 DEF MutexOK, MutexIsReleased, Locked
  <1>4. PICK s \in Calls :
            /\ into' = [into EXCEPT ![c] = s]
            /\ DOMAIN sessions' = DOMAIN sessions \cup {s}
            /\ sessions' = [x \in DOMAIN sessions' |-> sessions'[x]]
            /\ \A x \in DOMAIN sessions \ {s} : sessions'[x] = sessions[x]
            /\ sessions'[s] \in Sessions /\ Open(sessions'[s], c)
    <2>1. CASE call[c].sid \in DOMAIN sessions
      <3> DEFINE sid == call[c].sid
      <3>1. /\ sessions' = [sessions EXCEPT ![sid] = Continued(sessions[sid], c)]
            /\ into' = [into EXCEPT ![c] = sid]
        BY <2>1 DEF ChatAsk
      <3>2. /\ Continued(sessions[sid], c) \in Sessions
            /\ Open(Continued(sessions[sid], c), c)
        BY <1>2, <2>1, AskOpens
      <3>3. sid \in Calls
        BY <2>1
      <3>4. /\ DOMAIN sessions' = DOMAIN sessions \cup {sid}
            /\ sessions' = [x \in DOMAIN sessions' |-> sessions'[x]]
            /\ sessions'[sid] = Continued(sessions[sid], c)
            /\ \A x \in DOMAIN sessions \ {sid} : sessions'[x] = sessions[x]
        BY <2>1, <3>1
      <3> HIDE DEF sid
      <3> QED BY <3>1, <3>2, <3>3, <3>4
    <2>2. CASE call[c].sid \notin DOMAIN sessions
      <3>1. /\ sessions' = [s \in DOMAIN sessions \cup {c} |->
                                 IF s = c THEN Opened(c) ELSE sessions[s]]
            /\ into' = [into EXCEPT ![c] = c]
        BY <2>2 DEF ChatAsk
      <3>2. Opened(c) \in Sessions /\ Open(Opened(c), c)
        BY OpenedIsOpen
      <3> QED BY <3>1, <3>2
    <2> QED BY <2>1, <2>2
  <1>5. ChatTypeOK'
    BY <1>1, <1>2, <1>4
  <1>6. MutexOK'
    BY <1>1, <1>3, <1>4 DEF MutexOK, MutexIsReleased, Locked
  <1>7. SessionsOK'
    BY <1>1, <1>2, <1>4 DEF SessionsOK
  <1>8. ShownOK'
    BY <1>1 DEF ShownOK
  <1> QED BY <1>5, <1>6, <1>7, <1>8

(* chat from its LLM call on: the exchange is completed, and the mutex     *)
(* kept for the response.                                                  *)
LEMMA ChatAnswerInv ==
    ASSUME ChatInv, NEW c \in Calls, ChatAnswer(c)
    PROVE  ChatInv'
  <1> USE CallsAssumption DEF ChatInv, ChatTypeOK
  <1>1. /\ pc[c] = "asking"
        /\ sessions' = [sessions EXCEPT ![into[c]] = Answered(sessions[into[c]], c)]
        /\ pc' = [pc EXCEPT ![c] = "writing"]
        /\ UNCHANGED <<mu, call, into, shown, restarts>>
    BY DEF ChatAnswer, Goto
  <1>2. mu = c /\ into[c] \in DOMAIN sessions
    BY <1>1 DEF MutexOK, MutexIsReleased, Locked
  <1>3. /\ Open(sessions[into[c]], c)
        /\ \A s \in DOMAIN sessions \ {into[c]} : Settled(sessions[s])
        /\ \A s \in DOMAIN sessions : sessions[s] \in Sessions
    BY <1>1, <1>2 DEF SessionsOK
  <1>4. /\ Answered(sessions[into[c]], c) \in Sessions
        /\ Settled(Answered(sessions[into[c]], c))
    BY <1>2, <1>3, AnswerSettles
  <1>5. ChatTypeOK'
    BY <1>1, <1>2, <1>4
  <1>6. MutexOK'
    BY <1>1, <1>2 DEF MutexOK, MutexIsReleased, Locked
  <1>7. SessionsOK'
    BY <1>1, <1>2, <1>3, <1>4 DEF SessionsOK
  <1>8. ShownOK'
    BY <1>1 DEF ShownOK
  <1> QED BY <1>5, <1>6, <1>7, <1>8

(* audit: what it shows is settled, for it got the mutex.                  *)
LEMMA AuditInv ==
    ASSUME ChatInv, NEW c \in Calls, Audit(c) \/ AuditNotFound(c)
    PROVE  ChatInv'
  <1> USE CallsAssumption DEF ChatInv, ChatTypeOK
  <1>1. /\ mu = Free /\ mu' = c /\ pc' = [pc EXCEPT ![c] = "writing"]
        /\ UNCHANGED <<sessions, call, into, restarts>>
    BY DEF Audit, AuditNotFound, Goto
  <1>2. \/ shown' = shown
        \/ /\ call[c].sid \in DOMAIN sessions
           /\ shown' = [shown EXCEPT ![c] = sessions[call[c].sid]]
    BY DEF Audit, AuditNotFound
  <1>3. \A s \in DOMAIN sessions : sessions[s] \in Sessions /\ Settled(sessions[s])
    BY <1>1 DEF SessionsOK
  <1>4. MutexOK'
    BY <1>1 DEF MutexOK, MutexIsReleased, Locked
  <1>5. SessionsOK'
    BY <1>1, <1>3 DEF SessionsOK
  <1>6. shown' \in [Calls -> Sessions \cup {Free}] /\ ShownOK'
    BY <1>2, <1>3 DEF ShownOK
  <1> QED BY <1>1, <1>4, <1>5, <1>6

(* The response is written and the mutex given back, with every            *)
(* conversation settled.                                                   *)
LEMMA WriteJSONInv ==
    ASSUME ChatInv, NEW c \in Calls, WriteJSON(c)
    PROVE  ChatInv'
  <1> USE CallsAssumption DEF ChatInv, ChatTypeOK
  <1>1. /\ pc[c] = "writing" /\ mu' = Free /\ pc' = [pc EXCEPT ![c] = "done"]
        /\ UNCHANGED <<sessions, call, into, shown, restarts>>
    BY DEF WriteJSON, Goto
  <1>2. mu = c
    BY <1>1 DEF MutexOK, MutexIsReleased, Locked
  <1>3. MutexOK'
    BY <1>1, <1>2 DEF MutexOK, MutexIsReleased, Locked
  <1>4. SessionsOK'
    BY <1>1, <1>2 DEF SessionsOK
  <1>5. ShownOK'
    BY <1>1 DEF ShownOK
  <1> QED BY <1>1, <1>3, <1>4, <1>5

(* A restart forgets every conversation.                                   *)
LEMMA RestartInv == ChatInv /\ Restart => ChatInv'
  <1> SUFFICES ASSUME ChatInv, Restart PROVE ChatInv'
    OBVIOUS
  <1> USE CallsAssumption, RestartsAssumption DEF ChatInv, ChatTypeOK
  <1>1. /\ restarts' = restarts + 1 /\ restarts < MaxRestarts
        /\ mu' = Free /\ sessions' = [s \in {} |-> Free]
        /\ pc' = [c \in Calls |-> IF pc[c] = "idle" THEN "idle" ELSE "done"]
        /\ into' = [c \in Calls |-> IF pc[c] \in {"writing", "done"}
                                    THEN into[c] ELSE Free]
        /\ UNCHANGED <<call, shown>>
    BY DEF Restart
  <1>2. ChatTypeOK'
    BY <1>1
  <1>3. MutexOK' /\ SessionsOK'
    BY <1>1 DEF MutexOK, MutexIsReleased, Locked, SessionsOK
  <1>4. ShownOK'
    BY <1>1 DEF ShownOK
  <1> QED BY <1>2, <1>3, <1>4

(* The limiter's steps leave the conversations alone.                      *)
LEMMA ChatsUnchanged == ChatInv /\ UNCHANGED chats => ChatInv'
  BY DEF chats, ChatInv, ChatTypeOK, MutexOK, MutexIsReleased, Locked, SessionsOK, ShownOK

-----------------------------------------------------------------------------
(* Both halves are inductive together.                                     *)
IInv == LimiterInv /\ ChatInv

(* The invariant is inductive.                                             *)
LEMMA NextIInv == IInv /\ [Next]_vars => IInv'
  <1> SUFFICES ASSUME LimiterInv, ChatInv, [Next]_vars PROVE LimiterInv' /\ ChatInv'
    BY DEF IInv
  <1>1. CASE (Tick \/ StartWatch) /\ UNCHANGED chats
    BY <1>1, ClockInv, ChatsUnchanged
  <1>2. CASE OtherRequest
    BY <1>2, AllowInv, RefuseInv, ChatsUnchanged DEF OtherRequest
  <1>3. ASSUME NEW c \in Calls, Arrive(c) PROVE LimiterInv' /\ ChatInv'
    BY <1>3, ArriveInv, AllowInv DEF Arrive
  <1>4. ASSUME NEW c \in Calls, CallStep(c) PROVE LimiterInv' /\ ChatInv'
    <2>1. UNCHANGED limiter
      BY <1>4 DEF CallStep, ChatAsk, ChatAnswer, Audit, AuditNotFound, WriteJSON
    <2>2. ChatInv'
      BY <1>4, ChatAskInv, ChatAnswerInv, AuditInv, WriteJSONInv DEF CallStep
    <2> QED BY <2>1, <2>2, ClockInv
  <1>5. CASE Restart
    BY <1>5, ClockInv, RestartInv DEF Restart
  <1>6. CASE UNCHANGED vars
    BY <1>6, ClockInv, ChatsUnchanged DEF vars
  <1> QED BY <1>1, <1>2, <1>3, <1>4, <1>5, <1>6 DEF Next

(* The state of the limiter and of the conversations is always as the two  *)
(* halves of the invariant say.                                            *)
THEOREM DemoInductive == Spec => []IInv
  <1>1. Init => IInv
    BY LimiterInitInv, ChatInitInv DEF Init, IInv
  <1> QED BY <1>1, NextIInv, PTL DEF Spec

(* Every variable stays in its type.                                       *)
THEOREM DemoTyping == Spec => []TypeOK
  <1>1. IInv => TypeOK
    BY DEF IInv, LimiterInv, ChatInv, ChatTypeOK, TypeOK
  <1> QED BY <1>1, DemoInductive, PTL

(* limiter.allow lets fewer than twice the capacity through in any window, *)
(* for every capacity, window and number of addresses.                     *)
THEOREM BurstsAreBounded == Spec => []LessThanTwiceCapacity
  <1>1. IInv => LessThanTwiceCapacity
    BY DEF IInv, LimiterInv, BudgetOK, LessThanTwiceCapacity
  <1> QED BY <1>1, DemoInductive, PTL

(* Refused requests never keep an address out for longer than a window.    *)
THEOREM RefusalsDoEnd == Spec => []RefusalsEnd
  <1>1. IInv => RefusalsEnd
    <2> SUFFICES ASSUME LimiterInv, watched # Nobody, watched.let = 0,
                        now > watched.from + Window,
                        buckets[watched.ip].lastTouch <= watched.from + Window
                 PROVE  HasToken(watched.ip)
      BY DEF IInv, RefusalsEnd
    <2>1. /\ watched \in [ip : Addresses, from : Times, let : Nat]
          /\ now \in Times
      BY DEF LimiterInv, LimiterTypeOK
    <2>2. buckets[watched.ip] \in Rows
      BY <2>1, BucketsAreRows DEF LimiterInv
    <2>3. buckets[watched.ip].resetAt <= watched.from + Window
      BY <2>1 DEF LimiterInv, IdleOK
    <2>4. Expired(watched.ip)
      BY <2>1, <2>2, <2>3, LimiterAssumption DEF Expired, Rows, Times
    <2> QED BY <2>4, LimiterAssumption DEF HasToken, Current
  <1> QED BY <1>1, DemoInductive, PTL

(* When no chat waits for its LLM every conversation is settled: whoever   *)
(* holds the mutex then only writes.                                       *)
LEMMA NobodyIsOpen ==
    ASSUME ChatInv, NobodyAsks
    PROVE  \A s \in DOMAIN sessions : Settled(sessions[s])
  <1>1. mu # Free => pc[mu] # "asking"
    BY DEF ChatInv, ChatTypeOK, NobodyAsks
  <1> QED BY <1>1 DEF ChatInv, SessionsOK

(* The exchanges of a conversation never mix.                              *)
THEOREM ExchangesStayWhole == Spec => []ExchangesAreWhole
  <1>1. IInv => ExchangesAreWhole
    BY NobodyIsOpen DEF IInv, Settled, ExchangesAreWhole
  <1> QED BY <1>1, DemoInductive, PTL

(* Each brand turn a host went on from has one receipt, at its number.     *)
THEOREM ReceiptsAreComplete == Spec => []OneReceiptPerAnsweredTurn
  <1>1. IInv => OneReceiptPerAnsweredTurn
    <2> SUFFICES ASSUME ChatInv, NobodyAsks, NEW s \in DOMAIN sessions
                 PROVE  /\ 2 * Len(sessions[s].receipts) + 3 = Len(sessions[s].turns)
                        /\ \A i \in 1 .. Len(sessions[s].receipts) :
                                sessions[s].receipts[i] = 2 * i
      BY DEF IInv, OneReceiptPerAnsweredTurn
    <2> QED BY NobodyIsOpen DEF Settled, ReceiptsFit
  <1> QED BY <1>1, DemoInductive, PTL

(* An audit shows whole exchanges and no receipt without its brand turn.   *)
THEOREM AuditsAreWhole == Spec => []AuditShowsWholeExchanges
  <1>1. IInv => AuditShowsWholeExchanges
    <2> SUFFICES ASSUME ChatInv, NEW c \in Calls, shown[c] # Free
                 PROVE  /\ Whole(shown[c].turns)
                        /\ \A i \in 1 .. Len(shown[c].receipts) :
                              /\ shown[c].receipts[i] + 1 \in 1 .. Len(shown[c].turns)
                              /\ shown[c].turns[shown[c].receipts[i] + 1].role = "brand"
      BY DEF IInv, AuditShowsWholeExchanges
    <2> DEFINE t == shown[c].turns
               r == shown[c].receipts
    <2>1. /\ t \in Seq(Turns) /\ r \in Seq(Nat)
          /\ Len(t) \in Nat /\ Len(r) \in Nat
      BY DEF ChatInv, ChatTypeOK, Sessions
    <2>2. /\ Whole(t)
          /\ Len(t) = 2 * Len(r) + 3
          /\ \A i \in 1 .. Len(r) : r[i] = 2 * i
      BY <2>1 DEF ChatInv, ShownOK, Settled, ReceiptsFit
    <2> HIDE DEF t, r
    <2>3. ASSUME NEW i \in 1 .. Len(r)
          PROVE  r[i] + 1 \in 1 .. Len(t) /\ t[r[i] + 1].role = "brand"
      <3>1. i \in Nat /\ r[i] + 1 = 2 * i + 1 /\ r[i] + 1 \in 1 .. Len(t)
        BY <2>1, <2>2
      <3>2. (r[i] + 1) % 2 = 1
        BY <3>1, Parity
      <3> QED BY <2>2, <3>1, <3>2 DEF Whole
    <2> QED BY <2>2, <2>3 DEF t, r
  <1> QED BY <1>1, DemoInductive, PTL

(* Whoever holds the mutex waits for its LLM or writes its response, and   *)
(* no two calls do that at a time: none has returned with it.              *)
THEOREM MutexComesFree == Spec => []MutexIsReleased
  <1>1. IInv => MutexIsReleased
    BY DEF IInv, ChatInv, MutexOK
  <1> QED BY <1>1, DemoInductive, PTL
=============================================================================

---------------------------- MODULE RateLimiter ----------------------------
(***************************************************************************)
(* The limiter of the public demo (internal/demo/demo.go): a bucket of     *)
(* tokens per client address that starts full, is refilled when a request  *)
(* comes after its window, and is swept out when nobody touched it for two *)
(* windows.  allow runs under the limiter's lock: one step.  Demo composes *)
(* it with the conversations behind it.                                    *)
(*                                                                         *)
(* An observer picks an address and a moment and counts what is let        *)
(* through in the window that starts there: no state of the program.       *)
(***************************************************************************)
EXTENDS Integers

CONSTANTS Addresses,
          Capacity,    \* tokens in a full bucket: 30 in the program
          Window,      \* an hour in the program
          MaxTime      \* bound: the clock

ASSUME LimiterAssumption ==
    Capacity \in Nat \ {0} /\ Window \in Nat \ {0} /\ MaxTime \in Nat

VARIABLES now,
          buckets,     \* buckets[ip]: a bucket or NoBucket
          watched      \* the observer: address, start, requests let through

limiter == <<now, buckets, watched>>

Times    == 0 .. MaxTime
NoBucket == [tokens |-> 0, resetAt |-> -1, lastTouch |-> -1]
Buckets  == [tokens : 0 .. Capacity, resetAt : Nat, lastTouch : Times]
Nobody   == [from |-> -1]

LimiterTypeOK ==
    /\ now \in Times
    /\ buckets \in [Addresses -> Buckets \cup {NoBucket}]
    /\ watched \in [ip : Addresses, from : Times, let : Nat] \cup {Nobody}

LimiterInit ==
    /\ now = 0
    /\ buckets = [ip \in Addresses |-> NoBucket]
    /\ watched = Nobody

-----------------------------------------------------------------------------
Tick ==
    /\ now < MaxTime
    /\ now' = now + 1
    /\ UNCHANGED <<buckets, watched>>

StartWatch ==
    /\ watched = Nobody
    /\ \E ip \in Addresses : watched' = [ip |-> ip, from |-> now, let |-> 0]
    /\ UNCHANGED <<now, buckets>>

-----------------------------------------------------------------------------
Expired(ip) == buckets[ip] = NoBucket \/ now > buckets[ip].resetAt

Current(ip) ==
    IF Expired(ip)
    THEN [tokens |-> Capacity, resetAt |-> now + Window, lastTouch |-> now]
    ELSE [buckets[ip] EXCEPT !.lastTouch = now]

HasToken(ip) == Current(ip).tokens > 0

Refuse(ip) ==
    /\ ~HasToken(ip)
    /\ buckets' = [buckets EXCEPT ![ip] = Current(ip)]
    /\ UNCHANGED <<now, watched>>

(* Deliberately wrong: sweep what was not touched for one window.          *)
StaleEarly(b) == now - b.lastTouch >= Window
Stale(b)      == now - b.lastTouch > 2 * Window

(* The sweep runs or does not: it depends on the number of buckets.        *)
Swept(table) == [ip \in Addresses |-> IF Stale(table[ip]) THEN NoBucket ELSE table[ip]]

InWatch(ip) == watched # Nobody /\ watched.ip = ip /\ now <= watched.from + Window

Allow(ip) ==
    /\ HasToken(ip)
    /\ LET after == [buckets EXCEPT ![ip] = [Current(ip) EXCEPT !.tokens = @ - 1]]
       IN  buckets' \in {after, Swept(after)}
    /\ watched' = IF InWatch(ip) THEN [watched EXCEPT !.let = @ + 1] ELSE watched
    /\ UNCHANGED now

(* The buckets are in memory only: a restart loses them.                   *)
Forget ==
    /\ buckets' = [ip \in Addresses |-> NoBucket]
    /\ watched' = Nobody
    /\ UNCHANGED now

-----------------------------------------------------------------------------
(***************************************************************************)
(* Properties.                                                             *)
(***************************************************************************)

(* In no window of time, wherever it starts, are 2 * Capacity requests of  *)
(* an address let through: buckets that end and begin inside it, and the   *)
(* sweep of limiter.allow, never add up to more while the server is up.    *)
LessThanTwiceCapacity ==
    watched # Nobody => watched.let <= 2 * Capacity - 1

(* Whoever was let through with no request for a window, however many were *)
(* refused, is let through with the first one after it.                    *)
RefusalsEnd ==
    /\ watched # Nobody
    /\ watched.let = 0
    /\ now > watched.from + Window
    /\ buckets[watched.ip].lastTouch <= watched.from + Window
    => HasToken(watched.ip)

-----------------------------------------------------------------------------
(* What a comment of the source says and the code does not keep.           *)

(* demo.go:26: "per-IP, 30 requests/hour".  A bucket lasts an hour from    *)
(* its first request: an hour that begins inside it sees what is left of   *)
(* it and all of the next one.                                             *)
AtMostCapacity == watched # Nobody => watched.let <= Capacity
=============================================================================

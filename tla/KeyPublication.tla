--------------------------- MODULE KeyPublication ---------------------------
(***************************************************************************)
(* What becomes of the signing keys of Lifecycle outside the process: the  *)
(* server publishes its key at /.well-known/jwks.json                      *)
(* (internal/wellknown), with leave to keep it for five minutes; signed    *)
(* responses name it by its kid (internal/signing); and every process,     *)
(* stdio bridges included, puts notary signatures next to the receipts in  *)
(* the database (internal/si/initiate.go), which outlive the process.      *)
(*                                                                         *)
(* Keys stand for their halves: x is a key as published, key one as used   *)
(* to sign.  The age of a copy is not modelled: a verifier may use it for  *)
(* any time, and may fetch a new one at any time.                          *)
(***************************************************************************)
EXTENDS Lifecycle

(* One server of the installation is followed, next to any number of       *)
(* bridges: sameRun is about that one.  Only one can hold the address.     *)
ASSUME OneServerAssumption == \A p, q \in HttpProcs : p = q

VARIABLES cached,      \* the JWK set a verifier holds
          response,    \* a signed response it was given, or NoResponse
          notarised,   \* the notary signatures in the receipts table
          (* Not of the code: which of the response and the cached keys    *)
          (* the server has given out since it was last started.           *)
          sameRun

outside   == <<cached, response, notarised, sameRun>>
publicVars == <<vars, outside>>

NoResponse == [kid |-> 0, key |-> 0]

(* Deliberately wrong: a name that does not depend on the key.             *)
KeyIDFixed(k) == 1

(* thumbprint: SHA-256 of the public key.                                  *)
KeyID(k) == k

JWK(k)       == [kid |-> KeyID(k), x |-> k]
Signature(k) == [kid |-> KeyID(k), key |-> k]

(* Deliberately wrong: publish what is in the key file now.                *)
JWKSOfFile(p) == IF keyFile > 0 THEN {JWK(keyFile)} ELSE {}

(* JWKSJSON: the signer that was wired at the start.                       *)
JWKS(p) == {JWK(key[p])}

(* What a verifier finds that looks the kid up and checks.                 *)
Verdict(keys, sig) ==
    IF \A k \in keys : k.kid # sig.kid THEN "no such key"
    ELSE IF \E k \in keys : k.kid = sig.kid /\ k.x = sig.key THEN "valid"
    ELSE "signature mismatch"

PublicTypeOK ==
    /\ cached \subseteq [kid : Nat, x : Nat \ {0}]
    /\ response \in [kid : Nat, key : Nat]
    /\ notarised \subseteq [kid : Nat, key : Nat \ {0}]
    /\ sameRun \subseteq {"response", "keys"}

PublicInit ==
    /\ Init
    /\ cached = {} /\ response = NoResponse
    /\ notarised = {} /\ sameRun = {}

-----------------------------------------------------------------------------
(* GET /.well-known/jwks.json.                                             *)
FetchKeys(p) ==
    /\ p \in HttpProcs /\ pc[p] = "serving"
    /\ cached' = JWKS(p)
    /\ sameRun' = sameRun \cup {"keys"}
    /\ UNCHANGED <<vars, response, notarised>>

(* verify_brand_claim: a request that is running may still be answered     *)
(* while the server drains.                                                *)
SignResponse(p) ==
    /\ p \in HttpProcs /\ pc[p] \in Up
    /\ response' = Signature(key[p])
    /\ sameRun' = sameRun \cup {"response"}
    /\ UNCHANGED <<vars, cached, notarised>>

(* Deliberately wrong: serve before the signer is loaded.                  *)
NotariseEarly(p) ==
    /\ pc[p] # "off"
    /\ notarised' = notarised \cup {Signature(key[p])}
    /\ UNCHANGED <<vars, cached, response, sameRun>>

(* persistReceipt, in a server or behind a stdio bridge.                   *)
Notarise(p) ==
    /\ pc[p] \in Up
    /\ notarised' = notarised \cup {Signature(key[p])}
    /\ UNCHANGED <<vars, cached, response, sameRun>>

(* A step of Lifecycle; what is outside stays when a server is gone.       *)
ProcessStep ==
    /\ Next
    /\ sameRun' = IF \E p \in HttpProcs : pc[p] # "off" /\ pc'[p] = "off"
                  THEN {} ELSE sameRun
    /\ UNCHANGED <<cached, response, notarised>>

PublicNext ==
    \/ ProcessStep
    \/ \E p \in Procs : FetchKeys(p) \/ SignResponse(p) \/ Notarise(p)

PublicSpec == PublicInit /\ [][PublicNext]_publicVars

(* The processes run as in Lifecycle; nobody has to fetch or check a thing.*)
PublicFairSpec == PublicSpec /\ Fairness

-----------------------------------------------------------------------------
(***************************************************************************)
(* Properties.                                                             *)
(***************************************************************************)

(* signing.go:22-23: the kid changes with the key, so a verifier whose     *)
(* copy is out of date finds no key, never a wrong one: it knows it has to *)
(* fetch, and no genuine response is taken for a forged one.               *)
NoFalseMismatch ==
    response # NoResponse => Verdict(cached, response) # "signature mismatch"

(* wellknown.go:30-31: the keys a server gave out since it started verify  *)
(* the responses it signed since, whatever happened to the key file in the *)
(* meantime.                                                               *)
OwnKeysVerify ==
    sameRun = {"response", "keys"} => Verdict(cached, response) = "valid"

(* What a client may rely on that keeps the keys it fetched.               *)
KeysAreSound == PublicTypeOK /\ NoFalseMismatch /\ OwnKeysVerify

(* signing.go:10-11: while nobody removes the key file, and no two         *)
(* processes create it at once, every notary signature on file is verified *)
(* by the keys of whatever server is up now: over crashes and restarts,    *)
(* and those of the bridges as well.                                       *)
NotaryOutlivesTheProcess ==
    ~removed /\ ~overlapped =>
        \A p \in HttpProcs : pc[p] \in Up =>
            \A sig \in notarised : Verdict(JWKS(p), sig) = "valid"

-----------------------------------------------------------------------------
(* What the source says and rotation refutes.                              *)

(* sqlite.go:62-64: the notary signature "Lets a regulator (or a disputing *)
(* host) verify cryptographically what bragent recorded receiving".  Only  *)
(* the current key is published; with the key file gone, so is the old one.*)
NotaryVerifies ==
    \A p \in HttpProcs : pc[p] \in Up =>
        \A sig \in notarised : Verdict(JWKS(p), sig) = "valid"
=============================================================================

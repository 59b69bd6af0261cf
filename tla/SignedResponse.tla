--------------------------- MODULE SignedResponse ---------------------------
(***************************************************************************)
(* verify_brand_claim and its signed_response, from the request to the     *)
(* check of the signature: internal/brand/handler.go signs the canonical   *)
(* form of the answer (internal/signing/jcs.go, jws.go), wrapEnvelope      *)
(* (internal/si/handlers.go) decodes and encodes it again, what carries it *)
(* may write it in another way or alter it, and VerifyEnvelope makes the   *)
(* canonical form anew from what arrives.                                  *)
(*                                                                         *)
(* The part of the payload that comes from outside is the caller's         *)
(* context: a JSON object here, its member names numbered in the order     *)
(* that sorts them.  A text is a sequence of members as they are spelt, a  *)
(* tree what a decoder makes of it.  Hash and signature are the very text  *)
(* they are computed from: two texts, two signatures.                      *)
(***************************************************************************)
EXTENDS Sorting, Sequences, FiniteSetsExt

CONSTANTS Names,        \* member names
          Lexemes,      \* the spellings of values that occur
          Claims,       \* the texts claims are made of
          MaxMembers,   \* bound: members of an object
          Exact         \* 2^53: up to it a float64 holds every integer

VARIABLES stage,        \* where the one call under way is
          request,      \* the request as the caller posted it
          hash,         \* request_hash
          signed,       \* the payload text the signature is for
          payload,      \* signed_response.payload as it travels
          echo,         \* the context next to signed_response
          verdict,      \* what VerifyEnvelope, and one by RFC 8785, say
          kept,         \* not of the code: no value was altered on the way
          earlier       \* not of the code: what was asked before, and its hash

signedVars == <<stage, request, hash, signed, payload, echo, verdict, kept, earlier>>

-----------------------------------------------------------------------------
Integer(n)    == [is |-> "integer", n |-> n]
Dotted(n)     == [is |-> "dotted", n |-> n]      \* 4.0, 4e0: an integer even so
Fraction      == [is |-> "fraction"]
Integral      == {"integer", "dotted"}
String(s, sp) == [is |-> "string", s |-> s, spelt |-> sp]

(* The string "markup" contains <, > or &, which may be written as they    *)
(* are or as \u escapes; "plain" holds nothing that needs one.             *)
Spellings == {"literal", "escaped"}
Magnitudes == 0 .. 2 * Exact
AllLexemes == {Integer(n) : n \in Magnitudes} \cup {Dotted(n) : n \in Magnitudes}
              \cup {Fraction}
              \cup {String(s, sp) : s \in {"plain", "markup"}, sp \in Spellings}

ASSUME LexemesAssumption ==
    Exact \in Nat \ {0} /\ Names \subseteq Nat /\ Lexemes \subseteq AllLexemes

Members == [name : Names, lex : Lexemes]
Texts   == UNION {[1 .. n -> Members] : n \in 0 .. MaxMembers}

ASSUME ClaimsAssumption == MaxMembers \in Nat /\ Claims \subseteq Texts

Value(lex) == IF lex.is = "string" THEN [is |-> "string", s |-> lex.s] ELSE lex

(* Of members with the same name a decoder keeps the last.                 *)
Tree(text) ==
    [k \in {text[i].name : i \in DOMAIN text} |->
        Value(text[Max({i \in DOMAIN text : text[i].name = k})].lex)]

(* Between 2^53 and 2^54 a float64 holds the even integers; an odd one     *)
(* goes to the neighbour with an even mantissa.                            *)
Float64(n) ==
    IF n <= Exact \/ n % 2 = 0 THEN n
    ELSE IF (n \div 2) % 2 = 0 THEN n - 1 ELSE n + 1

(* json.Unmarshal into any: every number becomes a float64, which is       *)
(* written without a point if it is an integer.                            *)
AnyTree(text) ==
    LET tree == Tree(text)
    IN [k \in DOMAIN tree |-> IF tree[k].is \in Integral
                              THEN Integer(Float64(tree[k].n)) ELSE tree[k]]

(* Encoders write a string in one way: encoding/json escapes markup, RFC   *)
(* 8785 does not.                                                          *)
Spelling(v, html) ==
    IF v.is # "string" THEN v
    ELSE String(v.s, IF html /\ v.s = "markup" THEN "escaped" ELSE "literal")

(* What encoders write for one of the lexemes is one of them.              *)
ASSUME ClosedAssumption ==
    \A lex \in Lexemes :
        /\ lex.is \in Integral => Integer(Float64(lex.n)) \in Lexemes
        /\ \A html \in BOOLEAN : Spelling(Value(lex), html) \in Lexemes

(* A map is encoded in the order of its keys.                              *)
Encode(tree, html) ==
    LET keys == InOrder(DOMAIN tree)
    IN [i \in 1 .. Len(keys) |->
            [name |-> keys[i], lex |-> Spelling(tree[keys[i]], html)]]

Marshal(tree) == Encode(tree, TRUE)

-----------------------------------------------------------------------------
(* Canonicalize decodes with UseNumber, so integers keep their digits, and *)
(* refuses what has a decimal point or an exponent.                        *)
HasPoint(text) ==
    \E i \in DOMAIN text : Tree(text)[text[i].name].is \in {"dotted", "fraction"}

(* A RawMessage is encoded as it is, but for white space and markup.       *)
Compact(text) ==
    [i \in DOMAIN text |-> [name |-> text[i].name,
                            lex |-> Spelling(Value(text[i].lex), TRUE)]]

(* Deliberately wrong: keep the members in the order they came.            *)
CanonicalInPlace(text) == Compact(text)

Canonical(text) == Marshal(Tree(text))

(* The fields VerifyBrandClaimRequest has; any other is dropped when the   *)
(* request is decoded.  "other" is one that the caller sent.               *)
Requests == [claim : Claims, context : Texts, other : BOOLEAN]

(* Deliberately wrong: hash the bytes as they came.                        *)
RequestHashRaw(r) == <<r.claim, r.context>>

RequestHash(r) == <<Canonical(r.claim), Canonical(r.context)>>

(* What a request says, however it is written.                             *)
Meaning(r) == <<Tree(r.claim), Tree(r.context)>>

Nothing   == << >>
NoCall    == [claim |-> Nothing]
NoVerdict == [bragent |-> FALSE, standard |-> FALSE]

Stages == {"idle", "refused", "signed", "sent", "delivered", "verified"}

SignedTypeOK ==
    /\ stage \in Stages
    /\ request = NoCall <=> stage \in {"idle", "refused"}
    /\ request # NoCall => request \in Requests
    /\ hash \in {Nothing} \cup (Texts \X Texts)
    /\ signed \in Texts /\ payload \in Texts /\ echo \in Texts
    /\ verdict \in [bragent : BOOLEAN, standard : BOOLEAN]
    /\ kept \in BOOLEAN
    /\ earlier # NoCall => /\ earlier.hash \in Texts \X Texts
                           /\ earlier.other \in BOOLEAN

SignedInit ==
    /\ stage = "idle"
    /\ request = NoCall
    /\ hash = Nothing /\ signed = Nothing /\ payload = Nothing /\ echo = Nothing
    /\ verdict = NoVerdict /\ kept = TRUE
    /\ earlier = NoCall

(* claim_type is one of four and claim is there, or ErrInvalidParams; a    *)
(* point or an exponent anywhere is ErrInternal: nothing is signed.        *)
Refuse ==
    /\ stage = "idle"
    /\ stage' = "refused"
    /\ UNCHANGED <<request, hash, signed, payload, echo, verdict, kept, earlier>>

(* The response repeats the context of the request; the payload signed is  *)
(* the canonical form of it, with the hash and other strings that every    *)
(* encoding keeps, which are left out.                                     *)
VerifyBrandClaim(r) ==
    /\ stage = "idle"
    /\ ~HasPoint(r.claim) /\ ~HasPoint(r.context)
    /\ request' = r
    /\ hash' = RequestHash(r)
    /\ signed' = Canonical(r.context)
    /\ stage' = "signed"
    /\ UNCHANGED <<payload, echo, verdict, kept, earlier>>

(* wrapEnvelope decodes the response into map[string]any and it is encoded *)
(* again.  The context next to it is the caller's RawMessage.              *)
WrapEnvelope ==
    /\ stage = "signed"
    /\ payload' = Marshal(AnyTree(signed))
    /\ echo' = Compact(request.context)
    /\ stage' = "sent"
    /\ earlier' = NoCall
    /\ UNCHANGED <<request, hash, signed, verdict, kept>>

(* What carries the answer may write it in another way, and may deliver    *)
(* anything else.  It keeps the values if they are the same as float64s.   *)
Relay ==
    /\ stage = "sent"
    /\ \E text \in Texts : /\ payload' = text
                           /\ kept' = (AnyTree(text) = AnyTree(payload))
    /\ stage' = "delivered"
    /\ UNCHANGED <<request, hash, signed, echo, verdict, earlier>>

(* Decoded into any, encoded again, and only then made canonical.  RFC     *)
(* 8785 reads numbers as float64s as well.                                 *)
VerifyEnvelope ==
    /\ stage = "delivered"
    /\ LET again == Marshal(AnyTree(payload))
       IN  verdict' = [bragent  |-> ~HasPoint(again) /\ Canonical(again) = signed,
                       standard |-> Encode(AnyTree(payload), FALSE) = signed]
    /\ stage' = "verified"
    /\ UNCHANGED <<request, hash, signed, payload, echo, kept, earlier>>

(* The next call; the one before may be remembered to compare hashes.      *)
Again ==
    /\ stage \in {"refused", "signed", "verified"}
    /\ stage' = "idle"
    /\ earlier' = IF stage = "signed"
                  THEN [says |-> Meaning(request), other |-> request.other, hash |-> hash]
                  ELSE NoCall
    /\ request' = NoCall
    /\ hash' = Nothing /\ signed' = Nothing
    /\ payload' = Nothing /\ echo' = Nothing
    /\ verdict' = NoVerdict /\ kept' = TRUE

SignedNext ==
    \/ Refuse
    \/ \E r \in Requests : VerifyBrandClaim(r)
    \/ WrapEnvelope \/ Relay \/ VerifyEnvelope
    \/ Again

SignedSpec == SignedInit /\ [][SignedNext]_signedVars

-----------------------------------------------------------------------------
(***************************************************************************)
(* Properties.                                                             *)
(***************************************************************************)
Fits(text) == \A i \in DOMAIN text :
                  text[i].lex.is = "integer" => text[i].lex.n <= Exact

(* Written so that every decoder reads the same values.                    *)
Unambiguous(text) == Fits(text) /\ \A i \in DOMAIN text : text[i].lex.is # "dotted"

(* jws.go:119-121: a signed response verifies however it was decoded and   *)
(* encoded, by wrapEnvelope and by others on the way, in whatever order    *)
(* and spelling, as long as a float64 holds the integers that were asked   *)
(* about and what carried it kept the values.                              *)
EnvelopeVerifies ==
    stage = "verified" /\ Fits(request.context) /\ kept => verdict.bragent

(* handler.go:91-95: when the signature is good, nothing on the way        *)
(* altered a value, as float64s go: the payload read into float64s, the    *)
(* context that was signed and the one next to the payload are what the    *)
(* caller sent.  A reader who keeps the digits may still see 2^53 + 1 in   *)
(* the payload, or 1.0, where 2^53, or 1, was signed; with neither in it,  *)
(* every reader sees what the caller sent.                                 *)
VerifiedIsWhatWasAsked ==
    stage = "verified" /\ verdict.bragent =>
        /\ kept
        /\ AnyTree(payload) = Tree(request.context)
        /\ Unambiguous(payload) => Tree(payload) = Tree(request.context)
        /\ Tree(signed) = Tree(request.context)
        /\ Tree(echo) = Tree(request.context)

(* Up to 2^53 the signature is good exactly if the values were kept.       *)
SignatureIsSound == SignedTypeOK /\ EnvelopeVerifies /\ VerifiedIsWhatWasAsked

(* jws.go:35-37: request_hash depends on what the request says and not on  *)
(* how it is written: two requests have the same hash exactly if their     *)
(* claims and contexts mean the same.                                      *)
HashIsOfTheMeaning ==
    stage = "signed" /\ earlier # NoCall =>
        (hash = earlier.hash <=> Meaning(request) = earlier.says)

-----------------------------------------------------------------------------
(* What comments of the source say and the code does not keep.             *)

(* jws.go:15: "the signature is computed from the JCS canonicalization of  *)
(* the same payload - verifiers re-canonicalize before checking".  An      *)
(* integer beyond 2^53 in the context is rounded by wrapEnvelope, and by   *)
(* VerifyEnvelope itself, after it was signed digit by digit.              *)
EverySignatureVerifies == stage = "verified" /\ kept => verdict.bragent

(* jws.go:13-15: "the signature is computed from the JCS canonicalization  *)
(* of the same payload".  VerifyEnvelope decodes it into float64s first:   *)
(* the signature of 2^53 is good for a payload that says 2^53 + 1, and     *)
(* that of 1 for one that says 1.0, which jcs.go:16-19 would reject.       *)
SignatureIsOfThePayload ==
    stage = "verified" /\ verdict.bragent =>
        ~HasPoint(payload) /\ Canonical(payload) = signed

(* jcs.go:61: "encoding/json emits RFC 8259 escapes which line up with JCS *)
(* for ASCII payloads".  It escapes <, > and &, which JCS leaves alone.    *)
StandardVerifierAgrees ==
    stage = "verified" /\ Fits(request.context) /\ kept => verdict.standard

(* jws.go:35: request_hash is over "the JCS canonicalization of the        *)
(* verify_brand_claim request body the caller sent us".  It is over the    *)
(* fields that the struct has.                                             *)
HashBindsTheBody ==
    stage = "signed" /\ earlier # NoCall /\ hash = earlier.hash =>
        request.other = earlier.other

(* handlers.go:85: context is a "byte-for-byte echo of the caller's        *)
(* `context` object".  The encoder escapes markup in it.                   *)
EchoIsByteForByte == stage = "sent" => echo = request.context
=============================================================================

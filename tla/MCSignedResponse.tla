-------------------------- MODULE MCSignedResponse --------------------------
(* SignedResponse on a small instance: two member names, an integer that a *)
(* float64 holds, the same with a point, one that a float64 does not hold, *)
(* a fraction, a string that needs no escape and one that may be escaped.  *)
(* What an encoder makes of them is among them.                            *)
EXTENDS SignedResponse

MCLexemes == {Integer(Exact), Dotted(Exact), Integer(Exact + 1), Fraction,
              String("plain", "literal"),
              String("markup", "literal"), String("markup", "escaped")}

(* Claims matter to the hash: one meaning in two spellings, another one,   *)
(* and one that is refused.                                                *)
MCClaims == {<<[name |-> 1, lex |-> lex]>> :
                lex \in {Fraction, String("plain", "literal"),
                         String("markup", "literal"), String("markup", "escaped")}}
=============================================================================

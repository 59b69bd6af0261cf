---------------------------- MODULE AnswerProofs ----------------------------
(***************************************************************************)
(* Proofs about what the server computes of data, for inputs of any size.  *)
(*                                                                         *)
(* SignedResponse: what encoding, decoding and rounding do to a text, and  *)
(* from that what a good signature and an equal hash say.                  *)
(*                                                                         *)
(* Offerings: what a search shows, and what the providers answer.          *)
(*                                                                         *)
(* Both sort, and the mock runs over the catalog.  What holds along a list *)
(* is proved without an induction over data: places are numbers up to its  *)
(* length, and a finite set of numbers has a smallest one.                 *)
(***************************************************************************)
EXTENDS SignedResponse, Offerings, FiniteSetTheorems, SequenceTheorems, TLAPS

-----------------------------------------------------------------------------
(* Numbers in order.                                                       *)

(* How many elements of S are smaller than k.                              *)
Rank(S, k) == Cardinality({j \in S : j < k})

(* The ranks of a finite set of numbers are all numbers below its size.    *)
LEMMA RankFacts ==
    ASSUME NEW S \in SUBSET Nat, IsFiniteSet(S)
    PROVE  /\ Cardinality(S) \in Nat
           /\ \A k \in S : Rank(S, k) \in 0 .. Cardinality(S) - 1
           /\ \A k, l \in S : k < l => Rank(S, k) < Rank(S, l)
           /\ \A m \in 0 .. Cardinality(S) - 1 : \E k \in S : Rank(S, k) = m
  <1> DEFINE n == Cardinality(S)
             Below(k) == {j \in S : j < k}
  <1>1. n \in Nat
    BY FS_CardinalityType
  <1>2. \A k \in S : IsFiniteSet(Below(k)) /\ Rank(S, k) \in Nat /\ Rank(S, k) < n
    <2> SUFFICES ASSUME NEW k \in S
                 PROVE  IsFiniteSet(Below(k)) /\ Rank(S, k) \in Nat /\ Rank(S, k) < n
      OBVIOUS
    <2>1. Below(k) \in SUBSET S /\ k \notin Below(k)
      OBVIOUS
    <2>2. IsFiniteSet(Below(k)) /\ Cardinality(Below(k)) <= n /\ Cardinality(Below(k)) # n
      BY <2>1, FS_Subset
    <2>3. Cardinality(Below(k)) \in Nat
      BY <2>2, FS_CardinalityType
    <2> QED  BY <1>1, <2>2, <2>3 DEF Rank
  <1>3. \A k, l \in S : k < l => Rank(S, k) < Rank(S, l)
    <2> SUFFICES ASSUME NEW k \in S, NEW l \in S, k < l
                 PROVE  Rank(S, k) < Rank(S, l)
      OBVIOUS
    <2>0. k \in Nat /\ l \in Nat
      OBVIOUS
    <2>1. Below(k) \in SUBSET Below(l) /\ k \in Below(l) /\ k \notin Below(k)
      <3>1. \A j \in S : j < k => j < l
        BY <2>0
      <3>2. ~(k < k)
        BY <2>0
      <3> QED  BY <3>1, <3>2, Zenon
    <2>2. Cardinality(Below(k)) <= Cardinality(Below(l))
          /\ Cardinality(Below(k)) # Cardinality(Below(l))
      BY <1>2, <2>1, FS_Subset
    <2>3. Rank(S, k) = Cardinality(Below(k)) /\ Rank(S, l) = Cardinality(Below(l))
      BY DEF Rank
    <2> QED  BY <1>2, <2>2, <2>3
  <1>4. \A k \in S : Rank(S, k) \in 0 .. n - 1
    <2> SUFFICES ASSUME NEW k \in S PROVE Rank(S, k) \in 0 .. n - 1
      OBVIOUS
    <2> DEFINE m == Rank(S, k)
    <2>1. m \in Nat /\ m < n
      BY <1>2
    <2> HIDE DEF m, n
    <2>2. m \in 0 .. n - 1
      BY <1>1, <2>1
    <2> QED  BY <2>2 DEF m
  <1>5. \A m \in 0 .. n - 1 : \E k \in S : Rank(S, k) = m
    <2> DEFINE r == [k \in S |-> Rank(S, k)]
               R == {Rank(S, k) : k \in S}
    <2>1. r \in Surjection(S, R)
      BY DEF Surjection
    <2>2. r \in Injection(S, R)
      <3>1. r \in [S -> R]
        OBVIOUS
      <3>2. \A k, l \in S : r[k] = r[l] => k = l
        <4> SUFFICES ASSUME NEW k \in S, NEW l \in S, Rank(S, k) = Rank(S, l)
                     PROVE  k = l
          OBVIOUS
        <4>1. k < l \/ l < k \/ k = l
          OBVIOUS
        <4>2. ~(Rank(S, k) < Rank(S, l)) /\ ~(Rank(S, l) < Rank(S, k))
          <5> DEFINE m == Rank(S, k)
          <5>1. m \in Nat
            BY <1>2
          <5> HIDE DEF m
          <5>2. ~(m < m)
            BY <5>1
          <5> QED  BY <5>2 DEF m
        <4> QED  BY <1>3, <4>1, <4>2
      <3> QED  BY <3>1, <3>2 DEF Injection, IsInjective
    <2>3. Cardinality(R) = n
      BY <2>1, <2>2, FS_Surjection
    <2>4. IsFiniteSet(0 .. n - 1) /\ Cardinality(0 .. n - 1) = n
      <3> HIDE DEF n
      <3>1. 0 \in Int /\ n - 1 \in Int /\ (IF 0 > n - 1 THEN 0 ELSE n - 1 - 0 + 1) = n
        BY <1>1
      <3> QED  BY <3>1, FS_Interval
    <2>5. R \in SUBSET (0 .. n - 1)
      BY <1>4
    <2>6. R = 0 .. n - 1
      BY <2>3, <2>4, <2>5, FS_Subset
    <2> QED  BY <2>6
  <1> QED  BY <1>1, <1>3, <1>4, <1>5

(* So the largest one exists.                                              *)
LEMMA MaxFacts ==
    ASSUME NEW S \in SUBSET Nat, IsFiniteSet(S), S # {}
    PROVE  Max(S) \in S /\ \A k \in S : k <= Max(S)
  <1>1. PICK j \in S : TRUE
    OBVIOUS
  <1>2. Cardinality(S) - 1 \in 0 .. Cardinality(S) - 1
    BY <1>1, RankFacts
  <1>3. PICK m \in S : Rank(S, m) = Cardinality(S) - 1
    BY <1>2, RankFacts
  <1>4. \A k \in S : m >= k
    <2> SUFFICES ASSUME NEW k \in S, m < k PROVE FALSE
      OBVIOUS
    <2>1. Rank(S, m) < Rank(S, k) /\ Rank(S, k) \in 0 .. Cardinality(S) - 1
          /\ Cardinality(S) \in Nat
      BY RankFacts
    <2> QED  BY <1>3, <2>1
  <1>5. Max(S) \in S /\ \A k \in S : Max(S) >= k
    BY <1>4 DEF Max
  <1> QED  BY <1>5

(* And listing them in order lists each once.                              *)
LEMMA InOrderFacts ==
    ASSUME NEW S \in SUBSET Nat, IsFiniteSet(S)
    PROVE  /\ Cardinality(S) \in Nat
           /\ InOrder(S) \in [1 .. Cardinality(S) -> S]
           /\ \A k \in S : \E i \in 1 .. Cardinality(S) : InOrder(S)[i] = k
           /\ \A i, j \in 1 .. Cardinality(S) : i < j => InOrder(S)[i] < InOrder(S)[j]
  <1> DEFINE n == Cardinality(S)
             keys == InOrder(S)
  <1>1. n \in Nat
    BY RankFacts
  <1>2. \A i \in 1 .. n : keys[i] \in S /\ Rank(S, keys[i]) = i - 1
    <2> SUFFICES ASSUME NEW i \in 1 .. n
                 PROVE  keys[i] \in S /\ Rank(S, keys[i]) = i - 1
      OBVIOUS
    <2>1. i - 1 \in 0 .. n - 1
      BY <1>1
    <2>2. \E k \in S : Rank(S, k) = i - 1
      BY <2>1, RankFacts
    <2>3. keys[i] = CHOOSE k \in S : Rank(S, k) = i - 1
      BY DEF InOrder, Rank
    <2> QED  BY <2>2, <2>3
  <1>3. keys \in [1 .. n -> S]
    BY <1>2 DEF InOrder
  <1>4. \A k \in S : \E i \in 1 .. n : keys[i] = k
    <2> SUFFICES ASSUME NEW k \in S PROVE \E i \in 1 .. n : keys[i] = k
      OBVIOUS
    <2>1. Rank(S, k) \in 0 .. n - 1
      BY RankFacts
    <2>2. Rank(S, k) + 1 \in 1 .. n
      BY <1>1, <2>1
    <2> DEFINE i == Rank(S, k) + 1
    <2>3. keys[i] \in S /\ Rank(S, keys[i]) = Rank(S, k)
      BY <1>1, <1>2, <2>1, <2>2
    <2>4. \A a, b \in S : a < b => Rank(S, a) < Rank(S, b)
      BY RankFacts
    <2>5. keys[i] \in Nat /\ k \in Nat
      BY <2>3
    <2>6. keys[i] = k
      <3> DEFINE l == keys[i]
      <3> HIDE DEF l, keys, i
      <3>1. l < k \/ k < l \/ l = k
        BY <2>5 DEF l
      <3>2. ~(Rank(S, l) < Rank(S, k)) /\ ~(Rank(S, k) < Rank(S, l))
        BY <2>1, <2>3 DEF l
      <3> QED  BY <2>3, <2>4, <3>1, <3>2 DEF l
    <2> QED  BY <2>2, <2>6
  <1>5. \A i, j \in 1 .. n : i < j => keys[i] < keys[j]
    <2> SUFFICES ASSUME NEW i \in 1 .. n, NEW j \in 1 .. n, i < j
                 PROVE  keys[i] < keys[j]
      OBVIOUS
    <2>1. \A a, b \in S : a < b => Rank(S, a) < Rank(S, b)
      BY RankFacts
    <2> DEFINE k == keys[i]
               l == keys[j]
    <2>2. /\ k \in S /\ l \in S /\ k \in Nat /\ l \in Nat
          /\ Rank(S, k) = i - 1 /\ Rank(S, l) = j - 1
      BY <1>2
    <2> HIDE DEF k, l, keys
    <2>3. ~(l < k) /\ k # l
      BY <1>1, <2>1, <2>2
    <2>4. k < l
      BY <2>2, <2>3
    <2> QED  BY <2>4 DEF k, l
  <1> QED  BY <1>1, <1>3, <1>4, <1>5

(* A set of numbers up to n has a smallest one: what holds at its          *)
(* beginning and stays from each number to the next holds up to n.         *)
LEMMA LeastFacts ==
    ASSUME NEW n \in Nat, NEW S \in SUBSET (0 .. n), S # {}
    PROVE  \E k \in S : \A j \in S : k <= j
  <1>1. IsFiniteSet(0 .. n)
    BY FS_Interval
  <1>2. IsFiniteSet(S) /\ S \in SUBSET Nat
    <2>1. IsFiniteSet(S)
      BY <1>1, FS_Subset
    <2>2. S \in SUBSET Nat
      OBVIOUS
    <2> QED  BY <2>1, <2>2
  <1>3. Cardinality(S) \in Nat /\ \A k \in S : Rank(S, k) \in 0 .. Cardinality(S) - 1
    BY <1>2, RankFacts
  <1>4. 0 \in 0 .. Cardinality(S) - 1
    <2> DEFINE c == Cardinality(S)
    <2>1. c \in Nat /\ \E k \in S : Rank(S, k) \in 0 .. c - 1
      BY <1>3
    <2> HIDE DEF c
    <2>2. 0 \in 0 .. c - 1
      BY <2>1
    <2> QED  BY <2>2 DEF c
  <1>5. PICK k \in S : Rank(S, k) = 0
    BY <1>2, <1>4, RankFacts
  <1>6. \A j \in S : ~(j < k)
    <2> SUFFICES ASSUME NEW j \in S, j < k PROVE FALSE
      OBVIOUS
    <2>1. Rank(S, j) < 0 /\ Rank(S, j) \in 0 .. Cardinality(S) - 1
      BY <1>2, <1>3, <1>5, RankFacts
    <2> QED  BY <1>3, <2>1
  <1>7. \A j \in S : j \in Nat /\ k \in Nat
    OBVIOUS
  <1>8. \A j \in S : k <= j
    BY <1>6, <1>7
  <1> QED  BY <1>8


-----------------------------------------------------------------------------
(* Values, trees and texts.                                                *)
Values == {Value(lex) : lex \in Lexemes}

IsTree(tree) ==
    /\ tree = [k \in DOMAIN tree |-> tree[k]]
    /\ DOMAIN tree \in SUBSET Names
    /\ IsFiniteSet(DOMAIN tree) /\ Cardinality(DOMAIN tree) <= MaxMembers
    /\ \A k \in DOMAIN tree : tree[k] \in Values

(* An encoder writes a value of its type, and a decoder reads it back.     *)
LEMMA SpellingFacts ==
    ASSUME NEW v \in Values, NEW html \in BOOLEAN
    PROVE  Spelling(v, html) \in Lexemes /\ Value(Spelling(v, html)) = v
  <1>1. PICK lex \in Lexemes : v = Value(lex)
    BY DEF Values
  <1>2. Spelling(v, html) \in Lexemes
    BY <1>1, ClosedAssumption
  <1>3. CASE v.is # "string"
    <2>1. Spelling(v, html) = v
      BY <1>3 DEF Spelling
    <2>2. Value(v) = v
      BY <1>3 DEF Value
    <2> QED  BY <1>2, <2>1, <2>2
  <1>4. CASE v.is = "string"
    <2>1. v = [is |-> "string", s |-> lex.s]
      BY <1>1, <1>4 DEF Value
    <2>2. PICK sp : Spelling(v, html) = String(v.s, sp)
      BY <1>4 DEF Spelling
    <2>3. Value(Spelling(v, html)) = [is |-> "string", s |-> v.s]
      BY <2>2 DEF Value, String
    <2> QED  BY <1>2, <2>1, <2>3
  <1> QED  BY <1>2, <1>3, <1>4

(* A text is members in places 1 to n.                                     *)
LEMMA TextFacts ==
    ASSUME NEW text \in Texts
    PROVE  \E n \in Nat : /\ n <= MaxMembers /\ DOMAIN text = 1 .. n
                          /\ text \in [1 .. n -> Members]
                          /\ \A i \in 1 .. n : /\ text[i].name \in Names
                                               /\ text[i].lex \in Lexemes
                                               /\ Value(text[i].lex) \in Values
  <1>1. PICK n \in 0 .. MaxMembers : text \in [1 .. n -> Members]
    BY DEF Texts
  <1>2. n \in Nat /\ n <= MaxMembers
    BY ClaimsAssumption
  <1> QED  BY <1>1, <1>2 DEF Members, Values

(* Where a name is in a text.                                              *)
Places(text, k) == {i \in DOMAIN text : text[i].name = k}

(* A decoder keeps the last value of a name, and a name is there if it is  *)
(* in the text.                                                            *)
LEMMA TreeByPlaces ==
    ASSUME NEW text, NEW k \in DOMAIN Tree(text)
    PROVE  Tree(text)[k] = Value(text[Max(Places(text, k))].lex)
  BY DEF Tree, Places

(* A decoder keeps the names of a text, each once.                         *)
LEMMA DomainOfTree ==
    ASSUME NEW text
    PROVE  /\ DOMAIN Tree(text) = {text[i].name : i \in DOMAIN text}
           /\ Tree(text) = [k \in DOMAIN Tree(text) |-> Tree(text)[k]]
  BY DEF Tree

(* What a text decodes to is a tree, of values that are in the text.       *)
LEMMA TreeFacts ==
    ASSUME NEW text \in Texts
    PROVE  /\ IsTree(Tree(text))
           /\ \A k \in DOMAIN Tree(text) :
                 \E i \in DOMAIN text : /\ text[i].name = k
                                        /\ Tree(text)[k] = Value(text[i].lex)
  <1> DEFINE D == DOMAIN Tree(text)
  <1>1. PICK n \in Nat : /\ n <= MaxMembers /\ DOMAIN text = 1 .. n
                         /\ \A i \in 1 .. n : /\ text[i].name \in Names
                                              /\ Value(text[i].lex) \in Values
    BY TextFacts
  <1>2. D = {text[i].name : i \in 1 .. n}
    BY <1>1, DomainOfTree
  <1>3. IsFiniteSet(D) /\ Cardinality(D) <= n /\ Cardinality(D) \in Nat
    <2> DEFINE f == [i \in 1 .. n |-> text[i].name]
    <2>1. f \in Surjection(1 .. n, D)
      BY <1>2 DEF Surjection
    <2>2. IsFiniteSet(1 .. n) /\ Cardinality(1 .. n) = n
      <3>1. 1 \in Int /\ n \in Int /\ (IF 1 > n THEN 0 ELSE n - 1 + 1) = n
        OBVIOUS
      <3> QED  BY <3>1, FS_Interval
    <2>3. IsFiniteSet(D) /\ Cardinality(D) <= n
      BY <2>1, <2>2, FS_Surjection
    <2> QED  BY <2>3, FS_CardinalityType
  <1>4. \A k \in D : \E i \in DOMAIN text : /\ text[i].name = k
                                            /\ Tree(text)[k] = Value(text[i].lex)
    <2> SUFFICES ASSUME NEW k \in D
                 PROVE  \E i \in DOMAIN text : /\ text[i].name = k
                                               /\ Tree(text)[k] = Value(text[i].lex)
      OBVIOUS
    <2>1. Places(text, k) \in SUBSET (1 .. n) /\ Places(text, k) # {}
      BY <1>1, <1>2 DEF Places
    <2>2. IsFiniteSet(1 .. n)
      BY FS_Interval
    <2>3. IsFiniteSet(Places(text, k)) /\ Places(text, k) \in SUBSET Nat
      BY <2>1, <2>2, FS_Subset
    <2>4. Max(Places(text, k)) \in Places(text, k)
      BY <2>1, <2>3, MaxFacts
    <2> QED  BY <2>4, TreeByPlaces DEF Places
  <1>5. Cardinality(D) <= MaxMembers
    <2> DEFINE c == Cardinality(D)
    <2> HIDE DEF c, D
    <2>1. c \in Nat /\ c <= n
      BY <1>3 DEF c
    <2>2. c <= MaxMembers
      BY <1>1, <2>1, ClaimsAssumption
    <2> QED  BY <2>2 DEF c
  <1>6. D \in SUBSET Names
    BY <1>1, <1>2
  <1>7. \A k \in D : Tree(text)[k] \in Values
    BY <1>1, <1>4
  <1> QED  BY <1>3, <1>4, <1>5, <1>6, <1>7, DomainOfTree DEF IsTree

(* Decoding what was encoded gives the tree back.                          *)
LEMMA TreeOfEncode ==
    ASSUME NEW tree, IsTree(tree), NEW html \in BOOLEAN
    PROVE  Encode(tree, html) \in Texts /\ Tree(Encode(tree, html)) = tree
  <1> DEFINE D == DOMAIN tree
             n == Cardinality(D)
             keys == InOrder(D)
             text == Encode(tree, html)
  <1>1. D \in SUBSET Nat /\ IsFiniteSet(D) /\ n <= MaxMembers
    BY LexemesAssumption DEF IsTree
  <1>2. /\ n \in Nat /\ keys \in [1 .. n -> D]
        /\ \A k \in D : \E i \in 1 .. n : keys[i] = k
        /\ \A i, j \in 1 .. n : keys[i] = keys[j] => i = j
    BY <1>1, InOrderFacts
  <1>3. Len(keys) = n
    <2> HIDE DEF keys, n
    <2> QED  BY <1>2
  <1>4. text = [i \in 1 .. n |-> [name |-> keys[i], lex |-> Spelling(tree[keys[i]], html)]]
    BY <1>3 DEF Encode
  <1>5. \A i \in 1 .. n : /\ text[i].name = keys[i]
                          /\ text[i].lex \in Lexemes
                          /\ Value(text[i].lex) = tree[keys[i]]
    <2> SUFFICES ASSUME NEW i \in 1 .. n
                 PROVE  /\ text[i].name = keys[i] /\ text[i].lex \in Lexemes
                        /\ Value(text[i].lex) = tree[keys[i]]
      OBVIOUS
    <2>1. tree[keys[i]] \in Values
      BY <1>2 DEF IsTree
    <2>2. text[i].name = keys[i] /\ text[i].lex = Spelling(tree[keys[i]], html)
      BY <1>4
    <2> QED  BY <2>1, <2>2, SpellingFacts
  <1>6. text \in Texts
    <2> HIDE DEF keys, n, text
    <2>1. \A i \in 1 .. n : [name |-> keys[i], lex |-> Spelling(tree[keys[i]], html)] \in Members
      <3> SUFFICES ASSUME NEW i \in 1 .. n
                   PROVE  [name |-> keys[i], lex |-> Spelling(tree[keys[i]], html)] \in Members
        OBVIOUS
      <3>1. keys[i] \in Names
        BY <1>2 DEF IsTree
      <3>2. Spelling(tree[keys[i]], html) \in Lexemes
        BY <1>2, SpellingFacts DEF IsTree
      <3> QED  BY <3>1, <3>2 DEF Members
    <2>2. text \in [1 .. n -> Members]
      BY <1>4, <2>1
    <2>3. n \in 0 .. MaxMembers
      BY <1>1, <1>2, ClaimsAssumption DEF n
    <2> QED  BY <2>2, <2>3 DEF Texts
  <1>7. DOMAIN text = 1 .. n
    BY <1>4
  <1>8. DOMAIN Tree(text) = D
    <2> HIDE DEF keys, n, text
    <2>1. DOMAIN Tree(text) = {text[i].name : i \in 1 .. n}
      BY <1>7, DomainOfTree
    <2>2. \A i \in 1 .. n : text[i].name \in D
      BY <1>2, <1>5
    <2>3. \A k \in D : \E i \in 1 .. n : text[i].name = k
      BY <1>2, <1>5
    <2> QED  BY <2>1, <2>2, <2>3
  <1>9. \A k \in D : Tree(text)[k] = tree[k]
    <2> HIDE DEF keys, n, text
    <2> SUFFICES ASSUME NEW k \in D PROVE Tree(text)[k] = tree[k]
      OBVIOUS
    <2>1. PICK i \in DOMAIN text : text[i].name = k /\ Tree(text)[k] = Value(text[i].lex)
      BY <1>6, <1>8, TreeFacts
    <2> QED  BY <1>5, <1>7, <2>1
  <1> QED  BY <1>6, <1>8, <1>9, DomainOfTree DEF IsTree

(* So two trees never have one text.                                       *)
LEMMA MarshalIsInjective ==
    ASSUME NEW t, IsTree(t), NEW u, IsTree(u), Marshal(t) = Marshal(u)
    PROVE  t = u
  <1>1. Tree(Marshal(t)) = t /\ Tree(Marshal(u)) = u
    BY TreeOfEncode DEF Marshal
  <1> QED  BY <1>1

(* The tree of a RawMessage is that of the bytes it holds.                 *)
LEMMA TreeOfCompact ==
    ASSUME NEW text \in Texts
    PROVE  Compact(text) \in Texts /\ Tree(Compact(text)) = Tree(text)
  <1> DEFINE other == Compact(text)
             written(i) == Spelling(Value(text[i].lex), TRUE)
  <1>1. PICK n \in Nat : /\ n <= MaxMembers /\ DOMAIN text = 1 .. n
                         /\ \A i \in 1 .. n : /\ text[i].name \in Names
                                              /\ Value(text[i].lex) \in Values
    BY TextFacts
  <1>2. other = [i \in 1 .. n |-> [name |-> text[i].name,
                                   lex |-> written(i)]]
    BY <1>1 DEF Compact
  <1>3. \A i \in 1 .. n : /\ other[i].name = text[i].name
                          /\ written(i) \in Lexemes
                          /\ Value(other[i].lex) = Value(text[i].lex)
    <2> SUFFICES ASSUME NEW i \in 1 .. n
                 PROVE  /\ other[i].name = text[i].name
                        /\ written(i) \in Lexemes
                        /\ Value(other[i].lex) = Value(text[i].lex)
      OBVIOUS
    <2>1. Value(text[i].lex) \in Values /\ TRUE \in BOOLEAN
      BY <1>1
    <2>2. written(i) \in Lexemes /\ Value(written(i)) = Value(text[i].lex)
      BY <2>1, SpellingFacts
    <2> HIDE DEF written, other
    <2>3. other[i].name = text[i].name /\ other[i].lex = written(i)
      BY <1>2
    <2> QED  BY <2>2, <2>3
  <1> HIDE DEF written, other
  <1>4. DOMAIN other = 1 .. n
    BY <1>2
  <1>5. other \in Texts
    <2>1. \A i \in 1 .. n : [name |-> text[i].name,
                             lex |-> written(i)] \in Members
      BY <1>1, <1>3 DEF Members
    <2>2. other \in [1 .. n -> Members]
      BY <1>2, <2>1
    <2>3. n \in 0 .. MaxMembers
      BY <1>1, ClaimsAssumption
    <2> QED  BY <2>2, <2>3 DEF Texts
  <1>6. DOMAIN Tree(other) = DOMAIN Tree(text)
    <2>1. DOMAIN Tree(other) = {other[i].name : i \in 1 .. n}
      BY <1>4, DomainOfTree
    <2>2. DOMAIN Tree(text) = {text[i].name : i \in 1 .. n}
      BY <1>1, DomainOfTree
    <2> QED  BY <1>3, <2>1, <2>2
  <1>7. \A k \in DOMAIN Tree(text) : Tree(other)[k] = Tree(text)[k]
    <2> SUFFICES ASSUME NEW k \in DOMAIN Tree(text)
                 PROVE  Tree(other)[k] = Tree(text)[k]
      OBVIOUS
    <2>1. Places(other, k) = Places(text, k)
      BY <1>1, <1>3, <1>4 DEF Places
    <2>2. Places(text, k) \in SUBSET (1 .. n) /\ Places(text, k) # {}
      <3>1. k \in {text[i].name : i \in 1 .. n}
        BY <1>1, DomainOfTree
      <3> QED  BY <1>1, <3>1 DEF Places
    <2>3. IsFiniteSet(1 .. n)
      BY FS_Interval
    <2>4. IsFiniteSet(Places(text, k)) /\ Places(text, k) \in SUBSET Nat
      BY <2>2, <2>3, FS_Subset
    <2>5. Max(Places(text, k)) \in 1 .. n
      BY <2>2, <2>4, MaxFacts
    <2> QED  BY <1>3, <1>6, <2>1, <2>5, TreeByPlaces
  <1>8. /\ Tree(other) = [k \in DOMAIN Tree(other) |-> Tree(other)[k]]
        /\ Tree(text) = [k \in DOMAIN Tree(text) |-> Tree(text)[k]]
    BY DomainOfTree
  <1>9. Tree(other) = Tree(text)
    BY <1>6, <1>7, <1>8
  <1> QED  BY <1>5, <1>9 DEF other

-----------------------------------------------------------------------------
(* Numbers.  Rounding twice is rounding once.                              *)
Rounded(tree) ==
    [k \in DOMAIN tree |-> IF tree[k].is \in Integral
                           THEN Integer(Float64(tree[k].n)) ELSE tree[k]]

(* It is the identity up to 2^53, and gives naturals.                      *)
LEMMA FloatFacts ==
    ASSUME NEW n \in Nat
    PROVE  /\ Float64(n) \in Nat
           /\ Float64(Float64(n)) = Float64(n)
           /\ n <= Exact => Float64(n) = n
  <1>1. Exact \in Nat \ {0}
    BY LexemesAssumption
  <1>2. CASE n <= Exact \/ n % 2 = 0
    BY <1>1, <1>2 DEF Float64
  <1>3. CASE n > Exact /\ n % 2 # 0
    <2>1. PICK h \in Nat : h = n \div 2 /\ n = 2 * h + 1
      BY <1>3
    <2>2. (n - 1) \in Nat /\ (n + 1) \in Nat /\ (n - 1) % 2 = 0 /\ (n + 1) % 2 = 0
      BY <2>1
    <2>3. Float64(n) = n - 1 \/ Float64(n) = n + 1
      BY <1>1, <1>3 DEF Float64
    <2>4. Float64(n - 1) = n - 1 /\ Float64(n + 1) = n + 1
      BY <2>2 DEF Float64
    <2> QED  BY <1>1, <1>3, <2>2, <2>3, <2>4
  <1> QED  BY <1>1, <1>2, <1>3

(* A value that is an integer, written with a point or not, has a natural  *)
(* number, and what it becomes as a float64 is a value.                    *)
LEMMA IntegerFacts ==
    ASSUME NEW v \in Values, v.is \in Integral
    PROVE  /\ v.n \in Nat
           /\ v.is = "integer" => v = Integer(v.n)
           /\ Integer(Float64(v.n)) \in Values
  <1>1. PICK lex \in Lexemes : v = Value(lex)
    BY DEF Values
  <1>2. lex.is # "string"
    BY <1>1 DEF Value, Integral
  <1>3. v = lex
    BY <1>1, <1>2 DEF Value
  <1>4. v \in AllLexemes
    BY <1>3, LexemesAssumption
  <1>5. v # Fraction
    BY DEF Fraction, Integral
  <1>6. \E n \in Magnitudes : v = Integer(n) \/ v = Dotted(n)
    BY <1>2, <1>3, <1>4, <1>5 DEF AllLexemes, String
  <1>7. v.n \in Nat /\ (v.is = "integer" => v = Integer(v.n))
    BY <1>6, LexemesAssumption DEF Integer, Dotted, Magnitudes
  <1>8. Integer(Float64(v.n)) \in Lexemes
    BY <1>3, ClosedAssumption
  <1>9. Integer(Float64(v.n)).is # "string"
    BY DEF Integer
  <1>10. Value(Integer(Float64(v.n))) = Integer(Float64(v.n))
    BY <1>9 DEF Value
  <1> QED  BY <1>7, <1>8, <1>10 DEF Values

(* A value that a float64 neither rounds nor writes in another way.        *)
AsItIs(v) == v.is # "dotted" /\ (v.is = "integer" => v.n <= Exact)

(* And so for trees.                                                       *)
LEMMA RoundedFacts ==
    ASSUME NEW tree, IsTree(tree)
    PROVE  /\ IsTree(Rounded(tree))
           /\ Rounded(Rounded(tree)) = Rounded(tree)
           /\ (\A k \in DOMAIN tree : AsItIs(tree[k])) => Rounded(tree) = tree
  <1> DEFINE D == DOMAIN tree
             rounded == Rounded(tree)
  <1>1. DOMAIN rounded = D /\ rounded = [k \in D |-> rounded[k]]
    BY DEF Rounded
  <1>2. \A k \in D : /\ rounded[k] \in Values
                     /\ tree[k].is \notin Integral => rounded[k] = tree[k]
                     /\ tree[k].is \in Integral =>
                           /\ tree[k].n \in Nat
                           /\ rounded[k] = Integer(Float64(tree[k].n))
                           /\ tree[k].is = "integer" => tree[k] = Integer(tree[k].n)
    <2> SUFFICES ASSUME NEW k \in D
                 PROVE  /\ rounded[k] \in Values
                        /\ tree[k].is \notin Integral => rounded[k] = tree[k]
                        /\ tree[k].is \in Integral =>
                              /\ tree[k].n \in Nat
                              /\ rounded[k] = Integer(Float64(tree[k].n))
                              /\ tree[k].is = "integer" => tree[k] = Integer(tree[k].n)
      OBVIOUS
    <2>1. tree[k] \in Values
      BY DEF IsTree
    <2>2. rounded[k] = IF tree[k].is \in Integral
                       THEN Integer(Float64(tree[k].n)) ELSE tree[k]
      BY DEF Rounded
    <2> QED  BY <2>1, <2>2, IntegerFacts
  <1>3. IsTree(rounded)
    <2> HIDE DEF rounded
    <2> QED  BY <1>1, <1>2 DEF IsTree
  <1>4. \A k \in D : Rounded(rounded)[k] = rounded[k]
    <2> SUFFICES ASSUME NEW k \in D PROVE Rounded(rounded)[k] = rounded[k]
      OBVIOUS
    <2>1. Rounded(rounded)[k] = IF rounded[k].is \in Integral
                                THEN Integer(Float64(rounded[k].n)) ELSE rounded[k]
      BY <1>1 DEF Rounded
    <2> HIDE DEF rounded
    <2>2. CASE tree[k].is \notin Integral
      BY <1>2, <2>1, <2>2
    <2>3. CASE tree[k].is \in Integral
      <3> DEFINE n == tree[k].n
      <3>1. n \in Nat /\ rounded[k] = Integer(Float64(n))
        BY <1>2, <2>3
      <3>2. rounded[k].n = Float64(n) /\ rounded[k].is \in Integral
        BY <3>1 DEF Integer, Integral
      <3>3. Float64(Float64(n)) = Float64(n)
        BY <3>1, FloatFacts
      <3> QED  BY <2>1, <3>1, <3>2, <3>3
    <2> QED  BY <2>2, <2>3
  <1>5. Rounded(rounded) = rounded
    <2>1. Rounded(rounded) = [k \in D |-> Rounded(rounded)[k]]
      BY <1>1 DEF Rounded
    <2> HIDE DEF rounded
    <2> QED  BY <1>1, <1>4, <2>1
  <1>6. ASSUME \A k \in D : AsItIs(tree[k])
        PROVE  rounded = tree
    <2> HIDE DEF rounded
    <2>1. \A k \in D : rounded[k] = tree[k]
      <3> SUFFICES ASSUME NEW k \in D PROVE rounded[k] = tree[k]
        OBVIOUS
      <3>1. CASE tree[k].is \notin Integral
        BY <1>2, <3>1
      <3>2. CASE tree[k].is \in Integral
        <4>1. tree[k].n \in Nat /\ tree[k].n <= Exact /\ tree[k].is = "integer"
          BY <1>2, <1>6, <3>2 DEF AsItIs, Integral
        <4>2. Float64(tree[k].n) = tree[k].n
          BY <4>1, FloatFacts
        <4> QED  BY <1>2, <3>2, <4>1, <4>2
      <3> QED  BY <3>1, <3>2
    <2> QED  BY <1>1, <2>1 DEF IsTree
  <1> QED  BY <1>3, <1>5, <1>6

(* encoding/json into any is decoding and rounding.                        *)
LEMMA AnyTreeIsRounded == \A text : AnyTree(text) = Rounded(Tree(text))
  BY DEF AnyTree, Rounded

(* Whether a text has a point shows in its tree.                           *)
LEMMA PointInTree ==
    ASSUME NEW text
    PROVE  HasPoint(text) <=> \E k \in DOMAIN Tree(text) :
                                 Tree(text)[k].is \in {"dotted", "fraction"}
  <1>1. DOMAIN Tree(text) = {text[i].name : i \in DOMAIN text}
    BY DomainOfTree
  <1> QED  BY <1>1 DEF HasPoint

(* A text whose integers fit and have no point loses nothing by rounding.  *)
LEMMA FitsInTree ==
    ASSUME NEW text \in Texts, Fits(text), ~HasPoint(text) \/ Unambiguous(text)
    PROVE  Rounded(Tree(text)) = Tree(text)
  <1> DEFINE tree == Tree(text)
  <1>1. IsTree(tree)
    BY TreeFacts
  <1>2. \A k \in DOMAIN tree : AsItIs(tree[k])
    <2> SUFFICES ASSUME NEW k \in DOMAIN tree PROVE AsItIs(tree[k])
      OBVIOUS
    <2>1. PICK i \in DOMAIN text : tree[k] = Value(text[i].lex)
      BY TreeFacts
    <2>2. CASE text[i].lex.is = "string"
      BY <2>1, <2>2 DEF Value, AsItIs
    <2>3. CASE text[i].lex.is # "string"
      <3>1. tree[k] = text[i].lex
        BY <2>1, <2>3 DEF Value
      <3>2. tree[k].is = "integer" => tree[k].n <= Exact
        BY <3>1 DEF Fits
      <3>3. tree[k].is # "dotted"
        <4>1. CASE ~HasPoint(text)
          BY <4>1, PointInTree
        <4>2. CASE Unambiguous(text)
          BY <3>1, <4>2 DEF Unambiguous
        <4> QED  BY <4>1, <4>2
      <3> QED  BY <3>2, <3>3 DEF AsItIs
    <2> QED  BY <2>2, <2>3
  <1> HIDE DEF tree
  <1> QED  BY <1>1, <1>2, RoundedFacts DEF tree

-----------------------------------------------------------------------------
(* The signed response on its way: signed is the canonical form of a       *)
(* context without points, what is sent decodes to the rounded tree of it, *)
(* what is delivered may decode to anything, which kept compares with what *)
(* was sent, the echo decodes to the tree itself, and a hash kept is that  *)
(* of a request.                                                           *)
Answered == {"signed", "sent", "delivered", "verified"}
Arrived  == {"delivered", "verified"}

Accepted(text, canonical) ==
    LET again == Marshal(AnyTree(text))
    IN  ~HasPoint(again) /\ Canonical(again) = canonical

SignedPath ==
    /\ stage \in Answered => /\ ~HasPoint(request.context)
                             /\ signed = Canonical(request.context)
    /\ stage = "signed" => hash = RequestHash(request)
    /\ stage \in Answered \ {"signed"} => Tree(echo) = Tree(request.context)
    /\ stage = "sent" => Tree(payload) = AnyTree(signed)
    /\ stage \in Arrived => (kept <=> AnyTree(payload) = Rounded(AnyTree(signed)))
    /\ stage = "verified" => (verdict.bragent <=> Accepted(payload, signed))

EarlierCall ==
    earlier # NoCall => \E r \in Requests : /\ earlier.says = Meaning(r)
                                            /\ earlier.hash = RequestHash(r)

SignedInv == SignedTypeOK /\ SignedPath /\ EarlierCall

(* Texts, canonical forms and requests are what they should be.            *)
LEMMA NothingIsText == Nothing \in Texts
  <1>1. 0 \in 0 .. MaxMembers
    BY ClaimsAssumption
  <1>2. Nothing \in [1 .. 0 -> Members]
    BY DEF Nothing
  <1> QED  BY <1>1, <1>2 DEF Texts

(* The canonical form is a text of the same tree.                          *)
LEMMA CanonicalFacts ==
    ASSUME NEW text \in Texts
    PROVE  Canonical(text) \in Texts /\ Tree(Canonical(text)) = Tree(text)
  <1>1. IsTree(Tree(text))
    BY TreeFacts
  <1> QED  BY <1>1, TreeOfEncode DEF Canonical, Marshal

(* A request is told from no request, and its hash is two texts.           *)
LEMMA RequestFacts ==
    ASSUME NEW r \in Requests
    PROVE  /\ r # NoCall /\ r.other \in BOOLEAN
           /\ r.claim \in Texts /\ r.context \in Texts
           /\ RequestHash(r) \in Texts \X Texts
  <1>1. r.claim \in Texts /\ r.context \in Texts /\ r.other \in BOOLEAN
    BY ClaimsAssumption DEF Requests
  <1>2. r # NoCall
    <2>1. "other" \in DOMAIN r /\ "other" \notin DOMAIN NoCall
      BY DEF Requests, NoCall
    <2> QED  BY <2>1
  <1>3. Canonical(r.claim) \in Texts /\ Canonical(r.context) \in Texts
    BY <1>1, CanonicalFacts
  <1> QED  BY <1>1, <1>2, <1>3 DEF RequestHash

(* jws.go:35-37: two requests have one hash exactly if they mean the same. *)
LEMMA HashIsMeaning ==
    ASSUME NEW r \in Requests, NEW s \in Requests
    PROVE  RequestHash(r) = RequestHash(s) <=> Meaning(r) = Meaning(s)
  <1>1. /\ r.claim \in Texts /\ r.context \in Texts
        /\ s.claim \in Texts /\ s.context \in Texts
    BY RequestFacts
  <1>2. /\ IsTree(Tree(r.claim)) /\ IsTree(Tree(r.context))
        /\ IsTree(Tree(s.claim)) /\ IsTree(Tree(s.context))
    BY <1>1, TreeFacts
  <1>3. \A t, u : IsTree(t) /\ IsTree(u) => (Marshal(t) = Marshal(u) <=> t = u)
    BY MarshalIsInjective
  <1>4. /\ Canonical(r.claim) = Canonical(s.claim) <=> Tree(r.claim) = Tree(s.claim)
        /\ Canonical(r.context) = Canonical(s.context)
             <=> Tree(r.context) = Tree(s.context)
    BY <1>2, <1>3 DEF Canonical
  <1> QED  BY <1>4 DEF RequestHash, Meaning

(* What wrapEnvelope encodes decodes to the rounded tree.                  *)
LEMMA EnvelopeFacts ==
    ASSUME NEW text \in Texts
    PROVE  /\ Marshal(AnyTree(text)) \in Texts
           /\ Tree(Marshal(AnyTree(text))) = AnyTree(text)
  <1>1. IsTree(Tree(text))
    BY TreeFacts
  <1>2. IsTree(AnyTree(text))
    BY <1>1, RoundedFacts, AnyTreeIsRounded
  <1> QED  BY <1>2, TreeOfEncode DEF Marshal

(* The invariant holds when nothing was asked yet.                         *)
LEMMA SignedInvInit == SignedInit => SignedInv
  <1> SUFFICES ASSUME SignedInit PROVE SignedInv
    OBVIOUS
  <1>1. SignedTypeOK
    BY NothingIsText DEF SignedInit, SignedTypeOK, Stages, NoVerdict
  <1>2. SignedPath
    BY DEF SignedInit, SignedPath, Answered, Arrived
  <1>3. EarlierCall
    BY DEF SignedInit, EarlierCall
  <1> QED  BY <1>1, <1>2, <1>3 DEF SignedInv

(* Each step keeps what every text on the way decodes to.                  *)
LEMMA SignedInvNext == SignedInv /\ [SignedNext]_signedVars => SignedInv'
  <1> SUFFICES ASSUME SignedInv, [SignedNext]_signedVars PROVE SignedInv'
    OBVIOUS
  <1>0. SignedTypeOK /\ SignedPath /\ EarlierCall
    BY DEF SignedInv
  <1>1. CASE Refuse
    <2>1. SignedTypeOK'
      BY <1>0, <1>1 DEF Refuse, SignedTypeOK, Stages
    <2>2. SignedPath'
      BY <1>1 DEF Refuse, SignedPath, Answered, Arrived
    <2>3. EarlierCall'
      BY <1>0, <1>1 DEF Refuse, EarlierCall
    <2> QED  BY <2>1, <2>2, <2>3 DEF SignedInv
  <1>2. ASSUME NEW r \in Requests, VerifyBrandClaim(r) PROVE SignedInv'
    <2>0. /\ r # NoCall /\ r.context \in Texts /\ RequestHash(r) \in Texts \X Texts
          /\ Canonical(r.context) \in Texts
      BY RequestFacts, CanonicalFacts
    <2>1. SignedTypeOK'
      BY <1>0, <1>2, <2>0 DEF VerifyBrandClaim, SignedTypeOK, Stages
    <2>2. SignedPath'
      BY <1>2 DEF VerifyBrandClaim, SignedPath, Answered, Arrived
    <2>3. EarlierCall'
      BY <1>0, <1>2 DEF VerifyBrandClaim, EarlierCall
    <2> QED  BY <2>1, <2>2, <2>3 DEF SignedInv
  <1>3. CASE WrapEnvelope
    <2>0. request \in Requests /\ request.context \in Texts /\ signed \in Texts
      BY <1>0, <1>3, RequestFacts DEF WrapEnvelope, SignedTypeOK
    <2>1. /\ payload' \in Texts /\ Tree(payload') = AnyTree(signed)
          /\ echo' \in Texts /\ Tree(echo') = Tree(request.context)
      BY <1>3, <2>0, EnvelopeFacts, TreeOfCompact DEF WrapEnvelope
    <2>2. SignedTypeOK'
      BY <1>0, <1>3, <2>1 DEF WrapEnvelope, SignedTypeOK, Stages
    <2>3. SignedPath'
      BY <1>0, <1>3, <2>1 DEF WrapEnvelope, SignedPath, Answered, Arrived
    <2>4. EarlierCall'
      BY <1>3 DEF WrapEnvelope, EarlierCall
    <2> QED  BY <2>2, <2>3, <2>4 DEF SignedInv
  <1>4. CASE Relay
    <2>1. PICK text \in Texts : /\ payload' = text
                                /\ kept' = (AnyTree(text) = AnyTree(payload))
      BY <1>4 DEF Relay
    <2>2. payload' \in Texts /\ kept' \in BOOLEAN
      BY <2>1
    <2>3. AnyTree(payload) = Rounded(AnyTree(signed))
      BY <1>0, <1>4, AnyTreeIsRounded DEF Relay, SignedPath
    <2>4. kept' <=> (AnyTree(payload) = Rounded(AnyTree(signed)))'
      <3>1. signed' = signed
        BY <1>4 DEF Relay
      <3>2. (AnyTree(payload) = Rounded(AnyTree(signed)))'
               <=> AnyTree(text) = Rounded(AnyTree(signed))
        BY <2>1, <3>1
      <3> QED  BY <2>1, <2>3, <3>2
    <2>5. SignedTypeOK'
      BY <1>0, <1>4, <2>2 DEF Relay, SignedTypeOK, Stages
    <2>6. SignedPath'
      BY <1>0, <1>4, <2>4 DEF Relay, SignedPath, Answered, Arrived
    <2>7. EarlierCall'
      BY <1>0, <1>4 DEF Relay, EarlierCall
    <2> QED  BY <2>5, <2>6, <2>7 DEF SignedInv
  <1>5. CASE VerifyEnvelope
    <2> DEFINE good == Accepted(payload, signed)
               also == Encode(AnyTree(payload), FALSE) = signed
    <2>1. verdict' = [bragent |-> good, standard |-> also]
      BY <1>5, Zenon DEF VerifyEnvelope, Accepted
    <2>2. good \in BOOLEAN /\ also \in BOOLEAN
      BY DEF Accepted
    <2>3. /\ stage = "delivered" /\ stage' = "verified"
          /\ UNCHANGED <<request, hash, signed, payload, echo, kept, earlier>>
      BY <1>5 DEF VerifyEnvelope
    <2>4. Accepted(payload, signed)' <=> good
      BY <2>3 DEF Accepted
    <2> HIDE DEF good, also
    <2>5. verdict' \in [bragent : BOOLEAN, standard : BOOLEAN]
          /\ (verdict'.bragent <=> good)
      BY <2>1, <2>2
    <2>6. SignedTypeOK'
      BY <1>0, <2>3, <2>5 DEF SignedTypeOK, Stages
    <2>7. SignedPath'
      BY <1>0, <2>3, <2>4, <2>5 DEF SignedPath, Answered, Arrived
    <2>8. EarlierCall'
      BY <1>0, <2>3 DEF EarlierCall
    <2> QED  BY <2>6, <2>7, <2>8 DEF SignedInv
  <1>6. CASE Again
    <2>1. EarlierCall'
      <3>1. CASE stage = "signed"
        <4>1. request \in Requests /\ hash = RequestHash(request)
          BY <1>0, <3>1 DEF SignedTypeOK, SignedPath
        <4>2. earlier'.says = Meaning(request) /\ earlier'.hash = hash
          BY <1>6, <3>1 DEF Again
        <4> QED  BY <4>1, <4>2 DEF EarlierCall
      <3>2. CASE stage # "signed"
        BY <1>6, <3>2 DEF Again, EarlierCall
      <3> QED  BY <3>1, <3>2
    <2>2. earlier' # NoCall => earlier'.hash \in Texts \X Texts /\ earlier'.other \in BOOLEAN
      <3>1. CASE stage = "signed"
        <4>1. request \in Requests /\ hash = RequestHash(request)
          BY <1>0, <3>1 DEF SignedTypeOK, SignedPath
        <4>2. earlier'.other = request.other /\ earlier'.hash = hash
          BY <1>6, <3>1 DEF Again
        <4> QED  BY <4>1, <4>2, RequestFacts
      <3>2. CASE stage # "signed"
        BY <1>6, <3>2 DEF Again
      <3> QED  BY <3>1, <3>2
    <2>3. SignedTypeOK'
      BY <1>6, <2>2, NothingIsText DEF Again, SignedTypeOK, Stages, NoVerdict
    <2>4. SignedPath'
      BY <1>6 DEF Again, SignedPath, Answered, Arrived
    <2> QED  BY <2>1, <2>3, <2>4 DEF SignedInv
  <1>7. CASE UNCHANGED signedVars
    BY <1>0, <1>7 DEF SignedInv, SignedTypeOK, SignedPath, EarlierCall, signedVars
  <1> QED  BY <1>1, <1>2, <1>3, <1>4, <1>5, <1>6, <1>7 DEF SignedNext

(* So it always holds.                                                     *)
THEOREM SignedInvariant == SignedSpec => []SignedInv
  <1> QED  BY SignedInvInit, SignedInvNext, PTL DEF SignedSpec

(* Whatever is delivered, up to 2^53 the signature is good exactly if no   *)
(* value changed on the way, as float64s go: a response verifies however   *)
(* it was written, and the payload of one that verifies is, read into      *)
(* float64s, the context the caller sent.  Rounding what is rounded        *)
(* changes nothing, and two trees never have one canonical form.           *)
THEOREM SignaturesSound == SignedSpec => []SignatureIsSound
  <1>1. SignedInv => SignatureIsSound
    <2> SUFFICES ASSUME SignedInv PROVE SignatureIsSound
      OBVIOUS
    <2>0. SignedTypeOK /\ SignedPath
      BY DEF SignedInv
    <2>1. CASE stage # "verified"
      BY <2>0, <2>1 DEF SignatureIsSound, EnvelopeVerifies, VerifiedIsWhatWasAsked
    <2>2. CASE stage = "verified"
      <3> DEFINE context == request.context
                 asked == Tree(context)
                 read == AnyTree(payload)
      <3>1. context \in Texts /\ payload \in Texts
        BY <2>0, <2>2, RequestFacts DEF SignedTypeOK
      <3>2. /\ ~HasPoint(context) /\ signed = Canonical(context)
            /\ Tree(echo) = asked
            /\ kept <=> read = Rounded(AnyTree(signed))
            /\ verdict.bragent <=> Accepted(payload, signed)
        BY <2>0, <2>2 DEF SignedPath, Answered, Arrived
      <3> HIDE DEF context
      <3>3. IsTree(asked) /\ Tree(signed) = asked /\ signed = Marshal(asked)
        BY <3>1, <3>2, TreeFacts, CanonicalFacts DEF Canonical
      <3>4. /\ IsTree(read) /\ read = Rounded(Tree(payload)) /\ Rounded(read) = read
            /\ Marshal(read) \in Texts /\ Tree(Marshal(read)) = read
        BY <3>1, TreeFacts, RoundedFacts, AnyTreeIsRounded, EnvelopeFacts
      <3>5. kept <=> read = Rounded(asked)
        BY <3>2, <3>3, AnyTreeIsRounded, RoundedFacts
      <3> HIDE DEF asked, read
      <3>6. Accepted(payload, signed)
               <=> ~HasPoint(Marshal(read)) /\ Marshal(read) = Marshal(asked)
        BY <3>3, <3>4 DEF Accepted, Canonical, read
      <3>7. verdict.bragent => read = asked
        BY <3>2, <3>3, <3>4, <3>6, MarshalIsInjective
      <3>8. verdict.bragent => kept
        BY <3>4, <3>5, <3>7
      <3>9. Unambiguous(payload) => read = Tree(payload)
        BY <3>1, <3>4, FitsInTree DEF Unambiguous
      <3>10. Fits(context) /\ kept => verdict.bragent
        <4> SUFFICES ASSUME Fits(context), kept PROVE verdict.bragent
          OBVIOUS
        <4>1. Rounded(asked) = asked
          BY <3>1, <3>2, FitsInTree DEF asked
        <4>2. read = asked
          BY <3>5, <4>1
        <4>3. ~HasPoint(Marshal(read))
          BY <3>2, <3>4, <4>2, PointInTree DEF asked
        <4> QED  BY <3>2, <3>6, <4>2, <4>3
      <3>11. EnvelopeVerifies
        BY <3>10 DEF EnvelopeVerifies, context
      <3>12. VerifiedIsWhatWasAsked
        BY <3>2, <3>3, <3>7, <3>8, <3>9
           DEF VerifiedIsWhatWasAsked, context, asked, read
      <3> QED  BY <2>0, <3>11, <3>12 DEF SignatureIsSound
    <2> QED  BY <2>1, <2>2
  <1> QED  BY <1>1, SignedInvariant, PTL

(* jws.go:35-37: request_hash is of what the request says, however it is   *)
(* written, and of nothing less.                                           *)
THEOREM HashesMean == SignedSpec => []HashIsOfTheMeaning
  <1>1. SignedInv => HashIsOfTheMeaning
    <2> SUFFICES ASSUME SignedInv, stage = "signed", earlier # NoCall
                 PROVE  hash = earlier.hash <=> Meaning(request) = earlier.says
      BY DEF HashIsOfTheMeaning
    <2>1. request \in Requests /\ hash = RequestHash(request)
      BY DEF SignedInv, SignedTypeOK, SignedPath
    <2>2. PICK r \in Requests : earlier.says = Meaning(r) /\ earlier.hash = RequestHash(r)
      BY DEF SignedInv, EarlierCall
    <2> QED  BY <2>1, <2>2, HashIsMeaning
  <1> QED  BY <1>1, SignedInvariant, PTL
-----------------------------------------------------------------------------
(* The search.                                                             *)

(* Products of a catalog by their ids, as a list.                          *)
Listing(seq, n, S) ==
    /\ seq = [i \in 1 .. n |-> seq[i]]
    /\ \A i \in 1 .. n : seq[i] \in S
    /\ \A i, j \in 1 .. n : i < j => seq[i].id < seq[j].id

(* Sorting by id and looking each up lists every product once.             *)
LEMMA ByIdFacts ==
    ASSUME NEW S \in Catalogs
    PROVE  \E n \in Nat : /\ Listing(ById(S), n, S)
                          /\ \A p \in S : \E i \in 1 .. n : ById(S)[i] = p
  <1> DEFINE ids == {p.id : p \in S}
             n == Cardinality(ids)
             keys == InOrder(ids)
             seq == ById(S)
  <1>1. IsFiniteSet(S) /\ \A p, q \in S : p.id = q.id => p = q
    BY DEF Catalogs
  <1>2. \A p \in S : p.id \in Nat
    BY ProductsAssumption DEF Catalogs
  <1>3. IsFiniteSet(ids) /\ ids \in SUBSET Nat
    <2> DEFINE f == [p \in S |-> p.id]
    <2>1. f \in Surjection(S, ids)
      BY DEF Surjection
    <2>2. IsFiniteSet(ids)
      BY <1>1, <2>1, FS_Surjection
    <2> QED  BY <1>2, <2>2
  <1> HIDE DEF ids
  <1>4. /\ n \in Nat /\ keys \in [1 .. n -> ids]
        /\ \A k \in ids : \E i \in 1 .. n : keys[i] = k
        /\ \A i, j \in 1 .. n : i < j => keys[i] < keys[j]
    BY <1>3, InOrderFacts
  <1>5. Len(keys) = n
    <2> HIDE DEF keys, n
    <2> QED  BY <1>4
  <1>6. seq = [i \in 1 .. n |-> CHOOSE p \in S : p.id = keys[i]]
    BY <1>5 DEF ById, ids
  <1> HIDE DEF keys, n, seq
  <1>7. \A i \in 1 .. n : seq[i] \in S /\ seq[i].id = keys[i]
    <2> SUFFICES ASSUME NEW i \in 1 .. n PROVE seq[i] \in S /\ seq[i].id = keys[i]
      OBVIOUS
    <2>1. \E p \in S : p.id = keys[i]
      BY <1>4 DEF ids
    <2> QED  BY <1>6, <2>1
  <1>8. \A p \in S : \E i \in 1 .. n : seq[i] = p
    <2> SUFFICES ASSUME NEW p \in S PROVE \E i \in 1 .. n : seq[i] = p
      OBVIOUS
    <2>1. PICK i \in 1 .. n : keys[i] = p.id
      BY <1>4 DEF ids
    <2> QED  BY <1>1, <1>7, <2>1
  <1>9. Listing(seq, n, S)
    BY <1>4, <1>6, <1>7 DEF Listing
  <1> QED  BY <1>4, <1>8, <1>9 DEF seq

(* Cutting a list keeps the beginning of it.                               *)
LEMMA FirstOfFacts ==
    ASSUME NEW n \in Nat, NEW m \in Nat, NEW S, NEW seq, Listing(seq, n, S)
    PROVE  LET k == IF n > m THEN m ELSE n
           IN  /\ Listing(FirstOf(seq, m), k, S)
               /\ \A i \in 1 .. k : FirstOf(seq, m)[i] = seq[i]
  <1> DEFINE k == IF n > m THEN m ELSE n
             cut == FirstOf(seq, m)
  <1>1. k \in Nat /\ k <= n
    OBVIOUS
  <1>2. seq \in [1 .. n -> S] /\ seq \in Seq(S) /\ Len(seq) = n
    BY DEF Listing
  <1>3. cut = SubSeq(seq, 1, k)
    BY <1>2 DEF FirstOf
  <1> HIDE DEF k, cut
  <1>4. \A i \in 1 .. k : i \in 1 .. n
    BY <1>1
  <1>5. cut \in Seq(S) /\ Len(cut) = k /\ \A i \in 1 .. k : cut[i] = seq[i]
    <2>1. \A i \in 1 .. k : seq[i] \in S
      BY <1>4 DEF Listing
    <2>2. /\ cut \in Seq(S) /\ Len(cut) = IF 1 <= k THEN k - 1 + 1 ELSE 0
          /\ \A i \in 1 .. k - 1 + 1 : cut[i] = seq[1 + i - 1]
      BY <1>1, <1>3, <2>1, SubSeqProperties
    <2>3. k - 1 + 1 = k /\ Len(cut) = k
      BY <1>1, <2>2
    <2>4. \A i \in 1 .. k : 1 + i - 1 = i
      BY <1>1
    <2> QED  BY <2>2, <2>3, <2>4
  <1>6. cut = [i \in 1 .. k |-> cut[i]]
    BY <1>5
  <1>7. Listing(cut, k, S)
    BY <1>4, <1>5, <1>6 DEF Listing
  <1> QED  BY <1>5, <1>7 DEF k, cut

(* A product matches the terms of a query exactly if it mentions every     *)
(* word of it that has two bytes or more.                                  *)
Fitting(p, text) == \A w \in text : Bytes[Lower[w]] < 2 \/ Mentions(p, w)

(* matches, on the terms that tokenize keeps.                              *)
LEMMA MatchesFacts ==
    ASSUME NEW text \in Messages, NEW p \in Products
    PROVE  Matches(p, Tokenize(LowerAll(text))) <=> Fitting(p, text)
  <1> DEFINE fields == {p.name} \cup p.about \cup p.tags
  <1>1. \A w \in text : Bytes[Lower[w]] \in Nat
    BY WordsAssumption
  <1>2. \A t : Holds(LowerAll(fields), t) <=> \E v \in fields : <<t, Lower[v]>> \in Within
    BY DEF Holds, LowerAll
  <1>3. Matches(p, Tokenize(LowerAll(text)))
          <=> \A w \in text : Bytes[Lower[w]] >= 2 => Holds(LowerAll(fields), Lower[w])
    BY DEF Matches, Tokenize, LowerAll
  <1>4. \A w \in text : Mentions(p, w) <=> Holds(LowerAll(fields), Lower[w])
    BY <1>2 DEF Mentions
  <1> HIDE DEF fields
  <1>5. \A w \in text : Bytes[Lower[w]] >= 2 <=> ~(Bytes[Lower[w]] < 2)
    BY <1>1
  <1> QED  BY <1>3, <1>4, <1>5, Zenon DEF Fitting

RoomFor(limit) == IF limit <= 0 THEN DefaultResults ELSE limit

(* feed.go:200-203: what a search finds is a list of fitting products of   *)
(* the catalog, and if there is one that it leaves out, the list is full   *)
(* and of smaller ids.                                                     *)
LEMMA SearchFacts ==
    ASSUME catalog \in Catalogs, NEW text \in Messages, NEW limit \in Limits
    PROVE  LET room  == RoomFor(limit)
               found == Search(text, room)
           IN  \E m \in Nat :
                 /\ room \in Nat /\ m <= room
                 /\ Listing(found, m, catalog)
                 /\ \A i \in 1 .. m : Fitting(found[i], text)
                 /\ \A p \in catalog :
                      Fitting(p, text) =>
                         \/ \E i \in 1 .. m : found[i] = p
                         \/ m = room /\ \A i \in 1 .. m : found[i].id < p.id
  <1> DEFINE room  == RoomFor(limit)
             found == Search(text, room)
             S == {p \in catalog : Matches(p, Tokenize(LowerAll(text)))}
  <1>1. room \in Nat /\ room > 0
    BY LimitsAssumption DEF RoomFor
  <1>2. S \in Catalogs
    <2>1. S \in SUBSET catalog /\ IsFiniteSet(catalog)
      BY DEF Catalogs
    <2>2. IsFiniteSet(S)
      BY <2>1, FS_Subset
    <2> QED  BY <2>1, <2>2 DEF Catalogs
  <1>3. \A p \in catalog : p \in S <=> Fitting(p, text)
    BY MatchesFacts DEF Catalogs
  <1> HIDE DEF room
  <1>4. found = FirstOf(ById(S), room)
    BY <1>1 DEF Search
  <1>5. S \in SUBSET catalog
    OBVIOUS
  <1> HIDE DEF found, S
  <1>6. PICK n \in Nat : /\ Listing(ById(S), n, S)
                         /\ \A p \in S : \E i \in 1 .. n : ById(S)[i] = p
    BY <1>2, ByIdFacts
  <1> DEFINE m == IF n > room THEN room ELSE n
  <1>7. /\ Listing(found, m, S)
        /\ \A i \in 1 .. m : found[i] = ById(S)[i]
    BY <1>1, <1>4, <1>6, FirstOfFacts
  <1>8. m \in Nat /\ m <= room /\ m <= n /\ (m = n \/ m = room)
    BY <1>1
  <1> HIDE DEF m
  <1>9. Listing(found, m, catalog) /\ \A i \in 1 .. m : Fitting(found[i], text)
    BY <1>3, <1>5, <1>7 DEF Listing
  <1>10. \A p \in catalog : Fitting(p, text) =>
                         \/ \E i \in 1 .. m : found[i] = p
                         \/ m = room /\ \A i \in 1 .. m : found[i].id < p.id
    <2> SUFFICES ASSUME NEW p \in catalog, Fitting(p, text), \A i \in 1 .. m : found[i] # p
                 PROVE  m = room /\ \A i \in 1 .. m : found[i].id < p.id
      OBVIOUS
    <2>1. PICK j \in 1 .. n : ById(S)[j] = p
      BY <1>3, <1>6
    <2>2. j \notin 1 .. m
      BY <1>7, <2>1
    <2>3. m = room /\ \A i \in 1 .. m : i \in 1 .. n /\ i < j
      BY <1>8, <2>1, <2>2
    <2>4. \A i \in 1 .. m : ById(S)[i].id < p.id
      BY <1>6, <2>1, <2>3 DEF Listing
    <2> QED  BY <1>7, <2>3, <2>4
  <1> QED  BY <1>1, <1>8, <1>9, <1>10 DEF room, found

(* The ids of a list are as many as its places.                            *)
LEMMA IdsAreDistinct ==
    ASSUME NEW m \in Nat, NEW S \in SUBSET Products, NEW seq, Listing(seq, m, S)
    PROVE  Cardinality({seq[i].id : i \in 1 .. m}) = m
  <1> DEFINE ids == {seq[i].id : i \in 1 .. m}
             f == [i \in 1 .. m |-> seq[i].id]
  <1>1. \A i \in 1 .. m : seq[i].id \in Nat
    BY ProductsAssumption DEF Listing
  <1>2. \A i, j \in 1 .. m : seq[i].id = seq[j].id => i = j
    <2> SUFFICES ASSUME NEW i \in 1 .. m, NEW j \in 1 .. m, seq[i].id = seq[j].id, i # j
                 PROVE  FALSE
      OBVIOUS
    <2>1. seq[i].id < seq[j].id \/ seq[j].id < seq[i].id
      BY DEF Listing
    <2> QED  BY <1>1, <2>1
  <1>3. f \in Bijection(1 .. m, ids)
    BY <1>2 DEF Bijection, Injection, IsInjective, Surjection
  <1>4. IsFiniteSet(1 .. m) /\ Cardinality(1 .. m) = m
    <2>1. 1 \in Int /\ m \in Int /\ (IF 1 > m THEN 0 ELSE m - 1 + 1) = m
      OBVIOUS
    <2> QED  BY <2>1, FS_Interval
  <1>5. ExistsBijection(1 .. m, ids)
    BY <1>3 DEF ExistsBijection
  <1> HIDE DEF ids, f
  <1>6. Cardinality(ids) = m
    BY <1>4, <1>5, FS_Bijection
  <1> QED  BY <1>6 DEF ids

(* handlers.go:292-312: the first and the others are the whole list.       *)
LEMMA ShapesFacts ==
    ASSUME NEW S, NEW seq \in Seq(S)
    PROVE  /\ FirstOf(seq, 1) \o Alternates(seq) = seq
           /\ Len(FirstOf(seq, 1)) <= 1
           /\ FirstOf(seq, 1) = <<>> <=> seq = <<>>
  <1>1. CASE seq = <<>>
    <2>1. Len(seq) = 0
      BY <1>1
    <2>2. FirstOf(seq, 1) = SubSeq(seq, 1, 0) /\ Alternates(seq) = SubSeq(seq, 2, 0)
      BY <2>1 DEF FirstOf, Alternates
    <2>3. FirstOf(seq, 1) = <<>> /\ Alternates(seq) = <<>>
      BY <2>2, SubSeqEmpty
    <2>4. <<>> \o seq = seq
      BY ConcatEmptySeq
    <2> QED  BY <1>1, <2>1, <2>3, <2>4
  <1>2. CASE seq # <<>>
    <2> DEFINE n == Len(seq)
    <2>1. n \in Nat /\ n >= 1
      BY <1>2, EmptySeq
    <2>2. FirstOf(seq, 1) = SubSeq(seq, 1, 1) /\ Alternates(seq) = SubSeq(seq, 2, n)
      BY <2>1 DEF FirstOf, Alternates
    <2> HIDE DEF n
    <2>3. 1 \in 1 .. n /\ n \in 1 .. n /\ 1 \in 1 .. 1 /\ seq[1] \in S
      BY <2>1 DEF n
    <2>4. SubSeq(seq, 1, n) = <<seq[1]>> \o SubSeq(seq, 2, n)
      <3>1. SubSeq(seq, 1, n) = <<seq[1]>> \o SubSeq(seq, 1 + 1, n)
        BY <2>3, SubSeqRecursiveFirst DEF n
      <3>2. 1 + 1 = 2
        OBVIOUS
      <3> QED  BY <3>1, <3>2, Zenon
    <2>5. SubSeq(seq, 1, n) = seq
      BY SubSeqFull DEF n
    <2>6. SubSeq(seq, 1, 1) = <<seq[1]>>
      <3>1. SubSeq(seq, 1, 1) = <<seq[1]>> \o SubSeq(seq, 1 + 1, 1)
        BY <2>3, SubSeqRecursiveFirst DEF n
      <3>2. SubSeq(seq, 1 + 1, 1) = <<>>
        BY SubSeqEmpty
      <3>3. <<seq[1]>> \in Seq(S)
        BY <2>3
      <3>4. <<seq[1]>> \o <<>> = <<seq[1]>>
        BY <3>3, ConcatEmptySeq
      <3> QED  BY <3>1, <3>2, <3>4
    <2>7. FirstOf(seq, 1) = <<seq[1]>>
      BY <2>2, <2>6, Zenon
    <2>8. FirstOf(seq, 1) \o Alternates(seq) = seq
      BY <2>2, <2>4, <2>5, <2>7, Zenon
    <2>9. Len(<<seq[1]>>) = 1 /\ <<seq[1]>> # <<>>
      OBVIOUS
    <2>10. Len(<<seq[1]>>) <= 1
      BY <2>9
    <2> QED  BY <1>2, <2>7, <2>8, <2>9, <2>10, Zenon
  <1> QED  BY <1>1, <1>2

Offer(p) == [id |-> p.id, status |-> Availability(p)]

(* What a preview answers.                                                 *)
LEMMA GetOfferingFacts ==
    ASSUME catalog \in Catalogs, NEW text \in Messages, NEW limit \in Limits
    PROVE  LET says  == GetOffering(text, limit)
               found == Search(text, RoomFor(limit))
           IN  /\ DOMAIN says.offerings = 1 .. Len(found)
               /\ \A i \in 1 .. Len(found) : says.offerings[i] = Offer(found[i])
               /\ says.offering \o says.matching = says.offerings
               /\ Len(says.offering) <= 1
               /\ says.available <=> says.offering # <<>>
  <1> DEFINE says  == GetOffering(text, limit)
             found == Search(text, RoomFor(limit))
             offers == [i \in 1 .. Len(found) |-> Offer(found[i])]
  <1>1. PICK m \in Nat : Listing(found, m, catalog)
    BY SearchFacts
  <1>2. Len(found) = m
    <2> HIDE DEF found
    <2> QED  BY <1>1 DEF Listing
  <1>3. says = [available |-> offers # <<>>, offering |-> FirstOf(offers, 1),
                matching |-> Alternates(offers), offerings |-> offers]
    BY DEF GetOffering, RoomFor, Offer
  <1> HIDE DEF found
  <1>4. offers \in Seq({Offer(found[i]) : i \in 1 .. m})
    BY <1>2
  <1> HIDE DEF says
  <1>5. DOMAIN offers = 1 .. Len(found) /\ \A i \in 1 .. Len(found) : offers[i] = Offer(found[i])
    OBVIOUS
  <1> HIDE DEF offers
  <1>6. /\ says.offerings = offers /\ says.offering = FirstOf(offers, 1)
        /\ says.matching = Alternates(offers) /\ (says.available <=> offers # <<>>)
    BY <1>3
  <1> QED  BY <1>4, <1>5, <1>6, ShapesFacts DEF says, found

(* A preview is right at the moment it is answered.                        *)
LEMMA PreviewIsRight ==
    TypeOK /\ Preview => ShowsTheFirstMatches' /\ BothShapesAgree'
  <1> SUFFICES ASSUME TypeOK, Preview PROVE ShowsTheFirstMatches' /\ BothShapesAgree'
    OBVIOUS
  <1>0. catalog \in Catalogs /\ catalog \in SUBSET Products
    BY DEF TypeOK, Catalogs
  <1>1. PICK text \in Messages, limit \in Limits :
           last' = [is |-> "preview", text |-> text, limit |-> limit,
                    of |-> catalog, says |-> GetOffering(text, limit)]
    BY DEF Preview
  <1> DEFINE says  == GetOffering(text, limit)
             room  == RoomFor(limit)
             found == Search(text, room)
  <1>2. /\ last'.is = "preview" /\ last'.text = text /\ last'.limit = limit
        /\ last'.of = catalog /\ last'.says = says
    BY <1>1
  <1>3. PICK m \in Nat :
           /\ room \in Nat /\ m <= room
           /\ Listing(found, m, catalog)
           /\ \A i \in 1 .. m : Fitting(found[i], text)
           /\ \A p \in catalog :
                Fitting(p, text) =>
                   \/ \E i \in 1 .. m : found[i] = p
                   \/ m = room /\ \A i \in 1 .. m : found[i].id < p.id
    BY <1>0, SearchFacts
  <1>4. Len(found) = m
    <2> HIDE DEF found
    <2> QED  BY <1>3 DEF Listing
  <1>5. /\ DOMAIN says.offerings = 1 .. m
        /\ \A i \in 1 .. m : says.offerings[i] = Offer(found[i])
        /\ says.offering \o says.matching = says.offerings
        /\ Len(says.offering) <= 1
        /\ says.available <=> says.offering # <<>>
    BY <1>0, <1>4, GetOfferingFacts
  <1>6. Room' = room
    BY <1>2 DEF Room, RoomFor
  <1> HIDE DEF says, room, found
  <1>7. Cardinality({found[i].id : i \in 1 .. m}) = m
    BY <1>0, <1>3, IdsAreDistinct
  <1>8. \A i \in 1 .. m : /\ says.offerings[i].id = found[i].id
                          /\ says.offerings[i].status = Availability(found[i])
                          /\ found[i] \in catalog
    <2> SUFFICES ASSUME NEW i \in 1 .. m
                 PROVE  /\ says.offerings[i].id = found[i].id
                        /\ says.offerings[i].status = Availability(found[i])
                        /\ found[i] \in catalog
      OBVIOUS
    <2>1. says.offerings[i] = Offer(found[i])
      BY <1>5
    <2>2. found[i] \in catalog
      BY <1>3 DEF Listing
    <2> QED  BY <2>1, <2>2 DEF Offer
  <1>9. Shown' = {found[i].id : i \in 1 .. m}
    <2>1. Shown' = {says.offerings[i].id : i \in 1 .. m}
      BY <1>2, <1>5 DEF Shown
    <2> QED  BY <1>8, <2>1
  <1>10. \A p \in catalog : p.id \in Shown' => \E i \in 1 .. m : found[i] = p
    <2>1. \A p, q \in catalog : p.id = q.id => p = q
      BY <1>0 DEF Catalogs
    <2> QED  BY <1>8, <1>9, <2>1
  <1>11. ShowsTheFirstMatches'
    <2>1. \A i, j \in 1 .. m : i < j => says.offerings[i].id < says.offerings[j].id
      BY <1>3, <1>8 DEF Listing
    <2>2. Cardinality(Shown') = m /\ m <= room
      BY <1>3, <1>7, <1>9
    <2>3. \A p \in catalog : p.id \in Shown' => Fitting(p, text)
      BY <1>3, <1>10
    <2>4. \A p \in catalog : Fitting(p, text) /\ p.id \notin Shown' =>
                                m = room /\ \A id \in Shown' : id < p.id
      <3> SUFFICES ASSUME NEW p \in catalog, Fitting(p, text), p.id \notin Shown'
                   PROVE  m = room /\ \A id \in Shown' : id < p.id
        OBVIOUS
      <3>1. \A i \in 1 .. m : found[i] # p
        BY <1>9
      <3>2. m = room /\ \A i \in 1 .. m : found[i].id < p.id
        BY <1>3, <3>1
      <3> QED  BY <1>9, <3>2
    <2>5. Shown' \subseteq {p.id : p \in catalog}
      BY <1>8, <1>9
    <2> QED  BY <1>2, <1>5, <1>6, <2>1, <2>2, <2>3, <2>4, <2>5
             DEF ShowsTheFirstMatches, Fitting, Mentions
  <1>12. BothShapesAgree'
    <2>1. \A i \in 1 .. m : \E p \in catalog :
             /\ p.id = says.offerings[i].id
             /\ p.available <=> says.offerings[i].status = "available"
      <3> SUFFICES ASSUME NEW i \in 1 .. m
                   PROVE  \E p \in catalog :
                             /\ p.id = says.offerings[i].id
                             /\ p.available <=> says.offerings[i].status = "available"
        OBVIOUS
      <3>1. found[i] \in catalog /\ found[i].available \in BOOLEAN
        BY <1>0, <1>8, ProductsAssumption
      <3>2. found[i].available <=> says.offerings[i].status = "available"
        BY <1>8, <3>1 DEF Availability
      <3> QED  BY <1>8, <3>1, <3>2
    <2> QED  BY <1>2, <1>5, <2>1 DEF BothShapesAgree
  <1> QED  BY <1>11, <1>12

-----------------------------------------------------------------------------
(* The replies.                                                            *)

(* The hits of a product are finitely many lengths, and the same whether   *)
(* both sides are lowered before or after.                                 *)
LEMMA HitsFacts ==
    ASSUME NEW p \in Products, NEW text \in Messages
    PROVE  /\ Hits(p, text) \in SUBSET Nat /\ IsFiniteSet(Hits(p, text))
           /\ \A n \in Hits(p, text) : n >= 4
           /\ Hits(p, text) =
                {Bytes[Lower[w]] : w \in {v \in {p.name, p.code} \cup p.tags :
                    Bytes[Lower[v]] >= 4 /\ \E u \in text : <<Lower[v], Lower[u]>> \in Within}}
  <1> DEFINE fields == {p.name, p.code} \cup p.tags
             met(v) == Bytes[Lower[v]] >= 4 /\ \E u \in text : <<Lower[v], Lower[u]>> \in Within
             candidates == {v \in fields : met(v)}
             hits == {Bytes[Lower[w]] : w \in candidates}
  <1>1. fields \in SUBSET Words /\ IsFiniteSet(fields)
    <2>1. p.name \in Words /\ p.code \in Words /\ p.tags \in SUBSET Words /\ IsFiniteSet(p.tags)
      BY ProductsAssumption
    <2>2. IsFiniteSet(p.tags \cup {p.name})
      BY <2>1, FS_AddElement
    <2>3. IsFiniteSet((p.tags \cup {p.name}) \cup {p.code})
      BY <2>2, FS_AddElement
    <2>4. (p.tags \cup {p.name}) \cup {p.code} = fields
      OBVIOUS
    <2> QED  BY <2>1, <2>3, <2>4
  <1>2. \A w : Holds(LowerAll(text), w) <=> \E u \in text : <<w, Lower[u]>> \in Within
    BY DEF Holds, LowerAll
  <1>3. Hits(p, text) = hits
    <2>1. \A n : n \in Hits(p, text) <=>
             \E v \in LowerAll(fields) : Bytes[v] >= 4 /\ Holds(LowerAll(text), v) /\ n = Bytes[v]
      BY DEF Hits
    <2>2. \A n : n \in hits <=> \E w \in fields : met(w) /\ n = Bytes[Lower[w]]
      OBVIOUS
    <2>3. \A v : v \in LowerAll(fields) <=> \E w \in fields : v = Lower[w]
      BY DEF LowerAll
    <2> HIDE DEF hits, fields
    <2>4. \A n : n \in Hits(p, text) <=> n \in hits
      BY <1>2, <2>1, <2>2, <2>3
    <2> QED  BY <2>4
  <1>4. IsFiniteSet(hits)
    <2>1. candidates \in SUBSET fields
      OBVIOUS
    <2> HIDE DEF candidates
    <2>2. IsFiniteSet(candidates)
      BY <1>1, <2>1, FS_Subset
    <2> DEFINE f == [w \in candidates |-> Bytes[Lower[w]]]
    <2>3. f \in Surjection(candidates, hits)
      BY DEF Surjection
    <2> QED  BY <2>2, <2>3, FS_Surjection
  <1>5. \A w \in candidates : Bytes[Lower[w]] \in Nat /\ Bytes[Lower[w]] >= 4
    BY <1>1, WordsAssumption
  <1>6. hits \in SUBSET Nat /\ \A n \in hits : n >= 4
    BY <1>5
  <1> QED  BY <1>3, <1>4, <1>6

(* One product of the loop in pickProduct: what is best so far is kept     *)
(* unless the product has a longer hit, and then its longest one counts.   *)
LEMMA TakeFacts ==
    ASSUME NEW p \in Products, NEW text \in Messages, NEW best, best.len \in Nat
    PROVE  LET next == Take(best, p, text)
           IN  \/ /\ next = best
                  /\ \A n \in Hits(p, text) : n <= best.len
               \/ /\ next.product = p
                  /\ next.len \in Hits(p, text) /\ next.len > best.len
                  /\ \A n \in Hits(p, text) : n <= next.len
  <1> DEFINE hits == Hits(p, text)
             longer == {n \in hits : n > best.len}
  <1>1. hits \in SUBSET Nat /\ IsFiniteSet(hits)
    BY HitsFacts
  <1>2. Take(best, p, text) =
          IF longer = {} THEN best ELSE [product |-> p, len |-> Max(longer)]
    BY DEF Take
  <1> HIDE DEF hits
  <1>3. CASE longer = {}
    <2>1. \A n \in hits : n \in Nat /\ ~(n > best.len)
      BY <1>1, <1>3
    <2>2. \A n \in hits : n <= best.len
      BY <2>1
    <2> QED  BY <1>2, <1>3, <2>2 DEF hits
  <1>4. CASE longer # {}
    <2>1. longer \in SUBSET Nat /\ IsFiniteSet(longer)
      <3>1. longer \in SUBSET hits
        OBVIOUS
      <3> QED  BY <1>1, <3>1, FS_Subset
    <2>2. Max(longer) \in longer /\ \A k \in longer : k <= Max(longer)
      BY <1>4, <2>1, MaxFacts
    <2> DEFINE m == Max(longer)
    <2>3. Take(best, p, text) = [product |-> p, len |-> m]
      BY <1>2, <1>4
    <2>4. m \in hits /\ m > best.len /\ \A k \in longer : k <= m
      BY <2>2
    <2> HIDE DEF m
    <2>5. \A n \in hits : n <= m
      <3> SUFFICES ASSUME NEW n \in hits PROVE n <= m
        OBVIOUS
      <3>1. n \in Nat /\ m \in Nat
        BY <1>1, <2>4
      <3>2. n > best.len => n <= m
        BY <2>4
      <3> QED  BY <2>4, <3>1, <3>2
    <2> QED  BY <2>3, <2>4, <2>5 DEF hits
  <1> QED  BY <1>3, <1>4

(* What the loop has found after i products: nothing has a longer hit, and *)
(* what comes before the best one has none as long.                        *)
Won(best, i, text) ==
    /\ best.len \in Nat
    /\ \A j \in 1 .. i : \A n \in Hits(All[j], text) : n <= best.len
    /\ \/ best.product = None /\ best.len = 0
       \/ \E j \in 1 .. i :
             /\ best.product = All[j] /\ best.len \in Hits(All[j], text)
             /\ \A k \in 1 .. j - 1 : \A n \in Hits(All[k], text) : n < best.len

(* The next product keeps it so.                                           *)
LEMMA WonStep ==
    ASSUME NEW i \in Nat, NEW text \in Messages, NEW best, Won(best, i, text),
           \A j \in 1 .. i + 1 : All[j] \in Products
    PROVE  Won(Take(best, All[i + 1], text), i + 1, text)
  <1> DEFINE p == All[i + 1]
             next == Take(best, p, text)
  <1>1. p \in Products /\ best.len \in Nat
    BY DEF Won
  <1>2. \A j \in 1 .. i + 1 : j \in 1 .. i \/ j = i + 1
    OBVIOUS
  <1>3. \A j \in 1 .. i + 1 : Hits(All[j], text) \in SUBSET Nat
    BY HitsFacts
  <1>4. \/ next = best /\ \A n \in Hits(p, text) : n <= best.len
        \/ /\ next.product = p
           /\ next.len \in Hits(p, text) /\ next.len > best.len
           /\ \A n \in Hits(p, text) : n <= next.len
    BY <1>1, TakeFacts
  <1> HIDE DEF next
  <1>5. CASE next = best /\ \A n \in Hits(p, text) : n <= best.len
    <2>1. \A j \in 1 .. i + 1 : \A n \in Hits(All[j], text) : n <= best.len
      BY <1>2, <1>5 DEF Won
    <2>2. \A j \in 1 .. i : j \in 1 .. i + 1
      OBVIOUS
    <2>3. Won(next, i + 1, text)
      BY <1>5, <2>1, <2>2 DEF Won
    <2> QED  BY <2>3 DEF next
  <1>6. CASE /\ next.product = p
             /\ next.len \in Hits(p, text) /\ next.len > best.len
             /\ \A n \in Hits(p, text) : n <= next.len
    <2>1. next.len \in Nat
      BY <1>3, <1>6
    <2>2. \A j \in 1 .. i : \A n \in Hits(All[j], text) : n < next.len
      <3> SUFFICES ASSUME NEW j \in 1 .. i, NEW n \in Hits(All[j], text) PROVE n < next.len
        OBVIOUS
      <3>1. n <= best.len
        BY DEF Won
      <3>2. n \in Nat
        BY <1>3
      <3> QED  BY <1>1, <1>6, <2>1, <3>1, <3>2
    <2>3. \A j \in 1 .. i + 1 : \A n \in Hits(All[j], text) : n <= next.len
      <3> SUFFICES ASSUME NEW j \in 1 .. i + 1, NEW n \in Hits(All[j], text)
                   PROVE  n <= next.len
        OBVIOUS
      <3>1. n \in Nat
        BY <1>3
      <3>2. CASE j \in 1 .. i
        BY <2>1, <2>2, <3>1, <3>2
      <3>3. CASE j = i + 1
        BY <1>6, <3>3
      <3> QED  BY <1>2, <3>2, <3>3
    <2>4. i + 1 \in 1 .. i + 1 /\ (i + 1) - 1 = i
      OBVIOUS
    <2>5. Won(next, i + 1, text)
      BY <1>6, <2>1, <2>2, <2>3, <2>4 DEF Won
    <2> QED  BY <2>5 DEF next
  <1> QED  BY <1>4, <1>5, <1>6

(* The loop itself, as a function from how many products it has seen.      *)
Loop(best, n, text) ==
    best = [i \in 0 .. n |-> IF i = 0 THEN NoPick ELSE Take(best[i - 1], All[i], text)]

(* The loop has one value per product, however many there are.             *)
LEMMA LoopExists ==
    ASSUME NEW N \in Nat, NEW text
    PROVE  \E best : Loop(best, N, text)
  <1> DEFINE Bad == {n \in 0 .. N : ~ \E best : Loop(best, n, text)}
  <1>1. SUFFICES ASSUME Bad # {} PROVE FALSE
    <2>1. N \in 0 .. N
      OBVIOUS
    <2> QED  BY <2>1
  <1>2. PICK m \in Bad : \A j \in Bad : m <= j
    <2>1. Bad \in SUBSET (0 .. N)
      OBVIOUS
    <2> HIDE DEF Bad
    <2> QED  BY <1>1, <2>1, LeastFacts
  <1>3. m \in 0 .. N /\ ~ \E best : Loop(best, m, text)
    OBVIOUS
  <1>4. CASE m = 0
    <2> DEFINE best == [i \in 0 .. 0 |-> IF i = 0 THEN NoPick ELSE Take(NoPick, All[i], text)]
    <2>1. \A i \in 0 .. 0 : i = 0
      OBVIOUS
    <2>2. best = [i \in 0 .. 0 |-> IF i = 0 THEN NoPick ELSE Take(best[i - 1], All[i], text)]
      BY <2>1
    <2> QED  BY <1>3, <1>4, <2>2 DEF Loop
  <1>5. CASE m # 0
    <2>1. m - 1 \in 0 .. N /\ ~(m <= m - 1) /\ m \in Nat
      BY <1>3, <1>5
    <2>2. PICK best : Loop(best, m - 1, text)
      <3>1. m - 1 \notin Bad
        BY <1>2, <2>1
      <3> QED  BY <2>1, <3>1
    <2> DEFINE longer == [i \in 0 .. m |-> IF i = m THEN Take(best[m - 1], All[m], text)
                                           ELSE best[i]]
    <2>3. \A i \in 0 .. m : i # m => i \in 0 .. m - 1
      BY <2>1
    <2>4. \A i \in 0 .. m - 1 : i \in 0 .. m /\ i # m
      BY <2>1
    <2>5. \A i \in 0 .. m : i # 0 => i - 1 \in 0 .. m - 1
      BY <2>1
    <2>6. \A i \in 0 .. m - 1 : longer[i] = best[i]
      BY <2>4
    <2>7. \A i \in 0 .. m :
             longer[i] = IF i = 0 THEN NoPick ELSE Take(longer[i - 1], All[i], text)
      <3> SUFFICES ASSUME NEW i \in 0 .. m
                   PROVE  longer[i] = IF i = 0 THEN NoPick
                                      ELSE Take(longer[i - 1], All[i], text)
        OBVIOUS
      <3>1. i # 0 => longer[i - 1] = best[i - 1]
        BY <2>5, <2>6
      <3>2. CASE i = m
        <4>1. longer[i] = Take(best[m - 1], All[m], text)
          BY <3>2
        <4> HIDE DEF longer
        <4> QED  BY <1>5, <3>1, <3>2, <4>1
      <3>3. CASE i # m
        <4>1. i \in 0 .. m - 1 /\ longer[i] = best[i]
          BY <2>3, <2>6, <3>3
        <4>2. best[i] = IF i = 0 THEN NoPick ELSE Take(best[i - 1], All[i], text)
          BY <2>2, <4>1 DEF Loop
        <4> HIDE DEF longer
        <4> QED  BY <3>1, <4>1, <4>2
      <3> QED  BY <3>2, <3>3
    <2>8. longer = [i \in 0 .. m |-> longer[i]]
      OBVIOUS
    <2> HIDE DEF longer
    <2>9. Loop(longer, m, text)
      BY <2>7, <2>8 DEF Loop
    <2> QED  BY <1>3, <2>9
  <1> QED  BY <1>4, <1>5

(* pickProduct takes what the loop has found at its end.                   *)
LEMMA PickFacts ==
    ASSUME catalog \in Catalogs, NEW text \in Messages
    PROVE  \E n \in Nat : \E best :
              /\ Listing(All, n, catalog)
              /\ \A p \in catalog : \E i \in 1 .. n : All[i] = p
              /\ Won(best, n, text) /\ PickProduct(text) = best.product
  <1>1. PICK N \in Nat : /\ Listing(All, N, catalog)
                         /\ \A p \in catalog : \E i \in 1 .. N : All[i] = p
    BY ByIdFacts DEF All
  <1>2. Len(All) = N
    BY <1>1 DEF Listing
  <1> DEFINE best == CHOOSE b : Loop(b, N, text)
  <1>3. PickProduct(text) = best[N].product
    BY <1>2 DEF PickProduct, Loop
  <1>4. Loop(best, N, text)
    BY LoopExists
  <1> HIDE DEF best
  <1>5. \A i \in 1 .. N : All[i] \in Products
    BY <1>1 DEF Listing, Catalogs
  <1> DEFINE Bad == {n \in 0 .. N : ~Won(best[n], n, text)}
  <1>6. Bad = {}
    <2> SUFFICES ASSUME Bad # {} PROVE FALSE
      OBVIOUS
    <2>1. PICK m \in Bad : \A j \in Bad : m <= j
      <3>1. Bad \in SUBSET (0 .. N)
        OBVIOUS
      <3> HIDE DEF Bad
      <3> QED  BY <3>1, LeastFacts
    <2>2. m \in 0 .. N /\ ~Won(best[m], m, text)
      OBVIOUS
    <2>3. CASE m = 0
      <3>1. best[0] = NoPick
        <4>1. 0 \in 0 .. N
          OBVIOUS
        <4> QED  BY <1>4, <4>1 DEF Loop
      <3>2. Won(NoPick, 0, text)
        BY DEF Won, NoPick
      <3> QED  BY <2>2, <2>3, <3>1, <3>2
    <2>4. CASE m # 0
      <3> DEFINE k == m - 1
      <3>1. k \in 0 .. N /\ k \in Nat /\ ~(m <= k) /\ k + 1 = m /\ m \in 1 .. N
        BY <2>2, <2>4
      <3> HIDE DEF k
      <3>2. Won(best[k], k, text)
        BY <2>1, <3>1
      <3>3. best[m] = Take(best[k], All[m], text)
        BY <1>4, <2>2, <2>4 DEF Loop, k
      <3>4. \A j \in 1 .. k + 1 : All[j] \in Products
        BY <1>5, <3>1
      <3>5. Won(Take(best[k], All[k + 1], text), k + 1, text)
        BY <3>1, <3>2, <3>4, WonStep
      <3> QED  BY <2>2, <3>1, <3>3, <3>5
    <2> QED  BY <2>3, <2>4
  <1>7. Won(best[N], N, text)
    <2>1. N \in 0 .. N
      OBVIOUS
    <2> QED  BY <1>6, <2>1
  <1> QED  BY <1>1, <1>3, <1>7

-----------------------------------------------------------------------------
(* Each call of a host is answered rightly when it comes; afterwards its   *)
(* answer is compared with what it was asked of, whatever changes.         *)
LEMMA RepliesFacts ==
    ASSUME NEW text, NEW says \in Replies(text)
    PROVE  \/ Buying(text) /\ says = Handoff
           \/ ~Buying(text) /\ says = [is |-> "acknowledged", status |-> "active"]
                            /\ PickProduct(text) = None
           \/ ~Buying(text) /\ says = [is |-> "product", status |-> "active",
                                       product |-> PickProduct(text)]
                            /\ PickProduct(text) # None
           \/ ~Buying(text) /\ says.is \in {"spoken", "fallback"} /\ says.status = "active"
  <1>1. CASE Buying(text)
    BY <1>1 DEF Replies, MockReply, OpenAIReplies
  <1>2. CASE ~Buying(text) /\ provider = "mock"
    <2> DEFINE best == PickProduct(text)
    <2>1. says = IF best = None THEN [is |-> "acknowledged", status |-> "active"]
                 ELSE [is |-> "product", status |-> "active", product |-> best]
      BY <1>2 DEF Replies, MockReply
    <2> HIDE DEF best
    <2>2. \/ best = None /\ says = [is |-> "acknowledged", status |-> "active"]
          \/ best # None /\ says = [is |-> "product", status |-> "active", product |-> best]
      BY <2>1
    <2> QED  BY <1>2, <2>2 DEF best
  <1>3. CASE ~Buying(text) /\ provider # "mock"
    <2>1. says \in {[is |-> "spoken", status |-> "active", prompt |-> SystemPrompt],
                    [is |-> "fallback", status |-> "active"]}
      BY <1>3 DEF Replies, OpenAIReplies
    <2> QED  BY <1>3, <2>1
  <1> QED  BY <1>1, <1>2, <1>3

(* A reply names an unbeaten product and keeps to the handoff policy.      *)
LEMMA ReplyIsRight ==
    TypeOK /\ Send => TypeOK' /\ BestIsUnbeaten' /\ HandoffPolicy'
  <1> SUFFICES ASSUME TypeOK, Send PROVE TypeOK' /\ BestIsUnbeaten' /\ HandoffPolicy'
    OBVIOUS
  <1>0. catalog \in Catalogs /\ catalog \in SUBSET Products
    BY DEF TypeOK, Catalogs
  <1>10. PICK text \in Messages : \E says \in Replies(text) :
           last' = [is |-> "reply", text |-> text, of |-> catalog, says |-> says]
    BY DEF Send
  <1>1. PICK says \in Replies(text) :
           last' = [is |-> "reply", text |-> text, of |-> catalog, says |-> says]
    BY <1>10
  <1>2. /\ last'.is = "reply" /\ last'.text = text
        /\ last'.of = catalog /\ last'.says = says
    BY <1>1
  <1>3. UNCHANGED <<catalog, provider, offering>>
    BY DEF Send
  <1> DEFINE best == PickProduct(text)
  <1>4. \/ /\ Buying(text) /\ says.is = "handoff"
           /\ says.status = "pending_handoff" /\ says.offering = offering
        \/ ~Buying(text) /\ says.is = "acknowledged" /\ says.status = "active" /\ best = None
        \/ /\ ~Buying(text) /\ says.is = "product" /\ says.status = "active"
           /\ says.product = best /\ best # None
        \/ ~Buying(text) /\ says.is \in {"spoken", "fallback"} /\ says.status = "active"
    BY RepliesFacts DEF Handoff
  <1> HIDE DEF best
  <1>5. TypeOK'
    BY <1>2, <1>3, <1>4 DEF TypeOK
  <1>6. HandoffPolicy'
    <2>1. Buying(text) <=> \E w \in text, b \in BuyIntent : <<b, Lower[w]>> \in Within
      BY DEF Buying, Holds, LowerAll
    <2> QED  BY <1>2, <1>3, <1>4, <2>1 DEF HandoffPolicy, Replied
  <1>7. BestIsUnbeaten'
    <2>0. PICK n \in Nat : \E won :
             /\ Listing(All, n, catalog)
             /\ \A p \in catalog : \E i \in 1 .. n : All[i] = p
             /\ Won(won, n, text) /\ best = won.product
      BY <1>0, PickFacts DEF best
    <2>1. PICK won :
             /\ Listing(All, n, catalog)
             /\ \A p \in catalog : \E i \in 1 .. n : All[i] = p
             /\ Won(won, n, text) /\ best = won.product
      BY <2>0
    <2>2. \A p \in catalog : HitLengths(p)' = Hits(p, text)
      BY <1>0, <1>2, HitsFacts DEF HitLengths
    <2>3. \A i \in 1 .. n : All[i] \in catalog /\ All[i] # None /\ All[i].id \in Nat
      <3>1. \A p \in Products : p # None /\ p.id \in Nat
        <4> SUFFICES ASSUME NEW p \in Products PROVE p # None /\ p.id \in Nat
          OBVIOUS
        <4>1. p \in [id : Nat, code : Words, name : Words, about : SUBSET Words,
                     tags : SUBSET Words, available : BOOLEAN]
          BY ProductsAssumption
        <4>2. "id" \in DOMAIN p /\ "id" \notin DOMAIN None
          BY <4>1 DEF None
        <4> QED  BY <4>1, <4>2
      <3> QED  BY <1>0, <2>1, <3>1 DEF Listing
    <2>4. \A p \in catalog : /\ Hits(p, text) \in SUBSET Nat /\ IsFiniteSet(Hits(p, text))
                             /\ \A m \in Hits(p, text) : m >= 4
      BY <1>0, HitsFacts
    <2>5. CASE best = None
      <3>1. won.len = 0
        BY <2>1, <2>3, <2>5 DEF Won
      <3>2. \A p \in catalog : Hits(p, text) = {}
        <4> SUFFICES ASSUME NEW p \in catalog, NEW m \in Hits(p, text) PROVE FALSE
          OBVIOUS
        <4>1. m <= 0
          BY <2>1, <3>1 DEF Won
        <4>2. m \in Nat /\ m >= 4
          BY <2>4
        <4> QED  BY <4>1, <4>2
      <3> QED  BY <1>2, <1>4, <2>2, <2>5, <3>2 DEF BestIsUnbeaten, Replied
    <2>6. CASE best # None
      <3>1. PICK j \in 1 .. n :
               /\ best = All[j] /\ won.len \in Hits(All[j], text)
               /\ \A k \in 1 .. j - 1 : \A m \in Hits(All[k], text) : m < won.len
        BY <2>1, <2>6 DEF Won
      <3>2. \A i \in 1 .. n : \A m \in Hits(All[i], text) : m <= won.len
        BY <2>1 DEF Won
      <3> DEFINE top == Max(Hits(best, text))
      <3>3. best \in catalog /\ won.len \in Hits(best, text)
        BY <2>3, <3>1
      <3>4. top = won.len
        <4>1. top \in Hits(best, text) /\ \A m \in Hits(best, text) : m <= top
          BY <2>4, <3>3, MaxFacts
        <4> HIDE DEF top
        <4>2. top <= won.len /\ won.len <= top
          BY <3>1, <3>2, <3>3, <4>1
        <4>3. top \in Nat /\ won.len \in Nat
          BY <2>4, <3>3, <4>1
        <4> QED  BY <4>2, <4>3
      <3> HIDE DEF top
      <3>5. \A p \in catalog : \A m \in Hits(p, text) :
               \/ m < top
               \/ m = top /\ best.id <= p.id
        <4> SUFFICES ASSUME NEW p \in catalog, NEW m \in Hits(p, text), ~(m < top)
                     PROVE  m = top /\ best.id <= p.id
          OBVIOUS
        <4>1. PICK i \in 1 .. n : All[i] = p
          BY <2>1
        <4>2. m \in Nat /\ top \in Nat
          BY <2>4, <3>3, <3>4
        <4>3. m = top
          BY <3>2, <3>4, <4>1, <4>2
        <4>4. ~(i \in 1 .. j - 1)
          BY <3>1, <3>4, <4>1
        <4>5. i = j \/ j < i
          BY <4>4
        <4>6. best.id <= p.id
          <5>1. best.id \in Nat /\ p.id \in Nat
            BY <2>3, <3>1, <4>1
          <5>2. j < i => best.id < p.id
            BY <2>1, <3>1, <4>1 DEF Listing
          <5>3. i = j => best.id = p.id
            BY <3>1, <4>1
          <5> QED  BY <4>5, <5>1, <5>2, <5>3
        <4> QED  BY <4>3, <4>6
      <3>6. PICK found \in catalog : found = best
        BY <3>3
      <3>7. HitLengths(found)' = Hits(found, text)
        BY <2>2
      <3>8. says.is # "acknowledged" /\ (says.is = "product" => says.product = found)
        BY <1>4, <2>6, <3>6
      <3>9. \A p \in catalog : \A m \in Hits(p, text) :
               \/ m < Max(Hits(found, text))
               \/ m = Max(Hits(found, text)) /\ found.id <= p.id
        BY <3>5, <3>6 DEF top
      <3>10. Hits(found, text) # {}
        BY <3>3, <3>6
      <3> QED  BY <1>2, <2>2, <3>7, <3>8, <3>9, <3>10 DEF BestIsUnbeaten, Replied
    <2> QED  BY <2>5, <2>6
  <1> QED  BY <1>5, <1>6, <1>7

AnswersInv == PreviewsAreRight /\ RepliesAreRight

(* The properties are inductive as they stand: answers do not change.      *)
THEOREM AnswersInductive == Spec => []AnswersInv
  <1>1. Init => AnswersInv
    BY DEF Init, AnswersInv, PreviewsAreRight, RepliesAreRight, TypeOK, ShowsTheFirstMatches,
           BothShapesAgree, BestIsUnbeaten, HandoffPolicy, Previewed, Replied, None
  <1>2. AnswersInv /\ [Next]_vars => AnswersInv'
    <2> SUFFICES ASSUME AnswersInv, [Next]_vars PROVE AnswersInv'
      OBVIOUS
    <2>0. /\ TypeOK /\ ShowsTheFirstMatches /\ BothShapesAgree
          /\ BestIsUnbeaten /\ HandoffPolicy
      BY DEF AnswersInv, PreviewsAreRight, RepliesAreRight
    <2>1. CASE Preview
      <3>1. ShowsTheFirstMatches' /\ BothShapesAgree'
        BY <2>0, <2>1, PreviewIsRight
      <3>2. PICK text \in Messages, limit \in Limits :
               last' = [is |-> "preview", text |-> text, limit |-> limit,
                        of |-> catalog, says |-> GetOffering(text, limit)]
        BY <2>1 DEF Preview
      <3>3. last'.is = "preview" /\ last'.text \in Messages /\ last'.limit \in Limits
        BY <3>2
      <3>4. TypeOK'
        BY <2>0, <2>1, <3>3 DEF Preview, TypeOK
      <3>5. BestIsUnbeaten' /\ HandoffPolicy'
        BY <3>3 DEF BestIsUnbeaten, HandoffPolicy, Replied
      <3> QED  BY <3>1, <3>4, <3>5 DEF AnswersInv, PreviewsAreRight, RepliesAreRight
    <2>2. CASE Send
      <3>1. TypeOK' /\ BestIsUnbeaten' /\ HandoffPolicy'
        BY <2>0, <2>2, ReplyIsRight
      <3>2. last'.is = "reply"
        BY <2>2 DEF Send
      <3>3. ShowsTheFirstMatches' /\ BothShapesAgree'
        BY <3>2 DEF ShowsTheFirstMatches, BothShapesAgree, Previewed
      <3> QED  BY <3>1, <3>3 DEF AnswersInv, PreviewsAreRight, RepliesAreRight
    <2>3. CASE Initiate
      <3>1. last'.is = "none" /\ last' = None
        BY <2>3 DEF Initiate, None
      <3>2. TypeOK'
        BY <2>0, <2>3, <3>1 DEF Initiate, TypeOK
      <3>3. ShowsTheFirstMatches' /\ BothShapesAgree'
        BY <3>1 DEF ShowsTheFirstMatches, BothShapesAgree, Previewed
      <3>4. BestIsUnbeaten' /\ HandoffPolicy'
        BY <3>1 DEF BestIsUnbeaten, HandoffPolicy, Replied
      <3> QED  BY <3>2, <3>3, <3>4 DEF AnswersInv, PreviewsAreRight, RepliesAreRight
    <2>4. CASE CatalogChanges \/ UNCHANGED vars
      <3>1. UNCHANGED <<provider, offering, last>>
        BY <2>4 DEF CatalogChanges, vars
      <3>2. TypeOK'
        BY <2>0, <2>4, <3>1 DEF CatalogChanges, vars, TypeOK
      <3>3. ShowsTheFirstMatches'
        <4>1. Shown' = Shown /\ Room' = Room /\ last' = last
          BY <3>1 DEF Shown, Room
        <4>2. \A p, w : Mentions(p, w)' <=> Mentions(p, w)
          BY DEF Mentions
        <4> QED  BY <2>0, <4>1, <4>2 DEF ShowsTheFirstMatches, Previewed
      <3>4. BothShapesAgree'
        BY <2>0, <3>1 DEF BothShapesAgree, Previewed
      <3>5. BestIsUnbeaten'
        BY <2>0, <3>1 DEF BestIsUnbeaten, Replied, HitLengths
      <3>6. HandoffPolicy'
        BY <2>0, <3>1 DEF HandoffPolicy, Replied
      <3> QED  BY <3>2, <3>3, <3>4, <3>5, <3>6
               DEF AnswersInv, PreviewsAreRight, RepliesAreRight
    <2> QED  BY <2>1, <2>2, <2>3, <2>4 DEF Next
  <1> QED  BY <1>1, <1>2, PTL DEF Spec

(* feed.go:200-225, handlers.go:292-312: whatever the catalog, the query   *)
(* and the limit, a preview shows the first of the products that fit, each *)
(* once, in both shapes and with the stock they have.                      *)
THEOREM PreviewsRight == Spec => []PreviewsAreRight
  BY AnswersInductive, PTL DEF AnswersInv

(* mock.go:64-110, openai.go:20-25: the product the mock talks about has   *)
(* the longest hit, and the first of those; every provider hands off for   *)
(* intent and for nothing else, with the session's own offering.           *)
THEOREM RepliesRight == Spec => []RepliesAreRight
  BY AnswersInductive, PTL DEF AnswersInv
=============================================================================

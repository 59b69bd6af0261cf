----------------------------- MODULE Offerings -----------------------------
(***************************************************************************)
(* What is said of the products: the search behind si_get_offering         *)
(* (internal/feed/feed.go, internal/si/handlers.go) and the replies of the *)
(* two LLM providers (internal/llm), over a catalog that changes between   *)
(* one call of a host and the next.                                        *)
(*                                                                         *)
(* A word is a piece of text that matters as a whole; Within says which    *)
(* words lie within which others, byte for byte.  A text is the set of the *)
(* words it is made of.  One session is enough: what a reply says depends  *)
(* on its message, the session's offering and the catalog of the moment.   *)
(* The session itself is in SessionHandlers, the catalog in Catalog.       *)
(***************************************************************************)
EXTENDS Sorting, Sequences, FiniteSetsExt

CONSTANTS Words,
          Lower,            \* Lower[w]: strings.ToLower
          Bytes,            \* Bytes[w]: len
          Within,           \* the pairs <<v, w>> such that w contains v
          BuyIntent,        \* the words of buyIntent
          Products,         \* every content a product of the feed may have
          Messages,         \* queries and messages of hosts
          Limits,           \* max_results as hosts send it
          DefaultResults,   \* 5 in getOffering
          PromptLimit       \* 20 in systemPrompt

(* Ids are numbered in the order that sorts them; code is the id as text.  *)
ASSUME ProductsAssumption ==
    /\ Products \subseteq [id : Nat, code : Words, name : Words, about : SUBSET Words,
                           tags : SUBSET Words, available : BOOLEAN]
    /\ \A p \in Products : IsFiniteSet(p.tags)

ASSUME WordsAssumption ==
    /\ Lower \in [Words -> Words] /\ Bytes \in [Words -> Nat]
    /\ \A w \in Words : <<w, w>> \in Within /\ Lower[Lower[w]] = Lower[w]
    /\ Within \subseteq Words \X Words
    /\ \A pair \in Within : Bytes[pair[1]] <= Bytes[pair[2]]
    /\ BuyIntent \subseteq Words
    /\ \A t \in Messages : t \subseteq Words

ASSUME LimitsAssumption ==
    Limits \subseteq Int /\ DefaultResults \in Nat \ {0} /\ PromptLimit \in Nat

VARIABLES catalog,    \* the products of Catalog.products
          provider,   \* "mock", or "openai" with [llm].endpoint set
          offering,   \* offering_id of the session, or NoOffering
          last        \* the last si_get_offering or si_send_message: what was
                      \* asked, of which catalog, and the answer

vars == <<catalog, provider, offering, last>>

NoOffering == -1
None       == [is |-> "none"]
Ids        == {p.id : p \in Products}

(* A feed may list an id twice: the map keeps one product for an id.       *)
Catalogs == {S \in SUBSET Products :
                IsFiniteSet(S) /\ \A p, q \in S : p.id = q.id => p = q}

-----------------------------------------------------------------------------
LowerAll(text)    == {Lower[w] : w \in text}
Holds(text, w)    == \E v \in text : <<w, v>> \in Within

(* The ids are sorted, and each is looked up again.                        *)
ById(S) ==
    LET ids == InOrder({p.id : p \in S})
    IN [i \in 1 .. Len(ids) |-> CHOOSE p \in S : p.id = ids[i]]

FirstOf(seq, n) == SubSeq(seq, 1, IF Len(seq) > n THEN n ELSE Len(seq))

(* Terms of a single byte are dropped.                                     *)
Tokenize(text) == {w \in text : Bytes[w] >= 2}

(* Deliberately wrong: a query is met by any of its terms.                 *)
MatchesAny(p, terms) ==
    \/ terms = {}
    \/ \E t \in terms : Holds(LowerAll({p.name} \cup p.about \cup p.tags), t)

Matches(p, terms) ==
    \A t \in terms : Holds(LowerAll({p.name} \cup p.about \cup p.tags), t)

Search(query, limit) ==
    LET terms == Tokenize(LowerAll(query))
    IN FirstOf(ById({p \in catalog : Matches(p, terms)}),
               IF limit <= 0 THEN 10 ELSE limit)

(* Catalog.All.                                                            *)
All == ById(catalog)

(* getOffering, what it answers of the products: the first result is the   *)
(* offering, the others are the alternates, and the legacy list has both.  *)
Availability(p) == IF p.available THEN "available" ELSE "sold_out"

(* Deliberately wrong: the alternates of the offering with itself in them. *)
AlternatesAndPrimary(offers) == offers

Alternates(offers) == SubSeq(offers, 2, Len(offers))

GetOffering(query, max_results) ==
    LET found == Search(query, IF max_results <= 0 THEN DefaultResults ELSE max_results)
        offers == [i \in 1 .. Len(found) |->
                      [id |-> found[i].id, status |-> Availability(found[i])]]
    IN [available |-> offers # <<>>,
        offering  |-> FirstOf(offers, 1),
        matching  |-> Alternates(offers),
        offerings |-> offers]

-----------------------------------------------------------------------------
(* Deliberately wrong: look for intent in what the reply is about as well. *)
BuyingOffering(text) == offering # NoOffering
                        \/ \E w \in BuyIntent : Holds(LowerAll(text), w)

Buying(text) == \E w \in BuyIntent : Holds(LowerAll(text), w)

(* Deliberately wrong: a status the session store does not know.           *)
HandoffMisspelt == [is |-> "handoff", status |-> "handoff", offering |-> offering]

Handoff ==
    [is |-> "handoff", status |-> "pending_handoff", offering |-> offering]

(* pickProduct: a name, an id or a tag of four bytes or more that the      *)
(* message contains is a hit, and a product is taken only if it has a      *)
(* longer one than all before it.                                          *)
Hits(p, text) ==
    {Bytes[w] : w \in {v \in LowerAll({p.name, p.code} \cup p.tags) :
                          Bytes[v] >= 4 /\ Holds(LowerAll(text), v)}}

NoPick == [product |-> None, len |-> 0]

(* Deliberately wrong: >= where the code has >.                            *)
TakeLast(best, p, text) ==
    LET hits == {n \in Hits(p, text) : n >= best.len}
    IN IF hits = {} THEN best ELSE [product |-> p, len |-> Max(hits)]

Take(best, p, text) ==
    LET longer == {n \in Hits(p, text) : n > best.len}
    IN IF longer = {} THEN best ELSE [product |-> p, len |-> Max(longer)]

PickProduct(text) ==
    LET best[i \in 0 .. Len(All)] ==
            IF i = 0 THEN NoPick ELSE Take(best[i - 1], All[i], text)
    IN best[Len(All)].product

MockReply(text) ==
    IF Buying(text) THEN Handoff
    ELSE LET best == PickProduct(text)
         IN IF best = None THEN [is |-> "acknowledged", status |-> "active"]
            ELSE [is |-> "product", status |-> "active", product |-> best]

(* The model is handed a prompt with the first products of the catalog and *)
(* the turn log; it answers in words of its own, or the call fails in one  *)
(* of the ways that end in the fallback.                                   *)
SystemPrompt == FirstOf(All, PromptLimit)

OpenAIReplies(text) ==
    IF Buying(text) THEN {Handoff}
    ELSE {[is |-> "spoken", status |-> "active", prompt |-> SystemPrompt],
          [is |-> "fallback", status |-> "active"]}

Replies(text) == IF provider = "mock" THEN {MockReply(text)} ELSE OpenAIReplies(text)

-----------------------------------------------------------------------------
TypeOK ==
    /\ catalog \in Catalogs
    /\ provider \in {"mock", "openai"}
    /\ offering \in Ids \cup {NoOffering}
    /\ \/ last = None
       \/ last.is = "preview" /\ last.text \in Messages /\ last.limit \in Limits
       \/ last.is = "reply" /\ last.text \in Messages
                            /\ last.says.status \in {"active", "pending_handoff"}

Init ==
    /\ catalog \in Catalogs
    /\ provider \in {"mock", "openai"}
    /\ offering = NoOffering
    /\ last = None

(* A refresh, or an edit in the admin panel.                               *)
CatalogChanges ==
    /\ catalog' \in Catalogs
    /\ UNCHANGED <<provider, offering, last>>

Preview ==
    /\ \E query \in Messages, limit \in Limits :
        last' = [is |-> "preview", text |-> query, limit |-> limit,
                 of |-> catalog, says |-> GetOffering(query, limit)]
    /\ UNCHANGED <<catalog, provider, offering>>

(* si_initiate_session stores the offering_id it is sent.                  *)
Initiate ==
    /\ offering' \in Ids \cup {NoOffering}
    /\ last' = None
    /\ UNCHANGED <<catalog, provider>>

Send ==
    /\ \E text \in Messages : \E says \in Replies(text) :
        last' = [is |-> "reply", text |-> text, of |-> catalog, says |-> says]
    /\ UNCHANGED <<catalog, provider, offering>>

Next == CatalogChanges \/ Preview \/ Initiate \/ Send

Spec == Init /\ [][Next]_vars

-----------------------------------------------------------------------------
(***************************************************************************)
(* Properties.                                                             *)
(***************************************************************************)
Previewed == last.is = "preview"
Replied(kind) == last.is = "reply" /\ last.says.is = kind

(* The word is found in a field of the product that is searched, in        *)
(* whatever case either is written.                                        *)
Mentions(p, w) ==
    \E v \in {p.name} \cup p.about \cup p.tags : <<Lower[w], Lower[v]>> \in Within

Shown == {last.says.offerings[i].id : i \in DOMAIN last.says.offerings}
Room  == IF last.limit <= 0 THEN DefaultResults ELSE last.limit

(* feed.go:200-203: a preview shows the products that mention every term   *)
(* of two bytes or more, each once and in the order of their ids; it       *)
(* leaves one out only when it is full, and then for smaller ids.          *)
ShowsTheFirstMatches ==
    Previewed =>
        LET offers  == last.says.offerings
            fit(p)  == \A w \in last.text : Bytes[Lower[w]] < 2 \/ Mentions(p, w)
            full    == Cardinality(Shown) = Room
        IN /\ \A i, j \in DOMAIN offers : i < j => offers[i].id < offers[j].id
           /\ Cardinality(Shown) <= Room
           /\ \A p \in last.of :
                 /\ p.id \in Shown => fit(p)
                 /\ fit(p) /\ p.id \notin Shown =>
                       full /\ \A id \in Shown : id < p.id
           /\ Shown \subseteq {p.id : p \in last.of}

(* handlers.go:292-312: hosts that read the offering with its alternates   *)
(* and hosts that read the legacy list see the same products once each,    *)
(* with the stock they had, and available says whether there are any.      *)
BothShapesAgree ==
    Previewed =>
        LET says == last.says
        IN /\ says.offering \o says.matching = says.offerings
           /\ Len(says.offering) <= 1
           /\ says.available <=> says.offering # <<>>
           /\ \A i \in DOMAIN says.offerings : \E p \in last.of :
                 /\ p.id = says.offerings[i].id
                 /\ p.available <=> says.offerings[i].status = "available"

(* What hosts are shown of the catalog.                                    *)
PreviewsAreRight == TypeOK /\ ShowsTheFirstMatches /\ BothShapesAgree

HitLengths(p) ==
    {Bytes[Lower[w]] : w \in {v \in {p.name, p.code} \cup p.tags :
         Bytes[Lower[v]] >= 4 /\ \E u \in last.text : <<Lower[v], Lower[u]>> \in Within}}

(* mock.go:64-66: the product the mock talks about is in the catalog, no   *)
(* other has a longer hit in the message, and none with one as long comes  *)
(* before it, so the reply does not depend on the order of the map.        *)
BestIsUnbeaten ==
    /\ Replied("product") =>
          LET best == last.says.product
          IN /\ best \in last.of
             /\ HitLengths(best) # {}
             /\ \A p \in last.of : \A n \in HitLengths(p) :
                   \/ n < Max(HitLengths(best))
                   \/ n = Max(HitLengths(best)) /\ best.id <= p.id
    /\ Replied("acknowledged") => \A p \in last.of : HitLengths(p) = {}

(* openai.go:20-25, intent.go:5-9: whatever provider answers and whether  *)
(* the model can be reached, the session is handed off exactly when the    *)
(* last message shows intent, and then with the session's own offering.    *)
HandoffPolicy ==
    last.is = "reply" =>
        /\ last.says.status = "pending_handoff" <=>
              \E w \in last.text, b \in BuyIntent : <<b, Lower[w]>> \in Within
        /\ Replied("handoff") => last.says.offering = offering

(* What hosts are answered, by either provider.                            *)
RepliesAreRight == BestIsUnbeaten /\ HandoffPolicy

-----------------------------------------------------------------------------
(* What comments and messages of the source say and the code does not do.  *)

(* feed.go:200-201: Search returns products that "contain ALL              *)
(* whitespace-separated terms in query".  A term of one byte is dropped.   *)
HasAllTerms ==
    Previewed => \A p \in last.of : p.id \in Shown =>
        \A w \in last.text : Mentions(p, w)

(* intent.go:16-18: the handoff URL is keyed on the offering "so the brand *)
(* checkout lands on the right product page".  The offering is never       *)
(* looked up, and may be gone from the catalog.                            *)
HandoffLands ==
    Replied("handoff") /\ last.says.offering # NoOffering =>
        last.says.offering \in {p.id : p \in last.of}

(* initiate.go:172: "You're looking at our %s -- I can help you with       *)
(* details".  The prompt is the first products of the catalog, whatever    *)
(* the session is about.                                                   *)
OfferingIsBriefed ==
    Replied("spoken") => \A p \in last.of : p.id = offering =>
        \E i \in DOMAIN last.says.prompt : last.says.prompt[i] = p
=============================================================================

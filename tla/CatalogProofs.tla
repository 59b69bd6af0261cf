--------------------------- MODULE CatalogProofs ---------------------------
(***************************************************************************)
(* Proofs about Catalog, for any set of products and of calls, any number  *)
(* of publications and of crashes, and every order of the renames.         *)
(***************************************************************************)
EXTENDS Catalog, TLAPS

-----------------------------------------------------------------------------
(* The inductive invariant.                                                *)

(* There is a first publication, and the latest one is the remote feed.    *)
FeedOK ==
    /\ Len(published) > 0
    /\ feed \in Catalogs
    /\ config.file => reachable
    /\ ~config.file => feed = published[Len(published)]

(* A process that is not there refreshes nothing.                          *)
LoopOK ==
    /\ proc \in {"down", "refused"} => step = "wait"
    /\ step \in {"cache", "cache_write"} => (config.file \/ products = body)

IsPublication(catalog) == \E i \in 1 .. Len(published) : catalog = published[i]

(* Of a remote feed, every copy is of one publication.                     *)
CopiesOK ==
    ~config.file =>
        /\ cache \in Catalogs => IsPublication(cache)
        /\ step \in {"swap", "cache", "cache_write"} => IsPublication(body)
        /\ proc = "up" => IsPublication(products)

(* x is served or read before y: for publications, no later one.           *)
NoLater(x, y) ==
    \E i, j \in 1 .. Len(published) : i <= j /\ x = published[i] /\ y = published[j]

(* What refresh has read is not older than what is being served.           *)
AgeOK == ~config.file /\ proc = "up" /\ step = "swap" => NoLater(products, body)

(* A call is a change of a file:// feed while it is being made, and it is  *)
(* acknowledged when it is over.                                           *)
CallsOK ==
    \A c \in Calls :
        /\ pc[c] = "write" => config.file /\ proc = "up"
        /\ pc[c] = "idle" => call[c].op = "none" /\ call[c].id = ""
        /\ pc[c] # "done" => answer[c] = "none"
        /\ call[c].op = "none" \/ call[c].id \in ProductIds
        /\ ~config.file => call[c].op = "none"

(* The change of c is in a catalog, unless another call is about it.       *)
KeptIn(catalog, c) ==
    \/ \E d \in Calls \ {c} : call[d].id = call[c].id
    \/ call[c].id \in DOMAIN catalog /\ catalog[call[c].id] = c

KeepsAcked(catalog) == \A c \in Calls : UpsertAcked(c) => KeptIn(catalog, c)

(* Every copy that will be the feed, or be served, has what was            *)
(* acknowledged; a call that is being saved is alone.                      *)
KeptOK ==
    ~raced =>
        /\ KeepsAcked(feed)
        /\ step = "swap" => KeepsAcked(body) /\ Writing = {}
        /\ proc = "up" \/ step \in {"cache", "cache_write"} => KeepsAcked(products)
        /\ \A c \in Writing :
              /\ \A d \in Writing : c = d
              /\ KeepsAcked(snap[c])
              /\ call[c].op = "upsert" => KeptIn(snap[c], c) /\ KeptIn(products, c)

CInv == TypeOK /\ FeedOK /\ LoopOK /\ CopiesOK /\ AgeOK /\ CallsOK /\ KeptOK

-----------------------------------------------------------------------------
(* Catalogs.                                                               *)
LEMMA CatalogFacts ==
    /\ NoProduct \in Catalogs
    /\ \A n \in 1 .. MaxPublications : Publications(n) \subseteq Catalogs
    /\ Torn \notin Catalogs /\ Missing \notin Catalogs
  <1>1. NoProduct \in [{} -> Marks]
    BY DEF NoProduct
  <1>2. \A n \in 1 .. MaxPublications, S \in SUBSET ProductIds : [id \in S |-> n] \in [S -> Marks]
    BY DEF Marks
  <1> QED  BY <1>1, <1>2, FilesAssumption DEF Catalogs, Publications

(* A catalog with one product written into it.                             *)
LEMMA WithFacts ==
    ASSUME NEW x \in Catalogs, NEW id \in ProductIds, NEW c \in Calls
    PROVE  /\ With(x, id, c) \in Catalogs
           /\ DOMAIN With(x, id, c) = DOMAIN x \cup {id}
           /\ With(x, id, c)[id] = c
           /\ \A k \in DOMAIN x \ {id} : With(x, id, c)[k] = x[k]
  <1>1. PICK S \in SUBSET ProductIds : x \in [S -> Marks]
    BY DEF Catalogs
  <1>2. With(x, id, c) \in [S \cup {id} -> Marks]
    BY <1>1 DEF With, Marks
  <1>3. S \cup {id} \in SUBSET ProductIds
    OBVIOUS
  <1>4. With(x, id, c) \in Catalogs
    BY <1>2, <1>3 DEF Catalogs
  <1> QED  BY <1>4 DEF With

(* A catalog with one product taken out of it.                             *)
LEMMA WithoutFacts ==
    ASSUME NEW x \in Catalogs, NEW id
    PROVE  /\ Without(x, id) \in Catalogs
           /\ DOMAIN Without(x, id) = DOMAIN x \ {id}
           /\ \A k \in DOMAIN x \ {id} : Without(x, id)[k] = x[k]
  <1>1. PICK S \in SUBSET ProductIds : x \in [S -> Marks]
    BY DEF Catalogs
  <1>2. Without(x, id) \in [S \ {id} -> Marks]
    BY <1>1 DEF Without
  <1>3. S \ {id} \in SUBSET ProductIds
    OBVIOUS
  <1>4. Without(x, id) \in Catalogs
    BY <1>2, <1>3 DEF Catalogs
  <1> QED  BY <1>4 DEF Without

(* What a call does to the map.                                            *)
Edits(c) == Upsert(c) \/ Delete(c)

(* What Upsert and Delete have in common: the map is changed and its       *)
(* snapshot taken in one step, and the file not yet written.               *)
LEMMA EditFacts ==
    ASSUME CInv, NEW c \in Calls, Edits(c)
    PROVE  \E id \in ProductIds, op \in {"upsert", "delete"} :
              /\ proc = "up" /\ pc[c] = "idle" /\ config.file
              /\ call' = [call EXCEPT ![c] = [op |-> op, id |-> id,
                                              existed |-> id \in DOMAIN products]]
              /\ pc' = [pc EXCEPT ![c] = "write"]
              /\ snap' = [snap EXCEPT ![c] = products']
              /\ raced' = (raced \/ Writing # {} \/ step = "swap")
              /\ UNCHANGED <<owner, feed, cache, proc, crashes, loop, answer>>
              /\ products' \in Catalogs
              /\ op = "upsert" => id \in DOMAIN products' /\ products'[id] = c
              /\ \A k \in DOMAIN products \ {id} :
                    k \in DOMAIN products' /\ products'[k] = products[k]
  <1>1. products \in Catalogs
    BY DEF CInv, TypeOK
  <1>2. CASE Upsert(c)
    <2>1. PICK id \in ProductIds : Begin(c, "upsert", id) /\ products' = With(products, id, c)
      BY <1>2 DEF Upsert
    <2> DEFINE new == With(products, id, c)
    <2>a. /\ new \in Catalogs
          /\ DOMAIN new = DOMAIN products \cup {id}
          /\ new[id] = c
          /\ \A k \in DOMAIN products \ {id} : new[k] = products[k]
      BY <1>1, WithFacts
    <2> HIDE DEF new
    <2>b. products' = new
      BY <2>1 DEF new
    <2>2. products' \in Catalogs /\ id \in DOMAIN products' /\ products'[id] = c
      BY <2>a, <2>b
    <2>3. \A k \in DOMAIN products \ {id} :
             k \in DOMAIN products' /\ products'[k] = products[k]
      BY <2>a, <2>b
    <2> QED  BY <1>2, <2>1, <2>2, <2>3 DEF Upsert, Begin, Save, Snapshot
  <1>3. CASE Delete(c)
    <2>1. PICK id \in ProductIds : Begin(c, "delete", id) /\ products' = Without(products, id)
      BY <1>3 DEF Delete
    <2>2. products' \in Catalogs
      BY <1>1, <2>1, WithoutFacts
    <2>3. \A k \in DOMAIN products \ {id} :
             k \in DOMAIN products' /\ products'[k] = products[k]
      BY <1>1, <2>1, WithoutFacts
    <2> QED  BY <1>3, <2>1, <2>2, <2>3 DEF Delete, Begin, Save, Snapshot
  <1> QED  BY <1>2, <1>3 DEF Edits

-----------------------------------------------------------------------------
(* Types.                                                                  *)
LEMMA InitCInv == Init => CInv
  <1> SUFFICES ASSUME Init PROVE CInv
    OBVIOUS
  <1>1. feed \in Catalogs
    <2>1. 1 \in 1 .. MaxPublications
      BY BoundsAssumption
    <2> QED  BY <2>1, CatalogFacts DEF Init
  <1>2. published = <<feed>> /\ Len(published) = 1 /\ published[1] = feed
    BY DEF Init
  <1>3. published \in Seq(Catalogs) /\ Len(published) <= MaxPublications
    BY <1>1, <1>2, BoundsAssumption
  <1>4. TypeOK
    <2>1. /\ call \in [Calls -> [op : {"none", "upsert", "delete"}, id : ProductIds \cup {""},
                              existed : BOOLEAN]]
          /\ snap \in [Calls -> Catalogs]
      BY CatalogFacts DEF Init
    <2>2. crashes \in 0 .. MaxCrashes
      <3>1. crashes = 0
        BY DEF Init
      <3> QED  BY <3>1, BoundsAssumption
    <2>3. /\ feed \in Catalogs \cup {Torn} /\ cache \in Catalogs \cup {Missing, Torn}
          /\ products \in Catalogs /\ body \in Catalogs
      BY <1>1, CatalogFacts DEF Init
    <2> QED  BY <1>3, <2>1, <2>2, <2>3 DEF Init, TypeOK
  <1>5. FeedOK
    <2>1. reachable
      BY DEF Init
    <2> QED  BY <1>1, <1>2, <2>1 DEF FeedOK
  <1>6. LoopOK /\ AgeOK
    BY DEF Init, LoopOK, AgeOK
  <1>7. CopiesOK
    BY CatalogFacts DEF Init, CopiesOK
  <1>8. CallsOK
    BY DEF Init, CallsOK
  <1>9. KeptOK
    BY DEF Init, KeptOK, KeepsAcked, UpsertAcked, Writing
  <1> QED  BY <1>4, <1>5, <1>6, <1>7, <1>8, <1>9 DEF CInv

CallRecords == [op : {"none", "upsert", "delete"}, id : ProductIds \cup {""}, existed : BOOLEAN]
Answers     == {"none", "ok", "not_found", "read_only", "error", "lost"}

(* The type invariant with its sets named.                                 *)
LEMMA CallTypes ==
    TypeOK <=>
        /\ config \in [file : BOOLEAN, caching : BOOLEAN]
        /\ feed \in Catalogs \cup {Torn}
        /\ reachable \in BOOLEAN
        /\ published \in Seq(Catalogs) /\ Len(published) <= MaxPublications
        /\ cache \in Catalogs \cup {Missing, Torn}
        /\ proc \in {"down", "boot", "up", "refused"}
        /\ crashes \in 0 .. MaxCrashes
        /\ products \in Catalogs
        /\ step \in {"wait", "fetch", "hung", "late", "swap", "cache", "cache_write"}
        /\ body \in Catalogs
        /\ pc \in [Calls -> {"idle", "write", "done"}]
        /\ call \in [Calls -> CallRecords]
        /\ snap \in [Calls -> Catalogs]
        /\ answer \in [Calls -> Answers]
        /\ raced \in BOOLEAN
  BY DEF TypeOK, CallRecords, Answers

(* Every variable keeps its type.                                          *)
LEMMA TypeStep == CInv /\ [Next]_vars => TypeOK'
  <1> SUFFICES ASSUME CInv, [Next]_vars PROVE TypeOK'
    OBVIOUS
  <1> USE DEF CInv
  <1>1. CASE Publish \/ Blip
    <2>1. ASSUME Publish PROVE feed' \in Catalogs /\ published' \in Seq(Catalogs)
                               /\ Len(published') <= MaxPublications
      <3>1. Len(published) < MaxPublications /\ published' = Append(published, feed')
            /\ feed' \in Publications(Len(published) + 1)
        BY <2>1 DEF Publish
      <3>2. published \in Seq(Catalogs)
        BY DEF TypeOK
      <3>3. Len(published) + 1 \in 1 .. MaxPublications
        BY <3>1, <3>2, BoundsAssumption
      <3>4. feed' \in Catalogs
        BY <3>1, <3>3, CatalogFacts
      <3> QED  BY <3>1, <3>2, <3>3, <3>4
    <2> QED  BY <1>1, <2>1 DEF Publish, Blip, TypeOK, loop, admin
  <1>2. CASE Boot \/ RefreshTick \/ FetchHangs \/ FeedAnswers \/ RefreshFails
    BY <1>2 DEF Boot, RefreshTick, FetchHangs, FeedAnswers, RefreshFails, Goto, TypeOK, owner,
                admin
  <1>3. CASE RefreshFetch \/ BootFromCache
    BY <1>3 DEF RefreshFetch, BootFromCache, Fetching, Goto, TypeOK, owner, admin
  <1>4. CASE RefreshSwap \/ CacheTruncate \/ CacheWrite
    BY <1>4, CatalogFacts DEF RefreshSwap, CacheTruncate, CacheWrite, Goto, Refreshed,
                              Installed, TypeOK, owner, admin
  <1>5. CASE Crash
    <2>1. crashes' \in 0 .. MaxCrashes
      <3>1. crashes \in 0 .. MaxCrashes /\ crashes < MaxCrashes /\ crashes' = crashes + 1
        BY <1>5 DEF Crash, TypeOK
      <3> QED  BY <3>1, BoundsAssumption
    <2>2. /\ pc' \in [Calls -> {"idle", "write", "done"}]
          /\ answer' \in [Calls -> Answers]
          /\ snap' \in [Calls -> Catalogs]
      BY <1>5, CatalogFacts, CallTypes DEF Crash, Answers
    <2> QED  BY <1>5, <2>1, <2>2, CatalogFacts DEF Crash, TypeOK, owner, Answers
  <1>6. ASSUME NEW c \in Calls, Edits(c) PROVE TypeOK'
    <2>1. PICK id \in ProductIds, op \in {"upsert", "delete"} :
             /\ call' = [call EXCEPT ![c] = [op |-> op, id |-> id,
                                             existed |-> id \in DOMAIN products]]
             /\ pc' = [pc EXCEPT ![c] = "write"]
             /\ snap' = [snap EXCEPT ![c] = products']
             /\ raced' = (raced \/ Writing # {} \/ step = "swap")
             /\ UNCHANGED <<owner, feed, cache, proc, crashes, loop, answer>>
             /\ products' \in Catalogs
      BY <1>6, EditFacts
    <2>2. (id \in DOMAIN products) \in BOOLEAN
      OBVIOUS
    <2>3. [op |-> op, id |-> id, existed |-> id \in DOMAIN products] \in CallRecords
      BY <2>2 DEF CallRecords
    <2>4. call' \in [Calls -> CallRecords]
      BY <2>1, <2>3, CallTypes
    <2>5. raced' \in BOOLEAN
      BY <2>1
    <2> QED  BY <2>1, <2>4, <2>5 DEF TypeOK, owner, loop, CallRecords
  <1>7. ASSUME NEW c \in Calls, ReadOnly(c) \/ WriteFeed(c) PROVE TypeOK'
    <2>1. PICK a \in Answers : Return(c, a)
      BY <1>7 DEF ReadOnly, WriteFeed, Answers
    <2>2. /\ pc' \in [Calls -> {"idle", "write", "done"}]
          /\ answer' \in [Calls -> Answers]
          /\ snap' \in [Calls -> Catalogs]
      BY <2>1, CatalogFacts, CallTypes DEF Return
    <2>3. UNCHANGED <<owner, cache, proc, crashes, products, loop, call, raced>>
      BY <1>7 DEF ReadOnly, WriteFeed
    <2>4. snap[c] \in Catalogs
      BY DEF TypeOK
    <2>5. feed' \in Catalogs \cup {Torn}
      BY <1>7, <2>4 DEF ReadOnly, WriteFeed, TypeOK
    <2> QED  BY <2>2, <2>3, <2>5 DEF TypeOK, owner, loop, Answers
  <1>8. CASE UNCHANGED vars
    BY <1>8 DEF TypeOK, vars, owner, loop, admin
  <1> QED  BY <1>1, <1>2, <1>3, <1>4, <1>5, <1>6, <1>7, <1>8 DEF Next, RefreshStep, Edits

-----------------------------------------------------------------------------
(* The copies of the feed.                                                 *)

(* A remote feed is never saved to.                                        *)
LEMMA RemoteIdle ==
    ASSUME CInv, ~config.file, NEW c \in Calls
    PROVE  ~Edits(c) /\ ~WriteFeed(c) /\ call[c].op = "none"
  BY EditFacts DEF CInv, CallsOK, WriteFeed

(* The feed file stays whole: it is only ever renamed into place.          *)
LEMMA FeedStep == CInv /\ [Next]_vars => FeedOK'
  <1> SUFFICES ASSUME CInv, [Next]_vars PROVE FeedOK'
    OBVIOUS
  <1>1. CASE Publish
    <2>1. /\ ~config.file /\ published' = Append(published, feed')
          /\ feed' \in Publications(Len(published) + 1) /\ config' = config
          /\ Len(published) < MaxPublications
      BY <1>1 DEF Publish
    <2>2. published \in Seq(Catalogs)
      BY DEF CInv, TypeOK
    <2>3. Len(published) + 1 \in 1 .. MaxPublications
      BY <2>1, <2>2, BoundsAssumption
    <2>4. feed' \in Catalogs
      BY <2>1, <2>3, CatalogFacts
    <2>5. Len(published') = Len(published) + 1 /\ published'[Len(published')] = feed'
      BY <2>1, <2>2, <2>4
    <2>6. Len(published') > 0
      BY <2>2, <2>5
    <2> QED  BY <2>1, <2>4, <2>5, <2>6 DEF FeedOK
  <1>2. CASE Blip
    BY <1>2 DEF Blip, CInv, FeedOK
  <1>3. ASSUME NEW c \in Calls, WriteFeed(c) PROVE FeedOK'
    <2>1. config.file /\ snap[c] \in Catalogs
      BY <1>3, RemoteIdle DEF CInv, TypeOK
    <2>2. UNCHANGED owner /\ feed' \in {feed, snap[c]}
      BY <1>3 DEF WriteFeed
    <2> QED  BY <2>1, <2>2 DEF CInv, FeedOK, owner
  <1>4. CASE UNCHANGED <<owner, feed>>
    BY <1>4 DEF CInv, FeedOK, owner
  <1> QED
    <2>1. ASSUME NEW c \in Calls, Edits(c) PROVE UNCHANGED <<owner, feed>>
      BY <2>1, EditFacts
    <2>2. ASSUME FetchHangs \/ FeedAnswers \/ Boot \/ RefreshStep \/ Crash
          PROVE  UNCHANGED <<owner, feed>>
      BY <2>2 DEF FetchHangs, FeedAnswers, Boot, RefreshStep, Crash, RefreshTick, RefreshFetch,
                  RefreshFails, BootFromCache, RefreshSwap, CacheTruncate, CacheWrite
    <2>3. ASSUME NEW c \in Calls, ReadOnly(c) PROVE UNCHANGED <<owner, feed>>
      BY <2>3 DEF ReadOnly
    <2> QED  BY <1>1, <1>2, <1>3, <1>4, <2>1, <2>2, <2>3 DEF Next, vars, Edits

(* Where refresh is still says what it holds.                              *)
LEMMA LoopStep == CInv /\ [Next]_vars => LoopOK'
  <1> SUFFICES ASSUME CInv, [Next]_vars PROVE LoopOK'
    OBVIOUS
  <1>1. CASE UNCHANGED <<config, proc, products, step, body>>
    BY <1>1 DEF CInv, LoopOK
  <1>2. ASSUME NEW c \in Calls, Edits(c) PROVE LoopOK'
    BY <1>2, EditFacts DEF CInv, LoopOK, owner, loop
  <1>3. CASE FetchHangs \/ FeedAnswers \/ Boot \/ RefreshTick \/ RefreshFetch
    BY <1>3 DEF CInv, LoopOK, FetchHangs, FeedAnswers, Boot, RefreshTick, RefreshFetch,
                Fetching, Goto, owner
  <1>4. CASE RefreshFails \/ BootFromCache \/ RefreshSwap \/ CacheTruncate \/ CacheWrite \/ Crash
    BY <1>4 DEF CInv, LoopOK, RefreshFails, BootFromCache, RefreshSwap, CacheTruncate,
                CacheWrite, Crash, Refreshed, Installed, Goto, owner
  <1> QED
    <2>1. ASSUME Publish \/ Blip PROVE UNCHANGED <<config, proc, products, step, body>>
      BY <2>1 DEF Publish, Blip, loop
    <2>2. ASSUME NEW c \in Calls, ReadOnly(c) \/ WriteFeed(c)
          PROVE  UNCHANGED <<config, proc, products, step, body>>
      BY <2>2 DEF ReadOnly, WriteFeed, owner, loop
    <2>3. ASSUME UNCHANGED vars PROVE UNCHANGED <<config, proc, products, step, body>>
      BY <2>3 DEF vars, owner, loop
    <2> QED  BY <1>1, <1>2, <1>3, <1>4, <2>1, <2>2, <2>3 DEF Next, RefreshStep, Edits

(* What was a publication remains one.                                     *)
LEMMA PublicationStays ==
    ASSUME CInv, [Next]_vars
    PROVE  /\ Len(published) \in Nat /\ Len(published') \in Nat
           /\ Len(published') >= Len(published)
           /\ \A i \in 1 .. Len(published) : published'[i] = published[i]
  <1>1. published \in Seq(Catalogs) /\ published' \in Seq(Catalogs)
    BY TypeStep DEF CInv, TypeOK
  <1>2. CASE Publish
    <2>1. published' = Append(published, feed')
      BY <1>2 DEF Publish
    <2>2. feed' \in Catalogs
      BY FeedStep DEF FeedOK
    <2> QED  BY <1>1, <2>1, <2>2
  <1>3. CASE published' = published
    BY <1>1, <1>3
  <1> QED
    <2>1. ASSUME NEW c \in Calls, Edits(c) PROVE published' = published
      BY <2>1, EditFacts DEF owner
    <2>2. ASSUME FetchHangs \/ FeedAnswers \/ Boot \/ RefreshStep \/ Crash \/ Blip
          PROVE  published' = published
      BY <2>2 DEF FetchHangs, FeedAnswers, Boot, RefreshStep, Crash, RefreshTick, RefreshFetch,
                  RefreshFails, BootFromCache, RefreshSwap, CacheTruncate, CacheWrite, Blip,
                  owner
    <2>3. ASSUME NEW c \in Calls, ReadOnly(c) \/ WriteFeed(c) PROVE published' = published
      BY <2>3 DEF ReadOnly, WriteFeed, owner
    <2> QED  BY <1>2, <1>3, <2>1, <2>2, <2>3 DEF Next, vars, Edits, owner

(* What was published stays published.                                     *)
LEMMA StillPublication ==
    ASSUME CInv, [Next]_vars, NEW x, IsPublication(x)
    PROVE  IsPublication(x)'
  BY PublicationStays DEF IsPublication

(* Publications keep their order.                                          *)
LEMMA StillNoLater ==
    ASSUME CInv, [Next]_vars, NEW x, NEW y, NoLater(x, y)
    PROVE  NoLater(x, y)'
  BY PublicationStays DEF NoLater

(* No step changes the configuration.                                      *)
LEMMA ConfigStays == CInv /\ [Next]_vars => config' = config
  <1> SUFFICES ASSUME CInv, [Next]_vars PROVE config' = config
    OBVIOUS
  <1>1. ASSUME NEW c \in Calls, Edits(c) PROVE config' = config
    BY <1>1, EditFacts DEF owner
  <1>2. ASSUME Publish \/ Blip \/ FetchHangs \/ FeedAnswers \/ Boot \/ RefreshStep \/ Crash
        PROVE  config' = config
    BY <1>2 DEF Publish, Blip, FetchHangs, FeedAnswers, Boot, RefreshStep, Crash, RefreshTick,
                RefreshFetch, RefreshFails, BootFromCache, RefreshSwap, CacheTruncate,
                CacheWrite, owner
  <1>3. ASSUME NEW c \in Calls, ReadOnly(c) \/ WriteFeed(c) PROVE config' = config
    BY <1>3 DEF ReadOnly, WriteFeed, owner
  <1> QED  BY <1>1, <1>2, <1>3 DEF Next, vars, Edits, owner

(* A step that is not refresh's changes none of the copies.                *)
Copies == <<cache, proc, products, step, body>>

(* Every copy of a remote feed is still one whole publication.             *)
LEMMA CopiesStep == CInv /\ [Next]_vars => CopiesOK'
  <1> SUFFICES ASSUME CInv, [Next]_vars, ~config.file PROVE CopiesOK'
    BY ConfigStays DEF CopiesOK
  <1> DEFINE Now(x) == \E i \in 1 .. Len(published') : x = published'[i]
  <1>1. /\ cache \in Catalogs => Now(cache)
        /\ step \in {"swap", "cache", "cache_write"} => Now(body)
        /\ proc = "up" => Now(products)
    BY PublicationStays DEF CInv, CopiesOK, IsPublication
  <1>2. Now(feed)
    BY PublicationStays DEF CInv, FeedOK
  <1> SUFFICES /\ cache' \in Catalogs => Now(cache')
               /\ step' \in {"swap", "cache", "cache_write"} => Now(body')
               /\ proc' = "up" => Now(products')
    BY DEF CopiesOK, IsPublication
  <1> HIDE DEF Now
  <1>3. CASE UNCHANGED Copies
    BY <1>1, <1>3 DEF Copies
  <1>4. CASE FetchHangs \/ FeedAnswers \/ Boot \/ RefreshTick \/ RefreshFetch
    BY <1>1, <1>2, <1>4 DEF FetchHangs, FeedAnswers, Boot, RefreshTick, RefreshFetch, Fetching,
                            Goto
  <1>5. CASE RefreshFails \/ BootFromCache \/ RefreshSwap
    BY <1>1, <1>5 DEF RefreshFails, BootFromCache, RefreshSwap, Refreshed, Installed, Goto
  <1>6. CASE CacheTruncate \/ CacheWrite
    <2>1. products = body /\ Now(body)
      BY <1>1, <1>6 DEF CacheTruncate, CacheWrite, CInv, LoopOK
    <2> QED  BY <1>1, <1>6, <2>1, CatalogFacts DEF CacheTruncate, CacheWrite, Refreshed, Goto
  <1>7. CASE Crash
    BY <1>1, <1>7 DEF Crash
  <1> QED
    <2>1. ASSUME Publish \/ Blip PROVE UNCHANGED Copies
      BY <2>1 DEF Publish, Blip, loop, Copies
    <2>2. ASSUME NEW c \in Calls, ReadOnly(c) PROVE UNCHANGED Copies
      BY <2>2 DEF ReadOnly, loop, Copies
    <2>3. ASSUME UNCHANGED vars PROVE UNCHANGED Copies
      BY <2>3 DEF vars, loop, Copies
    <2> QED
      BY <1>3, <1>4, <1>5, <1>6, <1>7, <2>1, <2>2, <2>3, RemoteIdle DEF Next, RefreshStep, Edits

(* What was read last is still no older than what is served.               *)
LEMMA AgeStep == CInv /\ [Next]_vars => AgeOK'
  <1> SUFFICES ASSUME CInv, [Next]_vars, ~config.file, proc' = "up", step' = "swap"
               PROVE  NoLater(products, body)'
    BY ConfigStays DEF AgeOK
  <1>1. CASE RefreshFetch
    <2>1. /\ proc = "up" /\ products' = products /\ published' = published
          /\ body' = published[Len(published)]
      BY <1>1 DEF RefreshFetch, CInv, FeedOK, owner
    <2>2. PICK i \in 1 .. Len(published) : products = published[i]
      BY <2>1 DEF CInv, CopiesOK, IsPublication
    <2>3. Len(published) \in 1 .. Len(published) /\ i <= Len(published)
      BY <2>2, PublicationStays
    <2> QED  BY <2>1, <2>2, <2>3 DEF NoLater
  <1>2. CASE UNCHANGED Copies
    BY <1>2, PublicationStays DEF CInv, AgeOK, NoLater, Copies
  <1> QED
    <2>1. ASSUME Publish \/ Blip PROVE UNCHANGED Copies
      BY <2>1 DEF Publish, Blip, loop, Copies
    <2>2. ASSUME NEW c \in Calls, ReadOnly(c) PROVE UNCHANGED Copies
      BY <2>2 DEF ReadOnly, loop, Copies
    <2>3. ASSUME UNCHANGED vars PROVE UNCHANGED Copies
      BY <2>3 DEF vars, loop, Copies
    <2>4. ~FetchHangs /\ ~FeedAnswers /\ ~Boot /\ ~RefreshTick /\ ~RefreshFails
      BY DEF FetchHangs, FeedAnswers, Boot, RefreshTick, RefreshFails, Goto
    <2>5. ~BootFromCache /\ ~RefreshSwap /\ ~CacheTruncate /\ ~CacheWrite /\ ~Crash
      BY DEF BootFromCache, RefreshSwap, CacheTruncate, CacheWrite, Crash, Goto, Refreshed
    <2> QED  BY <1>1, <1>2, <2>1, <2>2, <2>3, <2>4, <2>5, RemoteIdle DEF Next, RefreshStep, Edits

-----------------------------------------------------------------------------
(* The calls.                                                              *)
LEMMA CallsStep == CInv /\ [Next]_vars => CallsOK'
  <1> SUFFICES ASSUME CInv, [Next]_vars PROVE CallsOK'
    OBVIOUS
  <1>t. pc \in [Calls -> {"idle", "write", "done"}] /\ answer \in [Calls -> Answers]
        /\ call \in [Calls -> CallRecords]
    BY CallTypes DEF CInv
  <1>1. ASSUME NEW c \in Calls, Edits(c) PROVE CallsOK'
    <2>1. PICK id \in ProductIds, op \in {"upsert", "delete"} :
             /\ proc = "up" /\ pc[c] = "idle" /\ config.file
             /\ call' = [call EXCEPT ![c] = [op |-> op, id |-> id,
                                             existed |-> id \in DOMAIN products]]
             /\ pc' = [pc EXCEPT ![c] = "write"]
             /\ UNCHANGED <<config, proc, answer>>
      BY <1>1, EditFacts DEF owner
    <2> QED  BY <1>t, <2>1 DEF CInv, CallsOK
  <1>2. ASSUME NEW c \in Calls, ReadOnly(c) \/ WriteFeed(c) PROVE CallsOK'
    <2>1. PICK a \in Answers :
             /\ pc' = [pc EXCEPT ![c] = "done"]
             /\ answer' = [answer EXCEPT ![c] = a]
             /\ UNCHANGED <<config, proc, call>>
      BY <1>2 DEF ReadOnly, WriteFeed, Return, Answers, owner
    <2> QED  BY <1>t, <2>1 DEF CInv, CallsOK
  <1>3. CASE Crash
    BY <1>t, <1>3 DEF Crash, CInv, CallsOK, owner
  <1>4. CASE UNCHANGED <<config, pc, call, answer>> /\ (proc = "up" => proc' = "up")
    BY <1>4 DEF CInv, CallsOK
  <1> QED
    <2>1. ASSUME Publish \/ Blip \/ FetchHangs \/ FeedAnswers \/ Boot
          PROVE  UNCHANGED <<config, pc, call, answer>> /\ (proc = "up" => proc' = "up")
      BY <2>1 DEF Publish, Blip, FetchHangs, FeedAnswers, Boot, owner, admin
    <2>2. ASSUME RefreshStep
          PROVE  UNCHANGED <<config, pc, call, answer>> /\ (proc = "up" => proc' = "up")
      BY <2>2 DEF RefreshStep, RefreshTick, RefreshFetch, RefreshFails, BootFromCache,
                  RefreshSwap, CacheTruncate, CacheWrite, Refreshed, owner, admin
    <2>3. ASSUME UNCHANGED vars
          PROVE  UNCHANGED <<config, pc, call, answer>> /\ (proc = "up" => proc' = "up")
      BY <2>3 DEF vars, owner, admin
    <2> QED  BY <1>1, <1>2, <1>3, <1>4, <2>1, <2>2, <2>3 DEF Next, Edits

(* No acknowledged upsert is lost from a copy that matters: an upsert or a *)
(* delete is made, one is saved or fails to be, anything else happens.     *)
LEMMA KeptByEdit ==
    ASSUME CInv, NEW c \in Calls, Edits(c), KeptOK, ~raced'
    PROVE  KeptOK'
  <1>1. PICK id \in ProductIds, op \in {"upsert", "delete"} :
           /\ proc = "up" /\ pc[c] = "idle"
           /\ call' = [call EXCEPT ![c] = [op |-> op, id |-> id,
                                           existed |-> id \in DOMAIN products]]
           /\ pc' = [pc EXCEPT ![c] = "write"]
           /\ snap' = [snap EXCEPT ![c] = products']
           /\ raced' = (raced \/ Writing # {} \/ step = "swap")
           /\ UNCHANGED <<owner, feed, cache, proc, crashes, loop, answer>>
           /\ op = "upsert" => id \in DOMAIN products' /\ products'[id] = c
           /\ \A k \in DOMAIN products \ {id} :
                 k \in DOMAIN products' /\ products'[k] = products[k]
    BY EditFacts
  <1>t. /\ pc \in [Calls -> {"idle", "write", "done"}]
        /\ call \in [Calls -> CallRecords]
        /\ snap \in [Calls -> Catalogs]
    BY CallTypes DEF CInv
  <1>2. ~raced /\ Writing = {} /\ step # "swap" /\ step' = step /\ proc' = "up"
    BY <1>1 DEF loop
  <1>3. KeepsAcked(feed) /\ KeepsAcked(products)
    BY <1>1, <1>2 DEF KeptOK
  <1>4. call[c].id = "" /\ answer[c] = "none"
    BY <1>1 DEF CInv, CallsOK
  <1>5. call'[c].id = id /\ call'[c].op = op
        /\ \A d \in Calls \ {c} : call'[d] = call[d] /\ pc'[d] = pc[d]
    BY <1>1, <1>t
  <1>6. \A d \in Calls : UpsertAcked(d)' => UpsertAcked(d) /\ d # c /\ call[d].id \in ProductIds
    BY <1>1, <1>4, <1>5 DEF CInv, CallsOK, UpsertAcked
  (* Whose disjunct was another call, it still is that one.                *)
  <1>7. ASSUME NEW d \in Calls, UpsertAcked(d)',
               \E e \in Calls \ {d} : call[e].id = call[d].id
        PROVE  \E e \in Calls \ {d} : call'[e].id = call'[d].id
    <2>1. PICK e \in Calls \ {d} : call[e].id = call[d].id
      BY <1>7
    <2>2. d # c /\ call[d].id \in ProductIds
      BY <1>6, <1>7
    <2>3. e # c
      BY <1>4, <2>1, <2>2, IdsAssumption
    <2> QED  BY <1>5, <2>1, <2>2, <2>3
  <1>8. KeepsAcked(feed)'
    <2> SUFFICES ASSUME NEW d \in Calls, UpsertAcked(d)' PROVE KeptIn(feed, d)'
      BY DEF KeepsAcked
    <2>1. KeptIn(feed, d) /\ d # c
      BY <1>3, <1>6 DEF KeepsAcked
    <2> QED  BY <1>1, <1>5, <1>7, <2>1 DEF KeptIn
  <1>9. KeepsAcked(products)'
    <2> SUFFICES ASSUME NEW d \in Calls, UpsertAcked(d)' PROVE KeptIn(products, d)'
      BY DEF KeepsAcked
    <2>1. KeptIn(products, d) /\ d # c
      BY <1>3, <1>6 DEF KeepsAcked
    <2>2. CASE call[d].id = id
      BY <1>5, <2>1, <2>2 DEF KeptIn
    <2>3. CASE call[d].id # id
      BY <1>1, <1>5, <1>7, <2>1, <2>3 DEF KeptIn
    <2> QED  BY <2>2, <2>3
  <1>10. op = "upsert" => KeptIn(products, c)'
    BY <1>1, <1>5 DEF KeptIn
  <1>11. \A d \in Writing' : d = c
    BY <1>2, <1>5 DEF Writing
  <1>12. snap'[c] = products'
    BY <1>1, <1>t
  <1>13. KeepsAcked(snap[c])' /\ (op = "upsert" => KeptIn(snap[c], c)')
    BY <1>9, <1>10, <1>12 DEF KeepsAcked, KeptIn
  <1>14. ASSUME NEW d \in Writing'
         PROVE  /\ \A e \in Writing' : d = e
                /\ KeepsAcked(snap[d])'
                /\ call'[d].op = "upsert" => KeptIn(snap[d], d)' /\ KeptIn(products, d)'
    BY <1>5, <1>10, <1>11, <1>13
  <1> QED  BY <1>2, <1>8, <1>9, <1>14 DEF KeptOK

(* Writing the feed, or failing to, keeps what was acknowledged.           *)
LEMMA KeptByWrite ==
    ASSUME CInv, NEW c \in Calls, WriteFeed(c), KeptOK, ~raced'
    PROVE  KeptOK'
  <1>1. PICK a \in Answers :
           /\ feed' \in {feed, snap[c]}
           /\ a = "ok" => feed' = snap[c]
           /\ pc[c] = "write"
           /\ pc' = [pc EXCEPT ![c] = "done"]
           /\ answer' = [answer EXCEPT ![c] = a]
           /\ snap' = [snap EXCEPT ![c] = NoProduct]
           /\ UNCHANGED <<owner, cache, proc, crashes, products, loop, call, raced>>
    BY DEF WriteFeed, Return, Answers
  <1>t. /\ pc \in [Calls -> {"idle", "write", "done"}] /\ answer \in [Calls -> Answers]
    BY CallTypes DEF CInv
  <1>2. c \in Writing /\ ~raced
    BY <1>1 DEF Writing
  <1>3. /\ KeepsAcked(feed) /\ KeepsAcked(snap[c])
        /\ call[c].op = "upsert" => KeptIn(snap[c], c) /\ KeptIn(products, c)
        /\ \A d \in Writing : d = c
        /\ step # "swap"
        /\ proc = "up" \/ step \in {"cache", "cache_write"} => KeepsAcked(products)
    BY <1>2 DEF KeptOK
  <1>4. Writing' = {}
    BY <1>1, <1>3, <1>t DEF Writing
  <1>5. \A d \in Calls \ {c} : UpsertAcked(d)' => UpsertAcked(d)
    BY <1>1, <1>t DEF UpsertAcked
  <1>6. UpsertAcked(c)' => feed' = snap[c] /\ call[c].op = "upsert"
    BY <1>1, <1>t DEF UpsertAcked
  <1>7. KeepsAcked(feed)'
    BY <1>1, <1>3, <1>5, <1>6 DEF KeepsAcked, KeptIn
  <1>8. KeepsAcked(products) => KeepsAcked(products)'
    BY <1>1, <1>3, <1>5, <1>6 DEF KeepsAcked, KeptIn
  <1> QED  BY <1>1, <1>3, <1>4, <1>7, <1>8 DEF KeptOK, loop

(* As long as nothing overlapped, every copy that will be the feed or be   *)
(* served holds what was acknowledged.                                     *)
LEMMA KeptStep == CInv /\ [Next]_vars => KeptOK'
  <1> SUFFICES ASSUME CInv, [Next]_vars, ~raced' PROVE KeptOK'
    BY DEF KeptOK
  <1>1. KeptOK /\ CallsOK' /\ config' = config
    BY CallsStep, ConfigStays DEF CInv
  <1>2. CASE ~config.file
    <2>1. \A c \in Calls : pc'[c] # "write" /\ call'[c].op # "upsert"
      BY <1>1, <1>2 DEF CallsOK
    <2> QED  BY <2>1 DEF KeptOK, KeepsAcked, UpsertAcked, Writing
  <1>3. ASSUME config.file, Publish \/ Blip \/ FetchHangs \/ FeedAnswers PROVE KeptOK'
    <2>1. UNCHANGED <<feed, proc, products, body, admin>>
      BY <1>3 DEF Publish, Blip, FetchHangs, FeedAnswers, Goto
    <2>2. step' = step \/ step' \in {"hung", "late"}
      BY <1>3 DEF Publish, Blip, FetchHangs, FeedAnswers, Goto, loop
    <2> QED  BY <1>1, <2>1, <2>2
             DEF KeptOK, KeepsAcked, KeptIn, UpsertAcked, Writing, admin
  <1>4. CASE Boot \/ RefreshTick \/ RefreshFails
    BY <1>1, <1>4 DEF Boot, RefreshTick, RefreshFails, Goto, KeptOK, KeepsAcked, KeptIn,
                      UpsertAcked, Writing, admin
  <1>5. CASE RefreshFetch
    BY <1>1, <1>5 DEF RefreshFetch, KeptOK, KeepsAcked, KeptIn, UpsertAcked, Writing, Fetching
  <1>6. ASSUME config.file PROVE ~BootFromCache
    BY <1>6, CatalogFacts DEF BootFromCache, CInv, FeedOK
  <1>7. CASE RefreshSwap
    BY <1>1, <1>7 DEF RefreshSwap, Refreshed, Goto, Installed, KeptOK, KeepsAcked, KeptIn,
                      UpsertAcked, Writing, admin
  <1>8. CASE CacheTruncate \/ CacheWrite
    BY <1>1, <1>8 DEF CacheTruncate, CacheWrite, Refreshed, Goto, KeptOK, KeepsAcked, KeptIn,
                      UpsertAcked, Writing, admin
  <1>9. CASE Crash
    BY <1>1, <1>9 DEF Crash, KeptOK, KeepsAcked, KeptIn, UpsertAcked, Writing
  <1>10. ASSUME NEW c \in Calls, ReadOnly(c) PROVE ~config.file
    BY <1>10 DEF ReadOnly
  <1>11. CASE UNCHANGED vars
    BY <1>1, <1>11 DEF vars, loop, admin, KeptOK, KeepsAcked, KeptIn, UpsertAcked, Writing
  <1> QED
    BY <1>1, <1>2, <1>3, <1>4, <1>5, <1>6, <1>7, <1>8, <1>9, <1>10, <1>11, KeptByEdit,
       KeptByWrite DEF Next, RefreshStep, Edits

(* The invariant of the catalog holds in every behaviour.                  *)
THEOREM CatalogInductive == Spec => []CInv
  <1>1. CInv /\ [Next]_vars => CInv'
    BY TypeStep, FeedStep, LoopStep, CopiesStep, AgeStep, CallsStep, KeptStep DEF CInv
  <1> QED  BY InitCInv, <1>1, PTL DEF Spec

-----------------------------------------------------------------------------
(* Every variable keeps its type: the files and the map are always         *)
(* catalogs, or one of the two other things a file may be.                 *)
THEOREM CatalogTyping == Spec => []TypeOK
  BY CatalogInductive, PTL DEF CInv

(* writeFeedAtomic: whatever call fails or dies while it saves, the feed   *)
(* file is a whole catalog at every moment.                                *)
THEOREM FeedIsIntact == Spec => []FeedFileIntact
  <1>1. CInv => FeedFileIntact
    BY DEF CInv, FeedOK, FeedFileIntact
  <1> QED  BY <1>1, CatalogInductive, PTL

(* Whatever is read, cached, torn and booted from, a server of a remote    *)
(* feed serves one publication of it.                                      *)
THEOREM OnePublication == Spec => []ServesOnePublication
  <1>1. CInv => ServesOnePublication
    BY DEF CInv, CopiesOK, IsPublication, ServesOnePublication
  <1> QED  BY <1>1, CatalogInductive, PTL

(* And while it is up it never goes back to an older one.                  *)
THEOREM NothingOlder == Spec => NeverServesOlder
  <1>1. ASSUME CInv, [Next]_vars, ~config.file, proc = "up", proc' = "up"
        PROVE  NoLater(products, products')
    <2>1. CASE RefreshSwap
      BY <1>1, <2>1 DEF RefreshSwap, Installed, CInv, AgeOK
    <2>2. CASE products' = products
      <3>1. PICK i \in 1 .. Len(published) : products = published[i]
        BY <1>1 DEF CInv, CopiesOK, IsPublication
      <3>2. i <= i
        OBVIOUS
      <3> QED  BY <2>2, <3>1, <3>2 DEF NoLater
    <2> QED
      <3>1. ASSUME Publish \/ Blip \/ FetchHangs \/ FeedAnswers \/ Boot \/ Crash
            PROVE  products' = products
        BY <1>1, <3>1 DEF Publish, Blip, FetchHangs, FeedAnswers, Boot, Crash
      <3>2. ASSUME RefreshStep, ~RefreshSwap PROVE products' = products
        BY <1>1, <3>2 DEF RefreshStep, RefreshTick, RefreshFetch, RefreshFails, BootFromCache,
                          CacheTruncate, CacheWrite
      <3>3. ASSUME NEW c \in Calls, ReadOnly(c) PROVE products' = products
        BY <3>3 DEF ReadOnly
      <3> QED  BY <1>1, <2>1, <2>2, <3>1, <3>2, <3>3, RemoteIdle DEF Next, Edits, vars
  <1>2. CInv /\ [Next]_vars =>
           (~config.file /\ proc = "up" /\ proc' = "up" =>
               \E i, j \in 1 .. Len(published) :
                   i <= j /\ products = published[i] /\ products' = published[j])
    BY <1>1 DEF NoLater
  <1> QED  BY <1>2, CatalogInductive, PTL DEF Spec, NeverServesOlder

(* As long as calls do not overlap, an acknowledged upsert is in the feed  *)
(* file, over failed writes, crashes and restarts.                         *)
THEOREM UpsertsAreKept == Spec => []UnracedUpsertKept
  <1>1. CInv => UnracedUpsertKept
    BY DEF CInv, KeptOK, KeepsAcked, KeptIn, UnracedUpsertKept, Kept
  <1> QED  BY <1>1, CatalogInductive, PTL
=============================================================================

------------------------------ MODULE Catalog ------------------------------
(***************************************************************************)
(* The product catalog (internal/feed/feed.go) and the admin calls that    *)
(* edit it (internal/admin/admin.go): a map in memory, the feed it is      *)
(* loaded from and, for a file:// feed, saved to, and the cache file it is *)
(* booted from when the feed cannot be read.                               *)
(*                                                                         *)
(* One lock protects the map and nothing else.  Upsert and Delete save the *)
(* snapshot they took after they released it, so their renames may come in *)
(* any order; the refresh loop reads the feed before it takes the lock and *)
(* writes the cache after.  The process may die at any point.              *)
(***************************************************************************)
EXTENDS Integers, Sequences

CONSTANTS ProductIds,
          Missing,          \* no cache file
          Torn,             \* a file that is no JSON: truncated and not written
          Calls,            \* the admin calls: each is made once
          MaxPublications,  \* bound: versions of a remote feed
          MaxCrashes        \* bound: crashes

ASSUME BoundsAssumption == MaxPublications \in Nat \ {0} /\ MaxCrashes \in Nat
(* Upsert refuses a product without an id.                                 *)
ASSUME IdsAssumption    == "" \notin ProductIds

VARIABLES config,     \* is the feed a file:// one; is cache_path set
          feed,       \* the catalog in the feed
          reachable,  \* whether a remote feed answers
          published,  \* every catalog the feed's owner put there, oldest first
          cache,      \* the file at cache_path
          proc,       \* "down", "boot" (inside New), "up", or "refused": log.Fatalf
          crashes,
          products,   \* Catalog.products
          step,       \* where refresh is
          body,       \* the feed as refresh read it
          pc,         \* pc[c]: where admin call c is
          call,       \* call[c]: its operation, product id, was the product there
          snap,       \* snap[c]: snapshotLocked as c saw it
          answer,     \* answer[c]
          raced       \* has a call overlapped another call or a refresh?

loop  == <<step, body>>
admin == <<pc, call, snap, answer, raced>>
owner == <<config, reachable, published>>
vars  == <<owner, feed, cache, proc, crashes, products, loop, admin>>

-----------------------------------------------------------------------------
(* A catalog maps product ids to the content of the product: the number of *)
(* the publication or the call that wrote it.                              *)
Marks     == (1 .. MaxPublications) \cup Calls
Catalogs  == UNION {[S -> Marks] : S \in SUBSET ProductIds}
NoProduct == [id \in {} |-> 0]

ASSUME FilesAssumption == Missing # Torn /\ {Missing, Torn} \cap Catalogs = {}

Publications(n) == {[id \in S |-> n] : S \in SUBSET ProductIds}

(* Deliberately wrong: blank the product instead of dropping its key.      *)
WithoutKept(catalog, id) == [catalog EXCEPT ![id] = 0]

With(catalog, id, mark) ==
    [k \in DOMAIN catalog \cup {id} |-> IF k = id THEN mark ELSE catalog[k]]
Without(catalog, id)    == [k \in DOMAIN catalog \ {id} |-> catalog[k]]

TypeOK ==
    /\ config \in [file : BOOLEAN, caching : BOOLEAN]
    /\ feed \in Catalogs \cup {Torn}
    /\ reachable \in BOOLEAN
    /\ published \in Seq(Catalogs) /\ Len(published) <= MaxPublications
    /\ cache \in Catalogs \cup {Missing, Torn}
    /\ proc \in {"down", "boot", "up", "refused"}
    /\ crashes \in 0 .. MaxCrashes
    /\ products \in Catalogs
    /\ step \in {"wait", "fetch", "hung", "late", "swap", "cache", "cache_write"}
    /\ body \in Catalogs
    /\ pc \in [Calls -> {"idle", "write", "done"}]
    /\ call \in [Calls -> [op : {"none", "upsert", "delete"}, id : ProductIds \cup {""},
                        existed : BOOLEAN]]
    /\ snap \in [Calls -> Catalogs]
    /\ answer \in [Calls -> {"none", "ok", "not_found", "read_only", "error", "lost"}]
    /\ raced \in BOOLEAN

Init ==
    /\ config \in [file : BOOLEAN, caching : BOOLEAN]
    /\ feed \in Publications(1)
    /\ reachable = TRUE
    /\ published = <<feed>>
    /\ cache = Missing
    /\ proc = "down" /\ crashes = 0
    /\ products = NoProduct
    /\ step = "wait" /\ body = NoProduct
    /\ pc = [c \in Calls |-> "idle"]
    /\ call = [c \in Calls |-> [op |-> "none", id |-> "", existed |-> FALSE]]
    /\ snap = [c \in Calls |-> NoProduct]
    /\ answer = [c \in Calls |-> "none"]
    /\ raced = FALSE

-----------------------------------------------------------------------------
(* The owner of a remote feed publishes, and it may be out of reach: no    *)
(* connection, a status that is not 2xx, a body that is no JSON.           *)
Publish ==
    /\ ~config.file
    /\ Len(published) < MaxPublications
    /\ feed' \in Publications(Len(published) + 1)
    /\ published' = Append(published, feed')
    /\ UNCHANGED <<config, reachable, cache, proc, crashes, products, loop, admin>>

Blip ==
    /\ ~config.file
    /\ reachable' = ~reachable
    /\ UNCHANGED <<config, feed, published, cache, proc, crashes, products, loop, admin>>

-----------------------------------------------------------------------------
(* refresh, called by New at boot and by every tick of RefreshLoop.        *)
Writing == {c \in Calls : pc[c] = "write"}

Goto(s) == step' = s /\ UNCHANGED body

Boot ==
    /\ proc \in {"down", "refused"}
    /\ proc' = "boot"
    /\ Goto("fetch")
    /\ UNCHANGED <<owner, feed, cache, crashes, products, admin>>

RefreshTick ==
    /\ proc = "up" /\ step = "wait"
    /\ Goto("fetch")
    /\ UNCHANGED <<owner, feed, cache, proc, crashes, products, admin>>

(* A remote feed accepts the request and does not answer: http.Default-    *)
(* Client has no timeout, so refresh waits until it does, if ever.         *)
FetchHangs ==
    /\ ~config.file /\ step = "fetch"
    /\ Goto("hung")
    /\ UNCHANGED <<owner, feed, cache, proc, crashes, products, admin>>

FeedAnswers ==
    /\ step = "hung"
    /\ Goto("late")
    /\ UNCHANGED <<owner, feed, cache, proc, crashes, products, admin>>

Fetching == step \in {"fetch", "late"}

RefreshFetch ==
    /\ Fetching
    /\ reachable /\ feed # Torn
    /\ body' = feed
    /\ step' = "swap"
    /\ raced' = (raced \/ Writing # {})
    /\ UNCHANGED <<owner, feed, cache, proc, crashes, products, pc, call, snap, answer>>

(* Deliberately wrong: a failed refresh falls back on the cache.           *)
RefreshFailsToCache ==
    /\ proc = "up" /\ Fetching
    /\ ~reachable \/ feed = Torn
    /\ products' = IF config.caching /\ cache \in Catalogs THEN cache ELSE products
    /\ Goto("wait")
    /\ UNCHANGED <<owner, feed, cache, proc, crashes, admin>>

RefreshFails ==
    /\ proc = "up" /\ Fetching
    /\ ~reachable \/ feed = Torn
    /\ Goto("wait")
    /\ UNCHANGED <<owner, feed, cache, proc, crashes, products, admin>>

(* New without a feed: the cache, or log.Fatalf.                           *)
BootFromCache ==
    /\ proc = "boot" /\ Fetching
    /\ ~reachable \/ feed = Torn
    /\ IF config.caching /\ cache \in Catalogs
       THEN products' = cache /\ proc' = "up"
       ELSE proc' = "refused" /\ UNCHANGED products
    /\ Goto("wait")
    /\ UNCHANGED <<owner, feed, cache, crashes, admin>>

(* refresh returns; at boot the server starts to serve.                    *)
Refreshed ==
    /\ step' = "wait"
    /\ proc' = "up"
    /\ body' = NoProduct

(* Deliberately wrong: add to the map, as loadFromCache does.              *)
InstalledMerged ==
    [id \in DOMAIN products \cup DOMAIN body |->
        IF id \in DOMAIN body THEN body[id] ELSE products[id]]

(* Deliberately wrong: the same ids, the same catalog.                     *)
InstalledIfIdsDiffer == IF DOMAIN body = DOMAIN products THEN products ELSE body

Installed == body

RefreshSwap ==
    /\ step = "swap"
    /\ products' = Installed
    /\ IF config.caching THEN Goto("cache") /\ UNCHANGED proc ELSE Refreshed
    /\ UNCHANGED <<owner, feed, cache, crashes, admin>>

(* os.WriteFile opens with O_TRUNC and then writes; its errors are         *)
(* dropped.                                                                *)
CacheTruncate ==
    /\ step = "cache"
    /\ \/ cache' = Torn /\ Goto("cache_write") /\ UNCHANGED proc
       \/ Refreshed /\ UNCHANGED cache
    /\ UNCHANGED <<owner, feed, crashes, products, admin>>

CacheWrite ==
    /\ step = "cache_write"
    /\ cache' \in {body, Torn}
    /\ Refreshed
    /\ UNCHANGED <<owner, feed, crashes, products, admin>>

-----------------------------------------------------------------------------
(* Upsert and Delete: the map and the snapshot under the lock, the file    *)
(* without it.                                                             *)
Begin(c, op, id) ==
    /\ proc = "up" /\ pc[c] = "idle"
    /\ call' = [call EXCEPT ![c] = [op |-> op, id |-> id, existed |-> id \in DOMAIN products]]
    /\ UNCHANGED <<owner, feed, cache, proc, crashes, loop>>

Return(c, a) ==
    /\ pc' = [pc EXCEPT ![c] = "done"]
    /\ answer' = [answer EXCEPT ![c] = a]
    /\ snap' = [snap EXCEPT ![c] = NoProduct]

ReadOnly(c) ==
    /\ proc = "up" /\ pc[c] = "idle"
    /\ ~config.file
    /\ Return(c, "read_only")
    /\ UNCHANGED <<owner, feed, cache, proc, crashes, products, loop, call, raced>>

Save(c) ==
    /\ config.file
    /\ pc' = [pc EXCEPT ![c] = "write"]
    /\ raced' = (raced \/ Writing # {} \/ step = "swap")
    /\ UNCHANGED answer

(* Deliberately wrong: the snapshot misses the change.                     *)
SnapshotBefore == products
Snapshot       == products'

Upsert(c) ==
    /\ \E id \in ProductIds : /\ Begin(c, "upsert", id)
                              /\ products' = With(products, id, c)
    /\ snap' = [snap EXCEPT ![c] = Snapshot]
    /\ Save(c)

Delete(c) ==
    /\ \E id \in ProductIds : /\ Begin(c, "delete", id)
                              /\ products' = Without(products, id)
    /\ snap' = [snap EXCEPT ![c] = Snapshot]
    /\ Save(c)

(* Deliberately wrong: write the file in place.                            *)
WriteFeedInPlace(c) ==
    /\ pc[c] = "write"
    /\ \/ feed' = Torn /\ UNCHANGED <<pc, snap, answer>>
       \/ feed' = snap[c] /\ Return(c, "ok")
    /\ UNCHANGED <<owner, cache, proc, crashes, products, loop, call, raced>>

(* writeFeedAtomic: a temporary file of this call's own, then a rename, or *)
(* an error on the way and the feed is as it was.  Delete answers 404 when *)
(* the id was not there, after writing all the same.                       *)
WriteFeed(c) ==
    /\ pc[c] = "write"
    /\ \/ /\ feed' = snap[c]
          /\ Return(c, IF call[c].op = "delete" /\ ~call[c].existed
                       THEN "not_found" ELSE "ok")
       \/ UNCHANGED feed /\ Return(c, "error")
    /\ UNCHANGED <<owner, cache, proc, crashes, products, loop, call, raced>>

(* The process dies with everything it had in memory.                      *)
Crash ==
    /\ proc \in {"boot", "up"} /\ crashes < MaxCrashes
    /\ crashes' = crashes + 1
    /\ proc' = "down"
    /\ products' = NoProduct
    /\ step' = "wait" /\ body' = NoProduct
    /\ pc' = [c \in Calls |-> IF pc[c] = "write" THEN "done" ELSE pc[c]]
    /\ answer' = [c \in Calls |-> IF pc[c] = "write" THEN "lost" ELSE answer[c]]
    /\ snap' = [c \in Calls |-> NoProduct]
    /\ UNCHANGED <<owner, feed, cache, call, raced>>

RefreshStep == RefreshTick \/ RefreshFetch \/ RefreshFails \/ BootFromCache
               \/ RefreshSwap \/ CacheTruncate \/ CacheWrite

Next ==
    \/ Publish \/ Blip \/ FetchHangs \/ FeedAnswers
    \/ Boot \/ RefreshStep \/ Crash
    \/ \E c \in Calls : ReadOnly(c) \/ Upsert(c) \/ Delete(c) \/ WriteFeed(c)

Spec == Init /\ [][Next]_vars

(* The ticker fires, a fetch that has an answer or an error returns, and   *)
(* so does a write to a disk.  Nothing makes a feed that hangs answer.     *)
FairSpec == /\ Spec
            /\ WF_vars(RefreshStep)
            /\ \A c \in Calls : WF_vars(WriteFeed(c))

-----------------------------------------------------------------------------
(***************************************************************************)
(* Properties.                                                             *)
(***************************************************************************)

(* feed.go:299: whatever call fails or dies while it saves, the feed file  *)
(* is a whole catalog at every moment, so a restart finds one.             *)
FeedFileIntact == feed \in Catalogs

(* What is served of a remote feed is one publication of its owner, never  *)
(* a mixture of two, whether it came from the feed or from the cache.      *)
ServesOnePublication ==
    ~config.file /\ proc = "up" =>
        \E i \in 1 .. Len(published) : products = published[i]

(* As long as the server stays up it never goes back to an older           *)
(* publication, whatever it reads late and whatever the cache holds.       *)
NeverServesOlder ==
    [][~config.file /\ proc = "up" /\ proc' = "up" =>
          \E i, j \in 1 .. Len(published) :
              i <= j /\ products = published[i] /\ products' = published[j]]_vars

(* An upsert that answered without an error and is the only call about its *)
(* product is in the feed file.                                            *)
Kept(c) ==
    \/ \E d \in Calls \ {c} : call[d].id = call[c].id
    \/ call[c].id \in DOMAIN feed /\ feed[call[c].id] = c

UpsertAcked(c) == call[c].op = "upsert" /\ answer[c] = "ok"

(* As long as no call overlaps another one or a refresh that has read the  *)
(* feed, acknowledged upserts are kept, over failed writes, crashes and    *)
(* restarts.                                                               *)
UnracedUpsertKept == ~raced => \A c \in Calls : UpsertAcked(c) => Kept(c)

(* Once the feed stays within reach and answers, what is served is in the  *)
(* end what it holds: lost races and failed writes do not diverge for      *)
(* good.                                                                   *)
Converges ==
    <>[](reachable /\ step # "hung") => <>[](proc = "up" => products = feed)

-----------------------------------------------------------------------------
(* What comments of the source say and the interleavings refute.           *)

(* feed.go:230: "Upsert inserts or replaces a product by ID, then persists *)
(* the full catalog snapshot to the file feed atomically".  The file of a  *)
(* later upsert may be renamed into place before that of an earlier one.   *)
AckedUpsertKept == \A c \in Calls : UpsertAcked(c) => Kept(c)

(* feed.go:63: "If it fails but a cache exists, boot in degraded mode      *)
(* (stale catalog) so the agent doesn't go dark for a transient upstream   *)
(* blip".  The cache file is rewritten in place, so a crash may leave one  *)
(* that exists and is of no use.                                           *)
DarkOnlyWithoutCache == proc = "refused" => cache = Missing

(* The same comment, of a boot with a good cache while the feed hangs: the *)
(* request has no timeout, and New never gets to the cache.                *)
BootsDegraded ==
    proc = "boot" /\ config.caching /\ cache \in Catalogs ~> proc # "boot"
=============================================================================

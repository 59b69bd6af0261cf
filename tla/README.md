# bragent in TLA+

bragent is a brand agent: a Go server that holds conversations with AI hosts
about a brand's products ("sponsored intelligence", SI), keeps an audit trail
of every message and of the receipts hosts send for sponsored content, and
serves a product catalog. This directory holds a TLA+ model of it, TLC
configurations that check the model on small instances, and TLAPS proofs of
the properties that matter most.

Paths below are relative to the repository.

## 1. The system

### Components, their state and operations

| component | code | state | operations |
|---|---|---|---|
| session store | `internal/store/sqlite.go` | tables sessions, messages (key session, turn), receipts (key session, turn); `user_version` | migrate; CreateSession, UpdateSessionStatus, AppendMessage, NextTurn, ListMessages, SaveReceipt, reads |
| SI handlers | `internal/si` | none of their own; local variables between two statements | si_initiate_session, si_send_message, si_terminate_session; get_adcp_capabilities and si_get_offering (read only); wrapEnvelope |
| MCP envelope | `internal/mcp/envelope.go`, `internal/si/mcptools.go` | none | initialize, tools/list, tools/call, native methods |
| stdio server | `internal/mcpstdio` | active session id, pending receipt | Run: one frame after the other; five tools |
| Python bridge | `examples/claude-desktop/bragent_bridge.py` | session id, pending receipt | five tools, each a POST with a timeout of 30 s |
| catalog | `internal/feed/feed.go` | map of products, feed file, cache file | New, refresh and RefreshLoop, Upsert, Delete, Search, All |
| LLM providers | `internal/llm` | none | Reply: the mock, or an HTTP API with a timeout of a minute and a generic reply as fallback |
| admin panel | `internal/admin` and its `static/app.js` | cookie and sessionStorage in the browser | token check; product list, upsert and delete; the audit of a session; preview chat |
| public demo | `internal/demo/demo.go` | sessions in memory, one mutex, limiter buckets | chat, audit, products, `limiter.allow` |
| signing | `internal/signing` | the key file | LoadOrCreate, thumbprint, Canonicalize, SignEnvelope, VerifyEnvelope, SignReceiptNotary |
| brand, well-known documents | `internal/brand`, `internal/wellknown` | none | verify_brand_claim, JWKS and the other documents |
| configuration | `internal/config/config.go` | none | Load |
| process, HTTP | `cmd/bragent/main.go`, `internal/mcp/server.go` | the context, requests in flight | boot, routing, Shutdown |

### How they interact

`main` reads the configuration, builds the catalog, opens (and migrates) the
store, loads or creates the signing key, and then runs either the HTTP server
or, with `--mcp-stdio`, the stdio server. `net/http` runs every request in a
goroutine of its own. SI handlers share nothing but the store; its pool has one
connection, so a statement is atomic and nothing longer is: no transaction
spans two statements. They call the LLM in the middle. The admin panel edits
the catalog that SI handlers and the demo read, reads the store while they
write it, and its preview chat (`admin.go:223-263`) calls the SI tasks in
process, as one more host. The stdio server calls the SI handlers in process;
the Python bridge does over HTTP. A stdio server started by a desktop host and
an HTTP server may share one database and one key file (`README.md:86`).

### What is hard

* `sendMessage` is six statements and an LLM call of up to a minute, without a
  transaction: turn numbers, histories and statuses are read, and used later.
* A handler may fail after any statement, have a statement applied that
  reports an error, or vanish (crash, `Shutdown` giving up after five seconds).
* The admin's audit is three statements among all of these.
* The catalog takes a snapshot under its lock and writes it without; the
  refresh loop reads before and writes after it holds the lock, and its HTTP
  client has no timeout.
* The cache, the key and the schema are written in several steps, and a crash
  may come between two.
* What is signed is decoded and encoded again on its way, by the server itself
  too; and published keys, caches of them and signatures on file have lives of
  different length.
* The tools are listed in three places, apart from the dispatch they advertise,
  and two transports implement the same protocol.
* The demo keeps one mutex through an LLM call, and while it writes its response
  to a client that may not read it; its limiter has fixed windows and a sweep
  that depends on how many addresses there are.
* The stdio server must keep the receipt it will attach next right over tasks
  that fail before or after filing it; the Python bridge must do so over calls
  that overlap, and over calls it gives up while the server goes on.
* The admin panel's cookie, address and sessionStorage must keep out whoever
  does not know the token and keep in who does, over rotations and restarts.

`PROJECT.json` lists these hazards one by one with the line where each bites
and the properties that would catch it going wrong.

### What makes each part correct

* session log: turns are contiguous; a reply follows the question it answers
  and was computed from everything before it; rows are permanent; an answer
  without an error means the rows are there; questions settle;
* receipts: valid, filed once, on the turn they are about, in their session;
* session status: a handoff has a reply that caused it; termination is final
  (it is not, see section 6);
* audits: a report is consistent, misses nothing that was on file when it
  began, and a later one takes nothing back;
* catalog: the feed file is always whole; one publication is served and never
  an older one; acknowledged edits are kept; memory and feed converge;
* what is said of products: search, previews, the mock's choice and the
  handoff are functions of the catalog of the moment, not of a map's order;
* signatures: valid however the answer travelled, never valid for a value that
  changed as float64s go; verifiable with the keys that are published;
* protocol: what is advertised is served, calls are answered once and in order,
  notifications are silent, nothing is lost at the end of the pipe;
* boot: whoever serves has the full schema and the key that is on disk; a
  signal stops the server;
* admin access: only who was told the token in force gets in, and stays in;
* demo: exchanges and their receipts are whole, the limiter bounds what gets
  through and forgives, no path returns with the mutex.

## 2. The modules

| module | models | proofs |
|---|---|---|
| `SessionStore` | the tables; each SQL statement as an operator on its table | |
| `SessionHandlers` (EXTENDS SessionStore) | the three SI tasks, one action per statement | `SessionProofs` |
| `TurnLog` | abstract: what a conversation's log promises | `SessionProofs` |
| `SessionLog` (EXTENDS SessionHandlers) | the refinement mapping to `TurnLog`, fairness | `SessionProofs` |
| `SessionAudit` (EXTENDS SessionHandlers) | the admin's audit among the handlers | `SessionProofs` |
| `SponsoredReceipt` | receipt, `Validate`, `synthesiseReceipt` | `StdioBridgeProofs` |
| `StdioBridge` (EXTENDS SponsoredReceipt) | the stdio server and, behind it, SI tasks run one by one | `StdioBridgeProofs` |
| `PythonBridge` | the Python bridge with overlapping calls, and the server seen from outside | `PythonBridgeProofs` |
| `McpSurface` | lists of tools, dispatch, both transports frame by frame | `McpSurfaceProofs` |
| `Catalog` | catalog, refresh loop, cache, admin edits, crashes | `CatalogProofs` |
| `Sorting` | sorting ids and names | |
| `Offerings` (EXTENDS Sorting) | search, previews, replies of both LLM providers | `AnswerProofs` |
| `SignedResponse` (EXTENDS Sorting) | canonical form, signing, re-encoding on the way, verification | `AnswerProofs` |
| `Lifecycle` | processes that boot, migrate, create the key, serve and stop | `ProcessProofs` |
| `KeyPublication` (EXTENDS Lifecycle) | published keys, signed responses, notary signatures | `ProcessProofs` |
| `Configuration` | `Load`, and what boots | `ProcessProofs` |
| `AdminAccess` (EXTENDS Configuration) | the token check and one browser, over edits and restarts | `ProcessProofs` |
| `RateLimiter` | the demo's limiter | `DemoProofs` |
| `Demo` (EXTENDS RateLimiter) | chat and audit behind the limiter | `DemoProofs` |
| `MC...` | instances for TLC: symmetry sets, small vocabularies | |

Each module holds, beside its definitions, some marked "Deliberately wrong": a
plausible slip in the code (a dropped guard, a swapped order). No specification
uses them; put in the place of the definition after them, each makes TLC report
one of the module's properties violated, which shows that the property is able
to fail.

Each module has one type invariant. It is proved (section 4), or a conjunct of
a property a run checks (`ReportsAreSound`, `SignatureIsSound`,
`FramesAreSettled`, `PanelIsGuarded`, `PreviewsAreRight`, `KeysAreSound`,
`ReceiptsAreSound`), or checked by itself (`Catalog`). `Configuration` and
`SponsoredReceipt` have no state.

### SessionStore, SessionHandlers

`sessions[s]` is the status column, `messages[s]` a function from turn to row,
`receipts[s]` a function from turn (-1 is the pre-session turn) to the call
whose receipt is stored. A call `r` is made once, has a program counter
`pc[r]`, the parameters it came with, and the local variables of the handler
(`known`: the status `GetSession` saw, `turn`, `history`). A message row names
the call that wrote it and, for a brand turn, the turns the LLM was shown.

| action | code |
|---|---|
| `InitiateCreate`, `InitiateWelcome`, `InitiateReceipt` | `initiate.go:29-123` |
| `SendGetSession` / `SendRefused` | `messages.go:39-48` |
| `SendNextTurn`, `SendReceipt`, `SendAsk` | `messages.go:52-77` |
| `SendListAndReply`, `SendReply`, `SendPromote` | `messages.go:82-116` |
| `TerminateGetSession`, `TerminateUpdate` | `messages.go:142-173` |
| `RejectParams`, `StatementFails`, `AppendConflict`, second disjunct of `AfterWrite` | the error returns |
| `Lose` | a crash, or `mcp/server.go:93` giving up |

What a handler does between two statements is local and joins the step before
the statement. The LLM call is the gap between `SendListAndReply` and
`SendReply`. `ReplyStatus` is what every provider computes: `pending_handoff`
when the text shows intent to buy, else `active`. A client that disconnects
cancels the request context, so any statement may fail; it may also fail and
have been applied (the error came after the commit). A session id is 96 random
bits: hosts use ids they were given or ids of no session (`Reachable`). The admin's
preview chat makes the same calls as any other host.

### TurnLog, SessionLog

`TurnLog` has one variable, a sequence of welcome, question and reply per
session, which is only extended: by a welcome when empty, by a call's one
question at any time, by the reply to the question that is the last word.
`SessionLog` maps the rows of `messages` in the order of their turns to that
sequence, and states that `SessionHandlers` implements it.

### SessionAudit

`AuditGetSession`, `AuditListMessages` and `AuditListReceipts` are the three
statements of `admin.go:316-398`; any action of `SessionHandlers` may come
between two. `view` is what the handler holds, `report` the last report shown.
Rows never change, so a turn stands for its row. `filed` and `quiet` remember
what was on file when the audit began and are not of the code.

### SponsoredReceipt, StdioBridge

A frame is one action: `Run` handles frames one after the other, and the SI
task runs in process. The bridge keeps `sessionID` and `pending`. The server
side is folded into a log length and a status per session and the receipts on
file; a failing task may fail before, between or after its inserts and with or
without having filed the receipt. `FrameRead` says what `Run` does after a
frame: it looks at the context and at the error `ReadBytes` returned with the
last line. Every response with a `sponsored_context` is an emission and is
named by where it was made, which no code stores: it is how the model knows
what a receipt is about.

### PythonBridge

The MCP library runs tool calls as tasks that give way where they await their
POST (`Post` up to it, `Return` after it). `TimesOut` is the timeout of 30
seconds: the call ends in an exception, and the server goes on (`abandoned`).
The server side is what the tasks of `SessionHandlers` leave behind, whether
they succeed or fail: `Serve`. As in `StdioBridge` a receipt is named by the
emission it acknowledges. `raced` remembers whether a call began while the
server was not done with another.

### McpSurface

A frame is its JSON-RPC structure and the names of its arguments: garbled, a
protocol method, a native call (HTTP), a `tools/call`, with or without an id,
with the arguments that the schema asks for, those the handler needs, or none.
The three lists (`Capabilities`, `ToolDescriptors`, `StdioTools`) and what they
advertise (`Served`, the methods of `Handlers.Handle`, and `Mapped`, the cases
of `mapTool` in front of it over stdio) are separate definitions, as they are in
the code.
`HandleMCP` and `Dispatch` give the outcomes a frame may have over HTTP and
over stdio. HTTP requests run side by side, lines one by one. `Close` ends the
pipe after a line feed or amid the last line (`"cut"`), which `ReadBytes`
returns with `io.EOF`; an answer may fail to be written. `known` is what the
client was told.

### Catalog

`products` is the map, `feed` the file or the remote document, `cache` the file
at `cache_path`. `step` is where `refresh` is: it reads the feed (`fetch`),
takes the lock and replaces the map (`swap`), and rewrites the cache in place
(`cache`, `cache_write`). An admin call takes the lock, changes the map and
takes its snapshot in one step (`Upsert`, `Delete`), and renames its temporary
file in another (`WriteFeed`), which may fail. The owner of a remote feed
publishes new catalogs, and the feed may be out of reach, or accept a request
and not answer it (`FetchHangs`, `FeedAnswers`: no client of the code has a
timeout there). `Crash` may come anywhere; `New` then boots from the feed, from the cache, or is refused. The
file feed is not edited by hand while the server runs. `raced` remembers
whether calls overlapped and `published` what the owner published: neither is
state of the program.

### Offerings

A text is a set of words, and the constant `Within` says which word contains
which, which is all that `strings.Contains` decides. `Search`, `GetOffering`,
`PickProduct` and the providers' replies are operators; `last` keeps what a host
was answered and of which catalog. The loop of `pickProduct` is a function of
how many products it has seen. The properties compare the answers with reference
definitions that quantify over the products and do not loop or sort.

### SignedResponse

A JSON object is a sequence of members as they are spelt, or the tree a decoder
makes of it. A number is an integer, one written with a point or an exponent
all the same (`Dotted`: 1.0), or a fraction. `Canonical` keeps the digits of
integers (`UseNumber`) and refuses the others (`HasPoint`); `AnyTree` reads
numbers as float64s; `Marshal` sorts members and escapes markup. One call goes
through `VerifyBrandClaim` (hash and signature), `WrapEnvelope` (decode and
encode), `Relay` (any text at all is delivered) and `VerifyEnvelope`, which
decodes and encodes once more before it canonicalises. `kept` remembers whether
the text delivered has the values of the one that was sent, read as float64s,
and is not of the code. A hash or a signature is the text it is of, which stands
for their being unforgeable. `verdict.standard` is what a verifier by RFC 8785
says.

### Lifecycle

Processes share the schema, its version and the key file. `migrate` reads the
version once and runs each missing statement as a commit of its own; a
statement that finds its table there fails, and the process exits.
`LoadOrCreate` finds the file, or creates it in two steps. `Stop` is every way
to end: a failing call, a crash, the end of stdin. An HTTP process serves until
a signal and drains for five seconds (`ShutdownEnds` has no condition on the
requests that are left: the time is over or they are done).

### KeyPublication

On top of `Lifecycle`: `FetchKeys` (a verifier gets the JWK set, and keeps it
as long as it likes), `SignResponse`, `Notarise` (the signature stored with a
receipt, by servers and by bridges). `KeyID` is the thumbprint. `sameRun`
remembers what the running server gave out.

### Configuration, AdminAccess

`Load` is the file, the environment over it, defaults and checks, on the fields
that decide what is served. `AdminAccess` adds the operator (`Edit`, `Restart`)
and one browser: `Open` (an address with or without `?token=`), `Reload`,
`Script` (`static/app.js` moves the token from the address to the tab's
sessionStorage), `Api`, `CloseTab`, `CloseBrowser`. Every request goes through
`Authorised` and, if let in, sets the cookie. The browser's own rules (what tabs
share, what a tab keeps) are external.

### RateLimiter, Demo

`allow` runs under its lock: `Allow` or `Refuse` in one step. The sweep may or
may not run with any admitted request, since it depends on the number of
buckets of other addresses. An observer (`watched`) picks an address and a
moment and counts what gets through. `chat` is three steps, up to the LLM call
(`ChatAsk`), from it to the response (`ChatAnswer`) and writing that
(`WriteJSON`); `audit` is two, `Audit` or `AuditNotFound` and `WriteJSON`. The
`Unlock` is deferred, so both keep the mutex until the response is written; the
server has no `WriteTimeout` (`mcp/server.go:75-79`), so nothing makes
`WriteJSON` happen while a client does not read. `Restart` empties the memory.
An empty client address, which `allow` lets through unseen, and the choice of
the LLM are left out.

## 3. The runs

TLC's figures are of the configurations as they are here, with two workers.

| run | instance | distinct states (depth) | what it shows |
|---|---|---|---|
| `SessionHandlers` | 3 calls, 1 session | 62,577 (18) | with any statement failing and any handler lost: turns are contiguous, every reply follows its own question and saw the whole log before it, answers are recorded, receipts sit where their carrier comes next, handoffs have a cause; the handlers implement `TurnLog`; a question is answered or its call fails |
| `SessionAudit` | 3 calls, 1 session, audits without end | 482,252 (23) | a report with a handoff shows its cause, receipts are shown with the turns they are about, none that was on file is missing; a later report takes nothing back, and a closed session's is final |
| `StdioBridge` | 2 sessions, 4 turns, 1 `si_get_offering` | 1,221,626 (14) | in every mode: the pending receipt is valid and never filed twice, on the turn it is about, in its session |
| `PythonBridge` | 4 calls, 2 sessions, 5 turns | 86,867 (13) | overlapping and abandoned calls never file an emission twice; calls one by one file receipts on their turns and forget only terminated sessions |
| `McpSurface` | 2 frames, both transports | 234,142 (7) | for every pair of frames: a tool that is listed is one the dispatch knows, notifications are silent, answers come, in order over stdio, and none is lost at the end of the pipe |
| `Catalog` | 2 products, 2 calls, 3 publications, 2 crashes | 629,964 (27) | the feed file is whole, one publication is served and never an older one, edits that overlap nothing are kept, memory and feed converge |
| `Offerings` | 11 words, 4 products, 10 texts, 4 limits | 62,880 (4) | previews show the first matches by id in both shapes; the mock's product has the longest hit; the handoff policy is the same for every provider |
| `SignedResponse` | 2 member names, objects of up to 2 members, 7 values | 412,066 (5) | whatever is delivered: up to 2^53 the signature is good exactly if no value changed, as float64s go; the request hash is a function of the meaning, and only of it |
| `KeyPublication` | 2 processes, 3 starts, 2 requests | 465,051 (35) | who serves has the whole schema and the key on disk; a genuine signature is never taken for a forged one; notary signatures outlive the process; a signal stops the server |
| `AdminAccess` | 2 tokens, 2 tabs, 3 boots | 338,823 (18) | nobody gets in who was not told the token in force; who got in stays in until it is rotated |
| `Demo` | 3 calls, 2 addresses, capacity 2, window 1, time 3, 1 restart | 994,265 (24) | less than twice the capacity in a window, exchanges and receipts are whole, the mutex is held only by a chat that waits for its LLM or a call that writes its response, one at a time |
| `SessionTerminated` | 3 calls, 1 session | violated in 11 states | termination is not final (section 6) |

Why these bounds are enough to be interesting:

* **SessionHandlers**: on one session, three calls make an initiate and two
  sends, or an initiate, a send and a terminate, that overlap in every way. The
  properties of the log are proved for any number of calls (section 4); the
  others relate at most two calls and the initiate. No symmetry, as liveness is
  checked.
* **SessionAudit**: the same calls; reports that compare two moments need two
  audits, and audits follow one another without bound. Calls are
  interchangeable and no property depends on their names, so symmetry is sound.
* **StdioBridge**: two sessions, so that one may follow or displace another;
  one `si_get_offering` and logs of four messages, long enough for a send after
  a failed one. All four modes, disclosure required or not.
* **PythonBridge**: four calls are an initiate, two sends that overlap or of
  which one is given up, and a terminate; or two initiates around a terminate.
  Five turns let a second send follow a first.
* **McpSurface**: what a client learns with one frame it may use in the next;
  order, and the end of the pipe, concern two frames. Every kind of frame.
* **Catalog**: two products, two admin calls, three publications of a remote
  feed; file and remote feeds, with and without a cache. Two calls are what a
  race needs; three publications let a stale cache, the served one and the next
  differ; a second crash comes during the boot after the first.
* **Offerings**: the vocabulary has what the code tells apart: a term of one
  byte, a word within another, names in upper case, a name too short for a hit,
  two products with hits of one length, two contents of one product. Limits
  below, at and above the number of products.
* **SignedResponse**: two members give an order and a repeated name; `Exact` = 4
  stands for 2^53, and 5 is the first integer a float64 of that size does not
  hold. The seven values are an integer that fits, that one with a point, 5 and
  what it is rounded to among them, a fraction, and markup in two spellings; each
  text that two members can make of them is delivered for each that is sent. A
  claim is hashed as a context is, so the claims are four with one member. The
  members of an object are independent of each other otherwise.
* **KeyPublication**: a server and a bridge, three starts, so that either may
  crash, come back, and find the key rotated; databases left by every release.
  The safety properties of `Lifecycle` are proved for any number.
* **AdminAccess**: two tokens are a rotation, two tabs a second tab; three boots
  are an old token, a new one and the old one again, or the panel turned off.
  Tokens, and tabs, are interchangeable.
* **Demo**: three calls (two that compete for a conversation a third opened),
  two addresses, two tokens, a window of one tick and a clock of three, one
  restart. The sweep's `2 * Window` fits in the clock. Calls, and addresses, are
  interchangeable.

Deadlock is checked except where the system may come to rest: in the session
runs, `PythonBridge`, `McpSurface` and `KeyPublication` when the supply of
calls, frames or starts is used up, in `StdioBridge` when `Run` has returned.
Their configurations say so.

### Fairness

* `SessionLog`: weak fairness of each handler. `net/http` gives every call a
  goroutine, the one connection of the pool is released after each statement,
  and the LLM client gives up after a minute. Arrivals, failures and losses are
  not fair.
* `McpSurface`: weak fairness of handling each frame and of the read at the end
  of the pipe. Tasks end: their statements and LLM calls do. Nothing is assumed
  of the client: it need not send, nor close the pipe.
* `Catalog`: weak fairness of the refresh loop (its ticker fires) and of each
  pending write. A feed that hangs is under no fairness: nothing in the code
  ends such a request. `Converges` supposes in its statement that the feed is
  within reach, and answers, from some time on.
* `Lifecycle` (and `KeyPublication`): weak fairness of what a process does by
  itself (boot, `Shutdown`, the five-second timer). A request may hang for
  ever, and nobody has to fetch or sign anything.
* `StdioBridge`: weak fairness of `ReadEof` only: `ReadBytes` returns on a
  closed pipe. It serves the two statements on the end of `Run` (`ReturnsOnEof`
  and, refuted, `ReturnsOnSignal`).
* `Demo`, `SignedResponse` and the other modules: none. In particular nothing
  says that who holds the demo's mutex lets go of it in the end: a client that
  does not read its response keeps `WriteJSON` from being taken.

## 4. What is proved

| module | theorem | property of the runs | for every |
|---|---|---|---|
| `SessionProofs` (2136 obligations) | `Typing` | (`TypeOK`) | set of calls and sessions |
| | `TurnsAreContiguous` | `ContiguousTurns` | |
| | `RepliesFollow` | `ReplyFollowsItsQuestion` | |
| | `RepliesAreInformed` | `ReplySawWholeLog` | |
| | `LogIsPermanent` | (`RowsArePermanent`) | |
| | `AnswersAreRecorded` | `AnsweredIsRecorded` | |
| | `ReceiptsPrecedeCarriers` | `ReceiptBeforeItsCarrier` | |
| | `ReceiptsPointAtMessages` | (`ReceiptPointsAtMessage`) | |
| | `HandoffsHaveCauses` | `HandoffHasCause` | |
| | `ExchangesAreSingle` | (`OneExchangePerCall`) | |
| | `QuietTerminationsAreFinal` | `QuietTerminationIsFinal` | |
| | `LogIsImplemented` | `ImplementsTurnLog` | |
| | `ReportsSound` | `ReportsAreSound` | and any number of audits |
| | `TrailGrows` | `TrailOnlyGrows` | |
| `StdioBridgeProofs` (340) | `SynthesisedValidates` | (about `synthesiseReceipt` and `Validate` alone) | mode and disclosure setting |
| | `BridgeTyping` | (`TypeOK`) | set of sessions, bound on turns and offerings |
| | `PendingIsValid` | `PendingPassesValidation` | |
| | `AcknowledgedOnce` | `EmissionAcknowledgedOnce` | |
| | `FiledOnItsTurn` | `AckedTurnIsItsOwn` | |
| | `NoForeignReceipt` | `TurnReceiptsStayInSession` | |
| `PythonBridgeProofs` (899) | `ReceiptsStaySound` | `ReceiptsAreSound` | set of calls and sessions, bound on turns |
| | `ForgettingIsRight` | `UnracedForgettingIsRight` | |
| `McpSurfaceProofs` (457) | `NothingElseAdvertised` | `AdvertisedIsServed` | number of frames |
| | `FramesGetSettled` | `FramesAreSettled` | |
| `CatalogProofs` (648) | `CatalogTyping` | `TypeOK` | set of products and calls, number of publications and crashes |
| | `FeedIsIntact` | `FeedFileIntact` | |
| | `OnePublication` | `ServesOnePublication` | |
| | `NothingOlder` | `NeverServesOlder` | |
| | `UpsertsAreKept` | `UnracedUpsertKept` | |
| `ProcessProofs` (854) | `LifecycleTyping` | (`TypeOK`) | number of processes, starts, requests |
| | `SchemaIsFull` | `ServesOnFullSchema` | |
| | `SigningKeyIsTheFiles` | `SigningKeyIsOnDisk` | |
| | `KeysSound` | `KeysAreSound` | one server, any number of bridges |
| | `NotaryOutlives` | `NotaryOutlivesTheProcess` | |
| | `PanelStaysGuarded` | `PanelIsGuarded` | set of tokens and tabs, number of boots, choices of the operator |
| `AnswerProofs` (1761) | `SignaturesSound` | `SignatureIsSound` | set of names, values and claims, size of objects, precision |
| | `HashesMean` | `HashIsOfTheMeaning` | |
| | `MarshalIsInjective` | (about `Marshal` alone) | |
| | `PreviewsRight` | `PreviewsAreRight` | set of words, products, messages and limits, size of the catalog |
| | `RepliesRight` | `RepliesAreRight` | |
| `DemoProofs` (705) | `DemoTyping` | (`TypeOK`) | set of calls and addresses, capacity, window |
| | `BurstsAreBounded` | `LessThanTwiceCapacity` | |
| | `RefusalsDoEnd` | (`RefusalsEnd`) | |
| | `ExchangesStayWhole` | `ExchangesAreWhole` | |
| | `ReceiptsAreComplete` | `OneReceiptPerAnsweredTurn` | |
| | `AuditsAreWhole` | (`AuditShowsWholeExchanges`) | |
| | `MutexComesFree` | `MutexIsReleased` | |

A property in parentheses is stated by its theorem only; the others are checked
by the run of the module as well (those of `Lifecycle` by `KeyPublication`).
Every invariant below was checked by TLC on the instance of the module's run
before it was proved.

The proofs depend on the constants' assumptions only, and on no bound being
small. The assumptions, and what in the code justifies them: `None`, `Free`,
`NoSession`, `"offering"` and the empty string are told from the ids and tokens
they stand beside (`randomID` makes ids that start with "sess", `Upsert` refuses a product
without an id, an empty token turns the panel off); a file that is missing or
torn is no catalog; what the operator may choose is a configuration; of what an
encoder or a float64 makes of a value, the values of an instance are closed
(`ClosedAssumption`: otherwise the answer could not be written in them); a
product of a feed has finitely many tags, and a catalog finitely many products;
capacity and window are positive, and bounds are naturals. `KeyPublication` follows one
server (`OneServerAssumption`), as only one process can listen on the address;
what is proved of `Lifecycle` itself does not use it.

* **SessionProofs, the log.** The properties are not inductive. `IInv`
  adds what a running `send` may rely on of what it read some statements ago
  (`PlaceOK`): below the turn it holds the log is complete, so if that turn is
  still free it is the next one, and the primary key refuses it otherwise; once
  inserted, its question stays where it is; the history it read is a part of
  the log that reaches up to the question. Hence, when the reply finds its turn
  free, the log ends with the question, and the history was all of it.
* **SessionProofs, who wrote what.** `SInv` adds that every row and every
  receipt is of a call that has passed the statement that writes it
  (`WritersOK`, `FiledOK`), and the other way round, what a call has on record
  by the time it is where it is (`RecordOK`). A receipt is on the turn before
  the one its call holds, so wherever that call's row ends up, the receipt is
  right before it: the insert succeeds there or nowhere.
* **SessionProofs, the refinement.** `LogOf` lists the rows by turn; `IInv`
  makes the turns `0 .. n - 1`, so an insert appends to that sequence
  (`RowExtendsLog`). A welcome finds it empty. A reply finds its own question
  at the end, which is `RepliesOK` and `PlaceOK`. All other steps leave the rows, and so the
  sequence, alone (`RefinesStep`).
* **SessionProofs, the audit.** Whatever the handlers do meanwhile, what an audit has
  read stays true: rows and receipts only grow, a status pending handoff has its
  cause on file before it is read (`ViewOK`). So reports miss additions only. A
  session that is terminated with no send in flight is closed (`Closed`): its
  rows, its receipts and its status do not change any more, and a report on it
  that began afterwards is all there is (`FinalOK`). That needs each session to
  have one initiate and to be terminated only after that one has answered (`OwnersOK`).
* **StdioBridgeProofs.** The pending receipt is about an offering or the last
  turn of the active session (`PendingOK`), and is about an emission nothing on
  file is about (`FreshOK`). The second needs that an emission is new when it
  is made (`FiledOK`: what is on file is about emissions made before), and that
  a task that failed has taken the receipt with it.
* **PythonBridgeProofs.** An emission is in one place at a time (`HeldOnce`): on
  file, pending in the bridge, with one call on its way to the server, or with
  one on its way back; and it exists when it is there (`HoldsMade`), so a new one
  is in none of them. That holds however calls overlap, as the receipt is taken
  from the state before the first await. While they do not, the pending receipt
  is about the last turn, and only the one call that is out changes it (`InTurn`).
* **McpSurfaceProofs.** A client is told of no tool that the process does not
  serve, and a tool is not found only when it is not served (`ToldOK`; lists and
  dispatch depend on the same setting, which no step changes, and `mapTool` has a
  case for each tool of the stdio list). Over stdio all
  that is done comes before all that waits (`QueueOK`), so answers are appended
  in order; every frame that is done is answered, silent, or lost to a failed
  write (`SettledOK`); the loop ends only when none waits (`PipeOK`).
* **CatalogProofs.** Of a remote feed every copy (map, body that was read, cache)
  is one publication (`CopiesOK`), and the one read is no older than the one
  served, as one loop does both in turn (`AgeOK`). Of a file, every copy that
  will be the feed or be served holds what was acknowledged (`KeptOK`): the
  feed, the body being swapped in, the map, and the snapshot of the one call
  being saved. A torn file is the cache only: the feed is renamed into place.
* **ProcessProofs, files and keys.** The version never promises more than the schema holds,
  and a migrating process has behind it every statement up to the one it is at
  (`SchemaOK`), whatever other processes do: nothing is ever dropped from the
  schema. For the key, as long as nobody removes the file and no two processes
  create it at once, the file is empty until its one creator has written it.
  Outside the process, a key and its name belong together wherever they are
  kept (`NamesOK`), what the server gave out since its start is of the key it
  holds (`RunOK`), and what was notarised is of the key on disk (`NotaryOK`).
* **ProcessProofs, the admin panel.** Whatever the tabs, their storage and the cookie hold,
  somebody typed in (`HeldOK`), and a browser that was let in with the token in
  force has it in its cookie (`AuthedOK`): a refused request never changes the
  cookie, an accepted one sets it to the token in force.
* **AnswerProofs, the signed response.** A finite set of numbers is listed by rank,
  and the ranks are all numbers below its size, so sorting needs no induction
  (`RankFacts`, `InOrderFacts`). A list of members in order of their names has
  one place for each name: decoding what was encoded gives the tree back
  (`TreeOfEncode`), and two trees never have one text (`MarshalIsInjective`). A
  decoder into `any` rounds (`AnyTreeIsRounded`); rounding twice is rounding
  once, and changes nothing up to 2^53 (`FloatFacts`, `RoundedFacts`). The
  invariant `SignedPath` says what each text on the way decodes to: `signed` to
  the caller's tree, what `WrapEnvelope` sent to the rounded one; what is
  delivered may decode to anything, and `kept` says whether it rounds to the same.
  `VerifyEnvelope` accepts a payload exactly if it rounds to the
  signed tree (`Accepted`): for a tree that rounding leaves alone, exactly if the
  values were kept, and for any other never. Those are both halves of
  `SignatureIsSound`.
* **AnswerProofs, the offerings.** Both properties are inductive as they stand: each
  answer is computed in one step from the catalog of that moment. The ids are
  in order by their ranks and each is looked up (`ByIdFacts`); what is cut off a
  list leaves its beginning, which has the smaller ids. The search is a
  condition on each product. The loop of `pickProduct` keeps, after each
  product, the longest hit so far and the first product that has it (`Won`).
  That this holds after any number of products is an induction on a number,
  done by its least counterexample: a finite set of numbers has a smallest one.
* **DemoProofs.** For the limiter: what the watched address may still get
  through is bounded by the tokens of the bucket it has (`BudgetOK`); a bucket
  made before the watch has given a token to who made it; at most one more
  bucket begins and ends within a window; a bucket in use is never swept. For
  the conversations: all are settled, but that of a chat which waits for
  its LLM with the mutex, whose last turn is that chat's question (`SessionsOK`).
  The mutex belongs to the one call between `Lock` and `Unlock`, if there is one.

### Only model-checked

Liveness (`QuestionsSettle`, `ServesToTheEnd`, `Converges`, `StopsOnSignal`): the
prover has no support for fairness. Every other property of a run that is
expected to pass is proved; so is each invariant those proofs stand on.

## 5. What is not modelled, and why

* The texts: prompts, replies, welcomes, documents (`brand.json`,
  `adagents.json`, the landing page). They are constants of the configuration
  or wording of a model.
* `--simulate-host`, a client for demonstrations; the limit of 1 MiB on a body;
  the bearer check and routing: each request is decided by its own bytes.
* The demo's page and the admin page's forms.
* Which provider a caller's own key selects in the demo, and the providers'
  wire formats.
* Nested objects and arrays in `SignedResponse`: each level is canonicalised
  like the one that is modelled.
* A statement that blocks for ever, a full disk that never recovers.
* Unguessable ids: a host that guesses a session id is no behaviour of the model.

## 6. Where code and comments disagree

`SessionTerminated` is a run of its own: a terminated session comes back to life
when a send that was waiting for its LLM writes its status (`mcptools.go:76`
says the session is over, `messages.go:111-116` writes unconditionally).
`PROJECT.json` quotes the lines.

The modules state what other comments promise as well. Each of the definitions
below is refuted when it takes the place of the properties in the named
configuration; the number is the length of TLC's counterexample.

| definition | configuration | states | what happens |
|---|---|---|---|
| `ReceiptsOnBrandTurns` | `SessionHandlers.cfg` | 9 | after a send that got no reply, the next receipt is filed on a host turn (`sqlite.go:66`, `messages.go:62`) |
| `NoReceiptFromPriorConversation` | `StdioBridge.cfg` | 3 | a second initiate without a terminate carries a receipt of the first conversation (`tools.go:222`) |
| `ReturnsOnSignal` (PROPERTY) | `StdioBridge.cfg` | 7 (lasso) | the stdio server does not notice a signal while it waits for a frame (`server.go:146`) |
| `ReceiptsOnTheirTurn` | `PythonBridge.cfg` | 8 | a send that was given up is filed on a turn its receipt is not about (`bragent_bridge.py:248`) |
| `ForgetsTheTerminated` (PROPERTY) | `PythonBridge.cfg` | 10 | a terminate forgets a session opened while it waited (`bragent_bridge.py:188`, `:266`) |
| `AckedUpsertKept` | `Catalog.cfg` | 8 | an acknowledged product edit is lost to an overlapping one or to a refresh (`feed.go:246`) |
| `DarkOnlyWithoutCache` | `Catalog.cfg` | 9 | a crash destroys the cache that a boot without a feed needs (`feed.go:184`) |
| `BootsDegraded` (PROPERTY) | `Catalog.cfg` | 17 (lasso) | a feed that accepts and does not answer keeps `New` from the cache (`feed.go:63-65`, `:169`) |
| `EverySignatureVerifies` | `SignedResponse.cfg` | 5 | an integer beyond 2^53 is rounded after it was signed (`jws.go:14`, `handlers.go:126`) |
| `SignatureIsOfThePayload` | `SignedResponse.cfg` | 5 | a payload altered to another integer beyond 2^53 of the same float64, or from 1 to 1.0, verifies (`jws.go:13-15`, `:122-126`) |
| `StandardVerifierAgrees` | `SignedResponse.cfg` | 5 | markup is escaped where RFC 8785 leaves it (`jcs.go:61`) |
| `HashBindsTheBody` | `SignedResponse.cfg` | 4 | a field the request struct does not have is not hashed (`jws.go:35`, `brand/handler.go:96`) |
| `EchoIsByteForByte` | `SignedResponse.cfg` | 3 | the echoed context has its markup escaped (`handlers.go:85`) |
| `NotaryVerifies` | `KeyPublication.cfg` | 12 | after a rotation the notary signatures on file have no published key (`sqlite.go:62`, `wellknown.go:41`) |
| `SchemaIsEnough` | `McpSurface.cfg` | 3 | the schema of verify_brand_claim asks for `subject`, the handler needs `claim` (`mcptools.go:94`, `brand/handler.go:77`) |
| `SameEnvelope` | `McpSurface.cfg` | 3 | ping is a method over stdio and not over HTTP (`envelope.go:20`) |
| `StdioListsVerify` | `McpSurface.cfg` | 3 | the stdio list never has verify_brand_claim (`mcpstdio/server.go:21`, `tools.go:72`) |
| `OneBootstrap` | `AdminAccess.cfg` | 5 | a second tab asks for the token again (`admin.go:101`, `app.js:21`) |
| `ValidatedRuns` | `AdminAccess.cfg` | 3 | a refresh interval of zero passes the checks and panics (`config.go:1`, `feed.go:98`) |
| `DemoFollowsEnv` | `AdminAccess.cfg`, with `AllFiles` and `AllEnvs` for its choices | 2 | the environment cannot turn the demo off (`config.go:122`, `:165`) |
| `TyposSurface` | the same | 2 | a misspelt disclosure timing passes (`config.go:194`, `handlers.go:244`) |
| `AtMostCapacity` | `Demo.cfg` | 8 | an hour that begins inside a bucket's lets through what is left of it and all of the next (`demo.go:26`, `:423`) |
| `HasAllTerms` | `Offerings.cfg` | 2 | terms of one byte are ignored (`feed.go:200`, `:330`) |
| `HandoffLands` | `Offerings.cfg` | 3 | the handoff may name a product that is gone (`intent.go:16`) |
| `OfferingIsBriefed` | `Offerings.cfg` | 3 | the prompt need not contain the session's own offering (`initiate.go:172`, `openai.go:149`) |

The passing runs state what does hold next to these: a termination with no send
in flight is final (`QuietTerminationIsFinal`); receipts always sit right
before the turn that carried them (`ReceiptBeforeItsCarrier`); receipts filed on
turns never come from another conversation (`TurnReceiptsStayInSession`), nor,
when calls do not overlap, on another turn (`UnracedReceiptsOnTheirTurn`); edits
that overlap nothing are kept (`UnracedUpsertKept`); signatures verify up to
2^53 and are never good for a value that changed as float64s go
(`SignatureIsSound`); notary signatures outlive everything but a rotation
(`NotaryOutlivesTheProcess`); a window of an hour lets through less than twice
the capacity (`LessThanTwiceCapacity`).

## 7. Plan

The order is that of importance: the audit trail first, as it is what the
server is for; then what feeds it (the bridges), what it talks about (the
catalog and what is said of it), what it signs, what it lives in (processes,
files and the configuration), and the demo last. All of these are modelled,
with their runs, and every invariant and action property of those runs is
proved. What is left is to prove what the modules say beside their runs: the
safety half of the liveness properties (what a handler that waits still can do,
that `Run` returns only at the end of the pipe), and that `StdioBridge` and
`PythonBridge` keep one contract with the server, stated once as an abstract
module that both refine. Liveness itself stays with TLC.

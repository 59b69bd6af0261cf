----------------------------- MODULE McpSurface -----------------------------
(***************************************************************************)
(* What clients are told of the tools, and what their frames are answered: *)
(* the dispatcher of the SI handlers (internal/si/handlers.go), the lists  *)
(* of tools (capabilities, internal/si/mcptools.go, internal/mcpstdio),    *)
(* the MCP envelope over HTTP (internal/mcp) and the frame loop over stdin *)
(* and stdout (internal/mcpstdio/server.go).  A process speaks one of the  *)
(* two (cmd/bragent/main.go), and has signing set up or not.               *)
(*                                                                         *)
(* Frames are their JSON-RPC structure and the names of the arguments they *)
(* carry.  What a task does is in SessionHandlers and StdioBridge; here it *)
(* succeeds or fails.                                                      *)
(***************************************************************************)
EXTENDS Naturals, Sequences, FiniteSets

CONSTANTS MaxFrames     \* bound: frames of the client

ASSUME MaxFramesAssumption == MaxFrames \in Nat \ {0}

VARIABLES mode,         \* "stdio" with --mcp-stdio, else "http"
          brand,        \* [brand].signing_key_path is set
          known,        \* the tools the client was told of
          asked,        \* the frames of the client, in order
          pipe,         \* stdin: "open", "closed", "cut" amid the last line
          handled,      \* the frames the process is done with
          returned,     \* has Run returned at the end of stdin
          answers,      \* what it wrote: for which frame, and what it says
          (* Not of the code.                                              *)
          lost,         \* the frames whose answer could not be written
          ran           \* the frames a task was run for

vars == <<mode, brand, known, asked, pipe, handled, returned, answers, lost, ran>>

-----------------------------------------------------------------------------
SITools == {"si_get_offering", "si_initiate_session", "si_send_message",
            "si_terminate_session"}
Tools   == SITools \cup {"get_adcp_capabilities", "verify_brand_claim"}
NoTool  == "tool that does not exist"

(* The lists, each written out in its own place, and the dispatcher.       *)
Signed(b)   == IF b THEN {"verify_brand_claim"} ELSE {}
Served(b)   == SITools \cup {"get_adcp_capabilities"} \cup Signed(b)

(* Deliberately wrong: forget that the tool is optional.                   *)
CapabilitiesAlways(b) == Tools

Capabilities(b)    == SITools \cup {"get_adcp_capabilities"} \cup Signed(b)
ToolDescriptors(b) == SITools \cup {"get_adcp_capabilities"} \cup Signed(b)

(* Over stdio: the list, and the cases of mapTool's switch.                *)
StdioTools == {"si_get_offering", "si_initiate_session", "si_send_message",
               "si_terminate_session"}

(* Deliberately wrong: a case is missing.                                  *)
MappedButOfferings == {"si_initiate_session", "si_send_message", "si_terminate_session"}

Mapped == {"si_get_offering", "si_initiate_session", "si_send_message",
           "si_terminate_session"}

(* The arguments a schema requires, and those without which the handler,   *)
(* or mapTool in front of it, refuses the call.                            *)
SchemaAsks(m, t) ==
    CASE t = "si_initiate_session" -> {"intent"}
      [] t = "si_send_message" -> {"message"} \cup (IF m = "http" THEN {"session_id"} ELSE {})
      [] t = "si_terminate_session" /\ m = "http" -> {"session_id"}
      [] t = "verify_brand_claim" -> {"claim_type", "subject"}
      [] OTHER -> {}

Needs(m, t) ==
    CASE t = "si_initiate_session" /\ m = "stdio" -> {"intent"}
      [] t = "si_send_message" -> {"message"} \cup (IF m = "http" THEN {"session_id"} ELSE {})
      [] t = "si_terminate_session" /\ m = "http" -> {"session_id"}
      [] t = "verify_brand_claim" -> {"claim_type", "claim"}
      [] OTHER -> {}

-----------------------------------------------------------------------------
(* A frame: what does not parse, or a method, with or without an id.  The  *)
(* arguments are those of the schema, those the handler needs, or none.    *)
Protocol == {"initialize", "notifications/initialized", "tools/list", "ping"}
ArgsOf(t) == {SchemaAsks("http", t), Needs("http", t), {}}

Garbled  == [form |-> "garbled", id |-> FALSE]
Plain    == [form : {"protocol"}, method : Protocol, id : BOOLEAN]
            \cup [form : {"other version", "no method"}, id : {TRUE}]
Call(f)  == UNION {{[form |-> f, tool |-> t, args |-> a, id |-> i] :
                        a \in ArgsOf(t), i \in BOOLEAN} : t \in Tools \cup {NoTool}}
Native    == Call("native")
ToolsCall == Call("tools/call")
Frames    == {Garbled} \cup Plain \cup Native \cup ToolsCall

IsCall(f) == f.form \in {"native", "tools/call"}

Whys == {"ok", "parse", "invalid request", "not found", "missing", "no session", "failed"}

(* si.Handlers.Handle, with the handlers' checks of their parameters: a    *)
(* task that runs may fail.                                                *)
Handle(t, a) ==
    IF t \notin Served(brand) THEN {"not found"}
    ELSE IF ~(Needs("http", t) \subseteq a) THEN {"missing"}
    ELSE {"ok"} \cup (IF t = "get_adcp_capabilities" THEN {} ELSE {"failed"})

(* handleMCP and EnvelopeHandler.Handle: every frame has an answer, with   *)
(* an id or without.  ping is not among the methods of the envelope.       *)
HandleMCP(f) ==
    CASE f.form = "garbled" -> {"parse"}
      [] f.form \in {"other version", "no method"} -> {"invalid request"}
      [] f.form = "protocol" -> IF f.method = "ping" THEN {"not found"} ELSE {"ok"}
      [] IsCall(f) -> Handle(f.tool, f.args)

(* mapTool, and Handle with the parameters that it makes.  The session id  *)
(* is the bridge's own: without one a send or a terminate goes no further. *)
MapTool(t, a) ==
    IF t \notin Mapped THEN {"not found"}
    ELSE (IF "session_id" \in Needs("http", t) THEN {"no session"} ELSE {})
         \cup (IF Needs("stdio", t) \subseteq a THEN Handle(t, Needs("http", t))
               ELSE {"missing"})

(* dispatch: the version is not looked at, native calls are not served.    *)
Dispatch(f) ==
    CASE f.form = "garbled" -> {"parse"}
      [] f.form = "protocol" ->
            IF f.method = "notifications/initialized" THEN {"not found"} ELSE {"ok"}
      [] f.form = "other version" -> {"ok"}
      [] f.form \in {"no method", "native"} -> {"not found"}
      [] f.form = "tools/call" -> MapTool(f.tool, f.args)

Outcomes(f) == IF mode = "http" THEN HandleMCP(f) ELSE Dispatch(f)

(* Tasks are run by calls that come through with their parameters.         *)
Runs(f, why) == IsCall(f) /\ why \in {"ok", "failed"}

(* What the client learns from an answer.                                  *)
Discovers(f, why) ==
    /\ why = "ok"
    /\ \/ f.form = "protocol" /\ f.method = "tools/list"
       \/ IsCall(f) /\ f.tool = "get_adcp_capabilities"

Told(f) ==
    IF IsCall(f) THEN Capabilities(brand)
    ELSE IF mode = "http" THEN ToolDescriptors(brand) ELSE StdioTools

-----------------------------------------------------------------------------
TypeOK ==
    /\ mode \in {"http", "stdio"} /\ brand \in BOOLEAN
    /\ known \subseteq Tools
    /\ asked \in Seq(Frames) /\ Len(asked) <= MaxFrames
    /\ pipe \in {"open", "closed", "cut"} /\ returned \in BOOLEAN
    /\ handled \subseteq DOMAIN asked
    /\ answers \in Seq([to : handled, why : Whys])
    /\ lost \subseteq handled /\ ran \subseteq handled

Init ==
    /\ mode \in {"http", "stdio"} /\ brand \in BOOLEAN
    /\ known = {}
    /\ asked = << >> /\ pipe = "open"
    /\ handled = {} /\ returned = FALSE
    /\ answers = << >> /\ lost = {} /\ ran = {}

(* The client sends a frame: over HTTP on a connection of its own, over    *)
(* stdio as a line.                                                        *)
Send(f) ==
    /\ pipe = "open" /\ Len(asked) < MaxFrames
    /\ asked' = Append(asked, f)
    /\ UNCHANGED <<mode, brand, known, pipe, handled, returned, answers, lost, ran>>

Waiting == DOMAIN asked \ handled

(* It closes the pipe, with a line feed after its last line or without:    *)
(* a line without one has not been handled yet.                            *)
Close ==
    /\ mode = "stdio" /\ pipe = "open"
    /\ pipe' \in {"closed"} \cup (IF Waiting = {} THEN {} ELSE {"cut"})
    /\ UNCHANGED <<mode, brand, known, asked, handled, returned, answers, lost, ran>>

(* Deliberately wrong: a goroutine for every line.                         *)
TurnOfAny(i) == i \in Waiting

(* Requests over HTTP run side by side, lines one after the other.         *)
TurnOf(i) ==
    /\ i \in Waiting
    /\ mode = "stdio" => \A j \in Waiting : i <= j

(* Deliberately wrong: a notification is a frame like any other.           *)
SilentNever(f) == FALSE

(* Over stdio a frame without an id is a notification: it is logged, and   *)
(* neither run nor answered.                                               *)
Silent(f) == mode = "stdio" /\ f.form # "garbled" /\ ~f.id

(* Deliberately wrong: look at the error of ReadBytes before the line.     *)
Skipped(i) == Silent(asked[i]) \/ (pipe = "cut" /\ i = Len(asked))

(* Deliberately wrong: over HTTP as over stdio.                            *)
NoReplyWithoutId(i) == asked[i].form # "garbled" /\ ~asked[i].id

NotAnswered(i) == Silent(asked[i])

(* The answer reaches the client, or the write fails and is only logged.   *)
Answer(i, why) ==
    \/ /\ answers' = Append(answers, [to |-> i, why |-> why])
       /\ known' = IF Discovers(asked[i], why) THEN Told(asked[i]) ELSE known
       /\ UNCHANGED lost
    \/ lost' = lost \cup {i} /\ UNCHANGED <<answers, known>>

HandleFrame(i) ==
    /\ ~returned /\ TurnOf(i)
    /\ handled' = handled \cup {i}
    /\ IF NotAnswered(i)
       THEN UNCHANGED <<answers, known, lost, ran>>
       ELSE \E why \in Outcomes(asked[i]) :
                /\ Answer(i, why)
                /\ ran' = IF Runs(asked[i], why) THEN ran \cup {i} ELSE ran
    /\ returned' = (pipe = "cut" /\ i = Len(asked))
    /\ UNCHANGED <<mode, brand, asked, pipe>>

(* ReadBytes returns io.EOF with no line.                                  *)
Eof ==
    /\ ~returned /\ pipe = "closed" /\ Waiting = {}
    /\ returned' = TRUE
    /\ UNCHANGED <<mode, brand, known, asked, pipe, handled, answers, lost, ran>>

Next ==
    \/ \E f \in Frames : Send(f)
    \/ \E i \in 1 .. MaxFrames : HandleFrame(i)
    \/ Close \/ Eof

Spec == Init /\ [][Next]_vars

(* Tasks end, with an error if need be, and so does the read at the end of *)
(* the pipe.                                                               *)
FairSpec == /\ Spec
            /\ \A i \in 1 .. MaxFrames : WF_vars(HandleFrame(i))
            /\ WF_vars(Eof)

-----------------------------------------------------------------------------
(***************************************************************************)
(* Properties.                                                             *)
(***************************************************************************)
Frame(a) == asked[a.to]

(* handlers.go:42-44, mcptools.go:18-19: a client is never told of a tool  *)
(* that its process then does not know, whichever list it read and whether *)
(* signing is set up or not.                                               *)
AdvertisedIsServed ==
    \A k \in DOMAIN answers :
        LET f == Frame(answers[k])
        IN f.form = "tools/call" \/ (f.form = "native" /\ mode = "http") =>
               ~(f.tool \in known /\ answers[k].why = "not found")

(* server.go:162: over stdio a frame without an id has no answer and no    *)
(* effect, a tools/call among them; any other has one answer at most.      *)
NotificationsAreSilent ==
    mode = "stdio" =>
        /\ \A i \in ran : asked[i].id
        /\ \A k, l \in DOMAIN answers :
               /\ Frame(answers[k]).form = "garbled" \/ Frame(answers[k]).id
               /\ answers[k].to = answers[l].to => k = l

(* server.go:133: over stdio answers come in the order of their requests,  *)
(* also when a host sends the next one before it has the last.             *)
AnsweredInOrder ==
    mode = "stdio" =>
        \A k, l \in DOMAIN answers : k < l => answers[k].to < answers[l].to

Answered(i) == \E k \in DOMAIN answers : answers[k].to = i

(* server.go:129-137: a host that closes the pipe still gets the answer to *)
(* every request before the end, the unfinished last line included.        *)
EofLosesNothing ==
    returned => \A i \in DOMAIN asked :
                    Answered(i) \/ i \in lost \/ Silent(asked[i])

(* What a host on the other end of the pipe may rely on.                   *)
FramesAreSettled ==
    TypeOK /\ NotificationsAreSilent /\ AnsweredInOrder /\ EofLosesNothing

(* Every frame that is due an answer gets one, on both transports.         *)
AnswersCome ==
    \A i \in 1 .. MaxFrames :
        i \in DOMAIN asked /\ ~Silent(asked[i]) ~> Answered(i) \/ i \in lost

(* And the process of a host that closed the pipe ends (server.go:147).    *)
ServesToTheEnd == AnswersCome /\ (pipe # "open" ~> returned)

-----------------------------------------------------------------------------
(* What comments of the source say and the code does not do.               *)

(* mcptools.go:7: "the schema here is the same shape native callers post   *)
(* under `params`".  verify_brand_claim asks for subject and needs claim.  *)
SchemaIsEnough ==
    \A k \in DOMAIN answers :
        LET f == Frame(answers[k])
        IN f.form = "tools/call" /\ f.args = SchemaAsks(mode, f.tool) =>
               answers[k].why # "missing"

(* envelope.go:20-22: "Mirrors the in-process logic in internal/mcpstdio   *)
(* ... the transport differs, the protocol envelope is the same".  HTTP    *)
(* does not know ping.                                                     *)
SameEnvelope ==
    \A k \in DOMAIN answers :
        LET f == Frame(answers[k])
        IN f.form = "protocol" /\ f.method # "notifications/initialized" =>
               answers[k].why \in HandleMCP(f) \cap Dispatch(f)

(* mcpstdio/server.go:21: "tools/list returns the four SI tools +          *)
(* verify_brand_claim when brand-rights signing is wired".                 *)
StdioListsVerify ==
    mode = "stdio" /\ known # {} => known = SITools \cup Signed(brand)
=============================================================================

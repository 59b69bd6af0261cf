---------------------------- MODULE PythonBridge ----------------------------
(***************************************************************************)
(* The bridge for desktop hosts (examples/claude-desktop/bragent_bridge.py)*)
(* and the server behind it.  The MCP library runs every tool call as a    *)
(* task of its own, so calls overlap wherever one awaits its POST, and a   *)
(* POST that takes too long is given up while the server goes on with it.  *)
(* Between two awaits a task runs alone.                                   *)
(*                                                                         *)
(* The server is the handlers of SessionHandlers seen from outside: what a *)
(* task leaves in the log, the status and the receipts, whether it         *)
(* succeeds or fails on the way.  As in StdioBridge a receipt stands for   *)
(* the emission it acknowledges; what it says is as in SponsoredReceipt.   *)
(***************************************************************************)
EXTENDS Integers

CONSTANTS Calls,          \* the tool calls of the host: each is made once
          SessionIds,
          None,           \* Python's None
          MaxTurns        \* bound: messages in one conversation

ASSUME NoneAssumption  == None \notin SessionIds
ASSUME BoundAssumption == MaxTurns \in Nat

VARIABLES mode,        \* BRAGENT_AUTO_RECEIPT: "null", or any that synthesises
          session_id,  \* _state["session_id"]
          pending,     \* _state["pending_receipt"]
          pc,          \* pc[c]: where call c is
          params,      \* params[c]: what it posted
          result,      \* result[c]: what the server answered it
          length,      \* length[s]: turns in the log of s
          status,      \* status[s]: its session_status, or "none"
          filed,       \* the receipts table
          raced        \* not of the code: has a call begun with another at the server?

state  == <<session_id, pending>>
server == <<length, status, filed>>
vars   == <<mode, state, pc, params, result, server, raced>>

Offering   == "offering"
PreSession == -1

(* randomID: the id of a session starts with "sess".                       *)
ASSUME OfferingAssumption == Offering \notin SessionIds

Emissions  == [of : SessionIds, turn : Nat] \cup [of : {Offering}, turn : Calls]
NoReceipt  == [of |-> "none"]
NoParams   == [op |-> "none"]
Error      == [ok |-> FALSE]

Ops == {"si_get_offering", "si_initiate_session", "si_send_message", "si_terminate_session"}

TypeOK ==
    /\ mode \in {"null", "synthesise"}
    /\ session_id \in SessionIds \cup {None}
    /\ pending \in Emissions \cup {NoReceipt}
    /\ pc \in [Calls -> {"idle", "posted", "answered", "abandoned", "done"}]
    /\ \A c \in Calls : params[c] = NoParams
                        \/ params[c] \in [op : Ops, sid : SessionIds \cup {None},
                                          receipt : Emissions \cup {NoReceipt}]
    /\ \A c \in Calls : result[c] = Error
                        \/ result[c] \in [ok : {TRUE}, sid : SessionIds \cup {None},
                                          emits : Emissions \cup {NoReceipt}]
    /\ length \in [SessionIds -> Nat]
    /\ status \in [SessionIds -> {"none", "open", "terminated"}]
    /\ \A f \in filed : f \in [sid : SessionIds, turn : Nat \cup {PreSession},
                               receipt : Emissions]
    /\ raced \in BOOLEAN

Init ==
    /\ mode \in {"null", "synthesise"}
    /\ session_id = None /\ pending = NoReceipt
    /\ pc = [c \in Calls |-> "idle"]
    /\ params = [c \in Calls |-> NoParams]
    /\ result = [c \in Calls |-> Error]
    /\ length = [s \in SessionIds |-> 0]
    /\ status = [s \in SessionIds |-> "none"]
    /\ filed = {}
    /\ raced = FALSE

-----------------------------------------------------------------------------
(* dispatch, up to the await.                                              *)
Outstanding == {c \in Calls : pc[c] \in {"posted", "answered", "abandoned"}}

Post(c, op, sid, receipt) ==
    /\ pc[c] = "idle"
    /\ pc' = [pc EXCEPT ![c] = "posted"]
    /\ params' = [params EXCEPT ![c] = [op |-> op, sid |-> sid, receipt |-> receipt]]
    /\ raced' = (raced \/ Outstanding # {})
    /\ UNCHANGED <<mode, session_id, result, server>>

(* Deliberately wrong: leave the receipt for the next call as well.        *)
TakenNone == pending
Taken     == NoReceipt

GetOffering(c) == Post(c, "si_get_offering", None, NoReceipt) /\ UNCHANGED pending

Initiate(c) == Post(c, "si_initiate_session", None, pending) /\ pending' = Taken

Send(c) ==
    /\ session_id # None
    /\ Post(c, "si_send_message", session_id, pending)
    /\ pending' = Taken

Terminate(c) ==
    /\ session_id # None
    /\ Post(c, "si_terminate_session", session_id, NoReceipt)
    /\ UNCHANGED pending

(* A send without a session, an unknown tool, an argument that is missing. *)
Refused(c) ==
    /\ pc[c] = "idle"
    /\ pc' = [pc EXCEPT ![c] = "done"]
    /\ UNCHANGED <<mode, state, params, result, server, raced>>

-----------------------------------------------------------------------------
(* The server.  A task whose caller gave up is done like any other.        *)
Respond(c, r) ==
    /\ pc[c] \in {"posted", "abandoned"}
    /\ pc' = [pc EXCEPT ![c] = IF pc[c] = "posted" THEN "answered" ELSE "done"]
    /\ result' = [result EXCEPT ![c] = IF pc[c] = "posted" THEN r ELSE Error]
    /\ UNCHANGED <<mode, state, params, raced>>

Is(c, op) == params[c] # NoParams /\ params[c].op = op

(* SaveReceipt on (session, turn), or not: its errors are only logged.     *)
Filing(c, s, turn) ==
    \/ UNCHANGED filed
    \/ /\ params[c].receipt # NoReceipt
       /\ filed' = {f \in filed : f.sid # s \/ f.turn # turn}
                   \cup {[sid |-> s, turn |-> turn, receipt |-> params[c].receipt]}

OfferingServed(c) ==
    /\ Is(c, "si_get_offering")
    /\ Respond(c, [ok |-> TRUE, sid |-> None, emits |-> [of |-> Offering, turn |-> c]])
    /\ UNCHANGED server

InitiateServed(c) ==
    /\ Is(c, "si_initiate_session")
    /\ \E s \in SessionIds :
        /\ status[s] = "none"
        /\ status' = [status EXCEPT ![s] = "open"]
        /\ length' = [length EXCEPT ![s] = 1]
        /\ Filing(c, s, PreSession)
        /\ Respond(c, [ok |-> TRUE, sid |-> s, emits |-> [of |-> s, turn |-> 0]])

SendServed(c) ==
    /\ Is(c, "si_send_message")
    /\ LET s == params[c].sid
       IN /\ status[s] = "open" /\ length[s] + 2 <= MaxTurns
          /\ length' = [length EXCEPT ![s] = @ + 2]
          /\ Filing(c, s, length[s] - 1)
          /\ Respond(c, [ok |-> TRUE, sid |-> s, emits |-> [of |-> s, turn |-> length[s] + 1]])
    /\ UNCHANGED status

TerminateServed(c) ==
    /\ Is(c, "si_terminate_session")
    /\ status' = [status EXCEPT ![params[c].sid] = "terminated"]
    /\ Respond(c, [ok |-> TRUE, sid |-> params[c].sid, emits |-> NoReceipt])
    /\ UNCHANGED <<length, filed>>

(* The POST never arrives, the task is refused, or fails on its way.       *)
NothingDone(c) == Respond(c, Error) /\ UNCHANGED server

(* A row may stay behind, with its welcome or without.                     *)
InitiateFails(c) ==
    /\ Is(c, "si_initiate_session")
    /\ \E s \in SessionIds, n \in 0 .. 1 :
        /\ status[s] = "none"
        /\ status' = [status EXCEPT ![s] = "open"]
        /\ length' = [length EXCEPT ![s] = n]
    /\ Respond(c, Error)
    /\ UNCHANGED filed

SendFails(c) ==
    /\ Is(c, "si_send_message")
    /\ LET s == params[c].sid
       IN /\ status[s] = "open"
          /\ \E n \in 0 .. 2 : /\ length[s] + n <= MaxTurns
                               /\ length' = [length EXCEPT ![s] = @ + n]
          /\ Filing(c, s, length[s] - 1)
    /\ Respond(c, Error)
    /\ UNCHANGED status

TerminateFails(c) ==
    /\ Is(c, "si_terminate_session")
    /\ status' = [status EXCEPT ![params[c].sid] = "terminated"]
    /\ Respond(c, Error)
    /\ UNCHANGED <<length, filed>>

Serve(c) ==
    \/ OfferingServed(c) \/ InitiateServed(c) \/ SendServed(c) \/ TerminateServed(c)
    \/ NothingDone(c) \/ InitiateFails(c) \/ SendFails(c) \/ TerminateFails(c)

-----------------------------------------------------------------------------
(* The rest of call_bragent and dispatch.  A send whose result says        *)
(* "terminated" would clear the state too, but no server answers that.     *)

(* Deliberately wrong: keep the whole response for a receipt.              *)
CachedWhole(emits) == [sponsored_context |-> emits]
Cached(emits)      == IF emits = NoReceipt \/ mode = "null" THEN pending ELSE emits

(* Deliberately wrong: an exception puts the receipt back.                 *)
AfterErrorRestored(c) ==
    /\ pending' = IF params[c].receipt = NoReceipt THEN pending ELSE params[c].receipt
    /\ UNCHANGED session_id

(* Deliberately wrong: forget the session whatever became of the call.     *)
AfterErrorForgotten(c) ==
    /\ session_id' = IF params[c].op = "si_terminate_session" THEN None ELSE session_id
    /\ UNCHANGED pending

AfterError(c) == UNCHANGED state

Return(c) ==
    /\ pc[c] = "answered"
    /\ pc' = [pc EXCEPT ![c] = "done"]
    /\ \/ result[c] = Error /\ AfterError(c)
       \/ /\ result[c] # Error /\ Is(c, "si_terminate_session")
          /\ session_id' = None /\ pending' = NoReceipt
       \/ /\ result[c] # Error /\ Is(c, "si_initiate_session")
          /\ session_id' = result[c].sid /\ pending' = Cached(result[c].emits)
       \/ /\ result[c] # Error /\ (Is(c, "si_get_offering") \/ Is(c, "si_send_message"))
          /\ pending' = Cached(result[c].emits)
          /\ UNCHANGED session_id
    /\ UNCHANGED <<mode, params, result, server, raced>>

(* HTTP_TIMEOUT: the call ends in an exception, the task at the server     *)
(* does not end.                                                           *)
TimesOut(c) ==
    /\ pc[c] \in {"posted", "answered"}
    /\ pc' = [pc EXCEPT ![c] = IF pc[c] = "posted" THEN "abandoned" ELSE "done"]
    /\ AfterError(c)
    /\ UNCHANGED <<mode, params, result, server, raced>>

Call(c) == GetOffering(c) \/ Initiate(c) \/ Send(c) \/ Terminate(c) \/ Refused(c)

Next == \E c \in Calls : Call(c) \/ Serve(c) \/ Return(c) \/ TimesOut(c)

Spec == Init /\ [][Next]_vars

-----------------------------------------------------------------------------
(***************************************************************************)
(* Properties.                                                             *)
(***************************************************************************)

(* No emission is acknowledged on two turns of the audit trail, however    *)
(* calls overlap, fail or are given up and done all the same.              *)
EmissionAcknowledgedOnce ==
    \A f, g \in filed : f.receipt = g.receipt => f = g

OnItsTurn(f) == f.receipt.of = f.sid => f.turn = f.receipt.turn

(* While calls follow one another, and the server is done with each before *)
(* the next begins, a receipt about a turn of the session it is filed in   *)
(* is filed on that very turn, whatever failed before.                     *)
UnracedReceiptsOnTheirTurn == ~raced => \A f \in filed : OnItsTurn(f)

(* What the receipts table may be trusted with.                            *)
ReceiptsAreSound == TypeOK /\ EmissionAcknowledgedOnce /\ UnracedReceiptsOnTheirTurn

Forgets == session_id # None /\ session_id' = None

(* While calls follow one another the bridge forgets a session only once   *)
(* the server has terminated it.                                           *)
UnracedForgettingIsRight ==
    [][Forgets /\ ~raced => status[session_id] = "terminated"]_vars

-----------------------------------------------------------------------------
(* What comments of the source say and the interleavings refute.           *)

(* bragent_bridge.py:248: "Carry the synthesised receipt for the prior     *)
(* brand turn."  A send that was given up, or overtaken, is filed on a     *)
(* turn its receipt is not about.                                          *)
ReceiptsOnTheirTurn == \A f \in filed : OnItsTurn(f)

(* bragent_bridge.py:188-190: si_terminate_session ends the active         *)
(* conversation and "Forgets the session_id".  It forgets whichever is     *)
(* there when it returns: a session opened while it waited.                *)
ForgetsTheTerminated ==
    [][Forgets => status[session_id] = "terminated"]_vars
=============================================================================

---------------------------- MODULE StdioBridge ----------------------------
(***************************************************************************)
(* The stdio MCP server (internal/mcpstdio): one loop that reads a frame,  *)
(* runs the SI task in process, and keeps between two frames the active    *)
(* session id and the receipt to attach to the next task.  It is the only  *)
(* caller of its sessions, so the SI side is the handlers of               *)
(* SessionHandlers run one after the other: a log length and a status per  *)
(* session, and the receipts on file.                                      *)
(*                                                                         *)
(* Every response that carries a sponsored_context is an emission; it is   *)
(* named by where it was made, so that it can be told which emission a     *)
(* receipt acknowledges.                                                   *)
(***************************************************************************)
EXTENDS Integers, SponsoredReceipt

CONSTANTS SessionIds,
          NoSession,      \* the empty session id of the bridge
          MaxTurns,       \* bound: messages in one conversation
          MaxOfferings    \* bound: si_get_offering calls

VARIABLES config,     \* the mode of --auto-receipt and whether disclosure is required
          loop,       \* Run waits to "read" a frame, or has "returned"
          ctx,        \* "live", or "cancelled" by a signal
          stdin,      \* "open" or "closed"
          sessionID,  \* SessionState.sessionID
          pending,    \* SessionState.pending: the receipt for the next task
          offered,    \* si_get_offering calls answered
          length,     \* length[s]: turns in the log of s
          status,     \* status[s]: its session_status, or "none"
          filed       \* the receipts table

bridge == <<sessionID, pending>>
server == <<length, status, filed>>
vars   == <<config, loop, ctx, stdin, bridge, offered, server>>

Offering     == "offering"
NoReceipt    == [at |-> "none"]
PreSession   == -1

ASSUME SessionIdsAssumption ==
    /\ NoSession \notin SessionIds
    /\ Offering \notin SessionIds \cup {NoSession}
ASSUME BoundsAssumption     == MaxTurns \in Nat /\ MaxOfferings \in Nat

(* A receipt: the emission it is about and the host_receipt.               *)
Receipts == [at : SessionIds \cup {Offering}, turn : Nat, sponsored : Sponsored,
             host : HostReceipts]

TypeOK ==
    /\ config \in [mode : Modes, required : BOOLEAN]
    /\ loop \in {"read", "returned"}
    /\ ctx \in {"live", "cancelled"}
    /\ stdin \in {"open", "closed"}
    /\ sessionID \in SessionIds \cup {NoSession}
    /\ pending \in Receipts \cup {NoReceipt}
    /\ offered \in 0 .. MaxOfferings
    /\ length \in [SessionIds -> Nat]
    /\ status \in [SessionIds -> {"none", "open", "terminated"}]
    /\ \A f \in filed : /\ f.sid \in SessionIds
                        /\ f.turn \in Nat \cup {PreSession}
                        /\ f.receipt \in Receipts

Init ==
    /\ config \in [mode : Modes, required : BOOLEAN]
    /\ loop = "read" /\ ctx = "live" /\ stdin = "open"
    /\ sessionID = NoSession /\ pending = NoReceipt
    /\ offered = 0
    /\ length = [s \in SessionIds |-> 0]
    /\ status = [s \in SessionIds |-> "none"]
    /\ filed = {}

-----------------------------------------------------------------------------
(* ReadBytes returns a line, which is handled; then Run looks at ctx and   *)
(* at the error that came with the line.  A host waits for each answer, so *)
(* a closed pipe holds at most an unfinished last line.                    *)
FrameRead ==
    /\ loop = "read"
    /\ loop' = IF stdin = "closed" \/ ctx = "cancelled" THEN "returned" ELSE "read"
    /\ UNCHANGED <<config, ctx, stdin>>

(* Deliberately wrong: a closed pipe is an empty line.                     *)
ReadEofLoops ==
    /\ loop = "read" /\ stdin = "closed"
    /\ UNCHANGED vars

ReadEof ==
    /\ loop = "read" /\ stdin = "closed"
    /\ loop' = "returned"
    /\ UNCHANGED <<config, ctx, stdin, bridge, offered, server>>

(* A signal during a frame is one just before it: what was read is handled. *)
Signal ==
    /\ ctx = "live"
    /\ ctx' = "cancelled"
    /\ UNCHANGED <<config, loop, stdin, bridge, offered, server>>

HostCloses ==
    /\ stdin = "open"
    /\ stdin' = "closed"
    /\ UNCHANGED <<config, loop, ctx, bridge, offered, server>>

-----------------------------------------------------------------------------
(* updateState: the answered emission becomes the pending receipt, except  *)
(* with --auto-receipt=null.  left is what takePending left.               *)
Caching(at, turn, left) ==
    LET sponsored == [use |-> "presentation_only", required |-> config.required]
    IN  IF config.mode = "null" THEN left
        ELSE [at |-> at, turn |-> turn, sponsored |-> sponsored,
              host |-> SynthesiseReceipt(config.mode, sponsored)]

(* Deliberately wrong: the receipt stays for the next task as well.        *)
PendingKept  == pending
PendingTaken == NoReceipt

(* Deliberately wrong: file a row when there is no receipt.                *)
FilingAlways(s, turn) ==
    filed' = {f \in filed : f.sid # s \/ f.turn # turn}
             \cup {[sid |-> s, turn |-> turn, receipt |-> pending]}

(* SaveReceipt on (session, turn), or not: its errors are only logged.     *)
Filing(s, turn) ==
    \/ UNCHANGED filed
    \/ /\ pending # NoReceipt
       /\ filed' = {f \in filed : f.sid # s \/ f.turn # turn}
                   \cup {[sid |-> s, turn |-> turn, receipt |-> pending]}

(* Frames that change nothing: no JSON, notifications, initialize, ping,   *)
(* tools/list, unknown methods and tools, missing arguments, a send or a   *)
(* terminate without a session.                                            *)
OtherFrame ==
    /\ FrameRead
    /\ UNCHANGED <<bridge, offered, server>>

GetOffering ==
    /\ FrameRead
    /\ offered < MaxOfferings
    /\ offered' = offered + 1
    /\ pending' = Caching(Offering, offered, pending)
    /\ UNCHANGED <<sessionID, server>>

(* Deliberately wrong: remember the session and leave the receipt alone.   *)
InitiatedOnly(s) ==
    /\ sessionID' = s
    /\ pending' = pending

Initiated(s) ==
    /\ sessionID' = s
    /\ pending' = Caching(s, 0, PendingTaken)

InitiateOk ==
    /\ FrameRead
    /\ \E s \in SessionIds : /\ status[s] = "none"
                             /\ status' = [status EXCEPT ![s] = "open"]
                             /\ length' = [length EXCEPT ![s] = 1]
                             /\ Filing(s, PreSession)
                             /\ Initiated(s)
    /\ UNCHANGED offered

(* The receipt is gone though nobody has it; a row may stay behind.        *)
InitiateFails ==
    /\ FrameRead
    /\ pending' = PendingTaken
    /\ \/ UNCHANGED <<length, status>>
       \/ \E s \in SessionIds, n \in 0 .. 1 :
            /\ status[s] = "none"
            /\ status' = [status EXCEPT ![s] = "open"]
            /\ length' = [length EXCEPT ![s] = n]
    /\ UNCHANGED <<sessionID, offered, filed>>

SendOk ==
    /\ FrameRead
    /\ sessionID # NoSession /\ status[sessionID] = "open"
    /\ length[sessionID] + 2 <= MaxTurns
    /\ length' = [length EXCEPT ![sessionID] = @ + 2]
    /\ Filing(sessionID, length[sessionID] - 1)
    /\ pending' = Caching(sessionID, length[sessionID] + 1, PendingTaken)
    /\ UNCHANGED <<sessionID, offered, status>>

(* Deliberately wrong: put the receipt back when the task failed.          *)
AfterFailedSendRestored == pending
AfterFailedSend         == PendingTaken

(* The task fails before, between or after its two inserts, or because the *)
(* session is terminated on the server.                                    *)
SendFails ==
    /\ FrameRead
    /\ sessionID # NoSession
    /\ pending' = AfterFailedSend
    /\ \/ /\ status[sessionID] = "terminated"
          /\ UNCHANGED <<length, filed>>
       \/ /\ status[sessionID] = "open"
          /\ \E n \in 0 .. 2 :
                /\ length[sessionID] + n <= MaxTurns
                /\ length' = [length EXCEPT ![sessionID] = @ + n]
          /\ Filing(sessionID, length[sessionID] - 1)
    /\ UNCHANGED <<sessionID, offered, status>>

TerminateOk ==
    /\ FrameRead
    /\ sessionID # NoSession
    /\ status' = [status EXCEPT ![sessionID] = "terminated"]
    /\ sessionID' = NoSession /\ pending' = NoReceipt
    /\ UNCHANGED <<offered, length, filed>>

(* An error leaves the bridge in the session, terminated or not.           *)
TerminateFails ==
    /\ FrameRead
    /\ sessionID # NoSession
    /\ \/ UNCHANGED status
       \/ status' = [status EXCEPT ![sessionID] = "terminated"]
    /\ UNCHANGED <<bridge, offered, length, filed>>

Tool == \/ GetOffering \/ InitiateOk \/ InitiateFails \/ SendOk \/ SendFails
        \/ TerminateOk \/ TerminateFails

Next == ReadEof \/ OtherFrame \/ Tool \/ Signal \/ HostCloses

Spec == Init /\ [][Next]_vars

(* ReadBytes on a closed pipe returns; hosts and signals owe it nothing.   *)
FairSpec == Spec /\ WF_vars(ReadEof)

-----------------------------------------------------------------------------
(***************************************************************************)
(* Properties.                                                             *)
(***************************************************************************)

(* Whatever the mode and the brand's disclosure settings, the receipt the  *)
(* bridge attaches passes the gate of the SI task: a bad one would make    *)
(* every further task of the conversation fail.                            *)
PendingPassesValidation ==
    pending # NoReceipt => Validate(pending.sponsored, pending.host)

(* No emission is acknowledged on two turns of the audit trail, though     *)
(* tasks fail after their receipt was filed.                               *)
EmissionAcknowledgedOnce ==
    \A f, g \in filed :
        f.receipt.at = g.receipt.at /\ f.receipt.turn = g.receipt.turn => f = g

(* A receipt about a turn of the session it is filed in is filed on that   *)
(* very turn, though the server counts the turns and failed tasks leave    *)
(* turns behind that the bridge never saw.                                 *)
AckedTurnIsItsOwn ==
    \A f \in filed : f.receipt.at = f.sid => f.turn = f.receipt.turn

(* A receipt filed on a turn of a session is about that session or about   *)
(* an offering, never about a turn of another conversation.                *)
TurnReceiptsStayInSession ==
    \A f \in filed : f.turn # PreSession => f.receipt.at \in {f.sid, Offering}

(* When the host closes the pipe the server returns.                       *)
ReturnsOnEof == (stdin = "closed") ~> (loop = "returned")

-----------------------------------------------------------------------------
(* What comments of the source say and the code does not do.               *)

(* server.go:72: "a stale receipt from a prior conversation must never     *)
(* leak into a fresh one".  An initiate while a session is active attaches *)
(* the receipt for that session's last turn.                               *)
NoReceiptFromPriorConversation ==
    \A f \in filed : f.turn = PreSession => f.receipt.at = Offering

(* server.go:129: "Run blocks reading ... until EOF ... or ctx             *)
(* cancellation".  ReadBytes does not look at ctx.                         *)
ReturnsOnSignal == (ctx = "cancelled") ~> (loop = "returned")
=============================================================================

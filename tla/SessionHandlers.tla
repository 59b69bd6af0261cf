-------------------------- MODULE SessionHandlers --------------------------
(***************************************************************************)
(* The SI task handlers si_initiate_session, si_send_message and           *)
(* si_terminate_session (internal/si/initiate.go, messages.go) running     *)
(* concurrently over the SessionStore.                                     *)
(*                                                                         *)
(* Every call a host makes is a process r \in Requests.  A handler takes   *)
(* one step per SQL statement: what it does between two statements is      *)
(* local and joins the step before.  Any statement may report an error     *)
(* (the client went away and cancelled the context, the database is locked *)
(* by a second process, the disk is full), whether it was applied or not,  *)
(* and a handler may vanish between two statements (a crash, or Shutdown   *)
(* giving up on a slow LLM call): the tables survive, the handler does     *)
(* not.                                                                    *)
(***************************************************************************)
EXTENDS SessionStore

VARIABLES pc,        \* pc[r]: where call r is, "idle" before it arrives
          call,      \* call[r]: the parameters it arrived with, once past the checks
          known,     \* known[r]: session_status as GetSession returned it
          turn,      \* turn[r]: the turn NextTurn returned
          history,   \* history[r]: the turns ListMessages returned
          answer     \* answer[r]: what the handler answered

frame  == <<known, turn, history>>
vars   == <<tables, pc, call, frame, answer>>

Ops   == {"initiate", "send", "terminate"}
Calls == [op : Ops, sid : SessionIds, receipt : BOOLEAN, buy : BOOLEAN]
NoCall == [op |-> "none"]

InitiateSteps == {"welcome", "pre_receipt"}
SendSteps     == {"next_turn", "receipt", "ask", "list", "reply", "promote"}
Running       == InitiateSteps \cup SendSteps \cup {"terminate"}

(* "invalid" is an ErrInvalidParams; "failed" an ErrInternal or no answer *)
(* at all: either way the host does not know what was done.                *)
Answers  == {"ok", "invalid", "failed"}
NoAnswer == "none"

TypeOK ==
    /\ StoreTypeOK
    /\ pc \in [Requests -> Running \cup {"idle", "done"}]
    /\ call \in [Requests -> Calls \cup {NoCall}]
    /\ known \in [Requests -> Statuses \cup {NoRow}]
    /\ turn \in [Requests -> Nat]
    /\ history \in [Requests -> SUBSET Nat]
    /\ answer \in [Requests -> Answers \cup {NoAnswer}]

Init ==
    /\ StoreInit
    /\ pc = [r \in Requests |-> "idle"]
    /\ call = [r \in Requests |-> NoCall]
    /\ known = [r \in Requests |-> NoRow]
    /\ turn = [r \in Requests |-> 0]
    /\ history = [r \in Requests |-> {}]
    /\ answer = [r \in Requests |-> NoAnswer]

-----------------------------------------------------------------------------
Sid(r) == call[r].sid

Enter(r, step) == pc' = [pc EXCEPT ![r] = step] /\ UNCHANGED answer
GoTo(r, step)  == Enter(r, step) /\ UNCHANGED frame

(* The handler returns (or is gone) and its local variables with it.       *)
Answer(r, a) ==
    /\ pc' = [pc EXCEPT ![r] = "done"]
    /\ answer' = [answer EXCEPT ![r] = a]
    /\ known' = [known EXCEPT ![r] = NoRow]
    /\ turn' = [turn EXCEPT ![r] = 0]
    /\ history' = [history EXCEPT ![r] = {}]

(* A session id is 96 random bits: a host has it once an initiate answered *)
(* with it, and guesses no other.                                          *)
Announced(s) == \E r \in Requests : /\ call[r] \in Calls
                                    /\ call[r].op = "initiate"
                                    /\ call[r].sid = s
                                    /\ answer[r] = "ok"

(* The ids a host may send: one it was given, or one with no row.          *)
Reachable(s) == Announced(s) \/ sessions[s] = NoRow

(* The call arrives and passes the checks on its parameters.               *)
Arrive(r, c) == /\ pc[r] = "idle"
                /\ call' = [call EXCEPT ![r] = c]

(* Any of those checks fails, or params do not parse.                      *)
RejectParams(r) ==
    /\ pc[r] = "idle"
    /\ Answer(r, "invalid")
    /\ UNCHANGED <<tables, call>>

(* A read fails, or a write fails without having been applied.             *)
StatementFails(r) ==
    /\ pc[r] \in {"idle", "welcome", "next_turn", "ask", "list", "reply", "promote",
                  "terminate"}
    /\ Answer(r, "failed")
    /\ UNCHANGED <<tables, call>>

(* A write was applied: the handler goes on, or is told it failed.         *)
AfterWrite(r, step) == GoTo(r, step) \/ Answer(r, "failed")
LastWrite(r)        == Answer(r, "ok") \/ Answer(r, "failed")

(* AppendMessage fails for good when another call took the turn first.     *)
AppendConflict(r, t) ==
    /\ PKTaken(Sid(r), t)
    /\ Answer(r, "failed")
    /\ UNCHANGED messages

InsertRow(r, t, row) ==
    /\ ~PKTaken(Sid(r), t)
    /\ messages' = AppendMessage(Sid(r), t, row)

(* persistReceipt: an error is logged and the handler goes on, so the row  *)
(* is written or it is not.                                                *)
PersistReceipt(r, t) ==
    \/ receipts' = SaveReceipt(Sid(r), t, r)
    \/ UNCHANGED receipts

-----------------------------------------------------------------------------
(* si_initiate_session: the row, the welcome on turn 0, the receipt for an *)
(* offering seen before the session.                                       *)
InitiateCreate(r) ==
    /\ \E s \in SessionIds, withReceipt \in BOOLEAN :
        /\ sessions[s] = NoRow
        /\ Arrive(r, [op |-> "initiate", sid |-> s, receipt |-> withReceipt,
                      buy |-> FALSE])
        /\ sessions' = CreateSession(s)
    /\ AfterWrite(r, "welcome")
    /\ UNCHANGED <<messages, receipts>>

AfterWelcome(r) ==
    IF call[r].receipt THEN AfterWrite(r, "pre_receipt") ELSE LastWrite(r)

InitiateWelcome(r) ==
    /\ pc[r] = "welcome"
    /\ \/ InsertRow(r, 0, BrandRow(r, {})) /\ AfterWelcome(r)
       \/ AppendConflict(r, 0)
    /\ UNCHANGED <<sessions, receipts, call>>

InitiateReceipt(r) ==
    /\ pc[r] = "pre_receipt"
    /\ PersistReceipt(r, PreSession)
    /\ Answer(r, "ok")
    /\ UNCHANGED <<sessions, messages, call>>

-----------------------------------------------------------------------------
(* si_send_message.                                                        *)

(* LLM providers flag a handoff exactly when the text shows buy intent.    *)
ReplyStatusMisspelt(r) == IF call[r].buy THEN "handoff" ELSE "active"
ReplyStatus(r)         == IF call[r].buy THEN "pending_handoff" ELSE "active"

(* The row is read and its status checked before anything is written.      *)
SendGateOpen(s) == sessions[s] # NoRow
SendGate(s)     == sessions[s] \notin {NoRow, "terminated"}

SendRefused(r) ==
    /\ pc[r] = "idle"
    /\ \E s \in SessionIds : Reachable(s) /\ ~SendGate(s)
    /\ Answer(r, "invalid")
    /\ UNCHANGED <<tables, call>>

SendGetSession(r) ==
    /\ \E s \in SessionIds, withReceipt \in BOOLEAN, buying \in BOOLEAN :
        /\ Reachable(s) /\ SendGate(s)
        /\ Arrive(r, [op |-> "send", sid |-> s, receipt |-> withReceipt,
                      buy |-> buying])
        /\ known' = [known EXCEPT ![r] = sessions[s]]
    /\ Enter(r, "next_turn")
    /\ UNCHANGED <<tables, turn, history>>

SendNextTurn(r) ==
    /\ pc[r] = "next_turn"
    /\ turn' = [turn EXCEPT ![r] = NextTurn(Sid(r))]
    /\ Enter(r, IF call[r].receipt THEN "receipt" ELSE "ask")
    /\ UNCHANGED <<tables, call, known, history>>

(* The receipt acknowledges the brand turn before this call's own turn.    *)
AckedTurnOwn(t) == t
AckedTurn(t)    == IF t - 1 < 0 THEN 0 ELSE t - 1

SendReceipt(r) ==
    /\ pc[r] = "receipt"
    /\ PersistReceipt(r, AckedTurn(turn[r]))
    /\ GoTo(r, "ask")
    /\ UNCHANGED <<sessions, messages, call>>

(* Deliberately wrong: start over with a new turn when the insert reports  *)
(* an error.                                                               *)
SendAskRetrying(r) ==
    /\ pc[r] = "ask"
    /\ InsertRow(r, turn[r], HostRow(r))
    /\ GoTo(r, "list") \/ GoTo(r, "next_turn")
    /\ UNCHANGED <<sessions, receipts, call>>

(* Deliberately wrong: log an insert that failed and ask the LLM anyway.   *)
SendAskLogged(r) ==
    /\ pc[r] = "ask"
    /\ \/ InsertRow(r, turn[r], HostRow(r))
       \/ UNCHANGED messages
    /\ GoTo(r, "list")
    /\ UNCHANGED <<sessions, receipts, call>>

SendAsk(r) ==
    /\ pc[r] = "ask"
    /\ \/ InsertRow(r, turn[r], HostRow(r)) /\ AfterWrite(r, "list")
       \/ AppendConflict(r, turn[r])
    /\ UNCHANGED <<sessions, receipts, call>>

(* Deliberately wrong: flag the handoff while waiting for the LLM.         *)
SendListAndPromote(r) ==
    /\ pc[r] = "list"
    /\ history' = [history EXCEPT ![r] = ListMessages(Sid(r))]
    /\ sessions' = UpdateSessionStatus(Sid(r), ReplyStatus(r))
    /\ Enter(r, "reply")
    /\ UNCHANGED <<messages, receipts, call, known, turn>>

(* Deliberately wrong: leave out the question just appended.               *)
SendListStale(r) ==
    /\ pc[r] = "list"
    /\ history' = [history EXCEPT ![r] = ListMessages(Sid(r)) \ {turn[r]}]
    /\ Enter(r, "reply")
    /\ UNCHANGED <<tables, call, known, turn>>

(* The history is read and handed to the LLM, whose answer (up to a minute *)
(* later) is inserted by the next step.                                    *)
SendListAndReply(r) ==
    /\ pc[r] = "list"
    /\ history' = [history EXCEPT ![r] = ListMessages(Sid(r))]
    /\ Enter(r, "reply")
    /\ UNCHANGED <<tables, call, known, turn>>

(* brandTurn := turn + 1, from the turn read before the LLM call.          *)
BrandTurnRead(r) == NextTurn(Sid(r))
BrandTurn(r)     == turn[r] + 1

(* The status is written only if it differs from the one GetSession saw.   *)
StatusChanges(r) == ReplyStatus(r) # known[r]

AfterReply(r) ==
    IF StatusChanges(r) THEN AfterWrite(r, "promote") ELSE LastWrite(r)

(* Deliberately wrong: log a failed insert and answer all the same.        *)
SendReplyLogged(r) ==
    /\ pc[r] = "reply"
    /\ \/ InsertRow(r, BrandTurn(r), BrandRow(r, history[r])) /\ AfterReply(r)
       \/ PKTaken(Sid(r), BrandTurn(r)) /\ Answer(r, "ok") /\ UNCHANGED messages
    /\ UNCHANGED <<sessions, receipts, call>>

(* Deliberately wrong: on a taken turn, try again for ever.                *)
SendReplyWaiting(r) ==
    /\ pc[r] = "reply"
    /\ InsertRow(r, BrandTurn(r), BrandRow(r, history[r]))
    /\ AfterReply(r)
    /\ UNCHANGED <<sessions, receipts, call>>

SendReply(r) ==
    /\ pc[r] = "reply"
    /\ \/ InsertRow(r, BrandTurn(r), BrandRow(r, history[r])) /\ AfterReply(r)
       \/ AppendConflict(r, BrandTurn(r))
    /\ UNCHANGED <<sessions, receipts, call>>

SendPromote(r) ==
    /\ pc[r] = "promote"
    /\ sessions' = UpdateSessionStatus(Sid(r), ReplyStatus(r))
    /\ LastWrite(r)
    /\ UNCHANGED <<messages, receipts, call>>

-----------------------------------------------------------------------------
(* si_terminate_session.                                                   *)
TerminateRefused(r) ==
    /\ pc[r] = "idle"
    /\ \E s \in SessionIds : sessions[s] = NoRow
    /\ Answer(r, "invalid")
    /\ UNCHANGED <<tables, call>>

(* A terminated session is left as it is and the answer is the same.       *)
TerminateGetSession(r) ==
    /\ \E s \in SessionIds :
        /\ Announced(s)
        /\ Arrive(r, [op |-> "terminate", sid |-> s, receipt |-> FALSE, buy |-> FALSE])
        /\ \/ sessions[s] = "terminated" /\ Answer(r, "ok")
           \/ /\ sessions[s] # "terminated"
              /\ Enter(r, "terminate")
              /\ known' = [known EXCEPT ![r] = sessions[s]]
              /\ UNCHANGED <<turn, history>>
    /\ UNCHANGED tables

TerminateUpdate(r) ==
    /\ pc[r] = "terminate"
    /\ sessions' = UpdateSessionStatus(Sid(r), "terminated")
    /\ LastWrite(r)
    /\ UNCHANGED <<messages, receipts, call>>

-----------------------------------------------------------------------------
(* A crash or a shutdown drops the handlers that are running, one or all:  *)
(* the tables are on disk and a restarted server takes new calls at once.  *)
Lose(r) ==
    /\ pc[r] \in Running
    /\ Answer(r, "failed")
    /\ UNCHANGED <<tables, call>>

(* What the server does once a call has arrived.                           *)
HandlerStep(r) ==
    \/ InitiateWelcome(r) \/ InitiateReceipt(r)
    \/ SendNextTurn(r) \/ SendReceipt(r) \/ SendAsk(r)
    \/ SendListAndReply(r) \/ SendReply(r) \/ SendPromote(r)
    \/ TerminateUpdate(r)

Arrival(r) ==
    \/ RejectParams(r) \/ InitiateCreate(r)
    \/ SendRefused(r) \/ SendGetSession(r)
    \/ TerminateRefused(r) \/ TerminateGetSession(r)

Next == \E r \in Requests :
            Arrival(r) \/ HandlerStep(r) \/ StatementFails(r) \/ Lose(r)

Spec == Init /\ [][Next]_vars

-----------------------------------------------------------------------------
(***************************************************************************)
(* Properties.                                                             *)
(***************************************************************************)

(* The turns of a session are numbered 0, 1, 2, ... without a gap, though  *)
(* NextTurn reads the maximum and AppendMessage inserts in another         *)
(* statement, with other sends in between and any of them failing.         *)
ContiguousTurns ==
    \A s \in SessionIds : Turns(s) = 0 .. NextTurn(s) - 1

IsReply(s, t) == t > 0 /\ messages[s][t].role = "brand"

(* Every brand turn after the welcome sits right behind the host turn of   *)
(* the same si_send_message, though the LLM call that separates the two    *)
(* inserts holds no lock.                                                  *)
ReplyFollowsItsQuestion ==
    \A s \in SessionIds : \A t \in Turns(s) :
        IsReply(s, t) => /\ t - 1 \in Turns(s)
                         /\ messages[s][t-1] = HostRow(messages[s][t].by)

(* The history a reply was computed from is still, when the reply enters   *)
(* the log, all of the log before it: nobody wrote while the LLM thought.  *)
ReplySawWholeLog ==
    \A s \in SessionIds : \A t \in Turns(s) :
        messages[s][t].role = "brand" => messages[s][t].seen = 0 .. t - 1

(* A call puts at most one host turn and one brand turn in the store,      *)
(* whatever statement of it reported an error.                             *)
OneExchangePerCall ==
    \A s1, s2 \in SessionIds : \A t1 \in Turns(s1), t2 \in Turns(s2) :
        /\ messages[s1][t1].by = messages[s2][t2].by
        /\ messages[s1][t1].role = messages[s2][t2].role
        => s1 = s2 /\ t1 = t2

(* A call answered without an error left its rows behind: the welcome of   *)
(* an initiate, the question and the reply next to it of a send.           *)
AnsweredIsRecorded ==
    \A r \in Requests : answer[r] = "ok" =>
        /\ call[r].op = "initiate" =>
              0 \in Turns(Sid(r)) /\ messages[Sid(r)][0] = BrandRow(r, {})
        /\ call[r].op = "send" =>
              \E t \in Turns(Sid(r)) :
                  /\ messages[Sid(r)][t] = HostRow(r)
                  /\ t + 1 \in Turns(Sid(r))
                  /\ messages[Sid(r)][t+1].role = "brand"
                  /\ messages[Sid(r)][t+1].by = r

(* A stored receipt points at a message that is in the log, and one on the *)
(* pre-session turn came with the initiate of that very session.           *)
ReceiptPointsAtMessage ==
    \A s \in SessionIds : \A t \in DOMAIN receipts[s] :
        IF t = PreSession
        THEN call[receipts[s][t]].op = "initiate" /\ call[receipts[s][t]].sid = s
        ELSE t \in Turns(s)

(* A receipt is filed on the turn right before the host turn that carried  *)
(* it, if that host turn made it into the log.                             *)
ReceiptBeforeItsCarrier ==
    \A s \in SessionIds : \A t \in DOMAIN receipts[s] : \A u \in Turns(s) :
        messages[s][u] = HostRow(receipts[s][t]) => u = t + 1

(* A session is pending_handoff only if some reply in its log flagged it:  *)
(* the reply is on disk before the status is.                              *)
HandoffHasCause ==
    \A s \in SessionIds : sessions[s] = "pending_handoff" =>
        \E t \in Turns(s) : IsReply(s, t) /\ call[messages[s][t].by].buy

(* Once a row is in the log it is never changed or removed.                *)
RowsArePermanent ==
    [][\A s \in SessionIds : \A t \in Turns(s) :
            t \in Turns(s)' /\ messages'[s][t] = messages[s][t]]_vars

InFlight(s) == {r \in Requests : pc[r] \in SendSteps /\ call[r].sid = s}

(* A session that is terminated while no send is past its check stays      *)
(* terminated.                                                             *)
QuietTerminationIsFinal ==
    [][\A s \in SessionIds :
            sessions[s] = "terminated" /\ InFlight(s) = {}
            => sessions'[s] = "terminated" /\ InFlight(s)' = {}]_vars

-----------------------------------------------------------------------------
(* What comments of the source say and the interleavings refute.           *)

(* mcptools.go:76: si_terminate_session "Returns the final                 *)
(* session_status='terminated'".  A send that passed its check before      *)
(* writes its own status afterwards.                                       *)
TerminatedIsFinal ==
    [][\A s \in SessionIds :
            sessions[s] = "terminated" => sessions'[s] = "terminated"]_vars

(* sqlite.go:66: "Turn is the BRAND turn the receipt acknowledges (not the *)
(* host turn that carried the receipt)".                                   *)
ReceiptsOnBrandTurns ==
    \A s \in SessionIds : \A t \in DOMAIN receipts[s] \cap Turns(s) :
        messages[s][t].role = "brand"
=============================================================================

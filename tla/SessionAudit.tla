---------------------------- MODULE SessionAudit ----------------------------
(***************************************************************************)
(* GET /admin/api/sessions/:id/audit (internal/admin/admin.go,             *)
(* sessionAudit) among the handlers of SessionHandlers: it reads the       *)
(* session, its messages and its receipts in three statements, and any     *)
(* number of statements of other calls may run between two of them.        *)
(* Audits follow one another; the last report stays on the screen.         *)
(***************************************************************************)
EXTENDS SessionHandlers

VARIABLES step,      \* where the audit is
          view,      \* what it has read so far
          report,    \* the last report that was shown
          (* Not of the code: what was so when the audit, and the audit    *)
          (* the report is of, began.                                      *)
          filed,     \* the brand turns with a receipt on file
          quiet,     \* was the session terminated, with no send in flight
          final      \* quiet, as the audit of the report found it

audit     == <<step, view, report, filed, quiet, final>>
auditVars == <<vars, audit>>

NoView == [sid |-> "none"]

(* messages: the turns ListMessages returned.  Rows are never changed, so  *)
(* turns stand for rows.                                                   *)
Begun == [sid : SessionIds, status : Statuses]
Read  == [sid : SessionIds, status : Statuses, turns : SUBSET Nat]

Shows(r) ==
    /\ r.sid \in SessionIds /\ r.status \in Statuses
    /\ r.turns \subseteq Nat
    /\ IsTable(r.receipts, Nat, Requests)
    /\ r.pre \in SUBSET Requests

AuditTypeOK ==
    /\ TypeOK
    /\ step \in {"idle", "messages", "receipts"}
    /\ view \in CASE step = "idle"     -> {NoView}
                  [] step = "messages" -> Begun
                  [] step = "receipts" -> Read
    /\ report = NoView \/ Shows(report)
    /\ filed \subseteq Nat
    /\ quiet \in BOOLEAN /\ final \in BOOLEAN

AuditInit ==
    /\ Init
    /\ step = "idle"
    /\ view = NoView
    /\ report = NoView
    /\ filed = {} /\ quiet = FALSE /\ final = FALSE

-----------------------------------------------------------------------------
OnBrandTurns(s) ==
    {t \in DOMAIN receipts[s] \cap Turns(s) : messages[s][t].role = "brand"}

AuditOver == step' = "idle" /\ view' = NoView /\ filed' = {} /\ quiet' = FALSE

(* A 404 for an id without a row, a 500 for a statement that fails: no     *)
(* report either way.                                                      *)
AuditFails ==
    /\ step # "idle"
    /\ AuditOver
    /\ UNCHANGED <<vars, report, final>>

AuditGetSession ==
    /\ step = "idle"
    /\ \E s \in SessionIds :
        /\ sessions[s] # NoRow
        /\ view' = [sid |-> s, status |-> sessions[s]]
        /\ filed' = OnBrandTurns(s)
        /\ quiet' = (sessions[s] = "terminated" /\ InFlight(s) = {})
    /\ step' = "messages"
    /\ UNCHANGED <<vars, report, final>>

(* Deliberately wrong: read the status again with the messages in hand.    *)
AuditStatusReread == IF step = "receipts" THEN sessions[view.sid] ELSE view.status
AuditStatus       == view.status

AuditListMessages ==
    /\ step = "messages"
    /\ view' = [sid |-> view.sid, status |-> view.status,
                turns |-> ListMessages(view.sid)]
    /\ step' = "receipts"
    /\ UNCHANGED <<vars, report, filed, quiet, final>>

(* Deliberately wrong: show a receipt with the turn that carried it.       *)
ShownOnCarrier(s, turns) ==
    [t \in {u \in turns : u - 1 \in DOMAIN receipts[s]} |-> receipts[s][t-1]]

(* Deliberately wrong: show receipts on host turns as well.                *)
ShownOnAnyTurn(s, turns) == [t \in turns \cap DOMAIN receipts[s] |-> receipts[s][t]]

(* Receipts are indexed by turn and shown with the brand turns read before *)
(* them; one on a host turn, or on a turn that was not read, is dropped.   *)
Shown(s, turns) ==
    [t \in {u \in turns \cap DOMAIN receipts[s] : messages[s][u].role = "brand"}
        |-> receipts[s][t]]

ShownPre(s) == IF PreSession \in DOMAIN receipts[s] THEN {receipts[s][PreSession]} ELSE {}

AuditListReceipts ==
    /\ step = "receipts"
    /\ report' = [sid      |-> view.sid,
                  status   |-> AuditStatus,
                  turns    |-> view.turns,
                  receipts |-> Shown(view.sid, view.turns),
                  pre      |-> ShownPre(view.sid)]
    /\ final' = quiet
    /\ AuditOver
    /\ UNCHANGED vars

AuditStep == AuditGetSession \/ AuditListMessages \/ AuditListReceipts \/ AuditFails

AuditNext ==
    \/ AuditStep
    \/ Next /\ UNCHANGED audit

AuditSpec == AuditInit /\ [][AuditNext]_auditVars

-----------------------------------------------------------------------------
(***************************************************************************)
(* Properties.                                                             *)
(***************************************************************************)
Reported == report # NoView

(* admin.go:322-332: a report that says pending_handoff shows the reply    *)
(* that caused it, because the status is read before the messages and      *)
(* written after them.                                                     *)
ReportedHandoffHasCause ==
    Reported /\ report.status = "pending_handoff" =>
        \E t \in report.turns : IsReply(report.sid, t)
                                /\ call[messages[report.sid][t].by].buy

(* admin.go:271: a receipt shown with a turn acknowledges a brand turn,    *)
(* and the host turn that carried it, where the report reaches it, is the  *)
(* one right after.  The receipts are read after the turns, so the carrier *)
(* need not be in the report.                                              *)
ShownReceiptsFit ==
    Reported => \A t \in DOMAIN report.receipts :
        /\ t \in report.turns
        /\ messages[report.sid][t].role = "brand"
        /\ \A u \in report.turns :
              messages[report.sid][u] = HostRow(report.receipts[t]) => u = t + 1

(* What a single report shows, though it is put together from three        *)
(* moments.                                                                *)
ReportsAreSound == AuditTypeOK /\ ReportedHandoffHasCause /\ ShownReceiptsFit

(* Receipts of brand turns that were on file when an audit began are in    *)
(* its report, though the messages are read before the receipts.           *)
FiledReceiptsShown ==
    [][report' # report => filed \subseteq DOMAIN report'.receipts]_auditVars

(* A later report on a session takes nothing back: no turn, and no turn's  *)
(* receipt (which another call may have replaced), disappears.             *)
ReportsOnlyGrow ==
    [][Reported /\ report'.sid = report.sid =>
          /\ report.turns \subseteq report'.turns
          /\ DOMAIN report.receipts \subseteq DOMAIN report'.receipts
          /\ report.pre # {} => report'.pre # {}]_auditVars

(* The audit trail of a session that was terminated, with no send in       *)
(* flight, when an audit began is closed: every later report is the same.  *)
ClosedReportIsFinal ==
    [][final /\ report'.sid = report.sid => report' = report]_auditVars

(* What one report owes to what was so before it.                          *)
TrailOnlyGrows == FiledReceiptsShown /\ ReportsOnlyGrow /\ ClosedReportIsFinal
=============================================================================

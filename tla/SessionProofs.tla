--------------------------- MODULE SessionProofs ---------------------------
(***************************************************************************)
(* Proofs about SessionHandlers, for any set of calls and any set of       *)
(* session ids: its invariants, that its log implements TurnLog, and last, *)
(* with SessionAudit, what a report over that log shows and what a later   *)
(* report owes to it.                                                      *)
(***************************************************************************)
EXTENDS SessionLog, SessionAudit, TLAPS

(* What a handler inserts is a row of the messages table.                  *)
LEMMA RowTypes ==
    ASSUME NEW r \in Requests, NEW seen \in SUBSET Nat
    PROVE  BrandRow(r, seen) \in MessageRows /\ HostRow(r) \in MessageRows
  BY DEF BrandRow, HostRow, MessageRows

(* A turn after the last one exists: NextTurn on a log without holes.      *)
TurnAfter(T) == IF T = {} THEN 0 ELSE 1 + CHOOSE m \in T : \A t \in T : t <= m

(* On a log without holes the turn after the last is the length.           *)
LEMMA LengthOfTurns ==
    ASSUME NEW n \in Nat, NEW T, T = 0 .. n - 1
    PROVE  TurnAfter(T) = n
  <1>1. CASE n = 0
    BY <1>1 DEF TurnAfter
  <1>2. CASE n # 0
    <2> DEFINE IsMax(m) == m \in T /\ \A t \in T : t <= m
               last == CHOOSE m \in T : \A t \in T : t <= m
    <2>1. IsMax(n - 1)
      BY <1>2
    <2>2. IsMax(last)
      BY <2>1
    <2>3. last = n - 1
      BY <2>1, <2>2
    <2>4. T # {}
      BY <2>1
    <2> HIDE DEF last
    <2>5. 1 + last = n
      BY <2>3
    <2> QED  BY <2>4, <2>5, Zenon DEF last, TurnAfter
  <1> QED  BY <1>1, <1>2

(* So SELECT MAX(turn) + 1 gives the length of the session's log.          *)
LEMMA NextTurnIsLength ==
    ASSUME NEW s, NEW n \in Nat, Turns(s) = 0 .. n - 1
    PROVE  NextTurn(s) = n
  BY LengthOfTurns DEF NextTurn, TurnAfter

-----------------------------------------------------------------------------
(* The inductive invariant.  Where a handler is says which call it serves. *)
CallOK ==
    \A r \in Requests :
        /\ pc[r] = "idle" => call[r] = NoCall
        /\ pc[r] \in InitiateSteps => call[r] \in Calls /\ call[r].op = "initiate"
        /\ pc[r] \in SendSteps     => call[r] \in Calls /\ call[r].op = "send"
        /\ pc[r] = "terminate"     => call[r] \in Calls /\ call[r].op = "terminate"
        /\ pc[r] # "done"          => answer[r] = NoAnswer

(* A log has no holes.                                                     *)
LogOK == \A s \in SessionIds : \E n \in Nat : Turns(s) = 0 .. n - 1

(* What a running send may rely on of what it read some statements ago:    *)
(* up to the turn it will use the log is there (so if its turn is still    *)
(* free it is the next one), its question is where it put it, and the      *)
(* history it read is a part of the log that reaches its question.         *)
PlaceOK ==
    \A r \in Requests :
        /\ pc[r] \in {"receipt", "ask"} => 0 .. turn[r] - 1 \subseteq Turns(Sid(r))
        /\ pc[r] \in {"list", "reply"} => /\ turn[r] \in Turns(Sid(r))
                                         /\ messages[Sid(r)][turn[r]] = HostRow(r)
        /\ pc[r] = "reply" => /\ 0 .. turn[r] \subseteq history[r]
                              /\ history[r] \subseteq Turns(Sid(r))

RepliesOK == ReplyFollowsItsQuestion /\ ReplySawWholeLog

IInv == TypeOK /\ CallOK /\ LogOK /\ PlaceOK /\ RepliesOK

(* The empty store satisfies the invariant.                                *)
THEOREM InitIInv == Init => IInv
  <1> SUFFICES ASSUME Init PROVE IInv
    OBVIOUS
  <1> USE DEF Init, StoreInit
  <1>1. TypeOK
    BY DEF TypeOK, StoreTypeOK, IsTable, Empty, Running
  <1>2. CallOK /\ PlaceOK
    BY DEF CallOK, PlaceOK, InitiateSteps, SendSteps
  <1>3. \A s \in SessionIds : Turns(s) = {}
    BY DEF Turns, Empty
  <1>4. LogOK
    <2>1. 0 .. 0 - 1 = {}
      OBVIOUS
    <2> QED  BY <1>3, <2>1 DEF LogOK
  <1>5. RepliesOK
    BY <1>3 DEF RepliesOK, ReplyFollowsItsQuestion, ReplySawWholeLog
  <1> QED  BY <1>1, <1>2, <1>4, <1>5 DEF IInv

-----------------------------------------------------------------------------
(* Row row enters the log of s on the turn t, which was free.              *)
RowAdded(s, t, row) ==
    /\ t \notin Turns(s)
    /\ DOMAIN messages' = SessionIds
    /\ IsTable(messages'[s], Nat, MessageRows)
    /\ DOMAIN messages'[s] = Turns(s) \cup {t}
    /\ messages'[s][t] = row
    /\ \A u \in Turns(s) : messages'[s][u] = messages[s][u]
    /\ \A x \in SessionIds \ {s} : messages'[x] = messages[x]

(* An INSERT that is not refused adds one row, and changes no other.       *)
LEMMA InsertAddsRow ==
    ASSUME TypeOK, NEW r \in Requests, Sid(r) \in SessionIds,
           NEW t \in Nat, NEW row \in MessageRows, InsertRow(r, t, row)
    PROVE  RowAdded(Sid(r), t, row)
  <1> DEFINE s == Sid(r)
  <1>1. IsTable(messages[s], Nat, MessageRows) /\ DOMAIN messages = SessionIds
    BY DEF TypeOK, StoreTypeOK
  <1>2. messages' = [messages EXCEPT ![s] = Put(messages[s], t, row)]
    BY DEF InsertRow, AppendMessage
  <1>3. messages'[s] = Put(messages[s], t, row) /\ DOMAIN messages' = SessionIds
    BY <1>1, <1>2
  <1>4. \A x \in SessionIds \ {s} : messages'[x] = messages[x]
    BY <1>1, <1>2
  <1>5. t \notin DOMAIN messages[s]
    BY DEF InsertRow, PKTaken, Turns
  <1> HIDE DEF s
  <1>0. /\ IsTable(Put(messages[s], t, row), Nat, MessageRows)
        /\ DOMAIN Put(messages[s], t, row) = DOMAIN messages[s] \cup {t}
        /\ Put(messages[s], t, row)[t] = row
        /\ \A u \in DOMAIN messages[s] : u # t => Put(messages[s], t, row)[u] = messages[s][u]
    BY <1>1 DEF Put, IsTable
  <1>6. /\ IsTable(messages'[s], Nat, MessageRows)
        /\ DOMAIN messages'[s] = DOMAIN messages[s] \cup {t}
        /\ messages'[s][t] = row
        /\ \A u \in DOMAIN messages[s] : u # t => messages'[s][u] = messages[s][u]
    BY <1>0, <1>3
  <1>7. RowAdded(s, t, row)
    BY <1>3, <1>4, <1>5, <1>6 DEF RowAdded, Turns
  <1> QED  BY <1>7 DEF s
-----------------------------------------------------------------------------
(* One step of the call r.                                                 *)
StepOf(r) == Arrival(r) \/ HandlerStep(r) \/ StatementFails(r) \/ Lose(r)

(* Every step of the system is a step of some call.                        *)
LEMMA NextIsAStep == Next => \E r \in Requests : StepOf(r)
  BY DEF Next, StepOf

(* A step of r touches the locals of no other call, and keeps the          *)
(* parameters r came with.                                                 *)
LEMMA StepIsLocal ==
    ASSUME TypeOK, CallOK, NEW r \in Requests, StepOf(r)
    PROVE  /\ \A q \in Requests \ {r} :
                 /\ pc'[q] = pc[q] /\ call'[q] = call[q] /\ answer'[q] = answer[q]
                 /\ known'[q] = known[q] /\ turn'[q] = turn[q]
                 /\ history'[q] = history[q]
           /\ pc[r] # "idle" => call' = call
  <1> USE DEF TypeOK, GoTo, Enter, Answer, AfterWrite, LastWrite, frame
  <1>1. CASE Arrival(r)
    BY <1>1 DEF Arrival, RejectParams, InitiateCreate, SendRefused, SendGetSession,
                TerminateRefused, TerminateGetSession, Arrive
  <1>2. CASE HandlerStep(r)
    <2>1. CASE InitiateWelcome(r) \/ InitiateReceipt(r) \/ TerminateUpdate(r)
      BY <2>1 DEF InitiateWelcome, InitiateReceipt, TerminateUpdate, AfterWelcome,
                  AppendConflict
    <2>2. CASE SendNextTurn(r) \/ SendReceipt(r) \/ SendAsk(r)
      BY <2>2 DEF SendNextTurn, SendReceipt, SendAsk, AppendConflict
    <2>3. CASE SendListAndReply(r) \/ SendReply(r) \/ SendPromote(r)
      BY <2>3 DEF SendListAndReply, SendReply, SendPromote, AfterReply, AppendConflict
    <2> QED  BY <1>2, <2>1, <2>2, <2>3 DEF HandlerStep
  <1>3. CASE StatementFails(r) \/ Lose(r)
    BY <1>3 DEF StatementFails, Lose
  <1> QED  BY <1>1, <1>2, <1>3 DEF StepOf

(* A running handler has its parameters, and a session they name.          *)
LEMMA SidType ==
    ASSUME CallOK, NEW r \in Requests, pc[r] \in Running
    PROVE  call[r] \in Calls /\ Sid(r) \in SessionIds
  BY DEF CallOK, Running, Calls, Sid

(* What a step of r does to the messages table: nothing, or one row at the *)
(* place r is at.                                                          *)
LEMMA StepOnLog ==
    ASSUME TypeOK, CallOK, NEW r \in Requests, StepOf(r)
    PROVE  \/ messages' = messages
           \/ /\ pc[r] = "welcome"
              /\ RowAdded(Sid(r), 0, BrandRow(r, {}))
           \/ /\ pc[r] = "ask" /\ pc'[r] \in {"list", "done"}
              /\ turn'[r] = turn[r] \/ pc'[r] = "done"
              /\ RowAdded(Sid(r), turn[r], HostRow(r))
           \/ /\ pc[r] = "reply" /\ pc'[r] \in {"promote", "done"}
              /\ RowAdded(Sid(r), turn[r] + 1, BrandRow(r, history[r]))
  <1>1. CASE Arrival(r)
    BY <1>1 DEF Arrival, RejectParams, InitiateCreate, SendRefused, SendGetSession,
                TerminateRefused, TerminateGetSession, tables
  <1>2. CASE HandlerStep(r)
    <2>1. CASE InitiateWelcome(r)
      <3>1. pc[r] = "welcome" /\ Sid(r) \in SessionIds
        BY <2>1, SidType DEF InitiateWelcome, Running, InitiateSteps
      <3>2. CASE InsertRow(r, 0, BrandRow(r, {}))
        BY <3>1, <3>2, InsertAddsRow, RowTypes
      <3>3. CASE AppendConflict(r, 0)
        BY <3>3 DEF AppendConflict
      <3> QED  BY <2>1, <3>2, <3>3 DEF InitiateWelcome
    <2>2. CASE SendAsk(r)
      <3>1. pc[r] = "ask" /\ Sid(r) \in SessionIds /\ turn[r] \in Nat
        BY <2>2, SidType DEF SendAsk, Running, SendSteps, TypeOK
      <3>2. CASE InsertRow(r, turn[r], HostRow(r)) /\ AfterWrite(r, "list")
        <4>1. RowAdded(Sid(r), turn[r], HostRow(r))
          BY <3>1, <3>2, InsertAddsRow, RowTypes
        <4>2. pc'[r] \in {"list", "done"} /\ (turn'[r] = turn[r] \/ pc'[r] = "done")
          BY <3>2 DEF AfterWrite, GoTo, Enter, Answer, frame, TypeOK
        <4> QED  BY <3>1, <4>1, <4>2
      <3>3. CASE AppendConflict(r, turn[r])
        BY <3>3 DEF AppendConflict
      <3> QED  BY <2>2, <3>2, <3>3 DEF SendAsk
    <2>3. CASE SendReply(r)
      <3>1. /\ pc[r] = "reply" /\ Sid(r) \in SessionIds
            /\ turn[r] \in Nat /\ history[r] \in SUBSET Nat
        BY <2>3, SidType DEF SendReply, Running, SendSteps, TypeOK
      <3>2. CASE /\ InsertRow(r, BrandTurn(r), BrandRow(r, history[r]))
                 /\ AfterReply(r)
        <4>1. RowAdded(Sid(r), turn[r] + 1, BrandRow(r, history[r]))
          BY <3>1, <3>2, InsertAddsRow, RowTypes DEF BrandTurn
        <4>2. pc'[r] \in {"promote", "done"}
          BY <3>2 DEF AfterReply, AfterWrite, LastWrite, GoTo, Enter, Answer, TypeOK
        <4> QED  BY <3>1, <4>1, <4>2
      <3>3. CASE AppendConflict(r, BrandTurn(r))
        BY <3>3 DEF AppendConflict
      <3> QED  BY <2>3, <3>2, <3>3 DEF SendReply
    <2>4. CASE \/ InitiateReceipt(r) \/ SendNextTurn(r) \/ SendReceipt(r)
               \/ SendListAndReply(r) \/ SendPromote(r) \/ TerminateUpdate(r)
      BY <2>4 DEF InitiateReceipt, SendNextTurn, SendReceipt, SendListAndReply,
                  SendPromote, TerminateUpdate, tables
    <2> QED  BY <1>2, <2>1, <2>2, <2>3, <2>4 DEF HandlerStep
  <1>3. CASE StatementFails(r) \/ Lose(r)
    BY <1>3 DEF StatementFails, Lose, tables
  <1> QED  BY <1>1, <1>2, <1>3 DEF StepOf

(* Storing a receipt, or storing none, leaves a table of receipts.         *)
LEMMA PersistReceiptType ==
    ASSUME StoreTypeOK, NEW r \in Requests, Sid(r) \in SessionIds,
           NEW t \in Nat \cup {PreSession}, PersistReceipt(r, t)
    PROVE  /\ DOMAIN receipts' = SessionIds
           /\ \A s \in SessionIds : IsTable(receipts'[s], Nat \cup {PreSession}, Requests)
  <1>1. CASE receipts' = SaveReceipt(Sid(r), t, r)
    <2>1. PICK s \in SessionIds : s = Sid(r)
      OBVIOUS
    <2>2. receipts' = [receipts EXCEPT ![s] = Put(receipts[s], t, r)]
      BY <1>1, <2>1 DEF SaveReceipt
    <2>3. IsTable(Put(receipts[s], t, r), Nat \cup {PreSession}, Requests)
      BY DEF StoreTypeOK, IsTable, Put
    <2> QED  BY <2>2, <2>3 DEF StoreTypeOK
  <1>2. CASE UNCHANGED receipts
    BY <1>2 DEF StoreTypeOK
  <1> QED  BY <1>1, <1>2 DEF PersistReceipt

(* The messages table keeps its type.                                      *)
LEMMA MessagesStepType ==
    ASSUME TypeOK, CallOK, NEW r \in Requests, StepOf(r)
    PROVE  /\ DOMAIN messages' = SessionIds
           /\ \A s \in SessionIds : IsTable(messages'[s], Nat, MessageRows)
  <1>1. CASE messages' = messages
    BY <1>1 DEF TypeOK, StoreTypeOK
  <1>2. ASSUME NEW t, NEW row, RowAdded(Sid(r), t, row)
        PROVE  /\ DOMAIN messages' = SessionIds
               /\ \A s \in SessionIds : IsTable(messages'[s], Nat, MessageRows)
    BY <1>2 DEF RowAdded, TypeOK, StoreTypeOK
  <1> QED  BY <1>1, <1>2, StepOnLog

(* The types, one group of variables at a time.                            *)
LEMMA SessionsStepType ==
    ASSUME TypeOK, NEW r \in Requests, StepOf(r)
    PROVE  sessions' \in [SessionIds -> Statuses \cup {NoRow}]
  <1> USE DEF TypeOK, StoreTypeOK, Statuses
  <1>1. CASE \/ InitiateCreate(r) \/ SendPromote(r) \/ TerminateUpdate(r)
    BY <1>1 DEF InitiateCreate, SendPromote, TerminateUpdate, CreateSession,
                UpdateSessionStatus, ReplyStatus
  <1>2. CASE sessions' = sessions
    BY <1>2
  <1>3. StepOf(r) => \/ InitiateCreate(r) \/ SendPromote(r) \/ TerminateUpdate(r)
                     \/ sessions' = sessions
    BY DEF StepOf, Arrival, HandlerStep, RejectParams, SendRefused, SendGetSession,
           TerminateRefused, TerminateGetSession, InitiateWelcome, InitiateReceipt,
           SendNextTurn, SendReceipt, SendAsk, SendListAndReply, SendReply,
           StatementFails, Lose, tables
  <1> QED  BY <1>1, <1>2, <1>3

(* The receipts table keeps its type.                                      *)
LEMMA ReceiptsStepType ==
    ASSUME TypeOK, CallOK, NEW r \in Requests, StepOf(r)
    PROVE  /\ DOMAIN receipts' = SessionIds
           /\ \A s \in SessionIds : IsTable(receipts'[s], Nat \cup {PreSession}, Requests)
  <1>1. CASE InitiateReceipt(r)
    <2>1. Sid(r) \in SessionIds /\ PersistReceipt(r, PreSession) /\ StoreTypeOK
      BY <1>1, SidType DEF InitiateReceipt, Running, InitiateSteps, TypeOK
    <2> QED  BY <2>1, PersistReceiptType
  <1>2. CASE SendReceipt(r)
    <2>1. Sid(r) \in SessionIds /\ PersistReceipt(r, AckedTurn(turn[r])) /\ StoreTypeOK
      BY <1>2, SidType DEF SendReceipt, Running, SendSteps, TypeOK
    <2>2. AckedTurn(turn[r]) \in Nat
      BY DEF AckedTurn, TypeOK
    <2> QED  BY <2>1, <2>2, PersistReceiptType
  <1>3. CASE receipts' = receipts
    BY <1>3 DEF TypeOK, StoreTypeOK
  <1>4. InitiateReceipt(r) \/ SendReceipt(r) \/ receipts' = receipts
    BY DEF StepOf, Arrival, HandlerStep, RejectParams, SendRefused, SendGetSession,
           TerminateRefused, TerminateGetSession, InitiateCreate, InitiateWelcome,
           SendNextTurn, SendAsk, SendListAndReply, SendReply, SendPromote,
           TerminateUpdate, StatementFails, Lose, tables
  <1> QED  BY <1>1, <1>2, <1>3, <1>4

(* The step r goes to, what it answers, and what it was called with.       *)
LEMMA PcStepType ==
    ASSUME TypeOK, NEW r \in Requests, StepOf(r)
    PROVE  pc' \in [Requests -> Running \cup {"idle", "done"}]
  <1>1. \E place \in Running \cup {"done"} : pc' = [pc EXCEPT ![r] = place]
    <2> USE DEF GoTo, Enter, Answer, AfterWrite, LastWrite, Running, InitiateSteps,
                SendSteps
    <2>1. CASE Arrival(r)
      BY <2>1 DEF Arrival, RejectParams, InitiateCreate, SendRefused, SendGetSession,
                  TerminateRefused, TerminateGetSession
    <2>2. CASE HandlerStep(r)
      BY <2>2 DEF HandlerStep, InitiateWelcome, AfterWelcome, InitiateReceipt,
                  SendNextTurn, SendReceipt, SendAsk, SendListAndReply, SendReply,
                  AfterReply, SendPromote, TerminateUpdate, AppendConflict
    <2>3. CASE StatementFails(r) \/ Lose(r)
      BY <2>3 DEF StatementFails, Lose
    <2> QED  BY <2>1, <2>2, <2>3 DEF StepOf
  <1> QED  BY <1>1 DEF TypeOK

(* Answers keep their type.                                                *)
LEMMA AnswerStepType ==
    ASSUME TypeOK, NEW r \in Requests, StepOf(r)
    PROVE  answer' \in [Requests -> Answers \cup {NoAnswer}]
  <1>1. answer' = answer \/ \E a \in Answers : answer' = [answer EXCEPT ![r] = a]
    <2> USE DEF GoTo, Enter, Answer, AfterWrite, LastWrite, Answers
    <2>1. CASE Arrival(r)
      BY <2>1 DEF Arrival, RejectParams, InitiateCreate, SendRefused, SendGetSession,
                  TerminateRefused, TerminateGetSession
    <2>2. CASE HandlerStep(r)
      BY <2>2 DEF HandlerStep, InitiateWelcome, AfterWelcome, InitiateReceipt,
                  SendNextTurn, SendReceipt, SendAsk, SendListAndReply, SendReply,
                  AfterReply, SendPromote, TerminateUpdate, AppendConflict
    <2>3. CASE StatementFails(r) \/ Lose(r)
      BY <2>3 DEF StatementFails, Lose
    <2> QED  BY <2>1, <2>2, <2>3 DEF StepOf
  <1> QED  BY <1>1 DEF TypeOK

(* Parameters keep their type.                                             *)
LEMMA CallStepType ==
    ASSUME TypeOK, NEW r \in Requests, StepOf(r)
    PROVE  call' \in [Requests -> Calls \cup {NoCall}]
  <1>1. call' = call \/ \E c \in Calls : call' = [call EXCEPT ![r] = c]
    <2>1. CASE Arrival(r)
      BY <2>1 DEF Arrival, RejectParams, InitiateCreate, SendRefused, SendGetSession,
                  TerminateRefused, TerminateGetSession, Arrive, Calls, Ops
    <2>2. CASE HandlerStep(r)
      BY <2>2 DEF HandlerStep, InitiateWelcome, InitiateReceipt, SendNextTurn,
                  SendReceipt, SendAsk, SendListAndReply, SendReply, SendPromote,
                  TerminateUpdate
    <2>3. CASE StatementFails(r) \/ Lose(r)
      BY <2>3 DEF StatementFails, Lose
    <2> QED  BY <2>1, <2>2, <2>3 DEF StepOf
  <1> QED  BY <1>1 DEF TypeOK

(* What r read.  NextTurn returns a number because the log has no holes:   *)
(* of an infinite log there would be no maximum.                           *)
LEMMA FrameStepType ==
    ASSUME TypeOK, CallOK, LogOK, NEW r \in Requests, StepOf(r)
    PROVE  /\ known' \in [Requests -> Statuses \cup {NoRow}]
           /\ turn' \in [Requests -> Nat]
           /\ history' \in [Requests -> SUBSET Nat]
  <1>1. CASE UNCHANGED frame \/ \E a : Answer(r, a)
    BY <1>1 DEF frame, Answer, TypeOK
  <1>2. CASE SendGetSession(r) \/ (TerminateGetSession(r) /\ UNCHANGED <<turn, history>>)
    BY <1>2 DEF SendGetSession, TerminateGetSession, Answer, TypeOK, StoreTypeOK
  <1>3. CASE SendNextTurn(r)
    <2>1. Sid(r) \in SessionIds
      BY <1>3, SidType DEF SendNextTurn, Running, SendSteps
    <2>2. NextTurn(Sid(r)) \in Nat
      BY <2>1, NextTurnIsLength DEF LogOK
    <2> QED  BY <1>3, <2>2 DEF SendNextTurn, TypeOK
  <1>4. CASE SendListAndReply(r)
    <2>1. Sid(r) \in SessionIds
      BY <1>4, SidType DEF SendListAndReply, Running, SendSteps
    <2>2. ListMessages(Sid(r)) \in SUBSET Nat
      BY <2>1 DEF ListMessages, Turns, TypeOK, StoreTypeOK, IsTable
    <2> QED  BY <1>4, <2>2 DEF SendListAndReply, TypeOK
  <1>5. \/ UNCHANGED frame \/ \E a : Answer(r, a)
        \/ SendGetSession(r)
        \/ (TerminateGetSession(r) /\ UNCHANGED <<turn, history>>)
        \/ SendNextTurn(r) \/ SendListAndReply(r)
    <2> USE DEF AfterWrite, LastWrite, GoTo
    <2>1. CASE Arrival(r)
      <3>1. CASE TerminateGetSession(r)
        BY <3>1 DEF TerminateGetSession
      <3>2. CASE \/ RejectParams(r) \/ InitiateCreate(r) \/ SendRefused(r)
                 \/ TerminateRefused(r)
        BY <3>2 DEF RejectParams, InitiateCreate, SendRefused, TerminateRefused
      <3>3. CASE SendGetSession(r)
        BY <3>3
      <3> QED  BY <2>1, <3>1, <3>2, <3>3 DEF Arrival
    <2>2. CASE HandlerStep(r)
      <3>1. CASE InitiateWelcome(r) \/ InitiateReceipt(r)
        BY <3>1 DEF InitiateWelcome, AfterWelcome, AppendConflict, InitiateReceipt
      <3>2. CASE SendReceipt(r) \/ SendAsk(r)
        BY <3>2 DEF SendReceipt, SendAsk, AppendConflict
      <3>3. CASE SendReply(r) \/ SendPromote(r) \/ TerminateUpdate(r)
        BY <3>3 DEF SendReply, AfterReply, AppendConflict, SendPromote, TerminateUpdate
      <3> QED  BY <2>2, <3>1, <3>2, <3>3 DEF HandlerStep
    <2>3. CASE StatementFails(r) \/ Lose(r)
      BY <2>3 DEF StatementFails, Lose
    <2> QED  BY <2>1, <2>2, <2>3 DEF StepOf
  <1> QED  BY <1>1, <1>2, <1>3, <1>4, <1>5

(* The type invariant is kept by every step.                               *)
LEMMA TypeStep ==
    ASSUME TypeOK, CallOK, LogOK, NEW r \in Requests, StepOf(r)
    PROVE  TypeOK'
  BY SessionsStepType, MessagesStepType, ReceiptsStepType, PcStepType, AnswerStepType,
     CallStepType, FrameStepType DEF TypeOK, StoreTypeOK

(* Where a handler is still says which call it serves.                     *)
LEMMA CallStep ==
    ASSUME TypeOK, CallOK, NEW r \in Requests, StepOf(r)
    PROVE  CallOK'
  <1> SUFFICES
        /\ pc'[r] = "idle" => call'[r] = NoCall
        /\ pc'[r] \in InitiateSteps => call'[r] \in Calls /\ call'[r].op = "initiate"
        /\ pc'[r] \in SendSteps     => call'[r] \in Calls /\ call'[r].op = "send"
        /\ pc'[r] = "terminate"     => call'[r] \in Calls /\ call'[r].op = "terminate"
        /\ pc'[r] # "done"          => answer'[r] = NoAnswer
    BY StepIsLocal DEF CallOK
  <1> USE DEF TypeOK, CallOK, GoTo, Enter, Answer, AfterWrite, LastWrite,
              InitiateSteps, SendSteps
  <1>1. CASE Arrival(r)
    <2>1. CASE RejectParams(r) \/ SendRefused(r) \/ TerminateRefused(r)
      BY <2>1 DEF RejectParams, SendRefused, TerminateRefused
    <2>2. CASE InitiateCreate(r)
      BY <2>2 DEF InitiateCreate, Arrive, Calls, Ops
    <2>3. CASE SendGetSession(r)
      BY <2>3 DEF SendGetSession, Arrive, Calls, Ops
    <2>4. CASE TerminateGetSession(r)
      BY <2>4 DEF TerminateGetSession, Arrive, Calls, Ops
    <2> QED  BY <1>1, <2>1, <2>2, <2>3, <2>4 DEF Arrival
  <1>2. CASE HandlerStep(r)
    <2>1. CASE InitiateWelcome(r) \/ InitiateReceipt(r) \/ TerminateUpdate(r)
      BY <2>1 DEF InitiateWelcome, InitiateReceipt, TerminateUpdate, AfterWelcome,
                  AppendConflict
    <2>2. CASE SendNextTurn(r) \/ SendReceipt(r) \/ SendAsk(r)
      BY <2>2 DEF SendNextTurn, SendReceipt, SendAsk, AppendConflict
    <2>3. CASE SendListAndReply(r) \/ SendReply(r) \/ SendPromote(r)
      BY <2>3 DEF SendListAndReply, SendReply, SendPromote, AfterReply, AppendConflict
    <2> QED  BY <1>2, <2>1, <2>2, <2>3 DEF HandlerStep
  <1>3. CASE StatementFails(r) \/ Lose(r)
    BY <1>3 DEF StatementFails, Lose
  <1> QED  BY <1>1, <1>2, <1>3 DEF StepOf

-----------------------------------------------------------------------------
(* A row added on the free turn a handler is at keeps the log contiguous:  *)
(* up to that turn the log is there, so the free turn is the next one.     *)
LEMMA FreeTurnIsNext ==
    ASSUME LogOK, NEW s \in SessionIds, NEW t \in Nat, t \notin Turns(s),
           0 .. t - 1 \subseteq Turns(s)
    PROVE  Turns(s) = 0 .. t - 1
  <1>1. PICK n \in Nat : Turns(s) = 0 .. n - 1
    BY DEF LogOK
  <1>2. t = n
    BY <1>1
  <1> QED  BY <1>1, <1>2

(* If the turn that a handler computed some statements ago is still free,  *)
(* it is the next one: nothing is below it that is not in the log.         *)
LEMMA PlaceIsNext ==
    ASSUME IInv, NEW r \in Requests
    PROVE  /\ pc[r] = "welcome" /\ 0 \notin Turns(Sid(r)) => Turns(Sid(r)) = 0 .. 0 - 1
           /\ pc[r] = "ask" /\ turn[r] \notin Turns(Sid(r))
              => Turns(Sid(r)) = 0 .. turn[r] - 1
           /\ pc[r] = "reply" /\ turn[r] + 1 \notin Turns(Sid(r))
              => Turns(Sid(r)) = 0 .. turn[r]
  <1> USE DEF IInv
  <1>1. ASSUME pc[r] \in {"welcome", "ask", "reply"}
        PROVE  Sid(r) \in SessionIds /\ turn[r] \in Nat
    BY <1>1, SidType DEF Running, InitiateSteps, SendSteps, TypeOK
  <1>2. CASE pc[r] = "welcome"
    <2>1. 0 .. 0 - 1 \subseteq Turns(Sid(r))
      OBVIOUS
    <2> QED  BY <1>1, <1>2, <2>1, FreeTurnIsNext
  <1>3. CASE pc[r] = "ask"
    <2>1. 0 .. turn[r] - 1 \subseteq Turns(Sid(r))
      BY <1>3 DEF PlaceOK
    <2> QED  BY <1>1, <1>3, <2>1, FreeTurnIsNext
  <1>4. CASE pc[r] = "reply"
    <2>1. 0 .. (turn[r] + 1) - 1 \subseteq Turns(Sid(r))
      BY <1>1, <1>4 DEF PlaceOK
    <2>2. turn[r] + 1 \notin Turns(Sid(r)) => Turns(Sid(r)) = 0 .. (turn[r] + 1) - 1
      BY <1>1, <1>4, <2>1, FreeTurnIsNext
    <2> QED  BY <1>1, <1>4, <2>2
  <1> QED  BY <1>2, <1>3, <1>4

(* A row added behind the last one leaves no hole.                         *)
LEMMA AddedBehind ==
    ASSUME LogOK, NEW s \in SessionIds, NEW t \in Nat, NEW row,
           RowAdded(s, t, row), Turns(s) = 0 .. t - 1
    PROVE  LogOK'
  <1>1. DOMAIN messages'[s] = 0 .. (t + 1) - 1
    BY DEF RowAdded
  <1>2. \A x \in SessionIds \ {s} : DOMAIN messages'[x] = DOMAIN messages[x]
    BY DEF RowAdded
  <1> QED  BY <1>1, <1>2 DEF LogOK, Turns

(* No step leaves a hole in a log, though no transaction spans reading the *)
(* maximum and inserting.                                                  *)
LEMMA LogStep ==
    ASSUME IInv, NEW r \in Requests, StepOf(r)
    PROVE  LogOK'
  <1> USE DEF IInv
  <1>1. CASE messages' = messages
    BY <1>1 DEF LogOK, Turns
  <1>2. CASE pc[r] = "welcome" /\ RowAdded(Sid(r), 0, BrandRow(r, {}))
    <2>1. Sid(r) \in SessionIds
      BY <1>2, SidType DEF Running, InitiateSteps
    <2>2. Turns(Sid(r)) = 0 .. 0 - 1
      BY <1>2, PlaceIsNext DEF RowAdded
    <2> QED  BY <1>2, <2>1, <2>2, AddedBehind
  <1>3. CASE pc[r] = "ask" /\ RowAdded(Sid(r), turn[r], HostRow(r))
    <2>1. Sid(r) \in SessionIds /\ turn[r] \in Nat
      BY <1>3, SidType DEF Running, SendSteps, TypeOK
    <2>2. Turns(Sid(r)) = 0 .. turn[r] - 1
      BY <1>3, PlaceIsNext DEF RowAdded
    <2> QED  BY <1>3, <2>1, <2>2, AddedBehind
  <1>4. CASE pc[r] = "reply" /\ RowAdded(Sid(r), turn[r] + 1, BrandRow(r, history[r]))
    <2>1. Sid(r) \in SessionIds /\ turn[r] \in Nat
      BY <1>4, SidType DEF Running, SendSteps, TypeOK
    <2>2. Turns(Sid(r)) = 0 .. (turn[r] + 1) - 1
      BY <1>4, <2>1, PlaceIsNext DEF RowAdded
    <2> QED  BY <1>4, <2>1, <2>2, AddedBehind
  <1> QED  BY <1>1, <1>2, <1>3, <1>4, StepOnLog

(* The log only grows, and what is in it stays.                            *)
LogGrows ==
    \A s \in SessionIds : \A t \in Turns(s) :
        t \in DOMAIN messages'[s] /\ messages'[s][t] = messages[s][t]

(* Every step leaves all rows of the log as they are.                      *)
LEMMA LogGrowsStep ==
    ASSUME TypeOK, CallOK, NEW r \in Requests, StepOf(r)
    PROVE  LogGrows
  <1>1. CASE messages' = messages
    BY <1>1 DEF LogGrows, Turns
  <1>2. ASSUME NEW t, NEW row, RowAdded(Sid(r), t, row)
        PROVE  LogGrows
    BY <1>2 DEF RowAdded, LogGrows, Turns
  <1> QED  BY <1>1, <1>2, StepOnLog

(* What a send relies on survives the steps of others, because the log     *)
(* only grows, and its own steps establish it.                             *)
LEMMA PlaceStep ==
    ASSUME IInv, NEW r \in Requests, StepOf(r)
    PROVE  PlaceOK'
  <1> USE DEF IInv
  <1> DEFINE Place(q, p, c, n, h, m) ==
        /\ p \in {"receipt", "ask"} => 0 .. n - 1 \subseteq DOMAIN m[c.sid]
        /\ p \in {"list", "reply"} => n \in DOMAIN m[c.sid] /\ m[c.sid][n] = HostRow(q)
        /\ p = "reply" => 0 .. n \subseteq h /\ h \subseteq DOMAIN m[c.sid]
  <1>0. LogGrows
    BY LogGrowsStep
  <1>1. SUFFICES ASSUME NEW q \in Requests
                 PROVE  Place(q, pc'[q], call'[q], turn'[q], history'[q], messages')
    BY DEF PlaceOK, Sid, Turns
  <1>2. Place(q, pc[q], call[q], turn[q], history[q], messages)
    BY DEF PlaceOK, Sid, Turns
  <1>3. pc[q] \in SendSteps => call[q].sid \in SessionIds
    BY SidType DEF Running, Sid
  <1>4. CASE q # r
    <2>1. /\ pc'[q] = pc[q] /\ call'[q] = call[q]
          /\ turn'[q] = turn[q] /\ history'[q] = history[q]
      BY <1>4, StepIsLocal
    <2> QED  BY <1>0, <1>2, <1>3, <2>1 DEF SendSteps, LogGrows, Turns
  <1>5. CASE q = r
    <2> USE DEF TypeOK, GoTo, Enter, Answer, AfterWrite, LastWrite, frame
    <2>1. CASE Arrival(r)
      BY <1>5, <2>1 DEF Arrival, RejectParams, InitiateCreate, SendRefused,
            SendGetSession, TerminateRefused, TerminateGetSession
    <2>2. CASE SendNextTurn(r)
      <3>1. /\ pc'[r] \in {"receipt", "ask"} /\ turn'[r] = NextTurn(Sid(r))
            /\ call' = call /\ messages' = messages
        BY <2>2 DEF SendNextTurn, tables
      <3>2. PICK n \in Nat : Turns(Sid(r)) = 0 .. n - 1
        BY <1>3, <1>5, <2>2 DEF SendNextTurn, SendSteps, LogOK, Sid
      <3>3. turn'[r] = n
        BY <3>1, <3>2, NextTurnIsLength
      <3> QED  BY <1>5, <3>1, <3>2, <3>3 DEF Sid, Turns
    <2>3. CASE SendReceipt(r)
      BY <1>2, <1>5, <2>3 DEF SendReceipt
    <2>4. CASE SendAsk(r)
      <3>1. CASE pc'[r] = "done"
        BY <1>5, <3>1
      <3>2. CASE pc'[r] = "list"
        <4>1. RowAdded(Sid(r), turn[r], HostRow(r)) /\ turn'[r] = turn[r] /\ call' = call
          BY <2>4, <3>2 , StepOnLog, InsertAddsRow, RowTypes, SidType
             DEF SendAsk, AppendConflict, Running, SendSteps
        <4> QED  BY <1>5, <3>2, <4>1 DEF RowAdded, Sid
      <3> QED  BY <2>4, <3>1, <3>2 DEF SendAsk, AppendConflict
    <2>5. CASE SendListAndReply(r)
      <3>1. /\ pc[r] = "list" /\ pc'[r] = "reply" /\ turn'[r] = turn[r]
            /\ history'[r] = Turns(Sid(r)) /\ call' = call /\ messages' = messages
        BY <2>5 DEF SendListAndReply, ListMessages, tables
      <3>2. Sid(r) \in SessionIds /\ turn[r] \in Nat
        BY <1>3, <1>5, <3>1 DEF SendSteps, Sid
      <3>3. PICK n \in Nat : Turns(Sid(r)) = 0 .. n - 1
        BY <3>2 DEF LogOK
      <3>4. turn[r] \in 0 .. n - 1
        BY <1>2, <1>5, <3>1, <3>3 DEF Sid, Turns
      <3>5. 0 .. turn[r] \subseteq Turns(Sid(r))
        BY <3>2, <3>3, <3>4
      <3> QED  BY <1>2, <1>5, <3>1, <3>5 DEF Sid, Turns
    <2>6. CASE \/ InitiateWelcome(r) \/ InitiateReceipt(r) \/ SendReply(r)
               \/ SendPromote(r) \/ TerminateUpdate(r)
      BY <1>5, <2>6 DEF InitiateWelcome, AfterWelcome, AppendConflict, InitiateReceipt,
            SendReply, AfterReply, SendPromote, TerminateUpdate
    <2>7. CASE StatementFails(r) \/ Lose(r)
      BY <1>5, <2>7 DEF StatementFails, Lose
    <2> QED  BY <2>1, <2>2, <2>3, <2>4, <2>5, <2>6, <2>7 DEF StepOf, HandlerStep
  <1> QED  BY <1>4, <1>5

(* Replies keep their place and their history: an old row and the row in   *)
(* front of it are untouched, and a new reply enters right behind its      *)
(* question with a history that is all of the log.                         *)
LEMMA RepliesStep ==
    ASSUME IInv, NEW r \in Requests, StepOf(r)
    PROVE  RepliesOK'
  <1> USE DEF IInv
  <1> DEFINE Good(m, t) ==
        m[t].role = "brand" =>
            /\ m[t].seen = 0 .. t - 1
            /\ t > 0 => t - 1 \in DOMAIN m /\ m[t-1] = HostRow(m[t].by)
  <1>1. \A s \in SessionIds : \A t \in Turns(s) : Good(messages[s], t)
    BY DEF RepliesOK, ReplyFollowsItsQuestion, ReplySawWholeLog, IsReply, Turns
  <1>2. SUFFICES \A s \in SessionIds : \A t \in DOMAIN messages'[s] : Good(messages'[s], t)
    BY DEF RepliesOK, ReplyFollowsItsQuestion, ReplySawWholeLog, IsReply, Turns
  <1>3. LogGrows
    BY LogGrowsStep
  <1>4. ASSUME NEW s \in SessionIds, NEW t \in Turns(s)
        PROVE  Good(messages'[s], t)
    BY <1>1, <1>3 DEF LogGrows, Turns
  <1>5. ASSUME NEW u \in Nat, NEW row, RowAdded(Sid(r), u, row), Good(messages'[Sid(r)], u)
        PROVE  \A s \in SessionIds : \A t \in DOMAIN messages'[s] : Good(messages'[s], t)
    BY <1>4, <1>5 DEF RowAdded, Turns
  <1>6. CASE messages' = messages
    BY <1>1, <1>6 DEF Turns
  <1>7. CASE pc[r] = "welcome" /\ RowAdded(Sid(r), 0, BrandRow(r, {}))
    <2>1. Good(messages'[Sid(r)], 0)
      BY <1>7 DEF RowAdded, BrandRow
    <2> QED  BY <1>5, <1>7, <2>1
  <1>8. CASE pc[r] = "ask" /\ RowAdded(Sid(r), turn[r], HostRow(r))
    <2>1. Good(messages'[Sid(r)], turn[r]) /\ turn[r] \in Nat
      BY <1>8 DEF RowAdded, HostRow, TypeOK
    <2> QED  BY <1>5, <1>8, <2>1
  <1>9. CASE pc[r] = "reply" /\ RowAdded(Sid(r), turn[r] + 1, BrandRow(r, history[r]))
    <2>1. turn[r] \in Nat /\ turn[r] \in Turns(Sid(r)) /\ Sid(r) \in SessionIds
      BY <1>9, SidType DEF PlaceOK, TypeOK, Running, SendSteps
    <2>2. messages'[Sid(r)][turn[r]] = HostRow(r)
      BY <1>9, <2>1 DEF PlaceOK, RowAdded
    <2>3. history[r] = 0 .. turn[r]
      BY <1>9, <2>1, PlaceIsNext DEF PlaceOK, RowAdded
    <2>4. Good(messages'[Sid(r)], turn[r] + 1)
      BY <1>9, <2>1, <2>2, <2>3 DEF RowAdded, BrandRow
    <2> QED  BY <1>5, <1>9, <2>1, <2>4
  <1> QED  BY <1>6, <1>7, <1>8, <1>9, StepOnLog

(* The invariant is inductive: shown for the call that moves, and for the  *)
(* places of all others in the log that it changed.                        *)
THEOREM NextIInv == IInv /\ [Next]_vars => IInv'
  <1> SUFFICES ASSUME IInv, [Next]_vars PROVE IInv'
    OBVIOUS
  <1>1. ASSUME NEW r \in Requests, StepOf(r)
        PROVE  IInv'
    BY <1>1, TypeStep, CallStep, LogStep, PlaceStep, RepliesStep DEF IInv
  <1>2. CASE UNCHANGED vars
    BY <1>2 DEF vars, tables, frame, IInv, TypeOK, StoreTypeOK, CallOK, LogOK, PlaceOK,
       RepliesOK, ReplyFollowsItsQuestion, ReplySawWholeLog, IsReply, Sid, Turns
  <1> QED  BY <1>1, <1>2, NextIsAStep

(* The invariant of the log holds in every behaviour.                      *)
THEOREM Inductive == Spec => []IInv
  BY InitIInv, NextIInv, PTL DEF Spec

-----------------------------------------------------------------------------
(* Every variable keeps its type.                                          *)
THEOREM Typing == Spec => []TypeOK
  <1>1. IInv => TypeOK
    BY DEF IInv
  <1> QED  BY <1>1, Inductive, PTL

(* Turns are numbered without a gap, whatever sends overlap or fail.       *)
THEOREM TurnsAreContiguous == Spec => []ContiguousTurns
  <1>1. IInv => ContiguousTurns
    <2> SUFFICES ASSUME IInv, NEW s \in SessionIds
                 PROVE  Turns(s) = 0 .. NextTurn(s) - 1
      BY DEF ContiguousTurns
    <2>1. PICK n \in Nat : Turns(s) = 0 .. n - 1
      BY DEF IInv, LogOK
    <2> QED  BY <2>1, NextTurnIsLength
  <1> QED  BY <1>1, Inductive, PTL

(* Every reply is right behind its own question.                           *)
THEOREM RepliesFollow == Spec => []ReplyFollowsItsQuestion
  <1>1. IInv => ReplyFollowsItsQuestion
    BY DEF IInv, RepliesOK
  <1> QED  BY <1>1, Inductive, PTL

(* Every reply was computed from all of the log before it.                 *)
THEOREM RepliesAreInformed == Spec => []ReplySawWholeLog
  <1>1. IInv => ReplySawWholeLog
    BY DEF IInv, RepliesOK
  <1> QED  BY <1>1, Inductive, PTL

(* No row is ever changed or removed.                                      *)
THEOREM LogIsPermanent == Spec => RowsArePermanent
  <1>1. IInv /\ [Next]_vars =>
          [\A s \in SessionIds : \A t \in Turns(s) :
              t \in Turns(s)' /\ messages'[s][t] = messages[s][t]]_vars
    BY NextIsAStep, LogGrowsStep DEF IInv, LogGrows, Turns
  <1> QED  BY <1>1, Inductive, PTL DEF Spec, RowsArePermanent

-----------------------------------------------------------------------------
(***************************************************************************)
(* Who wrote what.  A second invariant, on top of IInv, about the calls    *)
(* that rows and receipts name.                                            *)
(***************************************************************************)

(* A row is of a call on its session that is past the insert, and a host   *)
(* row or a reply is of a send, the welcome of an initiate.                *)
WritersOK ==
    \A s \in SessionIds : \A t \in Turns(s) :
        LET r == messages[s][t].by
        IN /\ call[r] \in Calls /\ call[r].sid = s
           /\ messages[s][t].role = "host" =>
                 call[r].op = "send" /\ pc[r] \in {"list", "reply", "promote", "done"}
           /\ messages[s][t].role = "brand" /\ t = 0 =>
                 call[r].op = "initiate" /\ pc[r] \in {"pre_receipt", "done"}
           /\ messages[s][t].role = "brand" /\ t # 0 =>
                 call[r].op = "send" /\ pc[r] \in {"promote", "done"}

Welcomed(r) == 0 \in Turns(Sid(r)) /\ messages[Sid(r)][0] = BrandRow(r, {})

Exchanged(r) ==
    \E t \in Turns(Sid(r)) : /\ messages[Sid(r)][t] = HostRow(r)
                             /\ t + 1 \in Turns(Sid(r))
                             /\ messages[Sid(r)][t+1].role = "brand"
                             /\ messages[Sid(r)][t+1].by = r

(* What a call has put on record by the time it is where it is.  Sends run *)
(* only in sessions that were announced, so the welcome is there, and the  *)
(* turn they read is not the first.                                        *)
RecordOK ==
    \A r \in Requests :
        /\ pc[r] = "pre_receipt" \/ (answer[r] = "ok" /\ call[r].op = "initiate")
              => Welcomed(r)
        /\ pc[r] = "promote" \/ (answer[r] = "ok" /\ call[r].op = "send")
              => Exchanged(r)
        /\ pc[r] \in SendSteps => 0 \in Turns(Sid(r))
        /\ pc[r] \in {"receipt", "ask"} => turn[r] > 0

(* A receipt is of a call on its session that is past filing it, and the   *)
(* turn it is on is the one before that call's own.                        *)
FiledOK ==
    \A s \in SessionIds : \A t \in DOMAIN receipts[s] :
        LET r == receipts[s][t]
        IN /\ call[r] \in Calls /\ call[r].sid = s
           /\ t = PreSession => call[r].op = "initiate"
           /\ t # PreSession =>
                 /\ t \in Turns(s) /\ call[r].op = "send"
                 /\ pc[r] \in {"ask", "list", "reply", "promote", "done"}
                 /\ pc[r] = "ask" => turn[r] = t + 1
                 /\ \A u \in Turns(s) : messages[s][u] = HostRow(r) => u = t + 1

SInv == IInv /\ WritersOK /\ RecordOK /\ FiledOK

(* Where a step of r leads from where r is.                                *)
LEMMA Moves ==
    ASSUME TypeOK, NEW r \in Requests, StepOf(r)
    PROVE  /\ pc[r] = "idle" => pc'[r] \in {"welcome", "next_turn", "terminate", "done"}
           /\ pc[r] = "welcome" => pc'[r] \in {"pre_receipt", "done"}
           /\ pc[r] = "next_turn" => pc'[r] \in {"receipt", "ask", "done"}
           /\ pc[r] = "receipt" => pc'[r] \in {"ask", "done"}
           /\ pc[r] = "ask" => pc'[r] \in {"list", "done"}
           /\ pc[r] = "list" => pc'[r] \in {"reply", "done"}
           /\ pc[r] = "reply" => pc'[r] \in {"promote", "done"}
           /\ pc[r] \in {"pre_receipt", "promote", "terminate"} => pc'[r] = "done"
           /\ pc[r] # "done"
  <1> USE DEF TypeOK, GoTo, Enter, Answer, AfterWrite, LastWrite, Arrive
  <1>1. CASE Arrival(r)
    BY <1>1 DEF Arrival, RejectParams, InitiateCreate, SendRefused, SendGetSession,
                TerminateRefused, TerminateGetSession
  <1>2. CASE HandlerStep(r)
    <2>1. CASE InitiateWelcome(r) \/ InitiateReceipt(r) \/ TerminateUpdate(r)
      BY <2>1 DEF InitiateWelcome, InitiateReceipt, TerminateUpdate, AfterWelcome,
                  AppendConflict
    <2>2. CASE SendNextTurn(r) \/ SendReceipt(r) \/ SendAsk(r)
      BY <2>2 DEF SendNextTurn, SendReceipt, SendAsk, AppendConflict
    <2>3. CASE SendListAndReply(r) \/ SendReply(r) \/ SendPromote(r)
      BY <2>3 DEF SendListAndReply, SendReply, SendPromote, AfterReply, AppendConflict
    <2> QED  BY <1>2, <2>1, <2>2, <2>3 DEF HandlerStep
  <1>3. CASE StatementFails(r) \/ Lose(r)
    BY <1>3 DEF StatementFails, Lose, Running, InitiateSteps, SendSteps
  <1> QED  BY <1>1, <1>2, <1>3 DEF StepOf

(* A call with parameters has arrived, and keeps them.                     *)
LEMMA CallStays ==
    ASSUME TypeOK, CallOK, NEW r \in Requests, StepOf(r),
           NEW q \in Requests, call[q] \in Calls
    PROVE  call'[q] = call[q] /\ pc[q] # "idle"
  <1>1. pc[q] # "idle"
    BY DEF CallOK, NoCall, Calls, Ops
  <1> QED  BY <1>1, StepIsLocal

(* Every row is still of a call that has passed the statement writing it.  *)
LEMMA WritersStep ==
    ASSUME SInv, NEW r \in Requests, StepOf(r)
    PROVE  WritersOK'
  <1> USE DEF SInv, IInv
  <1> DEFINE Written(s, t, row, q, c, p) ==
        /\ c \in Calls /\ c.sid = s
        /\ row.role = "host" => c.op = "send" /\ p \in {"list", "reply", "promote", "done"}
        /\ row.role = "brand" /\ t = 0 => c.op = "initiate" /\ p \in {"pre_receipt", "done"}
        /\ row.role = "brand" /\ t # 0 => c.op = "send" /\ p \in {"promote", "done"}
  <1>1. \A s \in SessionIds : \A t \in Turns(s) :
            LET q == messages[s][t].by
            IN  q \in Requests /\ Written(s, t, messages[s][t], q, call[q], pc[q])
    <2>1. \A s \in SessionIds : \A t \in Turns(s) : messages[s][t].by \in Requests
      BY DEF TypeOK, StoreTypeOK, IsTable, Turns, MessageRows
    <2> QED  BY <2>1 DEF WritersOK
  <1>2. SUFFICES \A s \in SessionIds : \A t \in DOMAIN messages'[s] :
            LET q == messages'[s][t].by
            IN  Written(s, t, messages'[s][t], q, call'[q], pc'[q])
    BY DEF WritersOK, Turns
  <1>3. LogGrows
    BY LogGrowsStep
  <1>4. ASSUME NEW s \in SessionIds, NEW t \in Turns(s)
        PROVE  LET q == messages'[s][t].by
               IN  Written(s, t, messages'[s][t], q, call'[q], pc'[q])
    <2> DEFINE q == messages[s][t].by
    <2>1. messages'[s][t] = messages[s][t]
      BY <1>3 DEF LogGrows
    <2>2. q \in Requests /\ Written(s, t, messages[s][t], q, call[q], pc[q])
      BY <1>1
    <2>3. call'[q] = call[q]
      BY <2>2, CallStays
    <2>4. pc'[q] = pc[q] \/ q = r
      BY <2>2, StepIsLocal
    <2> HIDE DEF q
    <2>5. Written(s, t, messages[s][t], q, call'[q], pc'[q])
      BY <2>2, <2>3, <2>4, Moves
    <2> QED  BY <2>1, <2>5 DEF q
  <1>5. ASSUME NEW u \in Nat, NEW row, RowAdded(Sid(r), u, row), row.by = r,
               Written(Sid(r), u, row, r, call'[r], pc'[r])
        PROVE  \A s \in SessionIds : \A t \in DOMAIN messages'[s] :
                  LET q == messages'[s][t].by
                  IN  Written(s, t, messages'[s][t], q, call'[q], pc'[q])
    BY <1>4, <1>5 DEF RowAdded, Turns
  <1>6. CASE messages' = messages
    BY <1>4, <1>6 DEF Turns
  <1>7. CASE pc[r] = "welcome" /\ RowAdded(Sid(r), 0, BrandRow(r, {}))
    <2>1. call[r] \in Calls /\ call[r].op = "initiate" /\ call' = call
      BY <1>7, StepIsLocal DEF CallOK, InitiateSteps
    <2>2. Written(Sid(r), 0, BrandRow(r, {}), r, call'[r], pc'[r]) /\ BrandRow(r, {}).by = r
      BY <1>7, <2>1, Moves DEF BrandRow, Sid
    <2> QED  BY <1>5, <1>7, <2>2
  <1>8. CASE pc[r] = "ask" /\ RowAdded(Sid(r), turn[r], HostRow(r))
    <2>1. call[r] \in Calls /\ call[r].op = "send" /\ call' = call /\ turn[r] \in Nat
      BY <1>8, StepIsLocal DEF CallOK, SendSteps, TypeOK
    <2>2. Written(Sid(r), turn[r], HostRow(r), r, call'[r], pc'[r]) /\ HostRow(r).by = r
      BY <1>8, <2>1, Moves DEF HostRow, Sid
    <2> QED  BY <1>5, <1>8, <2>1, <2>2
  <1>9. CASE pc[r] = "reply" /\ RowAdded(Sid(r), turn[r] + 1, BrandRow(r, history[r]))
    <2>1. call[r] \in Calls /\ call[r].op = "send" /\ call' = call /\ turn[r] \in Nat
      BY <1>9, StepIsLocal DEF CallOK, SendSteps, TypeOK
    <2>2. /\ Written(Sid(r), turn[r] + 1, BrandRow(r, history[r]), r, call'[r], pc'[r])
          /\ BrandRow(r, history[r]).by = r
      BY <1>9, <2>1, Moves DEF BrandRow, Sid
    <2> QED  BY <1>5, <1>9, <2>1, <2>2
  <1> QED  BY <1>6, <1>7, <1>8, <1>9, StepOnLog

(* What is on record stays there.                                          *)
LEMMA RecordStays ==
    ASSUME TypeOK, CallOK, LogGrows, NEW q \in Requests, Sid(q) \in SessionIds,
           call'[q] = call[q]
    PROVE  /\ Welcomed(q) => Welcomed(q)'
           /\ Exchanged(q) => Exchanged(q)'
           /\ 0 \in Turns(Sid(q)) => 0 \in Turns(Sid(q))'
  <1>1. Sid(q)' = Sid(q)
    BY DEF Sid
  <1>2. \A t \in Turns(Sid(q)) :
            t \in Turns(Sid(q))' /\ messages'[Sid(q)][t] = messages[Sid(q)][t]
    BY <1>1 DEF LogGrows, Turns
  <1>3. Welcomed(q) => Welcomed(q)'
    BY <1>1, <1>2 DEF Welcomed
  <1>4. ASSUME Exchanged(q) PROVE Exchanged(q)'
    <2>1. PICK t \in Turns(Sid(q)) : /\ messages[Sid(q)][t] = HostRow(q)
                                     /\ t + 1 \in Turns(Sid(q))
                                     /\ messages[Sid(q)][t+1].role = "brand"
                                     /\ messages[Sid(q)][t+1].by = q
      BY <1>4 DEF Exchanged
    <2>2. /\ t \in Turns(Sid(q))' /\ messages'[Sid(q)][t] = HostRow(q)
          /\ t + 1 \in Turns(Sid(q))'
          /\ messages'[Sid(q)][t+1].role = "brand" /\ messages'[Sid(q)][t+1].by = q
      BY <1>2, <2>1
    <2> QED  BY <1>1, <2>2 DEF Exchanged
  <1> QED  BY <1>1, <1>2, <1>3, <1>4

(* An answer "ok" is given once, at the end of what it is the answer to.   *)
LEMMA OkAtTheEnd ==
    ASSUME TypeOK, CallOK, NEW r \in Requests, StepOf(r), answer'[r] = "ok"
    PROVE  /\ call'[r].op = "initiate" =>
                 \/ pc[r] = "pre_receipt"
                 \/ pc[r] = "welcome" /\ RowAdded(Sid(r), 0, BrandRow(r, {}))
           /\ call'[r].op = "send" =>
                 \/ pc[r] = "promote"
                 \/ /\ pc[r] = "reply"
                    /\ RowAdded(Sid(r), turn[r] + 1, BrandRow(r, history[r]))
  <1>0. answer[r] # "ok"
    BY Moves DEF CallOK, NoAnswer
  <1> USE DEF TypeOK, GoTo, Enter, Answer, AfterWrite, LastWrite, Arrive
  <1>1. CASE Arrival(r)
    BY <1>0, <1>1 DEF Arrival, RejectParams, InitiateCreate, SendRefused, SendGetSession,
                TerminateRefused, TerminateGetSession
  <1>2. CASE InitiateWelcome(r)
    <2>1. pc[r] = "welcome" /\ Sid(r) \in SessionIds /\ call' = call /\ call[r].op = "initiate"
      BY <1>2, SidType DEF InitiateWelcome, Running, InitiateSteps, CallOK
    <2>2. InsertRow(r, 0, BrandRow(r, {}))
      BY <1>0, <1>2 DEF InitiateWelcome, AppendConflict
    <2> QED  BY <2>1, <2>2, InsertAddsRow, RowTypes
  <1>3. CASE SendReply(r)
    <2>1. /\ pc[r] = "reply" /\ Sid(r) \in SessionIds /\ call' = call /\ call[r].op = "send"
          /\ turn[r] \in Nat /\ history[r] \in SUBSET Nat
      BY <1>3, SidType DEF SendReply, Running, SendSteps, CallOK
    <2>2. InsertRow(r, turn[r] + 1, BrandRow(r, history[r]))
      BY <1>0, <1>3 DEF SendReply, AppendConflict, BrandTurn
    <2> QED  BY <2>1, <2>2, InsertAddsRow, RowTypes
  <1>4. CASE InitiateReceipt(r) \/ SendPromote(r) \/ TerminateUpdate(r)
    BY <1>0, <1>4 DEF InitiateReceipt, SendPromote, TerminateUpdate, CallOK,
                InitiateSteps, SendSteps
  <1>5. CASE SendNextTurn(r) \/ SendReceipt(r) \/ SendListAndReply(r) \/ SendAsk(r)
    BY <1>0, <1>5 DEF SendNextTurn, SendReceipt, SendListAndReply, SendAsk, AppendConflict
  <1>6. CASE StatementFails(r) \/ Lose(r)
    BY <1>0, <1>6 DEF StatementFails, Lose
  <1> QED  BY <1>1, <1>2, <1>3, <1>4, <1>5, <1>6 DEF StepOf, HandlerStep

(* What a call has on record by the time it is where it is stays there.    *)
LEMMA RecordStep ==
    ASSUME SInv, NEW r \in Requests, StepOf(r)
    PROVE  RecordOK'
  <1> USE DEF SInv, IInv
  <1>0. LogGrows
    BY LogGrowsStep
  <1>1. SUFFICES ASSUME NEW q \in Requests
                 PROVE  /\ \/ pc'[q] = "pre_receipt"
                           \/ answer'[q] = "ok" /\ call'[q].op = "initiate"
                           => Welcomed(q)'
                        /\ \/ pc'[q] = "promote"
                           \/ answer'[q] = "ok" /\ call'[q].op = "send"
                           => Exchanged(q)'
                        /\ pc'[q] \in SendSteps => 0 \in Turns(Sid(q))'
                        /\ pc'[q] \in {"receipt", "ask"} => turn'[q] > 0
    BY DEF RecordOK
  <1>2. call[q] \in Calls => Sid(q) \in SessionIds /\ call'[q] = call[q]
    BY CallStays DEF Calls, Sid
  <1>3. call[q] \notin Calls => call[q].op \notin {"initiate", "send"}
    BY DEF TypeOK, NoCall
  <1>4. CASE q # r
    <2>1. /\ pc'[q] = pc[q] /\ answer'[q] = answer[q] /\ turn'[q] = turn[q]
          /\ call'[q] = call[q]
      BY <1>4, StepIsLocal
    <2>2. pc[q] \in SendSteps \cup {"pre_receipt"} => call[q] \in Calls
      BY DEF CallOK, InitiateSteps
    <2>3. /\ Welcomed(q) /\ call[q] \in Calls => Welcomed(q)'
          /\ Exchanged(q) /\ call[q] \in Calls => Exchanged(q)'
          /\ 0 \in Turns(Sid(q)) /\ call[q] \in Calls => 0 \in Turns(Sid(q))'
      BY <1>0, <1>2, RecordStays
    <2> QED  BY <1>3, <2>1, <2>2, <2>3 DEF RecordOK, SendSteps
  <1>5. CASE q = r
    <2>1. ASSUME pc'[r] = "pre_receipt" \/ (answer'[r] = "ok" /\ call'[r].op = "initiate")
          PROVE  Welcomed(r)'
      <3>1. \/ pc[r] = "pre_receipt"
            \/ pc[r] = "welcome" /\ RowAdded(Sid(r), 0, BrandRow(r, {}))
        <4>1. CASE pc'[r] = "pre_receipt"
          <5>1. pc[r] = "welcome"
            BY <4>1, Moves DEF TypeOK, Running, InitiateSteps, SendSteps
          <5>2. InitiateWelcome(r) /\ InsertRow(r, 0, BrandRow(r, {}))
            BY <4>1, <5>1 DEF StepOf, Arrival, HandlerStep, RejectParams, InitiateCreate,
               SendRefused, SendGetSession, TerminateRefused, TerminateGetSession, Arrive,
               InitiateWelcome, InitiateReceipt, SendNextTurn, SendReceipt, SendAsk,
               SendListAndReply, SendReply, SendPromote, TerminateUpdate, StatementFails,
               Lose, Answer, AppendConflict, TypeOK
          <5> QED  BY <5>1, <5>2, InsertAddsRow, RowTypes, SidType
                   DEF Running, InitiateSteps
        <4>2. CASE answer'[r] = "ok" /\ call'[r].op = "initiate"
          BY <4>2, OkAtTheEnd
        <4> QED  BY <2>1, <4>1, <4>2
      <3>2. call[r] \in Calls
        BY <3>1 DEF CallOK, InitiateSteps
      <3>3. Sid(r) \in SessionIds /\ Sid(r)' = Sid(r)
        BY <1>2, <1>5, <3>2 DEF Sid
      <3>4. CASE pc[r] = "pre_receipt"
        BY <1>0, <1>2, <1>5, <3>2, <3>4, RecordStays DEF RecordOK
      <3>5. CASE RowAdded(Sid(r), 0, BrandRow(r, {}))
        BY <3>3, <3>5 DEF RowAdded, Welcomed, Turns
      <3> QED  BY <3>1, <3>4, <3>5
    <2>2. ASSUME pc'[r] = "promote" \/ (answer'[r] = "ok" /\ call'[r].op = "send")
          PROVE  Exchanged(r)'
      <3>1. \/ pc[r] = "promote"
            \/ pc[r] = "reply" /\ RowAdded(Sid(r), turn[r] + 1, BrandRow(r, history[r]))
        <4>1. CASE pc'[r] = "promote"
          <5>1. pc[r] = "reply"
            BY <4>1, Moves DEF TypeOK, Running, InitiateSteps, SendSteps
          <5>2. SendReply(r) /\ InsertRow(r, turn[r] + 1, BrandRow(r, history[r]))
            BY <4>1, <5>1 DEF StepOf, Arrival, HandlerStep, RejectParams, InitiateCreate,
               SendRefused, SendGetSession, TerminateRefused, TerminateGetSession, Arrive,
               InitiateWelcome, InitiateReceipt, SendNextTurn, SendReceipt, SendAsk,
               SendListAndReply, SendReply, SendPromote, TerminateUpdate, StatementFails,
               Lose, Answer, AppendConflict, TypeOK, BrandTurn
          <5>3. turn[r] \in Nat /\ history[r] \in SUBSET Nat
            BY DEF TypeOK
          <5> QED  BY <5>1, <5>2, <5>3, InsertAddsRow, RowTypes, SidType
                   DEF Running, SendSteps
        <4>2. CASE answer'[r] = "ok" /\ call'[r].op = "send"
          BY <4>2, OkAtTheEnd
        <4> QED  BY <2>2, <4>1, <4>2
      <3>2. call[r] \in Calls
        BY <3>1 DEF CallOK, SendSteps
      <3>3. Sid(r) \in SessionIds /\ Sid(r)' = Sid(r)
        BY <1>2, <1>5, <3>2 DEF Sid
      <3>4. CASE pc[r] = "promote"
        BY <1>0, <1>2, <1>5, <3>2, <3>4, RecordStays DEF RecordOK
      <3>5. CASE pc[r] = "reply" /\ RowAdded(Sid(r), turn[r] + 1, BrandRow(r, history[r]))
        <4>1. /\ turn[r] \in Turns(Sid(r))
              /\ messages[Sid(r)][turn[r]] = HostRow(r)
          BY <3>5 DEF PlaceOK
        <4> QED  BY <3>3, <3>5, <4>1 DEF RowAdded, Exchanged, Turns, BrandRow
      <3> QED  BY <3>1, <3>4, <3>5
    <2>3. ASSUME pc'[r] \in SendSteps
          PROVE  0 \in Turns(Sid(r))'
      <3>1. CASE pc[r] \in SendSteps
        <4>1. call[r] \in Calls
          BY <3>1 DEF CallOK
        <4> QED  BY <1>0, <1>2, <1>5, <3>1, <4>1, RecordStays DEF RecordOK
      <3>2. CASE pc[r] \notin SendSteps
        <4>1. pc[r] = "idle" /\ pc'[r] = "next_turn"
          BY <2>3, <3>2, Moves DEF TypeOK, Running, InitiateSteps, SendSteps
        <4>2. SendGetSession(r)
          BY <4>1 DEF StepOf, Arrival, HandlerStep, RejectParams, InitiateCreate,
             SendRefused, TerminateRefused, TerminateGetSession, Arrive, AfterWrite, GoTo,
             Enter, InitiateWelcome, InitiateReceipt, SendNextTurn, SendReceipt, SendAsk,
             SendListAndReply, SendReply, SendPromote, TerminateUpdate, StatementFails,
             Lose, Answer, TypeOK
        <4>3. PICK s \in SessionIds : /\ Reachable(s) /\ SendGate(s)
                                      /\ call'[r].sid = s
          BY <4>2 DEF SendGetSession, Arrive, TypeOK
        <4>4. PICK x \in Requests : /\ call[x] \in Calls /\ call[x].op = "initiate"
                                    /\ call[x].sid = s /\ answer[x] = "ok"
          BY <4>3 DEF Reachable, SendGate, Announced
        <4>5. 0 \in Turns(s)
          BY <4>4 DEF RecordOK, Welcomed, Sid
        <4> QED  BY <1>0, <4>3, <4>5 DEF LogGrows, Turns, Sid
      <3> QED  BY <3>1, <3>2
    <2>4. ASSUME pc'[r] \in {"receipt", "ask"}
          PROVE  turn'[r] > 0
      <3>1. pc[r] \in {"next_turn", "receipt"}
        BY <2>4, Moves DEF TypeOK, Running, InitiateSteps, SendSteps
      <3>2. CASE pc[r] = "receipt"
        <4>1. turn'[r] = turn[r]
          BY <2>4, <3>2 DEF StepOf, Arrival, HandlerStep, RejectParams, InitiateCreate,
             SendRefused, SendGetSession, TerminateRefused, TerminateGetSession, Arrive,
             InitiateWelcome, InitiateReceipt, SendNextTurn, SendReceipt, SendAsk, GoTo,
             SendListAndReply, SendReply, SendPromote, TerminateUpdate, StatementFails,
             Lose, Answer, Enter, frame, TypeOK
        <4> QED  BY <3>2, <4>1 DEF RecordOK
      <3>3. CASE pc[r] = "next_turn"
        <4>1. turn'[r] = NextTurn(Sid(r))
          BY <2>4, <3>3 DEF StepOf, Arrival, HandlerStep, RejectParams, InitiateCreate,
             SendRefused, SendGetSession, TerminateRefused, TerminateGetSession, Arrive,
             InitiateWelcome, InitiateReceipt, SendNextTurn, SendReceipt, SendAsk,
             SendListAndReply, SendReply, SendPromote, TerminateUpdate, StatementFails,
             Lose, Answer, TypeOK
        <4>2. 0 \in Turns(Sid(r)) /\ Sid(r) \in SessionIds
          BY <3>3, SidType DEF RecordOK, SendSteps, Running
        <4>3. PICK n \in Nat : Turns(Sid(r)) = 0 .. n - 1
          BY <4>2 DEF LogOK
        <4> QED  BY <4>1, <4>2, <4>3, NextTurnIsLength
      <3> QED  BY <3>1, <3>2, <3>3
    <2> QED  BY <1>5, <2>1, <2>2, <2>3, <2>4
  <1> QED  BY <1>4, <1>5

(* What a step of r does to the receipts: nothing, or its own receipt on   *)
(* the pre-session turn or the turn before the one r holds.                *)
LEMMA StepOnReceipts ==
    ASSUME SInv, NEW r \in Requests, StepOf(r)
    PROVE  \/ receipts' = receipts
           \/ \E t \in Turns(Sid(r)) \cup {PreSession} :
                 /\ t = PreSession => pc[r] = "pre_receipt"
                 /\ t # PreSession => /\ pc[r] = "receipt" /\ pc'[r] = "ask"
                                      /\ turn'[r] = t + 1
                 /\ Sid(r) \in SessionIds
                 /\ receipts' = [receipts EXCEPT ![Sid(r)] = Put(receipts[Sid(r)], t, r)]
  <1> USE DEF SInv, IInv
  <1>1. CASE InitiateReceipt(r)
    <2>1. pc[r] = "pre_receipt" /\ Sid(r) \in SessionIds /\ PersistReceipt(r, PreSession)
      BY <1>1, SidType DEF InitiateReceipt, Running, InitiateSteps
    <2> QED  BY <2>1 DEF PersistReceipt, SaveReceipt
  <1>2. CASE SendReceipt(r)
    <2>1. /\ pc[r] = "receipt" /\ Sid(r) \in SessionIds /\ turn[r] \in Nat
          /\ PersistReceipt(r, AckedTurn(turn[r])) /\ pc'[r] = "ask" /\ turn'[r] = turn[r]
      BY <1>2, SidType DEF SendReceipt, Running, SendSteps, GoTo, Enter, frame, TypeOK
    <2>2. turn[r] > 0
      BY <2>1 DEF RecordOK
    <2>3. AckedTurn(turn[r]) = turn[r] - 1 /\ turn[r] - 1 \in Nat
      BY <2>1, <2>2 DEF AckedTurn
    <2>4. turn[r] - 1 \in Turns(Sid(r)) /\ turn[r] - 1 # PreSession
      BY <2>1, <2>3 DEF PlaceOK, PreSession
    <2> QED  BY <2>1, <2>3, <2>4 DEF PersistReceipt, SaveReceipt
  <1>3. CASE receipts' = receipts
    BY <1>3
  <1>4. InitiateReceipt(r) \/ SendReceipt(r) \/ receipts' = receipts
    BY DEF StepOf, Arrival, HandlerStep, RejectParams, SendRefused, SendGetSession,
           TerminateRefused, TerminateGetSession, InitiateCreate, InitiateWelcome,
           SendNextTurn, SendAsk, SendListAndReply, SendReply, SendPromote,
           TerminateUpdate, StatementFails, Lose, tables
  <1> QED  BY <1>1, <1>2, <1>3, <1>4

(* Every receipt is still of a call that stored it, on the turn before the *)
(* one its call holds.                                                     *)
LEMMA FiledStep ==
    ASSUME SInv, NEW r \in Requests, StepOf(r)
    PROVE  FiledOK'
  <1> USE DEF SInv, IInv
  <1> DEFINE Filed(s, t, q, c, p, n, m) ==
        /\ c \in Calls /\ c.sid = s
        /\ t = PreSession => c.op = "initiate"
        /\ t # PreSession =>
              /\ t \in DOMAIN m /\ c.op = "send"
              /\ p \in {"ask", "list", "reply", "promote", "done"}
              /\ p = "ask" => n = t + 1
              /\ \A u \in DOMAIN m : m[u] = HostRow(q) => u = t + 1
  <1>1. \A s \in SessionIds : \A t \in DOMAIN receipts[s] :
            LET q == receipts[s][t]
            IN  /\ q \in Requests
                /\ Filed(s, t, q, call[q], pc[q], turn[q], messages[s])
    <2>1. \A s \in SessionIds : \A t \in DOMAIN receipts[s] : receipts[s][t] \in Requests
      BY DEF TypeOK, StoreTypeOK, IsTable
    <2> QED  BY <2>1 DEF FiledOK, Turns
  <1>2. SUFFICES ASSUME NEW s \in SessionIds, NEW t \in DOMAIN receipts'[s]
                 PROVE  LET q == receipts'[s][t]
                        IN  Filed(s, t, q, call'[q], pc'[q], turn'[q], messages'[s])
    BY DEF FiledOK, Turns
  <1>3. LogGrows
    BY LogGrowsStep
  <1>4. \A x \in SessionIds : \A u \in DOMAIN messages'[x] :
            \/ u \in DOMAIN messages[x] /\ messages'[x][u] = messages[x][u]
            \/ /\ pc[r] = "ask" /\ x = Sid(r) /\ u = turn[r]
               /\ messages'[x][u] = HostRow(r)
            \/ messages'[x][u].role = "brand"
    <2>1. ASSUME NEW n, NEW row, RowAdded(Sid(r), n, row)
          PROVE  \A x \in SessionIds : \A u \in DOMAIN messages'[x] :
                    \/ u \in DOMAIN messages[x] /\ messages'[x][u] = messages[x][u]
                    \/ x = Sid(r) /\ u = n /\ messages'[x][u] = row
      BY <2>1 DEF RowAdded, Turns
    <2>2. CASE messages' = messages
      BY <2>2
    <2>3. CASE pc[r] = "welcome" /\ RowAdded(Sid(r), 0, BrandRow(r, {}))
      BY <2>1, <2>3 DEF BrandRow
    <2>4. CASE pc[r] = "ask" /\ RowAdded(Sid(r), turn[r], HostRow(r))
      BY <2>1, <2>4
    <2>5. CASE pc[r] = "reply" /\ RowAdded(Sid(r), turn[r] + 1, BrandRow(r, history[r]))
      BY <2>1, <2>5 DEF BrandRow
    <2> QED  BY <2>2, <2>3, <2>4, <2>5, StepOnLog
  <1>5. \A q \in Requests : HostRow(q) = HostRow(r) => q = r
    BY DEF HostRow
  <1>6. \A q \in Requests : HostRow(q).role = "host"
    BY DEF HostRow
  <1>7. ASSUME t \in DOMAIN receipts[s], receipts'[s][t] = receipts[s][t]
        PROVE  LET q == receipts[s][t]
               IN  Filed(s, t, q, call'[q], pc'[q], turn'[q], messages'[s])
    <2> DEFINE q == receipts[s][t]
    <2>1. q \in Requests /\ Filed(s, t, q, call[q], pc[q], turn[q], messages[s])
      BY <1>1, <1>7
    <2> HIDE DEF q
    <2>2. call'[q] = call[q]
      BY <2>1, CallStays
    <2>3. CASE t = PreSession
      BY <2>1, <2>2, <2>3 DEF q
    <2>4. CASE t # PreSession
      <3>1. t \in DOMAIN messages'[s]
        BY <1>3, <2>1, <2>4 DEF LogGrows, Turns
      <3>2. /\ pc'[q] \in {"ask", "list", "reply", "promote", "done"}
            /\ pc'[q] = "ask" => turn'[q] = t + 1
        <4>1. CASE q = r
          BY <2>1, <2>4, <4>1, Moves
        <4>2. CASE q # r
          <5>1. pc'[q] = pc[q] /\ turn'[q] = turn[q]
            BY <2>1, <4>2, StepIsLocal
          <5> QED  BY <2>1, <2>4, <5>1
        <4> QED  BY <4>1, <4>2
      <3>3. \A u \in DOMAIN messages'[s] : messages'[s][u] = HostRow(q) => u = t + 1
        BY <1>4, <1>5, <1>6, <2>1, <2>4
      <3> QED  BY <2>1, <2>2, <2>4, <3>1, <3>2, <3>3 DEF q
    <2> QED  BY <2>3, <2>4
  <1>8. CASE receipts' = receipts
    BY <1>7, <1>8
  <1>9. CASE receipts' # receipts
    <2>1. PICK n \in Turns(Sid(r)) \cup {PreSession} :
             /\ n = PreSession => pc[r] = "pre_receipt"
             /\ n # PreSession => pc[r] = "receipt" /\ pc'[r] = "ask" /\ turn'[r] = n + 1
             /\ Sid(r) \in SessionIds
             /\ receipts' = [receipts EXCEPT ![Sid(r)] = Put(receipts[Sid(r)], n, r)]
      BY <1>9, StepOnReceipts
    <2>2. DOMAIN receipts = SessionIds
      BY DEF TypeOK, StoreTypeOK
    <2>3. \/ t \in DOMAIN receipts[s] /\ receipts'[s][t] = receipts[s][t]
          \/ s = Sid(r) /\ t = n /\ receipts'[s][t] = r
      BY <2>1, <2>2 DEF Put
    <2>4. CASE t \in DOMAIN receipts[s] /\ receipts'[s][t] = receipts[s][t]
      BY <1>7, <2>4
    <2>5. CASE s = Sid(r) /\ t = n /\ receipts'[s][t] = r
      <3>1. call[r] \in Calls /\ call' = call /\ call[r].sid = s
        BY <2>1, <2>5, StepIsLocal DEF CallOK, InitiateSteps, SendSteps, Sid
      <3>2. CASE n = PreSession
        BY <2>1, <2>5, <3>1, <3>2 DEF CallOK, InitiateSteps
      <3>3. CASE n # PreSession
        <4>1. pc[r] = "receipt" /\ pc'[r] = "ask" /\ turn'[r] = n + 1 /\ n \in Turns(s)
          BY <2>1, <2>5, <3>3
        <4>2. call[r].op = "send"
          BY <4>1 DEF CallOK, SendSteps
        <4>3. n \in DOMAIN messages'[s]
          BY <1>3, <4>1 DEF LogGrows, Turns
        <4>4. \A u \in Turns(s) : messages[s][u] # HostRow(r)
          BY <4>1 DEF WritersOK, HostRow
        <4>5. \A u \in DOMAIN messages'[s] : messages'[s][u] # HostRow(r)
          BY <1>4, <1>6, <4>1, <4>4 DEF Turns
        <4> QED  BY <2>5, <3>1, <3>3, <4>1, <4>2, <4>3, <4>5
      <3> QED  BY <3>2, <3>3
    <2> QED  BY <2>3, <2>4, <2>5
  <1> QED  BY <1>8, <1>9

(* Nothing was written by anyone in the empty store.                       *)
THEOREM InitSInv == Init => SInv
  <1> SUFFICES ASSUME Init PROVE SInv
    OBVIOUS
  <1>1. \A s \in SessionIds : Turns(s) = {} /\ DOMAIN receipts[s] = {}
    BY DEF Init, StoreInit, Turns, Empty
  <1>2. WritersOK /\ FiledOK
    BY <1>1 DEF WritersOK, FiledOK
  <1>3. RecordOK
    BY DEF Init, RecordOK, SendSteps, NoAnswer
  <1> QED  BY <1>2, <1>3, InitIInv DEF SInv

(* Who wrote what, together with the log, is inductive.                    *)
THEOREM NextSInv == SInv /\ [Next]_vars => SInv'
  <1> SUFFICES ASSUME SInv, [Next]_vars PROVE SInv'
    OBVIOUS
  <1>1. IInv'
    BY NextIInv DEF SInv
  <1>2. ASSUME NEW r \in Requests, StepOf(r)
        PROVE  WritersOK' /\ RecordOK' /\ FiledOK'
    BY <1>2, WritersStep, RecordStep, FiledStep
  <1>3. CASE UNCHANGED vars
    <2>1. WritersOK /\ RecordOK /\ FiledOK
      BY DEF SInv
    <2>2. WritersOK'
      BY <1>3, <2>1 DEF vars, tables, WritersOK, Turns
    <2>3. RecordOK'
      BY <1>3, <2>1 DEF vars, tables, frame, RecordOK, Welcomed, Exchanged, Sid, Turns
    <2>4. FiledOK'
      BY <1>3, <2>1 DEF vars, tables, frame, FiledOK, Turns
    <2> QED  BY <1>1, <2>2, <2>3, <2>4 DEF SInv
  <1> QED  BY <1>1, <1>2, <1>3, NextIsAStep DEF SInv

(* The invariant of rows, receipts and their writers always holds.         *)
THEOREM SInductive == Spec => []SInv
  BY InitSInv, NextSInv, PTL DEF Spec

-----------------------------------------------------------------------------
(* A handoff has a cause: only SendPromote writes that status, and its     *)
(* call has put a buying question and the reply to it on record.           *)
LEMMA HandoffStep ==
    ASSUME SInv, HandoffHasCause, [Next]_vars
    PROVE  HandoffHasCause'
  <1> USE DEF SInv, IInv
  <1> DEFINE Cause(s) == \E t \in Turns(s) : IsReply(s, t) /\ call[messages[s][t].by].buy
  <1>1. ASSUME UNCHANGED vars PROVE HandoffHasCause'
    BY <1>1 DEF vars, tables, HandoffHasCause, IsReply, Turns
  <1>2. ASSUME NEW r \in Requests, StepOf(r), NEW s \in SessionIds, Cause(s)
        PROVE  Cause(s)'
    <2>1. PICK t \in Turns(s) : IsReply(s, t) /\ call[messages[s][t].by].buy
      BY <1>2
    <2>2. t \in Turns(s)' /\ messages'[s][t] = messages[s][t]
      BY <1>2, LogGrowsStep DEF LogGrows, Turns
    <2>3. messages[s][t].by \in Requests
      BY DEF TypeOK, StoreTypeOK, IsTable, Turns, MessageRows
    <2>4. call'[messages[s][t].by] = call[messages[s][t].by]
      BY <1>2, <2>3, CallStays DEF WritersOK
    <2> QED  BY <2>1, <2>2, <2>4 DEF IsReply
  <1>3. ASSUME NEW r \in Requests, StepOf(r), NEW s \in SessionIds,
               sessions'[s] = "pending_handoff", sessions[s] # "pending_handoff"
        PROVE  Cause(s)
    <2>1. SendPromote(r)
      <3>1. CASE Arrival(r)
        BY <1>3, <3>1 DEF Arrival, RejectParams, InitiateCreate, SendRefused,
           SendGetSession, TerminateRefused, TerminateGetSession, CreateSession, tables,
           TypeOK, StoreTypeOK
      <3>2. CASE HandlerStep(r)
        BY <1>3, <3>2 DEF HandlerStep, InitiateWelcome, InitiateReceipt, SendNextTurn,
           SendReceipt, SendAsk, SendListAndReply, SendReply, TerminateUpdate,
           UpdateSessionStatus, tables, TypeOK, StoreTypeOK
      <3>3. CASE StatementFails(r) \/ Lose(r)
        BY <1>3, <3>3 DEF StatementFails, Lose, tables
      <3> QED  BY <1>3, <3>1, <3>2, <3>3 DEF StepOf
    <2>2. pc[r] = "promote" /\ s = Sid(r) /\ ReplyStatus(r) = "pending_handoff"
      BY <1>3, <2>1 DEF SendPromote, UpdateSessionStatus, TypeOK, StoreTypeOK
    <2>3. call[r].buy
      BY <2>2 DEF ReplyStatus
    <2>4. PICK t \in Turns(s) : /\ t + 1 \in Turns(s)
                                /\ messages[s][t+1].role = "brand"
                                /\ messages[s][t+1].by = r
      BY <2>2 DEF RecordOK, Exchanged
    <2>5. t \in Nat
      BY DEF TypeOK, StoreTypeOK, IsTable, Turns
    <2>6. IsReply(s, t + 1)
      BY <2>4, <2>5 DEF IsReply
    <2> QED  BY <2>3, <2>4, <2>6
  <1>4. ASSUME NEW r \in Requests, StepOf(r), NEW s \in SessionIds,
               sessions'[s] = "pending_handoff"
        PROVE  Cause(s)'
    BY <1>2, <1>3, <1>4 DEF HandoffHasCause
  <1>5. ASSUME NEW r \in Requests, StepOf(r) PROVE HandoffHasCause'
    BY <1>4, <1>5 DEF HandoffHasCause
  <1> QED  BY <1>1, <1>5, NextIsAStep

(* A call adds its host row when it is past no insert, and its brand row   *)
(* likewise: there is no second one.                                       *)
LEMMA ExchangeStep ==
    ASSUME SInv, OneExchangePerCall, [Next]_vars
    PROVE  OneExchangePerCall'
  <1> USE DEF SInv, IInv
  <1> DEFINE Same(a, b) == a.by = b.by /\ a.role = b.role
  <1>1. ASSUME UNCHANGED vars PROVE OneExchangePerCall'
    BY <1>1 DEF vars, tables, OneExchangePerCall, Turns
  <1>2. ASSUME NEW r \in Requests, NEW n, NEW row, RowAdded(Sid(r), n, row),
               \A x \in SessionIds : \A t \in Turns(x) : ~Same(messages[x][t], row)
        PROVE  OneExchangePerCall'
    <2>1. \A x \in SessionIds : \A t \in DOMAIN messages'[x] :
             \/ t \in Turns(x) /\ messages'[x][t] = messages[x][t]
             \/ x = Sid(r) /\ t = n /\ messages'[x][t] = row
      BY <1>2 DEF RowAdded, Turns
    <2>2. SUFFICES ASSUME NEW x \in SessionIds, NEW y \in SessionIds,
                          NEW t \in DOMAIN messages'[x], NEW u \in DOMAIN messages'[y],
                          Same(messages'[x][t], messages'[y][u])
                   PROVE  x = y /\ t = u
      BY DEF OneExchangePerCall, Turns
    <2> QED  BY <1>2, <2>1, <2>2 DEF OneExchangePerCall
  <1>3. ASSUME NEW r \in Requests, StepOf(r) PROVE OneExchangePerCall'
    <2>1. CASE messages' = messages
      BY <2>1 DEF OneExchangePerCall, Turns
    <2>2. CASE pc[r] = "welcome" /\ RowAdded(Sid(r), 0, BrandRow(r, {}))
      <3>1. \A x \in SessionIds : \A t \in Turns(x) : ~Same(messages[x][t], BrandRow(r, {}))
        BY <2>2 DEF WritersOK, BrandRow
      <3> QED  BY <1>2, <2>2, <3>1
    <2>3. CASE pc[r] = "ask" /\ RowAdded(Sid(r), turn[r], HostRow(r))
      <3>1. \A x \in SessionIds : \A t \in Turns(x) : ~Same(messages[x][t], HostRow(r))
        BY <2>3 DEF WritersOK, HostRow
      <3> QED  BY <1>2, <2>3, <3>1
    <2>4. CASE pc[r] = "reply" /\ RowAdded(Sid(r), turn[r] + 1, BrandRow(r, history[r]))
      <3>1. \A x \in SessionIds : \A t \in Turns(x) :
                ~Same(messages[x][t], BrandRow(r, history[r]))
        BY <2>4 DEF WritersOK, BrandRow
      <3> QED  BY <1>2, <2>4, <3>1
    <2> QED  BY <1>3, <2>1, <2>2, <2>3, <2>4, StepOnLog
  <1> QED  BY <1>1, <1>3, NextIsAStep

(* No send is past its check on a terminated session, and none gets there: *)
(* nobody is left to write another status.                                 *)
LEMMA QuietStep ==
    ASSUME SInv, [Next]_vars, NEW s \in SessionIds,
           sessions[s] = "terminated", InFlight(s) = {}
    PROVE  sessions'[s] = "terminated" /\ InFlight(s)' = {}
  <1> USE DEF SInv, IInv
  <1>1. CASE UNCHANGED vars
    BY <1>1 DEF vars, tables, InFlight
  <1>2. ASSUME NEW r \in Requests, StepOf(r)
        PROVE  sessions'[s] = "terminated" /\ InFlight(s)' = {}
    <2>1. sessions'[s] = "terminated"
      <3>1. CASE Arrival(r)
        BY <3>1 DEF Arrival, RejectParams, InitiateCreate, SendRefused, NoRow,
           SendGetSession, TerminateRefused, TerminateGetSession, CreateSession, tables,
           TypeOK, StoreTypeOK
      <3>2. CASE SendPromote(r)
        <4>1. s # Sid(r)
          BY <3>2 DEF InFlight, SendPromote, SendSteps, Sid
        <4> QED  BY <3>2, <4>1 DEF SendPromote, UpdateSessionStatus, TypeOK, StoreTypeOK
      <3>3. CASE HandlerStep(r) /\ ~SendPromote(r)
        BY <3>3 DEF HandlerStep, InitiateWelcome, InitiateReceipt, SendNextTurn,
           SendReceipt, SendAsk, SendListAndReply, SendReply, TerminateUpdate,
           UpdateSessionStatus, tables, TypeOK, StoreTypeOK
      <3>4. CASE StatementFails(r) \/ Lose(r)
        BY <3>4 DEF StatementFails, Lose, tables
      <3> QED  BY <1>2, <3>1, <3>2, <3>3, <3>4 DEF StepOf
    <2>2. ASSUME pc'[r] \in SendSteps, call'[r].sid = s
          PROVE  FALSE
      <3>1. pc[r] = "idle"
        <4>1. pc[r] \notin SendSteps \/ call[r].sid # s
          BY DEF InFlight
        <4> QED  BY <1>2, <2>2, <4>1, Moves, StepIsLocal
                 DEF TypeOK, Running, InitiateSteps, SendSteps
      <3>2. pc'[r] = "next_turn"
        BY <1>2, <2>2, <3>1, Moves DEF SendSteps
      <3>3. SendGetSession(r)
        BY <1>2, <3>1, <3>2 DEF StepOf, Arrival, HandlerStep, RejectParams, InitiateCreate,
           SendRefused, TerminateRefused, TerminateGetSession, Arrive, AfterWrite, GoTo,
           Enter, InitiateWelcome, InitiateReceipt, SendNextTurn, SendReceipt, SendAsk,
           SendListAndReply, SendReply, SendPromote, TerminateUpdate, StatementFails,
           Lose, Answer, TypeOK
      <3>4. SendGate(call'[r].sid)
        BY <3>3 DEF SendGetSession, Arrive, TypeOK
      <3> QED  BY <2>2, <3>4 DEF SendGate
    <2>3. InFlight(s)' = {}
      BY <1>2, <2>2, StepIsLocal DEF InFlight
    <2> QED  BY <2>1, <2>3
  <1> QED  BY <1>1, <1>2, NextIsAStep

-----------------------------------------------------------------------------
(* A call answered without an error left its rows behind.                  *)
THEOREM AnswersAreRecorded == Spec => []AnsweredIsRecorded
  <1>1. SInv => AnsweredIsRecorded
    BY DEF SInv, RecordOK, AnsweredIsRecorded, Welcomed, Exchanged
  <1> QED  BY <1>1, SInductive, PTL

(* A receipt is on the turn before the host turn that carried it.          *)
THEOREM ReceiptsPrecedeCarriers == Spec => []ReceiptBeforeItsCarrier
  <1>1. SInv => ReceiptBeforeItsCarrier
    <2> SUFFICES ASSUME SInv, NEW s \in SessionIds, NEW t \in DOMAIN receipts[s],
                        NEW u \in Turns(s), messages[s][u] = HostRow(receipts[s][t])
                 PROVE  u = t + 1
      BY DEF ReceiptBeforeItsCarrier
    <2>1. t # PreSession
      <3>1. call[receipts[s][t]].op = "send"
        BY DEF SInv, WritersOK, HostRow
      <3> QED  BY <3>1 DEF SInv, FiledOK
    <2> QED  BY <2>1 DEF SInv, FiledOK
  <1> QED  BY <1>1, SInductive, PTL

(* A receipt is on a turn of the log, or came with the session's initiate. *)
THEOREM ReceiptsPointAtMessages == Spec => []ReceiptPointsAtMessage
  <1>1. SInv => ReceiptPointsAtMessage
    BY DEF SInv, FiledOK, ReceiptPointsAtMessage
  <1> QED  BY <1>1, SInductive, PTL

(* pending_handoff has a reply in the log that flagged it.                 *)
THEOREM HandoffsHaveCauses == Spec => []HandoffHasCause
  <1>1. Init => HandoffHasCause
    BY DEF Init, StoreInit, HandoffHasCause, NoRow
  <1> QED  BY <1>1, HandoffStep, SInductive, PTL DEF Spec

(* A call has one question and one answer in all logs together.            *)
THEOREM ExchangesAreSingle == Spec => []OneExchangePerCall
  <1>1. Init => OneExchangePerCall
    BY DEF Init, StoreInit, OneExchangePerCall, Turns, Empty
  <1> QED  BY <1>1, ExchangeStep, SInductive, PTL DEF Spec

(* A termination with no send in flight is final.                          *)
THEOREM QuietTerminationsAreFinal == Spec => QuietTerminationIsFinal
  <1>1. SInv /\ [Next]_vars =>
          [\A s \in SessionIds :
              sessions[s] = "terminated" /\ InFlight(s) = {}
              => sessions'[s] = "terminated" /\ InFlight(s)' = {}]_vars
    BY QuietStep
  <1> QED  BY <1>1, SInductive, PTL DEF Spec, QuietTerminationIsFinal

-----------------------------------------------------------------------------
(***************************************************************************)
(* SessionHandlers implements TurnLog.                                     *)
(***************************************************************************)
Entries == [kind : {"welcome", "question", "reply"}, by : Requests, read : Nat]

(* A row is read as an entry of the abstract log.                          *)
LEMMA EntryType ==
    ASSUME NEW t \in Nat, NEW row \in MessageRows
    PROVE  Entry(t, row) \in Entries
  BY DEF Entry, Entries, MessageRows

(* A function one longer than another, with e in the last place.           *)
LEMMA AppendByPlaces ==
    ASSUME NEW S, NEW n \in Nat, NEW e \in S, NEW f \in [1 .. n -> S],
           NEW g \in [1 .. n + 1 -> S], g[n + 1] = e, \A i \in 1 .. n : g[i] = f[i]
    PROVE  Len(f) = n /\ g = Append(f, e)
  <1>1. f \in Seq(S) /\ Len(f) = n
    OBVIOUS
  <1>2. /\ Append(f, e) \in Seq(S) /\ Len(Append(f, e)) = n + 1
        /\ Append(f, e)[n + 1] = e /\ \A i \in 1 .. n : Append(f, e)[i] = f[i]
    BY <1>1
  <1>3. g \in Seq(S) /\ Len(g) = n + 1
    OBVIOUS
  <1>4. \A i \in 1 .. n + 1 : g[i] = Append(f, e)[i]
    BY <1>2
  <1> QED  BY <1>1, <1>2, <1>3, <1>4

(* The rows of s are its log, place by place.                              *)
LEMMA LogByPlaces ==
    ASSUME TypeOK, NEW s \in SessionIds, NEW n \in Nat, Turns(s) = 0 .. n - 1
    PROVE  /\ LogOf(s) \in [1 .. n -> Entries] /\ Len(LogOf(s)) = n
           /\ \A i \in 1 .. n : LogOf(s)[i] = Entry(i - 1, messages[s][i - 1])
  <1>1. LogOf(s) = [i \in 1 .. n |-> Entry(i - 1, messages[s][i - 1])]
    BY NextTurnIsLength DEF LogOf
  <1>2. \A i \in 1 .. n : Entry(i - 1, messages[s][i - 1]) \in Entries
    <2> SUFFICES ASSUME NEW i \in 1 .. n
                 PROVE  Entry(i - 1, messages[s][i - 1]) \in Entries
      OBVIOUS
    <2>1. i - 1 \in Nat /\ i - 1 \in Turns(s)
      OBVIOUS
    <2>2. messages[s][i - 1] \in MessageRows
      BY <2>1 DEF TypeOK, StoreTypeOK, IsTable, Turns
    <2> QED  BY <2>1, <2>2, EntryType
  <1>3. LogOf(s) \in [1 .. n -> Entries]
    BY <1>1, <1>2
  <1>4. Len(LogOf(s)) = n
    BY <1>1
  <1> QED  BY <1>1, <1>3, <1>4

(* A row that enters the table behind the last one is an entry appended.   *)
LEMMA RowExtendsLog ==
    ASSUME TypeOK, NEW s \in SessionIds, NEW t \in Nat, NEW row \in MessageRows,
           RowAdded(s, t, row), Turns(s) = 0 .. t - 1
    PROVE  Log!Extend(s, Entry(t, row))
  <1>1. /\ LogOf(s) \in [1 .. t -> Entries]
        /\ \A i \in 1 .. t : LogOf(s)[i] = Entry(i - 1, messages[s][i - 1])
    BY LogByPlaces
  <1>2. Turns(s)' = 0 .. (t + 1) - 1
    BY DEF RowAdded, Turns
  <1>3. NextTurn(s)' = t + 1
    <2> DEFINE T == DOMAIN messages'[s]
    <2>1. T = 0 .. (t + 1) - 1
      BY <1>2 DEF Turns
    <2> HIDE DEF T
    <2>2. TurnAfter(T) = t + 1
      BY <2>1, LengthOfTurns
    <2> QED  BY <2>2, Zenon DEF NextTurn, TurnAfter, Turns, T
  <1>4. LogOf(s)' = [i \in 1 .. t + 1 |-> Entry(i - 1, messages'[s][i - 1])]
    BY <1>3 DEF LogOf, Entry
  <1>5. \A i \in 1 .. t : Entry(i - 1, messages'[s][i - 1]) = LogOf(s)[i]
    <2> SUFFICES ASSUME NEW i \in 1 .. t
                 PROVE  Entry(i - 1, messages'[s][i - 1]) = LogOf(s)[i]
      OBVIOUS
    <2>1. i - 1 \in Turns(s)
      OBVIOUS
    <2> QED  BY <1>1, <2>1 DEF RowAdded
  <1>6. Entry((t + 1) - 1, messages'[s][(t + 1) - 1]) = Entry(t, row)
    BY DEF RowAdded
  <1>7. Entry(t, row) \in Entries
    BY EntryType
  <1>8. /\ LogOf(s)' \in [1 .. t + 1 -> Entries]
        /\ LogOf(s)'[t + 1] = Entry(t, row)
        /\ \A i \in 1 .. t : LogOf(s)'[i] = LogOf(s)[i]
    <2> DEFINE after == LogOf(s)'
               place(i) == Entry(i - 1, messages'[s][i - 1])
    <2>1. after = [i \in 1 .. t + 1 |-> place(i)]
      BY <1>4
    <2>2. \A i \in 1 .. t : place(i) = LogOf(s)[i] /\ place(i) \in Entries
      BY <1>1, <1>5
    <2>3. place(t + 1) = Entry(t, row) /\ place(t + 1) \in Entries
      BY <1>6, <1>7
    <2> HIDE DEF after, place
    <2>4. \A i \in 1 .. t + 1 : place(i) \in Entries
      BY <2>2, <2>3
    <2>5. /\ after \in [1 .. t + 1 -> Entries] /\ after[t + 1] = Entry(t, row)
          /\ \A i \in 1 .. t : after[i] = LogOf(s)[i]
      BY <2>1, <2>2, <2>3, <2>4
    <2> QED  BY <2>5 DEF after
  <1>9. LogOf(s)' = Append(LogOf(s), Entry(t, row))
    BY <1>1, <1>7, <1>8, AppendByPlaces
  <1>10. \A x \in SessionIds \ {s} : LogOf(x)' = LogOf(x)
    <2> SUFFICES ASSUME NEW x \in SessionIds \ {s} PROVE LogOf(x)' = LogOf(x)
      OBVIOUS
    <2>1. messages'[x] = messages[x]
      BY DEF RowAdded
    <2> QED  BY <2>1 DEF LogOf, NextTurn, Turns, Entry
  <1> QED  BY <1>9, <1>10 DEF Log!Extend

(* A step of a call is a step of TurnLog, or does not show in it.          *)
LEMMA RefinesStep ==
    ASSUME SInv, NEW r \in Requests, StepOf(r)
    PROVE  Log!Next \/ UNCHANGED [s \in SessionIds |-> LogOf(s)]
  <1> USE DEF SInv, IInv
  <1>1. CASE messages' = messages
    BY <1>1 DEF LogOf, NextTurn, Turns, Entry
  <1>2. CASE pc[r] = "welcome" /\ RowAdded(Sid(r), 0, BrandRow(r, {}))
    <2> DEFINE s == Sid(r)
    <2>1. s \in SessionIds /\ BrandRow(r, {}) \in MessageRows
      BY <1>2, SidType, RowTypes DEF Running, InitiateSteps
    <2>2. Turns(s) = 0 .. 0 - 1
      BY <1>2, PlaceIsNext DEF RowAdded
    <2>3. LogOf(s) = << >>
      <3>1. Turns(s) = {}
        BY <2>2
      <3>2. NextTurn(s) = 0
        BY <3>1 DEF NextTurn
      <3> QED  BY <3>2 DEF LogOf
    <2>4. Entry(0, BrandRow(r, {})) = Log!Welcome(r)
      BY DEF Entry, BrandRow, Log!Welcome
    <2>5. Log!Extend(s, Log!Welcome(r))
      BY <1>2, <2>1, <2>2, <2>4, RowExtendsLog
    <2>6. Log!Open(s, r)
      BY <2>1, <2>3, <2>5 DEF Log!Open
    <2> QED  BY <2>1, <2>6 DEF Log!Next
  <1>3. CASE pc[r] = "ask" /\ RowAdded(Sid(r), turn[r], HostRow(r))
    <2> DEFINE s == Sid(r)
               t == turn[r]
    <2>1. s \in SessionIds /\ t \in Nat /\ t > 0 /\ HostRow(r) \in MessageRows
      BY <1>3, SidType, RowTypes DEF Running, SendSteps, TypeOK, RecordOK
    <2>2. Turns(s) = 0 .. t - 1
      BY <1>3, PlaceIsNext DEF RowAdded
    <2>3. LogOf(s) # << >>
      BY <2>1, <2>2, LogByPlaces
    <2>4. ~Log!Asked(r)
      <3> SUFFICES ASSUME NEW x \in SessionIds, NEW i \in 1 .. Len(LogOf(x)),
                          LogOf(x)[i] = Log!Question(r)
                   PROVE  FALSE
        BY DEF Log!Asked
      <3>1. PICK n \in Nat : Turns(x) = 0 .. n - 1
        BY DEF LogOK
      <3>2. i \in 1 .. n /\ LogOf(x)[i] = Entry(i - 1, messages[x][i - 1])
        BY <3>1, LogByPlaces
      <3>3. i - 1 \in Turns(x)
        BY <3>1, <3>2
      <3>4. messages[x][i - 1].role = "host" /\ messages[x][i - 1].by = r
        BY <3>2 DEF Entry, Log!Question
      <3>5. pc[r] # "ask"
        BY <3>3, <3>4 DEF WritersOK
      <3> QED  BY <1>3, <3>5
    <2>5. Entry(t, HostRow(r)) = Log!Question(r)
      BY DEF Entry, HostRow, Log!Question
    <2>6. Log!Extend(s, Log!Question(r))
      BY <1>3, <2>1, <2>2, <2>5, RowExtendsLog
    <2>7. Log!Ask(s, r)
      BY <2>1, <2>3, <2>4, <2>6 DEF Log!Ask
    <2> QED  BY <2>1, <2>7 DEF Log!Next
  <1>4. CASE pc[r] = "reply" /\ RowAdded(Sid(r), turn[r] + 1, BrandRow(r, history[r]))
    <2> DEFINE s == Sid(r)
               t == turn[r]
    <2>1. s \in SessionIds /\ t \in Nat /\ BrandRow(r, history[r]) \in MessageRows
      BY <1>4, SidType, RowTypes DEF Running, SendSteps, TypeOK
    <2>2. Turns(s) = 0 .. t
      BY <1>4, PlaceIsNext DEF RowAdded
    <2>3. messages[s][t] = HostRow(r) /\ history[r] = 0 .. t
      BY <1>4, <2>2 DEF PlaceOK
    <2>4. Turns(s) = 0 .. (t + 1) - 1
      BY <2>1, <2>2
    <2>5. /\ LogOf(s) # << >> /\ Len(LogOf(s)) = t + 1
          /\ LogOf(s)[t + 1] = Entry((t + 1) - 1, messages[s][(t + 1) - 1])
      BY <2>1, <2>4, LogByPlaces
    <2>6. LogOf(s)[Len(LogOf(s))] = Log!Question(r)
      BY <2>1, <2>3, <2>5 DEF Entry, HostRow, Log!Question
    <2>7. Entry(t + 1, BrandRow(r, history[r])) = Log!Reply(r, Len(LogOf(s)))
      BY <2>1, <2>3, <2>5 DEF Entry, BrandRow, Log!Reply
    <2>8. Log!Extend(s, Log!Reply(r, Len(LogOf(s))))
      BY <1>4, <2>1, <2>4, <2>7, RowExtendsLog
    <2>9. Log!Answer(s, r)
      BY <2>1, <2>5, <2>6, <2>8 DEF Log!Answer
    <2> QED  BY <2>1, <2>9 DEF Log!Next
  <1> QED  BY <1>1, <1>2, <1>3, <1>4, StepOnLog

(* Seen as sequences of entries, the tables behave as TurnLog: whatever    *)
(* sends, failures and lost handlers do, a conversation only grows at its  *)
(* end, by a welcome, a call's one question, or the reply to the last.     *)
THEOREM LogIsImplemented == Spec => ImplementsTurnLog
  <1>1. Init => Log!Init
    <2> SUFFICES ASSUME Init, NEW s \in SessionIds
                 PROVE  LogOf(s) = << >>
      BY DEF Log!Init
    <2>1. Turns(s) = {}
      BY DEF Init, StoreInit, Turns, Empty
    <2>2. NextTurn(s) = 0
      BY <2>1 DEF NextTurn
    <2> QED  BY <2>2 DEF LogOf
  <1>2. SInv /\ [Next]_vars => [Log!Next]_([s \in SessionIds |-> LogOf(s)])
    <2>1. ASSUME UNCHANGED vars
          PROVE  UNCHANGED [s \in SessionIds |-> LogOf(s)]
      BY <2>1 DEF vars, tables, LogOf, NextTurn, Turns, Entry
    <2> QED  BY <2>1, NextIsAStep, RefinesStep
  <1> QED  BY <1>1, <1>2, SInductive, PTL DEF Spec, ImplementsTurnLog, Log!Spec

-----------------------------------------------------------------------------
(***************************************************************************)
(* The audit.                                                              *)
(*                                                                         *)
(* The first invariant is about the calls.  Whose call a session is.       *)
(***************************************************************************)

(* A session has a row once a call is about it; the initiate that made the *)
(* row is the only one; and only a session whose id was given to a host is *)
(* ever terminated.                                                        *)
OwnersOK ==
    /\ \A r \in Requests : call[r] \in Calls => sessions[Sid(r)] # NoRow
    /\ \A r, q \in Requests :
          /\ call[r] \in Calls /\ call[r].op = "initiate"
          /\ call[q] \in Calls /\ call[q].op = "initiate"
          /\ Sid(r) = Sid(q)
          => r = q
    /\ \A r \in Requests : pc[r] = "terminate" => Announced(Sid(r))
    /\ \A s \in SessionIds : sessions[s] = "terminated" => Announced(s)

TInv == SInv /\ HandoffHasCause /\ OwnersOK

-----------------------------------------------------------------------------
(***************************************************************************)
(* The second one is about the audit.                                      *)
(***************************************************************************)
Closed(s) == sessions[s] = "terminated" /\ InFlight(s) = {}

Cause(s, turns) == \E t \in turns : IsReply(s, t) /\ call[messages[s][t].by].buy

(* What an audit under way has read is still so, and it missed nothing     *)
(* that was so when it began.                                              *)
ViewOK ==
    step # "idle" =>
        /\ filed \subseteq OnBrandTurns(view.sid)
        /\ quiet => view.status = "terminated" /\ Closed(view.sid)
        /\ final /\ view.sid = report.sid => quiet
        /\ step = "messages" /\ view.status = "pending_handoff" =>
              Cause(view.sid, Turns(view.sid))
        /\ step = "receipts" =>
              /\ view.turns \subseteq Turns(view.sid)
              /\ filed \subseteq view.turns
              /\ quiet => view.turns = Turns(view.sid)
              /\ Reported /\ report.sid = view.sid => report.turns \subseteq view.turns
              /\ view.status = "pending_handoff" => Cause(view.sid, view.turns)

(* What a report shows is still on file.                                   *)
ReportOK ==
    Reported =>
        /\ report.turns \subseteq Turns(report.sid)
        /\ report.status = "pending_handoff" => Cause(report.sid, report.turns)
        /\ DOMAIN report.receipts \subseteq OnBrandTurns(report.sid) \cap report.turns
        /\ \A t \in DOMAIN report.receipts : \A u \in report.turns :
              messages[report.sid][u] = HostRow(report.receipts[t]) => u = t + 1
        /\ report.pre # {} => PreSession \in DOMAIN receipts[report.sid]

(* And the report on a closed session is all there is.                     *)
WholeTrail(s) == [sid |-> s, status |-> "terminated", turns |-> Turns(s),
                  receipts |-> Shown(s, Turns(s)), pre |-> ShownPre(s)]

FinalOK == final => /\ Reported /\ Closed(report.sid)
                    /\ report = WholeTrail(report.sid)

AInv == TInv /\ AuditTypeOK /\ ViewOK /\ ReportOK /\ FinalOK

-----------------------------------------------------------------------------
(* The session_status column: a row stays, and only si_terminate_session   *)
(* writes "terminated".                                                    *)
LEMMA StatusStep ==
    ASSUME TypeOK, CallOK, NEW r \in Requests, StepOf(r), NEW s \in SessionIds
    PROVE  /\ sessions[s] # NoRow => sessions'[s] # NoRow
           /\ sessions'[s] = "terminated" =>
                 sessions[s] = "terminated" \/ (pc[r] = "terminate" /\ s = Sid(r))
  <1> USE DEF TypeOK, StoreTypeOK, Statuses, NoRow
  <1>1. CASE Arrival(r)
    BY <1>1 DEF Arrival, RejectParams, InitiateCreate, SendRefused, SendGetSession,
                TerminateRefused, TerminateGetSession, CreateSession, tables
  <1>2. CASE SendPromote(r)
    BY <1>2 DEF SendPromote, UpdateSessionStatus, ReplyStatus
  <1>3. CASE TerminateUpdate(r)
    BY <1>3 DEF TerminateUpdate, UpdateSessionStatus
  <1>4. CASE HandlerStep(r) /\ ~SendPromote(r) /\ ~TerminateUpdate(r)
    BY <1>4 DEF HandlerStep, InitiateWelcome, InitiateReceipt, SendNextTurn,
                SendReceipt, SendAsk, SendListAndReply, SendReply, tables
  <1>5. CASE StatementFails(r) \/ Lose(r)
    BY <1>5 DEF StatementFails, Lose, tables
  <1> QED  BY <1>1, <1>2, <1>3, <1>4, <1>5 DEF StepOf

(* What a call that arrives found of the session it is about.              *)
LEMMA ArrivalFinds ==
    ASSUME TypeOK, CallOK, NEW r \in Requests, StepOf(r), pc[r] = "idle",
           call'[r] \in Calls
    PROVE  LET s == call'[r].sid
           IN /\ call'[r].op = "initiate" => sessions[s] = NoRow /\ sessions'[s] # NoRow
              /\ call'[r].op = "send" => sessions[s] # NoRow
              /\ call'[r].op = "terminate" => Announced(s)
  <1> DEFINE s == call'[r].sid
  <1> USE DEF TypeOK, StoreTypeOK, Arrive
  <1>0. call[r] \notin Calls
    BY DEF CallOK, NoCall, Calls, Ops
  <1>1. CASE InitiateCreate(r)
    BY <1>1 DEF InitiateCreate, CreateSession, NoRow
  <1>2. CASE SendGetSession(r)
    BY <1>2 DEF SendGetSession, SendGate
  <1>3. CASE TerminateGetSession(r)
    BY <1>3 DEF TerminateGetSession
  <1>4. CASE RejectParams(r) \/ SendRefused(r) \/ TerminateRefused(r)
    BY <1>0, <1>4 DEF RejectParams, SendRefused, TerminateRefused
  <1>5. CASE HandlerStep(r)
    BY <1>0, <1>5 DEF HandlerStep, InitiateWelcome, InitiateReceipt, SendNextTurn,
       SendReceipt, SendAsk, SendListAndReply, SendReply, SendPromote, TerminateUpdate
  <1>6. CASE StatementFails(r) \/ Lose(r)
    BY <1>0, <1>6 DEF StatementFails, Lose
  <1> QED  BY <1>1, <1>2, <1>3, <1>4, <1>5, <1>6 DEF StepOf, Arrival

(* An id that was given to a host stays given: an answer is never changed. *)
LEMMA AnnouncedStays ==
    ASSUME TypeOK, CallOK, NEW r \in Requests, StepOf(r), NEW s, Announced(s)
    PROVE  Announced(s)'
  <1>1. PICK q \in Requests : /\ call[q] \in Calls /\ call[q].op = "initiate"
                              /\ call[q].sid = s /\ answer[q] = "ok"
    BY DEF Announced
  <1>2. q # r
    BY <1>1, Moves DEF CallOK, NoAnswer
  <1>3. call'[q] = call[q] /\ answer'[q] = answer[q]
    BY <1>2, StepIsLocal
  <1> QED  BY <1>1, <1>3 DEF Announced

(* Each session still has one initiate, and is terminated only after that  *)
(* has answered.                                                           *)
LEMMA OwnersStep ==
    ASSUME TInv, NEW r \in Requests, StepOf(r)
    PROVE  OwnersOK'
  <1> USE DEF TInv, SInv, IInv
  <1>1. CallOK' /\ TypeOK'
    BY CallStep, TypeStep
  <1>2. ASSUME NEW q \in Requests, call'[q] \in Calls
        PROVE  call'[q] = call[q] \/ (q = r /\ pc[r] = "idle")
    BY StepIsLocal
  <1>3. ASSUME NEW q \in Requests, call'[q] \in Calls
        PROVE  call'[q].sid \in SessionIds /\ sessions'[call'[q].sid] # NoRow
    <2> DEFINE s == call'[q].sid
    <2>1. s \in SessionIds
      BY <1>3 DEF Calls
    <2>2. CASE call'[q] = call[q]
      <3>1. sessions[s] # NoRow
        BY <1>3, <2>2 DEF OwnersOK, Sid
      <3> QED  BY <2>1, <3>1, StatusStep
    <2>3. CASE q = r /\ pc[r] = "idle"
      <3>1. call'[r].op \in Ops
        BY <1>3, <2>3 DEF Calls
      <3>2. CASE call'[r].op = "initiate"
        BY <1>3, <2>1, <2>3, <3>2, ArrivalFinds
      <3>3. CASE call'[r].op = "send"
        BY <1>3, <2>1, <2>3, <3>3, ArrivalFinds, StatusStep
      <3>4. CASE call'[r].op = "terminate"
        <4>1. Announced(s)
          BY <1>3, <2>3, <3>4, ArrivalFinds
        <4>2. sessions[s] # NoRow
          BY <4>1 DEF Announced, OwnersOK, Sid
        <4> QED  BY <2>1, <4>2, StatusStep
      <3> QED  BY <3>1, <3>2, <3>3, <3>4 DEF Ops
    <2> QED  BY <1>2, <1>3, <2>1, <2>2, <2>3
  <1>4. ASSUME NEW p \in Requests, NEW q \in Requests, p # q,
               call'[p] \in Calls, call'[p].op = "initiate",
               call'[q] \in Calls, call'[q].op = "initiate",
               call'[p].sid = call'[q].sid
        PROVE  FALSE
    <2>1. ASSUME NEW x \in Requests, NEW y \in Requests, x = r, pc[r] = "idle",
                 call'[x] \in Calls, call'[x].op = "initiate",
                 call'[y] = call[y], call[y] \in Calls, call'[x].sid = call[y].sid
          PROVE  FALSE
      <3>1. sessions[call'[r].sid] = NoRow
        BY <2>1, ArrivalFinds
      <3>2. sessions[call[y].sid] # NoRow
        BY <2>1 DEF OwnersOK, Sid
      <3> QED  BY <2>1, <3>1, <3>2
    <2>2. CASE call'[p] = call[p] /\ call'[q] = call[q]
      BY <1>4, <2>2 DEF OwnersOK, Sid
    <2>3. CASE p = r /\ pc[r] = "idle"
      <3>1. call'[q] = call[q]
        BY <1>4, <2>3, StepIsLocal
      <3> QED  BY <1>4, <2>1, <2>3, <3>1
    <2>4. CASE q = r /\ pc[r] = "idle"
      <3>1. call'[p] = call[p]
        BY <1>4, <2>4, StepIsLocal
      <3> QED  BY <1>4, <2>1, <2>4, <3>1
    <2> QED  BY <1>2, <1>4, <2>2, <2>3, <2>4
  <1>5. ASSUME NEW q \in Requests, pc'[q] = "terminate",
               NEW s, s = call'[q].sid
        PROVE  Announced(s)'
    <2>1. CASE q # r
      <3>1. pc[q] = "terminate" /\ call[q].sid = s
        BY <1>5, <2>1, StepIsLocal
      <3>2. Announced(s)
        BY <3>1 DEF OwnersOK, Sid
      <3> QED  BY <3>2, AnnouncedStays
    <2>2. CASE q = r
      <3>1. pc[r] = "idle"
        BY <1>5, <2>2, Moves DEF TypeOK, Running, InitiateSteps, SendSteps
      <3>2. call'[r] \in Calls /\ call'[r].op = "terminate"
        BY <1>1, <1>5, <2>2 DEF CallOK
      <3>3. Announced(s)
        BY <1>5, <2>2, <3>1, <3>2, ArrivalFinds
      <3> QED  BY <3>3, AnnouncedStays
    <2> QED  BY <2>1, <2>2
  <1>6. ASSUME NEW s \in SessionIds, sessions'[s] = "terminated"
        PROVE  Announced(s)'
    <2>1. Announced(s)
      BY <1>6, StatusStep DEF OwnersOK
    <2> QED  BY <2>1, AnnouncedStays
  <1>7. \A q \in Requests : pc'[q] = "terminate" => Announced(Sid(q))'
    BY <1>5 DEF Announced, Sid
  <1> QED  BY <1>3, <1>4, <1>6, <1>7 DEF OwnersOK, Sid

(* Nobody owns a session before the first call.                            *)
LEMMA InitTInv == Init => TInv
  <1> SUFFICES ASSUME Init PROVE TInv
    OBVIOUS
  <1>1. HandoffHasCause
    BY DEF Init, StoreInit, HandoffHasCause, NoRow
  <1>2. OwnersOK
    BY DEF Init, StoreInit, OwnersOK, NoRow, NoCall, Calls, Ops
  <1> QED  BY <1>1, <1>2, InitSInv DEF TInv

(* Owners, writers and the log are inductive together.                     *)
LEMMA NextTInv == TInv /\ [Next]_vars => TInv'
  <1> SUFFICES ASSUME TInv, [Next]_vars PROVE TInv'
    OBVIOUS
  <1>1. SInv' /\ HandoffHasCause'
    BY NextSInv, HandoffStep DEF TInv
  <1>2. CASE UNCHANGED vars
    BY <1>1, <1>2 DEF TInv, OwnersOK, vars, tables, Sid, Announced
  <1>3. ASSUME NEW r \in Requests, StepOf(r) PROVE TInv'
    BY <1>1, <1>3, OwnersStep DEF TInv
  <1> QED  BY <1>2, <1>3, NextIsAStep

-----------------------------------------------------------------------------
(* While an audit waits for its next statement the handlers add to what it *)
(* has read, and take nothing back.  In a closed session nothing moves:    *)
(* the only call that might still write there is its initiate, which had   *)
(* its answer before the session could be terminated.                      *)
LEMMA OnlyAdds ==
    ASSUME TInv, [Next]_vars, NEW s \in SessionIds
    PROVE  /\ \A t \in Turns(s) : /\ t \in DOMAIN messages'[s]
                                  /\ messages'[s][t] = messages[s][t]
                                  /\ call'[messages[s][t].by] = call[messages[s][t].by]
           /\ DOMAIN receipts[s] \subseteq DOMAIN receipts'[s]
           /\ Closed(s) => /\ messages'[s] = messages[s] /\ receipts'[s] = receipts[s]
                           /\ sessions'[s] = "terminated" /\ InFlight(s)' = {}
  <1> USE DEF TInv, SInv, IInv
  <1>1. CASE UNCHANGED vars
    BY <1>1 DEF vars, tables, Turns, Closed, InFlight
  <1>2. ASSUME NEW r \in Requests, StepOf(r), NEW t \in Turns(s)
        PROVE  /\ t \in DOMAIN messages'[s] /\ messages'[s][t] = messages[s][t]
               /\ call'[messages[s][t].by] = call[messages[s][t].by]
    <2>1. messages[s][t].by \in Requests /\ call[messages[s][t].by] \in Calls
      BY DEF WritersOK, TypeOK, StoreTypeOK, IsTable, Turns, MessageRows
    <2> QED  BY <1>2, <2>1, LogGrowsStep, CallStays DEF LogGrows
  <1>3. ASSUME NEW r \in Requests, StepOf(r)
        PROVE  DOMAIN receipts[s] \subseteq DOMAIN receipts'[s]
    <2>1. ASSUME NEW t, Sid(r) \in SessionIds,
                 receipts' = [receipts EXCEPT ![Sid(r)] = Put(receipts[Sid(r)], t, r)]
          PROVE  DOMAIN receipts[s] \subseteq DOMAIN receipts'[s]
      BY <2>1 DEF Put, TypeOK, StoreTypeOK
    <2> QED  BY <1>3, <2>1, StepOnReceipts
  <1>4. ASSUME NEW r \in Requests, StepOf(r), Closed(s)
        PROVE  messages'[s] = messages[s] /\ receipts'[s] = receipts[s]
    <2>1. ~(Sid(r) = s /\ pc[r] \in SendSteps)
      BY <1>4 DEF Closed, InFlight, Sid
    <2>2. ~(Sid(r) = s /\ pc[r] \in InitiateSteps)
      <3> SUFFICES ASSUME Sid(r) = s, pc[r] \in InitiateSteps PROVE FALSE
        OBVIOUS
      <3>1. call[r] \in Calls /\ call[r].op = "initiate" /\ answer[r] = NoAnswer
        BY DEF CallOK, InitiateSteps
      <3>2. PICK q \in Requests : /\ call[q] \in Calls /\ call[q].op = "initiate"
                                  /\ call[q].sid = s /\ answer[q] = "ok"
        BY <1>4 DEF Closed, OwnersOK, Announced
      <3>3. q = r
        BY <3>1, <3>2 DEF OwnersOK, Sid
      <3> QED  BY <3>1, <3>2, <3>3 DEF NoAnswer
    <2>3. messages'[s] = messages[s]
      <3>1. ASSUME NEW t, NEW row, RowAdded(Sid(r), t, row), Sid(r) # s
            PROVE  messages'[s] = messages[s]
        BY <3>1 DEF RowAdded
      <3> QED  BY <1>4, <2>1, <2>2, <3>1, StepOnLog DEF InitiateSteps, SendSteps
    <2>4. receipts'[s] = receipts[s]
      <3>1. ASSUME NEW t, Sid(r) # s,
                   receipts' = [receipts EXCEPT ![Sid(r)] = Put(receipts[Sid(r)], t, r)]
            PROVE  receipts'[s] = receipts[s]
        BY <3>1 DEF TypeOK, StoreTypeOK
      <3> QED  BY <1>4, <2>1, <2>2, <3>1, StepOnReceipts DEF InitiateSteps, SendSteps
    <2> QED  BY <2>3, <2>4
  <1>5. Closed(s) => sessions'[s] = "terminated" /\ InFlight(s)' = {}
    BY QuietStep DEF Closed
  <1> QED  BY <1>1, <1>2, <1>3, <1>4, <1>5, NextIsAStep

(* The same in the terms of the invariant.                                 *)
LEMMA StillSo ==
    ASSUME TInv, [Next]_vars, NEW s \in SessionIds
    PROVE  /\ Turns(s) \subseteq Turns(s)'
           /\ OnBrandTurns(s) \subseteq OnBrandTurns(s)'
           /\ \A T \in SUBSET Turns(s) : Cause(s, T) => Cause(s, T)'
           /\ Closed(s) => /\ Closed(s)' /\ Turns(s)' = Turns(s)
                           /\ \A T : Shown(s, T)' = Shown(s, T)
                           /\ ShownPre(s)' = ShownPre(s)
  <1>1. OnBrandTurns(s) \subseteq OnBrandTurns(s)'
    BY OnlyAdds DEF OnBrandTurns, Turns
  <1>2. ASSUME NEW T \in SUBSET Turns(s), Cause(s, T)
        PROVE  Cause(s, T)'
    <2>1. PICK t \in T : IsReply(s, t) /\ call[messages[s][t].by].buy
      BY <1>2 DEF Cause
    <2>2. messages'[s][t] = messages[s][t] /\ call'[messages[s][t].by] = call[messages[s][t].by]
      BY OnlyAdds
    <2> QED  BY <2>1, <2>2 DEF Cause, IsReply
  <1>3. Turns(s) \subseteq Turns(s)'
    BY OnlyAdds DEF Turns
  <1>4. ASSUME Closed(s)
        PROVE  /\ Closed(s)' /\ Turns(s)' = Turns(s)
               /\ \A T : Shown(s, T)' = Shown(s, T)
               /\ ShownPre(s)' = ShownPre(s)
    <2>1. /\ messages'[s] = messages[s] /\ receipts'[s] = receipts[s]
          /\ sessions'[s] = "terminated" /\ InFlight(s)' = {}
      BY <1>4, OnlyAdds
    <2> QED  BY <2>1 DEF Closed, Turns, Shown, ShownPre
  <1> QED  BY <1>1, <1>2, <1>3, <1>4

-----------------------------------------------------------------------------
(* What the audit holds between its statements, and what it reports, has   *)
(* the types that the proofs below need.                                   *)
LEMMA ViewSession ==
    ASSUME AuditTypeOK
    PROVE  /\ step # "idle" => view.sid \in SessionIds /\ view.status \in Statuses
           /\ step = "receipts" => view.turns \subseteq Nat
           /\ Reported => Shows(report)
  BY DEF AuditTypeOK, Begun, Read, Reported

(* Before the first audit.                                                 *)
LEMMA InitAInv == AuditInit => AInv
  <1> SUFFICES ASSUME AuditInit PROVE AInv
    OBVIOUS
  <1>1. TInv /\ TypeOK
    BY InitTInv DEF AuditInit, TInv, SInv, IInv
  <1>2. AuditTypeOK
    BY <1>1 DEF AuditInit, AuditTypeOK
  <1>3. ViewOK /\ ReportOK /\ FinalOK
    BY DEF AuditInit, ViewOK, ReportOK, FinalOK, Reported
  <1> QED  BY <1>1, <1>2, <1>3 DEF AInv

(* A step of the handlers.                                                 *)
LEMMA MeanwhileStep ==
    ASSUME AInv, [Next]_vars, UNCHANGED audit
    PROVE  AInv'
  <1> USE DEF AInv, audit
  <1>1. TInv' /\ TypeOK'
    BY NextTInv DEF TInv, SInv, IInv
  <1>2. AuditTypeOK'
    BY <1>1 DEF AuditTypeOK, Shows, IsTable
  <1>3. ViewOK'
    <2> SUFFICES ASSUME step # "idle" PROVE ViewOK'
      BY DEF ViewOK
    <2> DEFINE s == view.sid
    <2>1. s \in SessionIds
      BY ViewSession
    <2>2. PICK x \in SessionIds : x = s
      BY <2>1
    <2>3. /\ Turns(x) \subseteq Turns(x)' /\ OnBrandTurns(x) \subseteq OnBrandTurns(x)'
          /\ \A T \in SUBSET Turns(x) : Cause(x, T) => Cause(x, T)'
          /\ Closed(x) => Closed(x)' /\ Turns(x)' = Turns(x)
      BY StillSo
    <2>4. filed \subseteq OnBrandTurns(x)'
      BY <2>2, <2>3 DEF ViewOK
    <2>5. quiet => view.status = "terminated" /\ Closed(x)'
      BY <2>2, <2>3 DEF ViewOK
    <2>6. final /\ x = report.sid => quiet
      BY <2>2 DEF ViewOK
    <2>7. step = "messages" /\ view.status = "pending_handoff" => Cause(x, Turns(x))'
      <3> SUFFICES ASSUME step = "messages", view.status = "pending_handoff"
                   PROVE  Cause(x, Turns(x))'
        OBVIOUS
      <3>1. Cause(x, Turns(x))
        BY <2>2 DEF ViewOK
      <3>2. PICK T : T = Turns(x)
        OBVIOUS
      <3>3. Cause(x, T)'
        BY <2>3, <3>1, <3>2
      <3> QED  BY <2>3, <3>2, <3>3 DEF Cause
    <2>8. step = "receipts" =>
              /\ view.turns \subseteq Turns(x)' /\ filed \subseteq view.turns
              /\ quiet => view.turns = Turns(x)'
              /\ Reported /\ report.sid = x => report.turns \subseteq view.turns
      BY <2>2, <2>3 DEF ViewOK
    <2>9. step = "receipts" /\ view.status = "pending_handoff" => Cause(x, view.turns)'
      <3> SUFFICES ASSUME step = "receipts", view.status = "pending_handoff"
                   PROVE  Cause(x, view.turns)'
        OBVIOUS
      <3>1. Cause(x, view.turns) /\ view.turns \in SUBSET Turns(x)
        BY <2>2 DEF ViewOK
      <3>2. PICK T : T = view.turns
        OBVIOUS
      <3>3. Cause(x, T)'
        BY <2>3, <3>1, <3>2
      <3> QED  BY <3>2, <3>3 DEF Cause
    <2> HIDE DEF s
    <2>10. view'.sid = x
      BY <2>2 DEF s
    <2> QED  BY <2>4, <2>5, <2>6, <2>7, <2>8, <2>9, <2>10
             DEF ViewOK, OnBrandTurns, Closed, InFlight, Cause, IsReply, Turns, Reported
  <1>4. ASSUME Reported
        PROVE  ReportOK' /\ FinalOK'
    <2>1. PICK x \in SessionIds : x = report.sid
      BY <1>4, ViewSession DEF Shows
    <2>2. /\ Turns(x) \subseteq Turns(x)' /\ OnBrandTurns(x) \subseteq OnBrandTurns(x)'
          /\ \A T \in SUBSET Turns(x) : Cause(x, T) => Cause(x, T)'
          /\ Closed(x) => /\ Closed(x)' /\ Turns(x)' = Turns(x)
                          /\ \A T : Shown(x, T)' = Shown(x, T)
                          /\ ShownPre(x)' = ShownPre(x)
      BY StillSo
    <2>3. report.turns \subseteq Turns(x)'
      BY <1>4, <2>1, <2>2 DEF ReportOK
    <2>4. report.status = "pending_handoff" => Cause(x, report.turns)'
      <3> SUFFICES ASSUME report.status = "pending_handoff" PROVE Cause(x, report.turns)'
        OBVIOUS
      <3>1. Cause(x, report.turns) /\ report.turns \in SUBSET Turns(x)
        BY <1>4, <2>1 DEF ReportOK
      <3>2. PICK T : T = report.turns
        OBVIOUS
      <3>3. Cause(x, T)'
        BY <2>2, <3>1, <3>2
      <3> QED  BY <3>2, <3>3 DEF Cause
    <2>5. DOMAIN report.receipts \subseteq OnBrandTurns(x)' \cap report.turns
      BY <1>4, <2>1, <2>2 DEF ReportOK
    <2>6. \A t \in DOMAIN report.receipts : \A u \in report.turns :
              messages'[x][u] = HostRow(report.receipts[t]) => u = t + 1
      BY <1>4, <2>1, OnlyAdds DEF ReportOK
    <2>7. report.pre # {} => PreSession \in DOMAIN receipts'[x]
      BY <1>4, <2>1, OnlyAdds DEF ReportOK
    <2>8. report'.sid = x
      BY <2>1
    <2>9. ReportOK'
      BY <2>3, <2>4, <2>5, <2>6, <2>7, <2>8
         DEF ReportOK, OnBrandTurns, Cause, IsReply, Turns, Reported
    <2>10. FinalOK'
      <3> SUFFICES ASSUME final PROVE FinalOK'
        BY DEF FinalOK
      <3>1. Closed(x) /\ report = WholeTrail(x)
        BY <2>1 DEF FinalOK
      <3>2. PICK T : T = Turns(x)
        OBVIOUS
      <3>3. Closed(x)' /\ Turns(x)' = T /\ Shown(x, T)' = Shown(x, T) /\ ShownPre(x)' = ShownPre(x)
        BY <2>2, <3>1, <3>2
      <3>4. WholeTrail(x)' = WholeTrail(x)
        BY <3>2, <3>3 DEF WholeTrail, Shown
      <3> QED  BY <1>4, <2>8, <3>1, <3>3, <3>4
               DEF FinalOK, Closed, InFlight, Turns, Shown, ShownPre, Reported, WholeTrail
    <2> QED  BY <2>9, <2>10
  <1>5. ASSUME ~Reported
        PROVE  ReportOK' /\ FinalOK'
    BY <1>5 DEF ReportOK, FinalOK, Reported
  <1> QED  BY <1>1, <1>2, <1>3, <1>4, <1>5

(* The steps of the audit itself.  None but the last touches the report.   *)
LEMMA ReportKept ==
    ASSUME AInv, UNCHANGED <<vars, report, final>>
    PROVE  TInv' /\ TypeOK' /\ ReportOK' /\ FinalOK'
  <1>1. TInv' /\ TypeOK'
    BY NextTInv DEF AInv, TInv, SInv, IInv
  <1>2. ReportOK'
    BY DEF AInv, vars, tables, ReportOK, Reported, Turns, OnBrandTurns, Cause, IsReply
  <1>3. FinalOK'
    BY DEF AInv, vars, tables, FinalOK, Reported, Turns, Closed, InFlight, Shown, ShownPre, WholeTrail
  <1> QED  BY <1>1, <1>2, <1>3

(* An audit that fails reports nothing new.                                *)
LEMMA FailsStep ==
    ASSUME AInv, AuditFails
    PROVE  AInv'
  <1> USE DEF AuditFails, AuditOver
  <1>1. TInv' /\ TypeOK' /\ ReportOK' /\ FinalOK'
    BY ReportKept
  <1>2. AuditTypeOK'
    BY <1>1 DEF AInv, AuditTypeOK, Shows, IsTable
  <1>3. ViewOK'
    BY DEF ViewOK
  <1> QED  BY <1>1, <1>2, <1>3 DEF AInv

(* The first statement: the session and its status.                        *)
LEMMA GetSessionStep ==
    ASSUME AInv, AuditGetSession
    PROVE  AInv'
  <1> USE DEF AuditGetSession
  <1>1. TInv' /\ TypeOK' /\ ReportOK' /\ FinalOK'
    BY ReportKept
  <1>2. PICK s \in SessionIds :
            /\ sessions[s] # NoRow
            /\ view' = [sid |-> s, status |-> sessions[s]]
            /\ filed' = OnBrandTurns(s)
            /\ quiet' = (sessions[s] = "terminated" /\ InFlight(s) = {})
    OBVIOUS
  <1>3. sessions[s] \in Statuses /\ OnBrandTurns(s) \subseteq Nat /\ quiet' \in BOOLEAN
    BY <1>2 DEF AInv, AuditTypeOK, TypeOK, StoreTypeOK, IsTable, OnBrandTurns, Turns
  <1>4. AuditTypeOK'
    BY <1>1, <1>2, <1>3 DEF AInv, AuditTypeOK, Begun, Shows, IsTable
  <1>5. final /\ s = report.sid => Closed(s)
    BY DEF AInv, FinalOK
  <1>6. sessions[s] = "pending_handoff" => Cause(s, Turns(s))
    BY DEF AInv, TInv, HandoffHasCause, Cause
  <1>7. ViewOK'
    BY <1>2, <1>5, <1>6 DEF ViewOK, vars, tables, OnBrandTurns, Turns, Closed, InFlight,
                            Cause, IsReply
  <1> QED  BY <1>1, <1>4, <1>7 DEF AInv

(* The second statement: the rows, to which nothing was done but adding.   *)
LEMMA ListMessagesStep ==
    ASSUME AInv, AuditListMessages
    PROVE  AInv'
  <1> USE DEF AuditListMessages
  <1>1. TInv' /\ TypeOK' /\ ReportOK' /\ FinalOK'
    BY ReportKept
  <1>2. /\ view.sid \in SessionIds /\ view.status \in Statuses
        /\ view' = [sid |-> view.sid, status |-> view.status, turns |-> Turns(view.sid)]
    BY ViewSession DEF AInv, ListMessages
  <1>3. Turns(view.sid) \subseteq Nat
    BY <1>2 DEF AInv, AuditTypeOK, TypeOK, StoreTypeOK, IsTable, Turns
  <1>4. AuditTypeOK'
    BY <1>1, <1>2, <1>3 DEF AInv, AuditTypeOK, Read, Shows, IsTable
  <1>5. ViewOK'
    BY <1>2 DEF AInv, ViewOK, ReportOK, vars, tables, OnBrandTurns, Turns, Closed,
                InFlight, Cause, IsReply, Reported
  <1> QED  BY <1>1, <1>4, <1>5 DEF AInv

(* What the last step puts together.                                       *)
LEMMA ListReceiptsShows ==
    ASSUME AInv, AuditListReceipts
    PROVE  /\ step = "receipts" /\ view.sid \in SessionIds
           /\ report' = [sid |-> view.sid, status |-> view.status, turns |-> view.turns,
                         receipts |-> Shown(view.sid, view.turns),
                         pre |-> ShownPre(view.sid)]
           /\ DOMAIN Shown(view.sid, view.turns) = OnBrandTurns(view.sid) \cap view.turns
           /\ \A t \in DOMAIN Shown(view.sid, view.turns) :
                 Shown(view.sid, view.turns)[t] = receipts[view.sid][t]
  <1>1. step = "receipts" /\ view.sid \in SessionIds
    BY ViewSession DEF AInv, AuditListReceipts
  <1>2. view.turns \subseteq Turns(view.sid)
    BY <1>1 DEF AInv, ViewOK
  <1> QED  BY <1>1, <1>2 DEF AuditListReceipts, AuditStatus, Shown, OnBrandTurns

(* A report on x that is the whole trail of x, which is closed.            *)
LEMMA FinalAfter ==
    ASSUME NEW x, report'.sid = x, report' = WholeTrail(x)', Closed(x)', report' # NoView
    PROVE  FinalOK'
  <1>1. WholeTrail(report.sid)' = WholeTrail(x)'
    BY DEF WholeTrail, Turns, Shown, ShownPre
  <1>2. Closed(report.sid)'
    BY DEF Closed, InFlight
  <1> QED  BY <1>1, <1>2 DEF FinalOK, Reported

(* The third statement, and the report made of all three.                  *)
LEMMA ListReceiptsStep ==
    ASSUME AInv, AuditListReceipts
    PROVE  AInv'
  <1> USE DEF AuditListReceipts, AuditOver
  <1> DEFINE s == view.sid
             shown == Shown(s, view.turns)
  <1>1. TInv' /\ TypeOK'
    BY NextTInv DEF AInv, TInv, SInv, IInv
  <1>2. /\ step = "receipts" /\ s \in SessionIds /\ view.status \in Statuses
        /\ report' = [sid |-> s, status |-> view.status, turns |-> view.turns,
                      receipts |-> shown, pre |-> ShownPre(s)]
        /\ DOMAIN shown = OnBrandTurns(s) \cap view.turns
        /\ \A t \in DOMAIN shown : shown[t] = receipts[s][t]
        /\ view.turns \subseteq Turns(s)
    BY ViewSession, ListReceiptsShows DEF AInv, ViewOK
  <1>3. IsTable(receipts[s], Nat \cup {PreSession}, Requests) /\ Turns(s) \subseteq Nat
    BY <1>2 DEF AInv, AuditTypeOK, TypeOK, StoreTypeOK, IsTable, Turns
  <1>4. IsTable(shown, Nat, Requests)
    <2>1. shown = [t \in DOMAIN shown |-> shown[t]]
      BY DEF Shown
    <2>2. \A t \in DOMAIN shown : t \in DOMAIN receipts[s] /\ t \in Nat
      BY <1>2, <1>3 DEF OnBrandTurns
    <2>3. \A t \in DOMAIN shown : shown[t] \in Requests
      BY <1>2, <1>3, <2>2 DEF IsTable
    <2> HIDE DEF shown
    <2> QED  BY <2>1, <2>2, <2>3 DEF IsTable
  <1>5. ShownPre(s) \in SUBSET Requests
    BY <1>3 DEF ShownPre, IsTable
  <1>6. AuditTypeOK'
    <2>1. Shows(report')
      <3> HIDE DEF s, shown
      <3> QED  BY <1>2, <1>3, <1>4, <1>5 DEF Shows
    <2> QED  BY <1>1, <2>1 DEF AInv, AuditTypeOK, Shows
  <1>7. ViewOK'
    BY DEF ViewOK
  <1>8. /\ DOMAIN shown \subseteq OnBrandTurns(s) \cap view.turns
        /\ \A t \in DOMAIN shown : \A u \in view.turns :
              messages[s][u] = HostRow(shown[t]) => u = t + 1
        /\ ShownPre(s) # {} => PreSession \in DOMAIN receipts[s]
    <2>1. \A t \in DOMAIN shown : t \in DOMAIN receipts[s] /\ t # PreSession
      BY <1>2, <1>3 DEF OnBrandTurns, PreSession
    <2> QED  BY <1>2, <2>1 DEF AInv, TInv, SInv, FiledOK, ShownPre
  <1>9. view.status = "pending_handoff" => Cause(s, view.turns)
    BY <1>2 DEF AInv, ViewOK
  <1>10. ReportOK'
    <2> HIDE DEF s, shown
    <2> QED  BY <1>2, <1>8, <1>9
             DEF ReportOK, vars, tables, OnBrandTurns, Cause, IsReply, Turns
  <1>11. quiet => /\ view.status = "terminated" /\ Closed(s) /\ view.turns = Turns(s)
    BY <1>2 DEF AInv, ViewOK
  <1>12. FinalOK'
    <2> SUFFICES ASSUME quiet PROVE FinalOK'
      BY DEF FinalOK
    <2>1. report' = WholeTrail(s)
      BY <1>2, <1>11 DEF WholeTrail
    <2>2. PICK x : x = s
      OBVIOUS
    <2>3. report'.sid = x /\ report' = WholeTrail(x)
      BY <1>2, <2>1, <2>2
    <2> HIDE DEF s, shown
    <2>4. WholeTrail(x)' = WholeTrail(x) /\ Closed(x)'
      BY <1>11, <2>2 DEF WholeTrail, vars, tables, Turns, Shown, ShownPre, Closed, InFlight
    <2>5. report' # NoView
      <3>1. "turns" \in DOMAIN report' /\ "turns" \notin DOMAIN NoView
        BY <1>2 DEF NoView
      <3> QED  BY <3>1
    <2> QED  BY <2>3, <2>4, <2>5, FinalAfter
  <1> QED  BY <1>1, <1>6, <1>7, <1>10, <1>12 DEF AInv

(* The invariant of audits and handlers is inductive.                      *)
LEMMA NextAInv == AInv /\ [AuditNext]_auditVars => AInv'
  BY MeanwhileStep, FailsStep, GetSessionStep, ListMessagesStep, ListReceiptsStep
     DEF AuditNext, AuditStep, auditVars, audit

(* It holds in every behaviour, for any number of audits.                  *)
LEMMA AuditInductive == AuditSpec => []AInv
  BY InitAInv, NextAInv, PTL DEF AuditSpec

-----------------------------------------------------------------------------
(* A report shows the cause of a handoff it tells of, and receipts where   *)
(* they belong, though it is put together from three moments.              *)
THEOREM ReportsSound == AuditSpec => []ReportsAreSound
  <1>1. AInv => ReportsAreSound
    <2> SUFFICES ASSUME AInv PROVE ReportsAreSound
      OBVIOUS
    <2>1. ReportedHandoffHasCause
      BY DEF AInv, ReportOK, Cause, ReportedHandoffHasCause
    <2>2. ShownReceiptsFit
      BY DEF AInv, ReportOK, OnBrandTurns, ShownReceiptsFit
    <2> QED  BY <2>1, <2>2 DEF AInv, ReportsAreSound
  <1> QED  BY <1>1, AuditInductive, PTL

(* Only the last statement of an audit changes the report.                 *)
LEMMA ReportChanges ==
    ASSUME [AuditNext]_auditVars, report' # report
    PROVE  AuditListReceipts
  BY DEF AuditNext, AuditStep, AuditFails, AuditGetSession, AuditListMessages, auditVars,
         audit

(* A report owes to the moment its audit began the receipts on file then,  *)
(* to an earlier report on the session all it showed, and to a session     *)
(* that was closed that it is the last word.                               *)
THEOREM TrailGrows == AuditSpec => TrailOnlyGrows
  <1>1. AInv /\ [AuditNext]_auditVars =>
          [report' # report => filed \subseteq DOMAIN report'.receipts]_auditVars
    <2> SUFFICES ASSUME AInv, AuditListReceipts
                 PROVE  filed \subseteq DOMAIN report'.receipts
      BY ReportChanges
    <2> QED  BY ListReceiptsShows DEF AInv, ViewOK
  <1>2. AInv /\ [AuditNext]_auditVars =>
          [Reported /\ report'.sid = report.sid =>
              /\ report.turns \subseteq report'.turns
              /\ DOMAIN report.receipts \subseteq DOMAIN report'.receipts
              /\ report.pre # {} => report'.pre # {}]_auditVars
    <2> SUFFICES ASSUME AInv, AuditListReceipts, Reported, report'.sid = report.sid
                 PROVE  /\ report.turns \subseteq report'.turns
                        /\ DOMAIN report.receipts \subseteq DOMAIN report'.receipts
                        /\ report.pre # {} => report'.pre # {}
      BY ReportChanges
    <2> QED  BY ListReceiptsShows DEF AInv, ViewOK, ReportOK, ShownPre
  <1>3. AInv /\ [AuditNext]_auditVars =>
          [final /\ report'.sid = report.sid => report' = report]_auditVars
    <2> SUFFICES ASSUME AInv, AuditListReceipts, final, report'.sid = report.sid
                 PROVE  report' = report
      BY ReportChanges
    <2> QED  BY ListReceiptsShows DEF AInv, ViewOK, FinalOK, WholeTrail
  <1>4. AuditSpec => FiledReceiptsShown
    BY <1>1, AuditInductive, PTL DEF AuditSpec, FiledReceiptsShown
  <1>5. AuditSpec => ReportsOnlyGrow
    BY <1>2, AuditInductive, PTL DEF AuditSpec, ReportsOnlyGrow
  <1>6. AuditSpec => ClosedReportIsFinal
    BY <1>3, AuditInductive, PTL DEF AuditSpec, ClosedReportIsFinal
  <1> QED  BY <1>4, <1>5, <1>6 DEF TrailOnlyGrows
=============================================================================

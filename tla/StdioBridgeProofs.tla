------------------------- MODULE StdioBridgeProofs -------------------------
(***************************************************************************)
(* The receipts of the stdio bridge, proved for every set of session ids   *)
(* and every bound of StdioBridge.                                         *)
(***************************************************************************)
EXTENDS StdioBridge, TLAPS

-----------------------------------------------------------------------------
(* The inductive invariant.                                                *)

(* The bridge is in a session that exists and holds its welcome; an id     *)
(* that was not drawn has no log.                                          *)
SessionOK ==
    /\ sessionID # NoSession => status[sessionID] # "none" /\ length[sessionID] > 0
    /\ \A s \in SessionIds : status[s] = "none" => length[s] = 0

(* The pending receipt is about an offering or about the last turn of the  *)
(* session the bridge is in.                                               *)
PendingOK ==
    pending # NoReceipt =>
        \/ pending.at = Offering /\ pending.turn < offered
        \/ pending.at = sessionID /\ pending.turn = length[sessionID] - 1

(* x is about an emission that was made.                                   *)
Made(x) == IF x.at = Offering THEN x.turn < offered ELSE x.turn < length[x.at]

SameEmission(x, y) == x.at = y.at /\ x.turn = y.turn

FiledOK ==
    \A f \in filed : /\ Made(f.receipt)
                     /\ f.receipt.at = f.sid => f.turn = f.receipt.turn
                     /\ f.turn # PreSession => f.receipt.at \in {f.sid, Offering}

UniqueOK == \A f, g \in filed : SameEmission(f.receipt, g.receipt) => f = g

FreshOK == pending # NoReceipt => \A f \in filed : ~SameEmission(f.receipt, pending)

IInv == /\ TypeOK /\ SessionOK /\ PendingOK /\ FiledOK /\ UniqueOK /\ FreshOK
        /\ PendingPassesValidation

-----------------------------------------------------------------------------
(* synthesiseReceipt makes a receipt that Validate accepts, in every mode  *)
(* and for every declaration.                                              *)
THEOREM SynthesisedValidates ==
    ASSUME NEW mode \in Modes, NEW sponsored \in Sponsored
    PROVE  /\ Validate(sponsored, SynthesiseReceipt(mode, sponsored))
           /\ SynthesiseReceipt(mode, sponsored) \in HostReceipts
  BY DEF Modes, Sponsored, ContextUses, Validate, SynthesiseReceipt, Accepts, HostReceipts, Absent

(* What updateState leaves: the old receipt, or a valid one about the      *)
(* answered emission.                                                      *)
LEMMA CachingShape ==
    ASSUME config \in [mode : Modes, required : BOOLEAN],
           NEW where \in SessionIds \cup {Offering}, NEW t \in Nat, NEW left
    PROVE  \/ Caching(where, t, left) = left
           \/ LET x == Caching(where, t, left)
              IN  x \in Receipts /\ x.at = where /\ x.turn = t /\ Validate(x.sponsored, x.host)
<1> DEFINE sponsored == [use |-> "presentation_only", required |-> config.required]
           x == [at |-> where, turn |-> t, sponsored |-> sponsored,
                 host |-> SynthesiseReceipt(config.mode, sponsored)]
<1>1. sponsored \in Sponsored /\ config.mode \in Modes
  BY DEF Sponsored, ContextUses
<1>2. /\ Validate(sponsored, SynthesiseReceipt(config.mode, sponsored))
      /\ SynthesiseReceipt(config.mode, sponsored) \in HostReceipts
  <2> HIDE DEF sponsored
  <2> QED BY <1>1, SynthesisedValidates
<1>3. x \in Receipts /\ x.at = where /\ x.turn = t /\ Validate(x.sponsored, x.host)
  <2> HIDE DEF sponsored
  <2> QED BY <1>1, <1>2 DEF Receipts
<1>4. Caching(where, t, left) = left \/ Caching(where, t, left) = x
  BY DEF Caching
<1> HIDE DEF x
<1> QED BY <1>3, <1>4

(* A task files the pending receipt under the session it runs in, on the   *)
(* turn before its own, or under a session just created.                   *)
LEMMA FilingKeeps ==
    ASSUME IInv, NEW s \in SessionIds, NEW t, Filing(s, t),
           \/ s = sessionID /\ t = length[s] - 1
           \/ status[s] = "none" /\ t = PreSession,
           length' \in [SessionIds -> Nat],
           \A i \in SessionIds : length'[i] >= length[i],
           offered' = offered
    PROVE  /\ FiledOK' /\ UniqueOK'
           /\ \A f \in filed' : /\ f.sid \in SessionIds
                                /\ f.turn \in Nat \cup {PreSession}
                                /\ f.receipt \in Receipts
           /\ \A f \in filed' : Made(f.receipt)
<1> USE SessionIdsAssumption
<1>1. /\ length \in [SessionIds -> Nat] /\ offered \in Nat
      /\ pending \in Receipts \cup {NoReceipt}
      /\ \A f \in filed : /\ f.sid \in SessionIds
                          /\ f.turn \in Nat \cup {PreSession}
                          /\ f.receipt \in Receipts
  BY BoundsAssumption DEF IInv, TypeOK
<1>2. \A x \in Receipts : /\ x.at \in SessionIds \cup {Offering} /\ x.turn \in Nat
                          /\ Made(x) => Made(x)'
  BY <1>1 DEF Receipts, Made, Offering
<1>3. CASE UNCHANGED filed
  BY <1>1, <1>2, <1>3 DEF IInv, FiledOK, UniqueOK
<1>4. CASE pending # NoReceipt /\ ~UNCHANGED filed
  <2> DEFINE row == [sid |-> s, turn |-> t, receipt |-> pending]
  <2>1. filed' = {f \in filed : f.sid # s \/ f.turn # t} \cup {row}
    BY <1>4 DEF Filing
  <2>2. row.sid = s /\ row.turn = t /\ row.receipt = pending
    OBVIOUS
  <2> HIDE DEF row
  <2>3. pending \in Receipts
    BY <1>1, <1>4
  <2>4. Made(pending) /\ (\A f \in filed : ~SameEmission(f.receipt, pending))
    <3>1. pending.at \in SessionIds \cup {Offering} /\ pending.turn \in Nat
      BY <2>3 DEF Receipts
    <3>2. CASE pending.at = Offering /\ pending.turn < offered
      BY <1>4, <3>2 DEF IInv, FreshOK, Made
    <3>3. CASE pending.at = sessionID /\ pending.turn = length[sessionID] - 1
      <4>1. pending.at \in SessionIds /\ pending.at # Offering
        BY <3>1, <3>3 DEF IInv, TypeOK
      <4> QED BY <1>1, <1>4, <3>3, <4>1 DEF IInv, FreshOK, Made
    <3> QED BY <1>4, <3>2, <3>3 DEF IInv, PendingOK
  <2>5. t \in Nat \cup {PreSession}
    BY <1>1 DEF IInv, SessionOK, PreSession
  <2>6. pending.at = s => t = pending.turn
    BY <1>4, <2>3 DEF IInv, PendingOK, SessionOK, Receipts
  <2>7. t # PreSession => pending.at \in {s, Offering}
    BY <1>4, <2>3 DEF IInv, PendingOK, SessionOK, Receipts
  <2>8. FiledOK'
    BY <1>1, <1>2, <2>1, <2>2, <2>3, <2>4, <2>6, <2>7 DEF IInv, FiledOK
  <2>9. UniqueOK'
    <3> SUFFICES ASSUME NEW f \in filed', NEW g \in filed',
                        SameEmission(f.receipt, g.receipt)
                 PROVE  f = g
      BY DEF UniqueOK, SameEmission
    <3>1. f \in filed \/ f = row
      BY <2>1
    <3>2. g \in filed \/ g = row
      BY <2>1
    <3> QED BY <2>2, <2>4, <3>1, <3>2 DEF IInv, UniqueOK, SameEmission
  <2> QED BY <1>1, <2>1, <2>2, <2>3, <2>4, <2>5, <2>8, <2>9 DEF IInv, FiledOK
<1> QED BY <1>3, <1>4 DEF Filing

(* What was made stays made.                                               *)
LEMMA FiledStays ==
    ASSUME IInv, UNCHANGED filed,
           length' \in [SessionIds -> Nat],
           \A i \in SessionIds : length'[i] >= length[i],
           offered' \in Nat, offered' >= offered
    PROVE  FiledOK' /\ UniqueOK'
<1>1. /\ length \in [SessionIds -> Nat] /\ offered \in Nat
      /\ \A f \in filed : f.receipt \in Receipts
  BY BoundsAssumption DEF IInv, TypeOK
<1>2. \A x \in Receipts : Made(x) => Made(x)'
  BY <1>1 DEF Receipts, Made, Offering
<1> QED BY <1>1, <1>2 DEF IInv, FiledOK, UniqueOK, SameEmission

(* With no receipt pending there is nothing to say about it.               *)
LEMMA NothingPending ==
    pending' = NoReceipt => PendingOK' /\ FreshOK' /\ PendingPassesValidation'
  BY DEF PendingOK, FreshOK, PendingPassesValidation

-----------------------------------------------------------------------------
(* The bridge starts with nothing pending and nothing on file.             *)
LEMMA InitIInv == Init => IInv
<1> SUFFICES ASSUME Init PROVE IInv
  OBVIOUS
<1>1. TypeOK
  BY BoundsAssumption DEF Init, TypeOK
<1> QED
  BY <1>1, SessionIdsAssumption DEF Init, IInv, SessionOK, PendingOK, FiledOK, UniqueOK,
     FreshOK, PendingPassesValidation

(* si_get_offering: a new emission, about an offering, becomes pending.    *)
LEMMA GetOfferingIInv == IInv /\ GetOffering => IInv'
<1> SUFFICES ASSUME IInv, GetOffering PROVE IInv'
  OBVIOUS
<1>1. /\ UNCHANGED <<sessionID, length, status, filed>>
      /\ offered' = offered + 1 /\ offered \in Nat /\ offered' \in 0 .. MaxOfferings
      /\ length \in [SessionIds -> Nat]
  BY BoundsAssumption DEF GetOffering, FrameRead, server, IInv, TypeOK
<1>2. \/ pending' = pending
      \/ /\ pending' \in Receipts /\ pending'.at = Offering /\ pending'.turn = offered
         /\ Validate(pending'.sponsored, pending'.host)
  <2>1. pending' = Caching(Offering, offered, pending) /\ UNCHANGED config
    BY DEF GetOffering, FrameRead
  <2>2. config \in [mode : Modes, required : BOOLEAN]
    BY DEF IInv, TypeOK
  <2> QED BY <1>1, <2>1, <2>2, CachingShape
<1>3. TypeOK'
  BY <1>1, <1>2 DEF IInv, TypeOK, GetOffering, FrameRead
<1>4. SessionOK'
  BY <1>1 DEF IInv, SessionOK
<1>5. FiledOK' /\ UniqueOK'
  BY <1>1, FiledStays
<1>6. PendingOK' /\ PendingPassesValidation'
  <2>1. pending # NoReceipt => pending \in Receipts
    BY DEF IInv, TypeOK
  <2> QED BY <1>1, <1>2, <2>1 DEF IInv, PendingOK, PendingPassesValidation, Receipts
<1>7. FreshOK'
  BY <1>1, <1>2 DEF IInv, FreshOK, FiledOK, SameEmission, Made
<1> QED BY <1>3, <1>4, <1>5, <1>6, <1>7 DEF IInv

(* A successful initiate files what was pending and opens a session.       *)
LEMMA InitiateOkIInv == IInv /\ InitiateOk => IInv'
<1> SUFFICES ASSUME IInv, InitiateOk PROVE IInv'
  OBVIOUS
<1> PICK s \in SessionIds : /\ status[s] = "none"
                            /\ status' = [status EXCEPT ![s] = "open"]
                            /\ length' = [length EXCEPT ![s] = 1]
                            /\ Filing(s, PreSession)
                            /\ Initiated(s)
  BY DEF InitiateOk
<1>1. /\ offered' = offered /\ UNCHANGED <<config, ctx, stdin>>
      /\ loop' \in {"read", "returned"}
      /\ sessionID' = s
  BY DEF InitiateOk, FrameRead, Initiated
<1>2. /\ length \in [SessionIds -> Nat] /\ length[s] = 0
      /\ length' \in [SessionIds -> Nat]
      /\ \A i \in SessionIds : length'[i] >= length[i]
      /\ length'[s] = 1
  BY DEF IInv, TypeOK, SessionOK
<1>3. /\ FiledOK' /\ UniqueOK'
      /\ \A f \in filed' : /\ f.sid \in SessionIds
                           /\ f.turn \in Nat \cup {PreSession}
                           /\ f.receipt \in Receipts
      /\ \A f \in filed' : Made(f.receipt)
  BY <1>1, <1>2, FilingKeeps
<1>4. \/ pending' = NoReceipt
      \/ /\ pending' \in Receipts /\ pending'.at = s /\ pending'.turn = 0
         /\ Validate(pending'.sponsored, pending'.host)
  <2>1. pending' = Caching(s, 0, NoReceipt)
    BY DEF Initiated, PendingTaken
  <2>2. config \in [mode : Modes, required : BOOLEAN]
    BY DEF IInv, TypeOK
  <2> QED BY <2>1, <2>2, CachingShape
<1>5. TypeOK'
  BY <1>1, <1>2, <1>3, <1>4 DEF IInv, TypeOK
<1>6. SessionOK'
  BY <1>1, <1>2 DEF IInv, SessionOK, TypeOK
<1>7. PendingOK' /\ PendingPassesValidation'
  BY <1>1, <1>2, <1>4 DEF PendingOK, PendingPassesValidation
<1>8. FreshOK'
  <2>1. \A f \in filed' : f.receipt.at = s => f.receipt.turn < 0 /\ f.receipt.turn \in Nat
    BY <1>2, <1>3, SessionIdsAssumption DEF Made, Receipts
  <2> QED BY <1>4, <2>1 DEF FreshOK, SameEmission
<1> QED BY <1>3, <1>5, <1>6, <1>7, <1>8 DEF IInv

(* A failing initiate has filed the pending receipt or not; it is gone     *)
(* from the bridge either way.                                             *)
LEMMA InitiateFailsIInv == IInv /\ InitiateFails => IInv'
<1> SUFFICES ASSUME IInv, InitiateFails PROVE IInv'
  OBVIOUS
<1>1. /\ pending' = NoReceipt /\ UNCHANGED <<sessionID, offered, filed, config, ctx, stdin>>
      /\ loop' \in {"read", "returned"}
  BY DEF InitiateFails, FrameRead, PendingTaken
<1>2. /\ length \in [SessionIds -> Nat] /\ offered \in Nat
      /\ length' \in [SessionIds -> Nat]
      /\ status' \in [SessionIds -> {"none", "open", "terminated"}]
      /\ \A i \in SessionIds : length'[i] >= length[i]
      /\ \A i \in SessionIds : status'[i] = "none" => length'[i] = 0
      /\ \A i \in SessionIds : status[i] # "none" => status'[i] # "none"
    BY BoundsAssumption DEF InitiateFails, IInv, TypeOK, SessionOK
<1>3. TypeOK'
  BY <1>1, <1>2 DEF IInv, TypeOK
<1>4. SessionOK'
  BY <1>1, <1>2 DEF IInv, SessionOK, TypeOK
<1>5. FiledOK' /\ UniqueOK'
  BY <1>1, <1>2, FiledStays
<1> QED BY <1>1, <1>3, <1>4, <1>5, NothingPending DEF IInv

(* A successful send files what was pending on the turn it is about.       *)
LEMMA SendOkIInv == IInv /\ SendOk => IInv'
<1> SUFFICES ASSUME IInv, SendOk PROVE IInv'
  OBVIOUS
<1> DEFINE s == sessionID
<1>1. /\ s \in SessionIds /\ UNCHANGED <<sessionID, offered, status, config, ctx, stdin>>
      /\ loop' \in {"read", "returned"}
      /\ Filing(s, length[s] - 1)
      /\ length' = [length EXCEPT ![s] = @ + 2]
  BY DEF SendOk, FrameRead, IInv, TypeOK
<1>2. /\ length \in [SessionIds -> Nat]
      /\ length' \in [SessionIds -> Nat]
      /\ \A i \in SessionIds : length'[i] >= length[i]
      /\ length'[s] = length[s] + 2
      /\ \A i \in SessionIds : i # s => length'[i] = length[i]
  BY <1>1 DEF IInv, TypeOK
<1>3. /\ FiledOK' /\ UniqueOK'
      /\ \A f \in filed' : /\ f.sid \in SessionIds
                           /\ f.turn \in Nat \cup {PreSession}
                           /\ f.receipt \in Receipts
      /\ \A f \in filed' : Made(f.receipt)
  BY <1>1, <1>2, FilingKeeps
<1>4. \/ pending' = NoReceipt
      \/ /\ pending' \in Receipts /\ pending'.at = s /\ pending'.turn = length[s] + 1
         /\ Validate(pending'.sponsored, pending'.host)
  <2>1. pending' = Caching(s, length[s] + 1, NoReceipt)
    BY DEF SendOk, PendingTaken
  <2>2. config \in [mode : Modes, required : BOOLEAN] /\ length[s] + 1 \in Nat
    BY <1>1, <1>2 DEF IInv, TypeOK
  <2> QED BY <1>1, <2>1, <2>2, CachingShape
<1>5. TypeOK'
  BY <1>1, <1>2, <1>3, <1>4 DEF IInv, TypeOK
<1>6. SessionOK'
  BY <1>1, <1>2 DEF IInv, SessionOK, SendOk
<1>7. PendingOK' /\ PendingPassesValidation'
  BY <1>1, <1>2, <1>4 DEF PendingOK, PendingPassesValidation
<1>8. FreshOK'
  <2>1. \A f \in filed' : f.receipt.at = s => f.receipt.turn < length[s] /\ f.receipt.turn \in Nat
    BY <1>1, <1>2, <1>3, SessionIdsAssumption DEF Made, Receipts
  <2> QED BY <1>1, <1>2, <1>4, <2>1 DEF FreshOK, SameEmission
<1> QED BY <1>3, <1>5, <1>6, <1>7, <1>8 DEF IInv

(* A failing send, before, between or after its inserts.                   *)
LEMMA SendFailsIInv == IInv /\ SendFails => IInv'
<1> SUFFICES ASSUME IInv, SendFails PROVE IInv'
  OBVIOUS
<1>1. /\ sessionID \in SessionIds
      /\ pending' = NoReceipt /\ UNCHANGED <<sessionID, offered, status, config, ctx, stdin>>
      /\ loop' \in {"read", "returned"}
  BY DEF SendFails, FrameRead, AfterFailedSend, PendingTaken, IInv, TypeOK
<1>2. /\ length \in [SessionIds -> Nat] /\ offered \in Nat
      /\ length' \in [SessionIds -> Nat]
      /\ \A i \in SessionIds : length'[i] >= length[i]
      /\ \A i \in SessionIds : i # sessionID => length'[i] = length[i]
  BY <1>1, BoundsAssumption DEF SendFails, IInv, TypeOK
<1>3. /\ FiledOK' /\ UniqueOK'
      /\ \A f \in filed' : /\ f.sid \in SessionIds
                           /\ f.turn \in Nat \cup {PreSession}
                           /\ f.receipt \in Receipts
  <2>1. CASE UNCHANGED filed
    BY <1>1, <1>2, <2>1, FiledStays DEF IInv, TypeOK
  <2>2. CASE Filing(sessionID, length[sessionID] - 1)
    BY <1>1, <1>2, <2>2, FilingKeeps
  <2> QED BY <2>1, <2>2 DEF SendFails
<1>4. TypeOK'
  BY <1>1, <1>2, <1>3 DEF IInv, TypeOK
<1>5. SessionOK'
  BY <1>1, <1>2 DEF IInv, SessionOK, SendFails
<1> QED BY <1>1, <1>3, <1>4, <1>5, NothingPending DEF IInv

(* A terminate, successful or not, files nothing.                          *)
LEMMA TerminateIInv == IInv /\ (TerminateOk \/ TerminateFails) => IInv'
<1> SUFFICES ASSUME IInv, TerminateOk \/ TerminateFails PROVE IInv'
  OBVIOUS
<1>1. /\ UNCHANGED <<offered, length, filed, config, ctx, stdin>>
      /\ loop' \in {"read", "returned"}
      /\ sessionID \in SessionIds
      /\ length \in [SessionIds -> Nat] /\ offered \in Nat
  BY BoundsAssumption DEF TerminateOk, TerminateFails, FrameRead, IInv, TypeOK
<1>2. /\ status' \in [SessionIds -> {"none", "open", "terminated"}]
      /\ \A i \in SessionIds : status'[i] = "none" <=> status[i] = "none"
  BY <1>1 DEF TerminateOk, TerminateFails, IInv, TypeOK, SessionOK
<1>3. \/ sessionID' = NoSession /\ pending' = NoReceipt
      \/ UNCHANGED <<sessionID, pending>>
  BY DEF TerminateOk, TerminateFails, bridge
<1>4. TypeOK'
  BY <1>1, <1>2, <1>3 DEF IInv, TypeOK
<1>5. SessionOK'
  BY <1>1, <1>2, <1>3 DEF IInv, SessionOK
<1>6. FiledOK' /\ UniqueOK'
  BY <1>1, FiledStays
<1>7. PendingOK' /\ FreshOK' /\ PendingPassesValidation'
  <2>1. CASE pending' = NoReceipt
    BY <2>1, NothingPending
  <2>2. CASE UNCHANGED <<sessionID, pending>>
    BY <1>1, <2>2 DEF IInv, PendingOK, FreshOK, PendingPassesValidation
  <2> QED BY <1>3, <2>1, <2>2
<1> QED BY <1>4, <1>5, <1>6, <1>7 DEF IInv

(* Everything else leaves the session, the receipt and the server alone.   *)
LEMMA StutterIInv ==
    IInv /\ (ReadEof \/ OtherFrame \/ Signal \/ HostCloses \/ UNCHANGED vars) => IInv'
<1> SUFFICES ASSUME IInv, ReadEof \/ OtherFrame \/ Signal \/ HostCloses \/ UNCHANGED vars
             PROVE  IInv'
  OBVIOUS
<1>1. UNCHANGED <<config, sessionID, pending, offered, length, status, filed>>
  BY DEF ReadEof, OtherFrame, FrameRead, Signal, HostCloses, vars, bridge, server
<1>2. TypeOK'
  BY <1>1 DEF IInv, TypeOK, ReadEof, OtherFrame, FrameRead, Signal, HostCloses, vars
<1> QED
  BY <1>1, <1>2 DEF IInv, SessionOK, PendingOK, FiledOK, UniqueOK, FreshOK, Made,
     SameEmission, PendingPassesValidation

(* The invariant is inductive.                                             *)
LEMMA NextIInv == IInv /\ [Next]_vars => IInv'
  BY GetOfferingIInv, InitiateOkIInv, InitiateFailsIInv, SendOkIInv, SendFailsIInv,
     TerminateIInv, StutterIInv DEF Next, Tool

(* The invariant holds in every state of every behaviour.                  *)
THEOREM BridgeInductive == Spec => []IInv
<1>1. Init => IInv
  BY InitIInv
<1>2. IInv /\ [Next]_vars => IInv'
  BY NextIInv
<1> QED BY <1>1, <1>2, PTL DEF Spec

-----------------------------------------------------------------------------
(* The bridge's variables keep their types.                                *)
THEOREM BridgeTyping == Spec => []TypeOK
  BY BridgeInductive, PTL DEF IInv

(* The receipt attached to the next task always passes its gate.           *)
THEOREM PendingIsValid == Spec => []PendingPassesValidation
  BY BridgeInductive, PTL DEF IInv

(* No emission is acknowledged twice in the audit trail.                   *)
THEOREM AcknowledgedOnce == Spec => []EmissionAcknowledgedOnce
<1>1. IInv => EmissionAcknowledgedOnce
  BY DEF IInv, UniqueOK, SameEmission, EmissionAcknowledgedOnce
<1> QED BY <1>1, BridgeInductive, PTL

(* A receipt about a turn of its own session is filed on that turn.        *)
THEOREM FiledOnItsTurn == Spec => []AckedTurnIsItsOwn
<1>1. IInv => AckedTurnIsItsOwn
  BY DEF IInv, FiledOK, AckedTurnIsItsOwn
<1> QED BY <1>1, BridgeInductive, PTL

(* A receipt on a turn never comes from another conversation.              *)
THEOREM NoForeignReceipt == Spec => []TurnReceiptsStayInSession
<1>1. IInv => TurnReceiptsStayInSession
  BY DEF IInv, FiledOK, TurnReceiptsStayInSession
<1> QED BY <1>1, BridgeInductive, PTL
=============================================================================

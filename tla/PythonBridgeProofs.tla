------------------------- MODULE PythonBridgeProofs ------------------------
(***************************************************************************)
(* The receipts of the Python bridge, and when it forgets a session, for   *)
(* any number of overlapping calls, of sessions and of turns.              *)
(***************************************************************************)
EXTENDS PythonBridge, TLAPS

-----------------------------------------------------------------------------
(* The inductive invariant.                                                *)

Params  == {NoParams} \cup [op : Ops, sid : SessionIds \cup {None},
                            receipt : Emissions \cup {NoReceipt}]
Results == {Error} \cup [ok : {TRUE}, sid : SessionIds \cup {None},
                         emits : Emissions \cup {NoReceipt}]

(* What a call posted stays with it; a session that does not exist has no  *)
(* log; a termination that is acknowledged has happened, a session that is *)
(* answered has an id.                                                     *)
CallsOK ==
    /\ params \in [Calls -> Params] /\ result \in [Calls -> Results]
    /\ \A s \in SessionIds : status[s] = "none" => length[s] = 0
    /\ \A c \in Calls :
          /\ pc[c] = "idle" => params[c] = NoParams
          /\ c \in Outstanding => params[c] # NoParams
          /\ params[c] # NoParams /\ params[c].op \in {"si_send_message", "si_terminate_session"}
                => params[c].sid \in SessionIds
          /\ Is(c, "si_terminate_session") /\ pc[c] = "answered" /\ result[c] # Error
                => status[params[c].sid] = "terminated"
          /\ Is(c, "si_initiate_session") /\ pc[c] = "answered" /\ result[c] # Error
                => result[c].sid \in SessionIds

(* Call c is on its way to the server, or still there, with receipt r.     *)
Carries(c, r) ==
    pc[c] \in {"posted", "abandoned"} /\ params[c] # NoParams /\ params[c].receipt = r

(* Call c is on its way back with r, which its answer emits.               *)
Brings(c, r) == pc[c] = "answered" /\ result[c] # Error /\ result[c].emits = r

(* r is about an emission that was made.                                   *)
Made(r) == IF r.of = Offering THEN pc[r.turn] \in {"answered", "done"}
           ELSE r.turn < length[r.of]

HoldsMade ==
    /\ pending # NoReceipt => Made(pending)
    /\ \A f \in filed : Made(f.receipt)
    /\ \A r \in Emissions, c \in Calls : Carries(c, r) \/ Brings(c, r) => Made(r)

(* An emission is in one place: what it is filed on, the bridge's state,   *)
(* one call on its way to the server or one on its way back.               *)
HeldOnce ==
    /\ EmissionAcknowledgedOnce
    /\ \A f \in filed : f.receipt # pending
    /\ \A r \in Emissions, c \in Calls :
          /\ Carries(c, r) => /\ pending # r
                              /\ \A f \in filed : f.receipt # r
                              /\ \A d \in Calls : ~Brings(d, r) /\ (Carries(d, r) => c = d)
          /\ Brings(c, r) => /\ pending # r
                             /\ \A f \in filed : f.receipt # r
                             /\ \A d \in Calls : Brings(d, r) => c = d

(* r is about the last turn of the session it is about.                    *)
Latest(r) == r.of \in SessionIds => r.turn = length[r.of] - 1

(* While calls follow one another, the receipt for the next one is about   *)
(* the last turn, and nobody but the call itself changes what it rests on. *)
InTurn ==
    ~raced =>
        /\ \A c, d \in Outstanding : c = d
        /\ pending # NoReceipt => Latest(pending)
        /\ \A r \in Emissions, c \in Calls : Carries(c, r) \/ Brings(c, r) => Latest(r)
        /\ \A c \in Outstanding :
              /\ Is(c, "si_send_message") \/ Is(c, "si_initiate_session") => pending = NoReceipt
              /\ Is(c, "si_terminate_session") => session_id = params[c].sid
        /\ \A f \in filed : OnItsTurn(f)

BInv == TypeOK /\ CallsOK /\ HoldsMade /\ HeldOnce /\ InTurn

-----------------------------------------------------------------------------
(* The values.                                                             *)
LEMMA EmissionFacts ==
    /\ NoReceipt \notin Emissions
    /\ \A s \in SessionIds, n \in Nat : [of |-> s, turn |-> n] \in Emissions
    /\ \A c \in Calls : [of |-> Offering, turn |-> c] \in Emissions
    /\ \A r \in Emissions : \/ r.of \in SessionIds /\ r.turn \in Nat /\ r.of # Offering
                            \/ r.of = Offering /\ r.turn \in Calls /\ r.of \notin SessionIds
  <1>1. \A r \in Emissions : "turn" \in DOMAIN r
    BY DEF Emissions
  <1>2. "turn" \notin DOMAIN NoReceipt
    BY DEF NoReceipt
  <1>3. NoReceipt \notin Emissions
    BY <1>1, <1>2
  <1> QED  BY <1>3, OfferingAssumption DEF Emissions

(* A call that was posted has an operation, a session and a receipt.       *)
LEMMA ParamsFacts ==
    /\ \A p \in Params : p # NoParams => p \in [op : Ops, sid : SessionIds \cup {None},
                                                receipt : Emissions \cup {NoReceipt}]
    /\ \A op \in Ops, sid \in SessionIds \cup {None}, r \in Emissions \cup {NoReceipt} :
          LET p == [op |-> op, sid |-> sid, receipt |-> r]
          IN  p \in Params /\ p # NoParams
    /\ NoParams \in Params
  <1>1. \A op, sid, r : "sid" \in DOMAIN [op |-> op, sid |-> sid, receipt |-> r]
    OBVIOUS
  <1>2. "sid" \notin DOMAIN NoParams
    BY DEF NoParams
  <1> QED  BY <1>1, <1>2 DEF Params

(* A result is an error, or a session and what it emits.                   *)
LEMMA ResultsFacts ==
    /\ \A x \in Results : x # Error => x \in [ok : {TRUE}, sid : SessionIds \cup {None},
                                              emits : Emissions \cup {NoReceipt}]
    /\ \A sid \in SessionIds \cup {None}, r \in Emissions \cup {NoReceipt} :
          LET x == [ok |-> TRUE, sid |-> sid, emits |-> r]
          IN  x \in Results /\ x # Error
    /\ Error \in Results
  <1>1. \A sid, r : "sid" \in DOMAIN [ok |-> TRUE, sid |-> sid, emits |-> r]
    OBVIOUS
  <1>2. "sid" \notin DOMAIN Error
    BY DEF Error
  <1> QED  BY <1>1, <1>2 DEF Results

(* TypeOK, of the parts that a step may disturb.                           *)
ServerTypes ==
    /\ length \in [SessionIds -> Nat]
    /\ status \in [SessionIds -> {"none", "open", "terminated"}]
    /\ \A f \in filed : f \in [sid : SessionIds, turn : Nat \cup {PreSession},
                               receipt : Emissions]

BridgeTypes ==
    /\ mode \in {"null", "synthesise"}
    /\ session_id \in SessionIds \cup {None}
    /\ pending \in Emissions \cup {NoReceipt}
    /\ pc \in [Calls -> {"idle", "posted", "answered", "abandoned", "done"}]
    /\ params \in [Calls -> Params] /\ result \in [Calls -> Results]
    /\ raced \in BOOLEAN

(* The type invariant in two halves, the server's and the bridge's.        *)
LEMMA TypesFacts ==
    /\ TypeOK /\ CallsOK => ServerTypes /\ BridgeTypes
    /\ ServerTypes /\ BridgeTypes => TypeOK
  BY DEF TypeOK, CallsOK, ServerTypes, BridgeTypes, Params, Results

(* Nothing was emitted and nobody holds anything.                          *)
LEMMA InitBInv == Init => BInv
  <1> SUFFICES ASSUME Init PROVE BInv
    OBVIOUS
  <1>1. TypeOK
    BY DEF Init, TypeOK
  <1>2. CallsOK
    BY ParamsFacts, ResultsFacts DEF Init, CallsOK, Outstanding, Is
  <1>3. HoldsMade /\ HeldOnce
    BY DEF Init, HoldsMade, HeldOnce, EmissionAcknowledgedOnce, Carries, Brings
  <1>4. InTurn
    BY DEF Init, InTurn, Carries, Brings, Outstanding
  <1> QED  BY <1>1, <1>2, <1>3, <1>4 DEF BInv

-----------------------------------------------------------------------------
(* dispatch posts: the pending receipt goes along, or stays.               *)
Posted(c, p) ==
    /\ pc[c] = "idle" /\ pc' = [pc EXCEPT ![c] = "posted"]
    /\ p \in Params /\ p # NoParams
    /\ params' = [params EXCEPT ![c] = p]
    /\ raced' = (raced \/ Outstanding # {})
    /\ UNCHANGED <<mode, session_id, result, server>>
    /\ p.op \in {"si_send_message", "si_terminate_session"} =>
          p.sid = session_id /\ p.sid \in SessionIds
    /\ p.op \in {"si_send_message", "si_initiate_session"} => pending' = NoReceipt
    /\ \/ p.receipt = pending /\ pending' = NoReceipt
       \/ p.receipt = NoReceipt /\ pending' = pending

(* What the four tools have in common up to their first await: the receipt *)
(* is taken from the state and sent, or left where it is.                  *)
LEMMA PostFacts ==
    ASSUME BInv, NEW c \in Calls, GetOffering(c) \/ Initiate(c) \/ Send(c) \/ Terminate(c)
    PROVE  \E p \in Params : Posted(c, p)
  <1>1. pending \in Emissions \cup {NoReceipt} /\ session_id \in SessionIds \cup {None}
    BY DEF BInv, TypeOK
  <1>2. PICK op \in Ops, sid \in SessionIds \cup {None}, r \in Emissions \cup {NoReceipt} :
           /\ Post(c, op, sid, r)
           /\ op \in {"si_send_message", "si_terminate_session"} =>
                 sid = session_id /\ sid \in SessionIds
           /\ op \in {"si_send_message", "si_initiate_session"} => pending' = NoReceipt
           /\ \/ r = pending /\ pending' = NoReceipt
              \/ r = NoReceipt /\ pending' = pending
    BY <1>1 DEF GetOffering, Initiate, Send, Terminate, Taken, Ops
  <1> DEFINE p == [op |-> op, sid |-> sid, receipt |-> r]
  <1>3. p \in Params /\ p # NoParams
    BY ParamsFacts
  <1>4. p.op = op /\ p.sid = sid /\ p.receipt = r
    OBVIOUS
  <1>5. /\ pc[c] = "idle" /\ pc' = [pc EXCEPT ![c] = "posted"]
        /\ params' = [params EXCEPT ![c] = p]
        /\ raced' = (raced \/ Outstanding # {})
        /\ UNCHANGED <<mode, session_id, result, server>>
    BY <1>2 DEF Post
  <1> HIDE DEF p
  <1>6. Posted(c, p)
    BY <1>2, <1>3, <1>4, <1>5 DEF Posted
  <1> QED  BY <1>3, <1>6

(* The bridge posts a call.                                                *)
LEMMA PostStep ==
    ASSUME BInv, NEW c \in Calls, GetOffering(c) \/ Initiate(c) \/ Send(c) \/ Terminate(c)
    PROVE  BInv'
  <1>1. PICK p \in Params : Posted(c, p)
    BY PostFacts
  <1>t. ServerTypes /\ BridgeTypes
    BY TypesFacts DEF BInv
  <1>2. /\ params'[c] = p /\ pc'[c] = "posted"
        /\ \A d \in Calls \ {c} : params'[d] = params[d] /\ pc'[d] = pc[d]
        /\ UNCHANGED <<mode, session_id, result, length, status, filed>>
        /\ p \in [op : Ops, sid : SessionIds \cup {None}, receipt : Emissions \cup {NoReceipt}]
    BY <1>1, <1>t, ParamsFacts DEF Posted, BridgeTypes, server
  <1>3. ServerTypes' /\ BridgeTypes'
    <2>1. ServerTypes'
      BY <1>2, <1>t DEF ServerTypes
    <2>2. params' \in [Calls -> Params]
          /\ pc' \in [Calls -> {"idle", "posted", "answered", "abandoned", "done"}]
      BY <1>1, <1>t DEF Posted, BridgeTypes
    <2>3. pending' \in Emissions \cup {NoReceipt} /\ raced' \in BOOLEAN
      BY <1>1, <1>t DEF Posted, BridgeTypes
    <2> QED  BY <1>2, <1>t, <2>1, <2>2, <2>3 DEF BridgeTypes
  <1>4. TypeOK'
    BY <1>3 DEF TypeOK, ServerTypes, BridgeTypes, Params, Results
  <1>5. CallsOK'
    <2>1. params' \in [Calls -> Params] /\ result' \in [Calls -> Results]
      BY <1>3 DEF BridgeTypes
    <2>2. \A s \in SessionIds : status'[s] = "none" => length'[s] = 0
      BY <1>2 DEF BInv, CallsOK
    <2>3. ASSUME NEW d \in Calls
          PROVE  /\ pc'[d] = "idle" => params'[d] = NoParams
                 /\ d \in Outstanding' => params'[d] # NoParams
                 /\ params'[d] # NoParams
                       /\ params'[d].op \in {"si_send_message", "si_terminate_session"}
                    => params'[d].sid \in SessionIds
                 /\ Is(d, "si_terminate_session")' /\ pc'[d] = "answered" /\ result'[d] # Error
                       => status'[params'[d].sid] = "terminated"
                 /\ Is(d, "si_initiate_session")' /\ pc'[d] = "answered" /\ result'[d] # Error
                       => result'[d].sid \in SessionIds
      BY <1>1, <1>2 DEF BInv, CallsOK, Outstanding, Posted, Is
    <2> QED  BY <2>1, <2>2, <2>3 DEF CallsOK
  (* What c carries is what was pending.                                   *)
  <1>6. \A r \in Emissions, d \in Calls :
           /\ Carries(d, r)' => IF d = c THEN pending = r /\ pending' = NoReceipt
                                ELSE Carries(d, r)
           /\ Brings(d, r)' => Brings(d, r) /\ d # c
    BY <1>1, <1>2, EmissionFacts DEF Posted, Carries, Brings
  <1>7. pending' = pending \/ pending' = NoReceipt
    BY <1>1 DEF Posted
  <1>8. \A r \in Emissions : Made(r) => Made(r)'
    BY <1>1, <1>2, EmissionFacts DEF Made, Posted
  <1>9. HoldsMade'
    <2>1. pending' # NoReceipt => Made(pending)'
      BY <1>7, <1>8, <1>t DEF BInv, HoldsMade, BridgeTypes, Made
    <2>2. \A f \in filed' : Made(f.receipt)'
      BY <1>2, <1>8, <1>t DEF BInv, HoldsMade, ServerTypes
    <2>3. \A r \in Emissions, d \in Calls : Carries(d, r)' \/ Brings(d, r)' => Made(r)'
      BY <1>6, <1>8, EmissionFacts DEF BInv, HoldsMade
    <2> QED  BY <2>1, <2>2, <2>3 DEF HoldsMade
  <1>10. HeldOnce'
    <2>1. EmissionAcknowledgedOnce'
      BY <1>2 DEF BInv, HeldOnce, EmissionAcknowledgedOnce
    <2>2. \A f \in filed' : f.receipt # pending'
      BY <1>2, <1>7, <1>t, EmissionFacts DEF BInv, HeldOnce, ServerTypes
    <2>3. ASSUME NEW r \in Emissions, NEW d \in Calls
          PROVE  /\ Carries(d, r)' => /\ pending' # r
                                      /\ \A f \in filed' : f.receipt # r
                                      /\ \A e \in Calls : ~Brings(e, r)'
                                                          /\ (Carries(e, r)' => d = e)
                 /\ Brings(d, r)' => /\ pending' # r
                                     /\ \A f \in filed' : f.receipt # r
                                     /\ \A e \in Calls : Brings(e, r)' => d = e
      BY <1>2, <1>6, <1>7, EmissionFacts DEF BInv, HeldOnce
    <2> QED  BY <2>1, <2>2, <2>3 DEF HeldOnce
  <1>11. InTurn'
    <2> SUFFICES ASSUME ~raced' PROVE InTurn'
      BY DEF InTurn
    <2>1. ~raced /\ Outstanding = {} /\ Outstanding' = {c}
      BY <1>1, <1>2 DEF Posted, Outstanding
    <2>2. \A d, e \in Outstanding' : d = e
      BY <2>1
    <2>3. \A r \in Emissions : Latest(r)' <=> Latest(r)
      BY <1>2 DEF Latest
    <2>4. pending' # NoReceipt => Latest(pending)'
      BY <1>2, <1>7, <2>1 DEF BInv, InTurn, Latest
    <2>5. \A r \in Emissions, d \in Calls : Carries(d, r)' \/ Brings(d, r)' => Latest(r)'
      BY <1>6, <2>1, <2>3, EmissionFacts DEF BInv, InTurn
    <2>6. \A d \in Outstanding' :
             /\ Is(d, "si_send_message")' \/ Is(d, "si_initiate_session")'
                   => pending' = NoReceipt
             /\ Is(d, "si_terminate_session")' => session_id' = params'[d].sid
      BY <1>1, <1>2, <2>1 DEF Posted, Is
    <2>7. \A f \in filed' : OnItsTurn(f)
      BY <1>2, <2>1 DEF BInv, InTurn
    <2> QED  BY <2>2, <2>4, <2>5, <2>6, <2>7 DEF InTurn
  <1> QED  BY <1>4, <1>5, <1>9, <1>10, <1>11 DEF BInv

-----------------------------------------------------------------------------
(* A call that is refused, given up, or returns: the server does nothing,  *)
(* and what the bridge keeps is what it had, nothing, or what the call     *)
(* brought.                                                                *)
Quiet(c) ==
    /\ UNCHANGED <<mode, params, result, server, raced>>
    /\ \/ pc[c] \in {"idle", "answered"} /\ pc' = [pc EXCEPT ![c] = "done"]
       \/ pc[c] = "posted" /\ pc' = [pc EXCEPT ![c] = "abandoned"]
    /\ \/ pending' \in {pending, NoReceipt}
       \/ pending' \in Emissions /\ Brings(c, pending')
    /\ session_id' \in SessionIds \cup {None}
    /\ session_id' = session_id \/ pc[c] = "answered"

(* What a return, a refusal and a timeout have in common: the bridge takes *)
(* what the result brings, or nothing.                                     *)
LEMMA QuietFacts ==
    ASSUME BInv, NEW c \in Calls, Refused(c) \/ TimesOut(c) \/ Return(c)
    PROVE  Quiet(c)
  <1>t. BridgeTypes
    BY TypesFacts DEF BInv
  <1>1. CASE Refused(c)
    BY <1>t, <1>1 DEF Refused, Quiet, BridgeTypes, state
  <1>2. CASE TimesOut(c)
    BY <1>t, <1>2 DEF TimesOut, AfterError, Quiet, BridgeTypes, state
  <1>3. CASE Return(c)
    <2>1. /\ pc[c] = "answered" /\ pc' = [pc EXCEPT ![c] = "done"]
          /\ UNCHANGED <<mode, params, result, server, raced>>
      BY <1>3 DEF Return
    <2>2. CASE result[c] = Error /\ AfterError(c)
      BY <1>t, <2>1, <2>2 DEF Quiet, AfterError, state, BridgeTypes
    <2>3. ASSUME result[c] # Error, session_id' \in {session_id, None, result[c].sid},
                 pending' \in {NoReceipt, Cached(result[c].emits)}
          PROVE  Quiet(c)
      <3>1. result[c].sid \in SessionIds \cup {None}
            /\ result[c].emits \in Emissions \cup {NoReceipt}
        <4>1. result[c] \in Results
          BY <1>t DEF BridgeTypes
        <4>2. result[c] \in [ok : {TRUE}, sid : SessionIds \cup {None},
                             emits : Emissions \cup {NoReceipt}]
          BY <2>3, <4>1, ResultsFacts
        <4> QED  BY <4>2
      <3>2. \/ pending' \in {pending, NoReceipt}
            \/ pending' \in Emissions /\ pending' = result[c].emits
        BY <2>3, <3>1 DEF Cached
      <3>3. session_id' \in SessionIds \cup {None}
        BY <1>t, <2>3, <3>1 DEF BridgeTypes
      <3> QED  BY <2>1, <2>3, <3>2, <3>3 DEF Quiet, Brings
    <2> QED  BY <1>3, <2>2, <2>3 DEF Return
  <1> QED  BY <1>1, <1>2, <1>3

(* A call ends in the bridge, whether the server is done with it or not.   *)
LEMMA QuietStep ==
    ASSUME BInv, NEW c \in Calls, Refused(c) \/ TimesOut(c) \/ Return(c)
    PROVE  BInv'
  <1>1. Quiet(c)
    BY QuietFacts
  <1>t. ServerTypes /\ BridgeTypes
    BY TypesFacts DEF BInv
  <1>2. /\ pc'[c] \in {"done", "abandoned"}
        /\ pc'[c] = "abandoned" => pc[c] = "posted"
        /\ pc[c] \notin {"abandoned", "done"}
        /\ \A d \in Calls \ {c} : pc'[d] = pc[d]
        /\ UNCHANGED <<params, result, length, status, filed, raced>>
    BY <1>1, <1>t DEF Quiet, BridgeTypes, server
  <1>3. TypeOK'
    <2>1. pc' \in [Calls -> {"idle", "posted", "answered", "abandoned", "done"}]
      BY <1>1, <1>t DEF Quiet, BridgeTypes
    <2>2. pending' \in Emissions \cup {NoReceipt}
      BY <1>1, <1>t DEF Quiet, BridgeTypes
    <2>3. UNCHANGED mode /\ session_id' \in SessionIds \cup {None}
      BY <1>1 DEF Quiet
    <2> QED  BY <1>2, <2>1, <2>2, <2>3 DEF BInv, TypeOK
  <1>4. CallsOK'
    <2>1. params' \in [Calls -> Params] /\ result' \in [Calls -> Results]
          /\ \A s \in SessionIds : status'[s] = "none" => length'[s] = 0
      BY <1>2 DEF BInv, CallsOK
    <2>2. ASSUME NEW d \in Calls
          PROVE  /\ pc'[d] = "idle" => params'[d] = NoParams
                 /\ d \in Outstanding' => params'[d] # NoParams
                 /\ params'[d] # NoParams
                       /\ params'[d].op \in {"si_send_message", "si_terminate_session"}
                    => params'[d].sid \in SessionIds
                 /\ Is(d, "si_terminate_session")' /\ pc'[d] = "answered" /\ result'[d] # Error
                       => status'[params'[d].sid] = "terminated"
                 /\ Is(d, "si_initiate_session")' /\ pc'[d] = "answered" /\ result'[d] # Error
                       => result'[d].sid \in SessionIds
      BY <1>2 DEF BInv, CallsOK, Outstanding, Is
    <2> QED  BY <2>1, <2>2 DEF CallsOK
  <1>5. \A r \in Emissions, d \in Calls :
           /\ Carries(d, r)' => Carries(d, r)
           /\ Brings(d, r)' => Brings(d, r) /\ d # c
    BY <1>2 DEF Carries, Brings
  <1>6. \/ pending' \in {pending, NoReceipt}
        \/ pending' \in Emissions /\ Brings(c, pending')
    BY <1>1 DEF Quiet
  <1>7. \A r \in Emissions : Made(r) => Made(r)'
    BY <1>2, EmissionFacts DEF Made
  <1>8. HoldsMade'
    <2>1. ASSUME pending' # NoReceipt PROVE Made(pending)'
      <3>1. PICK r \in Emissions : pending' = r /\ Made(r)
        BY <1>6, <1>t, <2>1 DEF BInv, HoldsMade, BridgeTypes
      <3>2. Made(r)'
        BY <1>7, <3>1
      <3> QED  BY <3>1, <3>2 DEF Made
    <2>2. \A f \in filed' : Made(f.receipt)'
      BY <1>2, <1>7, <1>t DEF BInv, HoldsMade, ServerTypes
    <2>3. \A r \in Emissions, d \in Calls : Carries(d, r)' \/ Brings(d, r)' => Made(r)'
      BY <1>5, <1>7 DEF BInv, HoldsMade
    <2> QED  BY <2>1, <2>2, <2>3 DEF HoldsMade
  <1>9. HeldOnce'
    <2>1. EmissionAcknowledgedOnce'
      BY <1>2 DEF BInv, HeldOnce, EmissionAcknowledgedOnce
    <2>2. \A f \in filed' : f.receipt # pending'
      BY <1>2, <1>6, <1>t, EmissionFacts DEF BInv, HeldOnce, ServerTypes
    <2>3. ASSUME NEW r \in Emissions, NEW d \in Calls
          PROVE  /\ Carries(d, r)' => /\ pending' # r
                                      /\ \A f \in filed' : f.receipt # r
                                      /\ \A e \in Calls : ~Brings(e, r)'
                                                          /\ (Carries(e, r)' => d = e)
                 /\ Brings(d, r)' => /\ pending' # r
                                     /\ \A f \in filed' : f.receipt # r
                                     /\ \A e \in Calls : Brings(e, r)' => d = e
      BY <1>2, <1>5, <1>6, EmissionFacts DEF BInv, HeldOnce
    <2> QED  BY <2>1, <2>2, <2>3 DEF HeldOnce
  <1>10. InTurn'
    <2> SUFFICES ASSUME ~raced' PROVE InTurn'
      BY DEF InTurn
    <2>1. ~raced /\ Outstanding' \subseteq Outstanding
      BY <1>2 DEF Outstanding
    <2>2. \A d, e \in Outstanding' : d = e
      BY <2>1 DEF BInv, InTurn
    <2>3. \A r \in Emissions : Latest(r)' <=> Latest(r)
      BY <1>2 DEF Latest
    <2>4. ASSUME pending' # NoReceipt PROVE Latest(pending)'
      <3>1. PICK r \in Emissions : pending' = r /\ Latest(r)
        BY <1>6, <1>t, <2>1, <2>4 DEF BInv, InTurn, BridgeTypes
      <3>2. Latest(r)'
        BY <2>3, <3>1
      <3> QED  BY <3>1, <3>2 DEF Latest
    <2>5. \A r \in Emissions, d \in Calls : Carries(d, r)' \/ Brings(d, r)' => Latest(r)'
      BY <1>5, <2>1, <2>3 DEF BInv, InTurn
    <2>6. ASSUME NEW d \in Outstanding'
          PROVE  /\ Is(d, "si_send_message")' \/ Is(d, "si_initiate_session")'
                       => pending' = NoReceipt
                 /\ Is(d, "si_terminate_session")' => session_id' = params'[d].sid
      <3>1. d \in Outstanding /\ (c \in Outstanding => c = d)
        BY <2>1 DEF BInv, InTurn
      (* A call that returned is not outstanding.                          *)
      <3>2. pc[c] # "answered"
        BY <1>2, <3>1 DEF Outstanding
      <3>3. session_id' = session_id /\ pending' \in {pending, NoReceipt}
        BY <1>1, <3>2 DEF Quiet, Brings
      <3> QED  BY <1>2, <2>1, <3>1, <3>3 DEF BInv, InTurn, Is
    <2>7. \A f \in filed' : OnItsTurn(f)
      BY <1>2, <2>1 DEF BInv, InTurn
    <2> QED  BY <2>2, <2>4, <2>5, <2>6, <2>7 DEF InTurn
  <1> QED  BY <1>3, <1>4, <1>8, <1>9, <1>10 DEF BInv

-----------------------------------------------------------------------------
(* The server: what the task of call c may leave, r being what it answers. *)

(* A receipt that is filed is filed on the turn that was the last one.     *)
FiledBy(c) ==
    \/ filed' = filed
    \/ \E s \in SessionIds :
          /\ params[c].receipt # NoReceipt
          /\ filed' = {f \in filed : f.sid # s \/ f.turn # length[s] - 1}
                      \cup {[sid |-> s, turn |-> length[s] - 1, receipt |-> params[c].receipt]}

(* An emission that is answered is a new one, and the latest.              *)
Emitted(c, e) ==
    /\ e \in Emissions
    /\ IF e.of = Offering THEN e.turn = c
       ELSE e.turn >= length[e.of] /\ e.turn = length'[e.of] - 1

ServedAs(c, r) ==
    /\ Respond(c, r) /\ r \in Results
    /\ r # Error => r.emits = NoReceipt \/ Emitted(c, r.emits)
    /\ FiledBy(c)
    /\ \A s \in SessionIds :
          /\ length'[s] \in Nat /\ length'[s] >= length[s]
          /\ status'[s] \in {"none", "open", "terminated"}
          /\ status[s] = "terminated" => status'[s] = "terminated"
          /\ status'[s] = "none" => status[s] = "none" /\ length'[s] = length[s]
    /\ length' \in [SessionIds -> Nat]
    /\ status' \in [SessionIds -> {"none", "open", "terminated"}]
    /\ \/ UNCHANGED <<length, filed>>
       \/ Is(c, "si_send_message") \/ Is(c, "si_initiate_session")
    /\ Is(c, "si_terminate_session") /\ r # Error => status'[params[c].sid] = "terminated"
    /\ Is(c, "si_initiate_session") /\ r # Error => r.sid \in SessionIds

(* A session and an emission make a result.                                *)
LEMMA AnyResult ==
    ASSUME NEW sid \in SessionIds \cup {None}, NEW e \in Emissions \cup {NoReceipt}
    PROVE  /\ [ok |-> TRUE, sid |-> sid, emits |-> e] \in Results
           /\ [ok |-> TRUE, sid |-> sid, emits |-> e].emits = e
           /\ [ok |-> TRUE, sid |-> sid, emits |-> e].sid = sid
  BY ResultsFacts

(* What the server does with a call, whichever it is and however it ends.  *)
LEMMA ServeFacts ==
    ASSUME BInv, NEW c \in Calls, Serve(c)
    PROVE  \E r \in Results : ServedAs(c, r)
  <1>t. ServerTypes /\ BridgeTypes
    BY TypesFacts DEF BInv
  <1>s. \A s \in SessionIds : length[s] \in Nat /\ (status[s] = "none" => length[s] = 0)
    BY <1>t DEF BInv, CallsOK, ServerTypes
  <1>p. /\ Is(c, "si_send_message") \/ Is(c, "si_terminate_session") => params[c].sid \in SessionIds
        /\ ~(Is(c, "si_send_message") /\ Is(c, "si_terminate_session"))
        /\ ~(Is(c, "si_initiate_session") /\ Is(c, "si_terminate_session"))
        /\ ~(Is(c, "si_get_offering") /\ Is(c, "si_terminate_session"))
        /\ ~(Is(c, "si_get_offering") /\ Is(c, "si_initiate_session"))
        /\ ~(Is(c, "si_send_message") /\ Is(c, "si_initiate_session"))
    BY DEF BInv, CallsOK, Is
  <1>e. Error \in Results
    BY ResultsFacts
  (* What does not touch the server.                                       *)
  <1>1. ASSUME NEW r \in Results, Respond(c, r), UNCHANGED server,
               r # Error => Is(c, "si_get_offering") /\ Emitted(c, r.emits)
        PROVE  ServedAs(c, r)
    BY <1>1, <1>t, <1>s, <1>p DEF ServedAs, server, FiledBy, ServerTypes
  <1>2. CASE OfferingServed(c)
    <2> DEFINE e == [of |-> Offering, turn |-> c]
               r == [ok |-> TRUE, sid |-> None, emits |-> e]
    <2>1. e \in Emissions
      BY EmissionFacts
    <2>2. r \in Results /\ r.emits = e
      BY <2>1, AnyResult
    <2>3. Emitted(c, e)
      BY <2>1 DEF Emitted
    <2>4. Respond(c, r) /\ UNCHANGED server /\ Is(c, "si_get_offering")
      BY <1>2 DEF OfferingServed
    <2> HIDE DEF r, e
    <2> QED  BY <1>1, <2>2, <2>3, <2>4
  <1>3. CASE NothingDone(c)
    BY <1>e, <1>1, <1>3 DEF NothingDone
  (* A session is made, with a welcome or without.                         *)
  <1>4. ASSUME NEW s \in SessionIds, status[s] = "none", Is(c, "si_initiate_session"),
               NEW n \in 0 .. 1, NEW r \in Results, Respond(c, r),
               status' = [status EXCEPT ![s] = "open"], length' = [length EXCEPT ![s] = n],
               FiledBy(c), r # Error => Emitted(c, r.emits) /\ r.sid = s
        PROVE  ServedAs(c, r)
    <2>1. length' \in [SessionIds -> Nat]
          /\ status' \in [SessionIds -> {"none", "open", "terminated"}]
      BY <1>4, <1>t DEF ServerTypes
    <2>2. \A q \in SessionIds :
             /\ length'[q] \in Nat /\ length'[q] >= length[q]
             /\ status[q] = "terminated" => status'[q] = "terminated"
             /\ status'[q] = "none" => status[q] = "none" /\ length'[q] = length[q]
      BY <1>4, <1>s, <1>t DEF ServerTypes
    <2> QED  BY <1>4, <1>p, <2>1, <2>2 DEF ServedAs
  <1>5. CASE InitiateServed(c)
    <2>1. PICK s \in SessionIds :
             /\ status[s] = "none"
             /\ status' = [status EXCEPT ![s] = "open"]
             /\ length' = [length EXCEPT ![s] = 1]
             /\ Filing(c, s, PreSession)
             /\ Respond(c, [ok |-> TRUE, sid |-> s, emits |-> [of |-> s, turn |-> 0]])
      BY <1>5 DEF InitiateServed
    <2> DEFINE e == [of |-> s, turn |-> 0]
               r == [ok |-> TRUE, sid |-> s, emits |-> e]
    <2>2. e \in Emissions /\ e.of = s /\ e.turn = 0
      BY EmissionFacts
    <2>3. r \in Results /\ r.emits = e /\ r.sid = s /\ Respond(c, r)
      BY <2>1, <2>2, AnyResult
    <2> HIDE DEF e, r
    <2>4. length[s] = 0 /\ length'[s] = 1
      BY <1>s, <1>t, <2>1 DEF ServerTypes
    <2>5. Emitted(c, e)
      BY <2>2, <2>4, OfferingAssumption DEF Emitted
    <2>6. PreSession = length[s] - 1
      BY <2>4 DEF PreSession
    <2>7. FiledBy(c)
      BY <2>1, <2>6 DEF Filing, FiledBy
    <2>8. ServedAs(c, r)
      <3>1. 1 \in 0 .. 1 /\ Is(c, "si_initiate_session")
        BY <1>5 DEF InitiateServed
      <3> QED  BY <1>4, <2>1, <2>3, <2>5, <2>7, <3>1
    <2> QED  BY <2>3, <2>8
  <1>6. CASE InitiateFails(c)
    <2>1. PICK s \in SessionIds, n \in 0 .. 1 :
             /\ status[s] = "none"
             /\ status' = [status EXCEPT ![s] = "open"]
             /\ length' = [length EXCEPT ![s] = n]
      BY <1>6 DEF InitiateFails
    <2>2. Respond(c, Error) /\ FiledBy(c) /\ Is(c, "si_initiate_session")
      BY <1>6 DEF InitiateFails, FiledBy
    <2> QED  BY <1>4, <1>e, <2>1, <2>2
  (* A conversation gets on, by as many turns as were appended.            *)
  <1>7. ASSUME NEW n \in 0 .. 2, NEW r \in Results, Respond(c, r), Is(c, "si_send_message"),
               length' = [length EXCEPT ![params[c].sid] = @ + n], UNCHANGED status,
               status[params[c].sid] = "open",
               FiledBy(c), r # Error => Emitted(c, r.emits)
        PROVE  ServedAs(c, r)
    <2>1. PICK s \in SessionIds : s = params[c].sid
      BY <1>p, <1>7
    <2>2. length' = [length EXCEPT ![s] = length[s] + n] /\ length[s] + n \in Nat
      BY <1>7, <1>s, <2>1
    <2>3. length' \in [SessionIds -> Nat]
          /\ status' \in [SessionIds -> {"none", "open", "terminated"}]
      BY <1>7, <1>t, <2>2 DEF ServerTypes
    <2>4. \A q \in SessionIds :
             /\ length'[q] \in Nat /\ length'[q] >= length[q]
             /\ status[q] = "terminated" => status'[q] = "terminated"
             /\ status'[q] = "none" => status[q] = "none" /\ length'[q] = length[q]
      BY <1>7, <1>s, <1>t, <2>1, <2>2 DEF ServerTypes
    <2> QED  BY <1>7, <1>p, <2>3, <2>4 DEF ServedAs
  <1>8. CASE SendServed(c)
    <2>1. PICK s \in SessionIds : s = params[c].sid
      BY <1>p, <1>8 DEF SendServed
    <2> DEFINE e == [of |-> s, turn |-> length[s] + 1]
               r == [ok |-> TRUE, sid |-> s, emits |-> e]
    <2>2. /\ Is(c, "si_send_message") /\ status[s] = "open"
          /\ length' = [length EXCEPT ![s] = length[s] + 2]
          /\ Filing(c, s, length[s] - 1)
          /\ Respond(c, r) /\ UNCHANGED status
      BY <1>8, <2>1 DEF SendServed
    <2>3. e \in Emissions /\ e.of = s /\ e.turn = length[s] + 1
      BY <1>s, EmissionFacts
    <2>4. r \in Results /\ r.emits = e
      BY <2>3, AnyResult
    <2> HIDE DEF e, r
    <2>5. length'[s] = length[s] + 2
      BY <1>t, <2>2 DEF ServerTypes
    <2>6. Emitted(c, e)
      BY <1>s, <2>3, <2>5, OfferingAssumption DEF Emitted
    <2>7. FiledBy(c)
      BY <2>2 DEF Filing, FiledBy
    <2>8. ServedAs(c, r)
      <3>1. 2 \in 0 .. 2
        OBVIOUS
      <3> QED  BY <1>7, <2>1, <2>2, <2>4, <2>6, <2>7, <3>1
    <2> QED  BY <2>4, <2>8
  <1>9. CASE SendFails(c)
    <2>1. PICK s \in SessionIds : s = params[c].sid
      BY <1>p, <1>9 DEF SendFails
    <2>2. PICK n \in 0 .. 2 : length' = [length EXCEPT ![s] = length[s] + n]
      BY <1>9, <2>1 DEF SendFails
    <2>3. /\ Is(c, "si_send_message") /\ status[s] = "open" /\ UNCHANGED status
          /\ Filing(c, s, length[s] - 1) /\ Respond(c, Error)
      BY <1>9, <2>1 DEF SendFails
    <2>4. FiledBy(c)
      BY <2>3 DEF Filing, FiledBy
    <2> QED  BY <1>7, <1>e, <2>1, <2>2, <2>3, <2>4
  <1>10. ASSUME NEW r \in Results, Respond(c, r), Is(c, "si_terminate_session"),
                status' = [status EXCEPT ![params[c].sid] = "terminated"],
                UNCHANGED <<length, filed>>, r # Error => r.emits = NoReceipt
         PROVE  ServedAs(c, r)
    <2>1. PICK s \in SessionIds : s = params[c].sid
      BY <1>p, <1>10
    <2> QED  BY <1>10, <1>p, <1>s, <1>t, <2>1 DEF ServedAs, FiledBy, ServerTypes
  <1>11. CASE TerminateServed(c)
    <2> DEFINE r == [ok |-> TRUE, sid |-> params[c].sid, emits |-> NoReceipt]
    <2>1. r \in Results /\ r.emits = NoReceipt
      <3>1. params[c].sid \in SessionIds \cup {None}
        BY <1>p, <1>11 DEF TerminateServed
      <3> QED  BY <3>1, AnyResult
    <2>2. /\ Respond(c, r) /\ Is(c, "si_terminate_session")
          /\ status' = [status EXCEPT ![params[c].sid] = "terminated"]
          /\ UNCHANGED <<length, filed>>
      BY <1>11 DEF TerminateServed
    <2> HIDE DEF r
    <2> QED  BY <1>10, <2>1, <2>2
  <1>12. CASE TerminateFails(c)
    BY <1>10, <1>e, <1>12 DEF TerminateFails
  <1> QED
    BY <1>e, <1>2, <1>3, <1>5, <1>6, <1>8, <1>9, <1>11, <1>12 DEF Serve

(* The server handles a call that was posted or given up.                  *)
LEMMA ServeStep ==
    ASSUME BInv, NEW c \in Calls, Serve(c)
    PROVE  BInv'
  <1>1. PICK r \in Results : ServedAs(c, r)
    BY ServeFacts
  <1>t. ServerTypes /\ BridgeTypes
    BY TypesFacts DEF BInv
  <1>2. /\ pc[c] \in {"posted", "abandoned"} /\ pc'[c] \in {"answered", "done"}
        /\ pc'[c] = "answered" => result'[c] = r
        /\ \A d \in Calls \ {c} : pc'[d] = pc[d] /\ result'[d] = result[d]
        /\ UNCHANGED <<mode, session_id, pending, params, raced>>
        /\ pc' \in [Calls -> {"idle", "posted", "answered", "abandoned", "done"}]
    BY <1>1, <1>t DEF ServedAs, Respond, BridgeTypes, state
  <1>3. result' \in [Calls -> Results]
    BY <1>1, <1>t, ResultsFacts DEF ServedAs, Respond, BridgeTypes
  <1>4. params[c] # NoParams /\ params[c].receipt \in Emissions \cup {NoReceipt}
    <2>1. params[c] # NoParams
      BY <1>2 DEF BInv, CallsOK, Outstanding
    <2>2. params[c] \in [op : Ops, sid : SessionIds \cup {None},
                         receipt : Emissions \cup {NoReceipt}]
      BY <1>t, <2>1, ParamsFacts DEF BridgeTypes
    <2> QED  BY <2>1, <2>2
  (* What is filed was carried by c, and is filed on the last turn.        *)
  <1>5. ASSUME NEW f \in filed', f \notin filed
        PROVE  /\ f.sid \in SessionIds /\ f.turn = length[f.sid] - 1
               /\ f.receipt = params[c].receipt /\ f.receipt # NoReceipt
               /\ f = [sid |-> f.sid, turn |-> length[f.sid] - 1, receipt |-> params[c].receipt]
               /\ \A g \in filed' : g \in filed \/ g = f
    BY <1>1, <1>5 DEF ServedAs, FiledBy
  <1>6. TypeOK'
    <2>1. ASSUME NEW f \in filed'
          PROVE  f \in [sid : SessionIds, turn : Nat \cup {PreSession}, receipt : Emissions]
      <3>1. CASE f \in filed
        BY <1>t, <3>1 DEF ServerTypes
      <3>2. CASE f \notin filed
        <4>1. length[f.sid] - 1 \in Nat \cup {PreSession}
          <5>1. length[f.sid] \in Nat
            BY <1>5, <1>t, <3>2 DEF ServerTypes
          <5> QED  BY <5>1 DEF PreSession
        <4> QED  BY <1>4, <1>5, <3>2, <4>1
      <3> QED  BY <3>1, <3>2
    <2>2. ServerTypes'
      BY <1>1, <2>1 DEF ServedAs, ServerTypes
    <2>3. BridgeTypes'
      BY <1>2, <1>3, <1>t DEF BridgeTypes
    <2> QED  BY <2>2, <2>3 DEF TypeOK, ServerTypes, BridgeTypes, Params, Results
  <1>7. CallsOK'
    <2>1. params' \in [Calls -> Params]
      BY <1>2 DEF BInv, CallsOK
    <2>2. \A s \in SessionIds : status'[s] = "none" => length'[s] = 0
      BY <1>1 DEF ServedAs, BInv, CallsOK
    <2>3. ASSUME NEW d \in Calls
          PROVE  /\ pc'[d] = "idle" => params'[d] = NoParams
                 /\ d \in Outstanding' => params'[d] # NoParams
                 /\ params'[d] # NoParams
                       /\ params'[d].op \in {"si_send_message", "si_terminate_session"}
                    => params'[d].sid \in SessionIds
      BY <1>2, <1>4 DEF BInv, CallsOK, Outstanding
    <2>4. ASSUME NEW d \in Calls, Is(d, "si_terminate_session")', pc'[d] = "answered",
                 result'[d] # Error
          PROVE  status'[params'[d].sid] = "terminated"
      <3>1. Is(d, "si_terminate_session") /\ params'[d].sid = params[d].sid
        BY <1>2, <2>4 DEF Is
      <3>2. params[d].sid \in SessionIds
        BY <3>1 DEF BInv, CallsOK, Is
      <3>3. CASE d = c
        BY <1>1, <1>2, <2>4, <3>1, <3>3 DEF ServedAs
      <3>4. CASE d # c
        <4>1. status[params[d].sid] = "terminated"
          BY <1>2, <2>4, <3>1, <3>4 DEF BInv, CallsOK
        <4> QED  BY <1>1, <3>1, <3>2, <4>1 DEF ServedAs
      <3> QED  BY <3>3, <3>4
    <2>5. ASSUME NEW d \in Calls, Is(d, "si_initiate_session")', pc'[d] = "answered",
                 result'[d] # Error
          PROVE  result'[d].sid \in SessionIds
      BY <1>1, <1>2, <2>5 DEF ServedAs, BInv, CallsOK, Is
    <2> QED  BY <1>3, <2>1, <2>2, <2>3, <2>4, <2>5 DEF CallsOK
  (* Who carries and brings what.                                          *)
  <1>8. \A x \in Emissions, d \in Calls :
           /\ Carries(d, x)' => Carries(d, x) /\ d # c
           /\ Brings(d, x)' => IF d = c THEN Emitted(c, x) ELSE Brings(d, x)
    <2> SUFFICES ASSUME NEW x \in Emissions, NEW d \in Calls
                 PROVE  /\ Carries(d, x)' => Carries(d, x) /\ d # c
                        /\ Brings(d, x)' => IF d = c THEN Emitted(c, x) ELSE Brings(d, x)
      OBVIOUS
    <2>1. Carries(d, x)' => Carries(d, x) /\ d # c
      BY <1>2 DEF Carries
    <2>2. CASE d = c
      <3>1. Brings(c, x)' => r # Error /\ r.emits = x
        BY <1>2 DEF Brings
      <3>2. r # Error => r.emits = NoReceipt \/ Emitted(c, r.emits)
        BY <1>1 DEF ServedAs
      <3> QED  BY <2>1, <2>2, <3>1, <3>2, EmissionFacts
    <2>3. CASE d # c
      BY <1>2, <2>1, <2>3 DEF Brings
    <2> QED  BY <2>2, <2>3
  <1>9. \A x \in Emissions : Made(x) => Made(x)'
    <2> SUFFICES ASSUME NEW x \in Emissions, Made(x) PROVE Made(x)'
      OBVIOUS
    <2>1. CASE x.of = Offering
      <3>1. x.turn \in Calls
        BY <2>1, EmissionFacts
      <3> QED  BY <1>2, <2>1, <3>1 DEF Made
    <2>2. CASE x.of # Offering
      <3>1. x.of \in SessionIds /\ x.turn \in Nat
        BY <2>2, EmissionFacts
      <3>2. length[x.of] \in Nat /\ length'[x.of] \in Nat /\ length'[x.of] >= length[x.of]
        BY <1>1, <1>t, <3>1 DEF ServedAs, ServerTypes
      <3> QED  BY <2>2, <3>1, <3>2 DEF Made
    <2> QED  BY <2>1, <2>2
  <1>10. \A x \in Emissions : Emitted(c, x) => ~Made(x) /\ Made(x)' /\ Latest(x)'
    <2> SUFFICES ASSUME NEW x \in Emissions, Emitted(c, x)
                 PROVE  ~Made(x) /\ Made(x)' /\ Latest(x)'
      OBVIOUS
    <2>1. CASE x.of = Offering
      BY <1>2, <2>1, OfferingAssumption DEF Emitted, Made, Latest
    <2>2. CASE x.of # Offering
      <3>1. x.of \in SessionIds /\ x.turn \in Nat
        BY <2>2, EmissionFacts
      <3>2. length[x.of] \in Nat /\ length'[x.of] \in Nat
        BY <1>1, <1>t, <3>1 DEF ServedAs, ServerTypes
      <3>3. x.turn >= length[x.of] /\ x.turn = length'[x.of] - 1
        BY <2>2 DEF Emitted
      <3>4. Latest(x)'
        BY <3>3 DEF Latest
      <3> QED  BY <2>2, <3>1, <3>2, <3>3, <3>4 DEF Made
    <2> QED  BY <2>1, <2>2
  <1>11. \A f \in filed' : f.receipt \in Emissions
                           /\ (f \in filed \/ Carries(c, f.receipt))
    BY <1>2, <1>4, <1>5, <1>t DEF ServerTypes, Carries
  <1>12. HoldsMade'
    <2>1. ASSUME pending' # NoReceipt PROVE Made(pending)'
      <3>1. PICK x \in Emissions : pending' = x /\ Made(x)
        BY <1>2, <1>t, <2>1 DEF BInv, HoldsMade, BridgeTypes
      <3>2. Made(x)'
        BY <1>9, <3>1
      <3> QED  BY <3>1, <3>2 DEF Made
    <2>2. \A f \in filed' : Made(f.receipt)'
      BY <1>9, <1>11 DEF BInv, HoldsMade
    <2>3. \A x \in Emissions, d \in Calls : Carries(d, x)' \/ Brings(d, x)' => Made(x)'
      BY <1>8, <1>9, <1>10 DEF BInv, HoldsMade
    <2> QED  BY <2>1, <2>2, <2>3 DEF HoldsMade
  <1>13. HeldOnce'
    <2>1. ASSUME NEW f \in filed', NEW g \in filed', f.receipt = g.receipt PROVE f = g
      <3>1. CASE f \in filed /\ g \in filed
        BY <2>1, <3>1 DEF BInv, HeldOnce, EmissionAcknowledgedOnce
      <3>2. CASE f \in filed /\ g \notin filed
        BY <1>11, <2>1, <3>2 DEF BInv, HeldOnce
      <3>3. CASE f \notin filed /\ g \in filed
        BY <1>11, <2>1, <3>3 DEF BInv, HeldOnce
      <3>4. CASE f \notin filed /\ g \notin filed
        BY <1>5, <3>4
      <3> QED  BY <3>1, <3>2, <3>3, <3>4
    <2>2. \A f \in filed' : f.receipt # pending'
      BY <1>2, <1>11 DEF BInv, HeldOnce
    <2>3. ASSUME NEW x \in Emissions, NEW d \in Calls, Carries(d, x)'
          PROVE  /\ pending' # x
                 /\ \A f \in filed' : f.receipt # x
                 /\ \A e \in Calls : ~Brings(e, x)' /\ (Carries(e, x)' => d = e)
      <3>1. Carries(d, x) /\ d # c /\ Made(x)
        BY <1>8, <2>3 DEF BInv, HoldsMade
      <3>2. pending' # x /\ \A f \in filed' : f.receipt # x
        BY <1>2, <1>11, <3>1 DEF BInv, HeldOnce
      <3>3. \A e \in Calls : ~Brings(e, x)' /\ (Carries(e, x)' => d = e)
        BY <1>8, <1>10, <3>1 DEF BInv, HeldOnce
      <3> QED  BY <3>2, <3>3
    <2>4. ASSUME NEW x \in Emissions, NEW d \in Calls, Brings(d, x)'
          PROVE  /\ pending' # x
                 /\ \A f \in filed' : f.receipt # x
                 /\ \A e \in Calls : Brings(e, x)' => d = e
      <3>1. CASE d # c
        <4>1. Brings(d, x) /\ Made(x)
          BY <1>8, <2>4, <3>1 DEF BInv, HoldsMade
        <4> QED  BY <1>2, <1>8, <1>10, <1>11, <4>1 DEF BInv, HeldOnce
      <3>2. CASE d = c
        <4>1. ~Made(x)
          BY <1>8, <1>10, <2>4, <3>2
        <4>2. pending' # x
          BY <1>2, <4>1, EmissionFacts DEF BInv, HoldsMade
        <4>3. \A f \in filed' : f.receipt # x
          BY <1>11, <4>1 DEF BInv, HoldsMade
        <4>4. \A e \in Calls : Brings(e, x)' => d = e
          BY <1>8, <3>2, <4>1 DEF BInv, HoldsMade
        <4> QED  BY <4>2, <4>3, <4>4
      <3> QED  BY <3>1, <3>2
    <2> QED  BY <2>1, <2>2, <2>3, <2>4 DEF HeldOnce, EmissionAcknowledgedOnce
  <1>14. InTurn'
    <2> SUFFICES ASSUME ~raced' PROVE InTurn'
      BY DEF InTurn
    <2>1. ~raced /\ Outstanding' \subseteq Outstanding /\ Outstanding = {c}
      BY <1>2 DEF BInv, InTurn, Outstanding
    <2>2. \A d, e \in Outstanding' : d = e
      BY <2>1
    <2>3. UNCHANGED length \/ pending = NoReceipt
      BY <1>1, <2>1 DEF ServedAs, BInv, InTurn
    <2>4. pending' # NoReceipt => Latest(pending)'
      BY <1>2, <2>1, <2>3 DEF BInv, InTurn, Latest
    <2>5. ASSUME NEW x \in Emissions, NEW d \in Calls, Carries(d, x)' \/ Brings(d, x)'
          PROVE  Latest(x)'
      <3>1. d = c
        BY <1>8, <2>1, <2>5 DEF Carries, Brings, Outstanding
      <3> QED  BY <1>8, <1>10, <2>5, <3>1
    <2>6. \A d \in Outstanding' :
             /\ Is(d, "si_send_message")' \/ Is(d, "si_initiate_session")'
                   => pending' = NoReceipt
             /\ Is(d, "si_terminate_session")' => session_id' = params'[d].sid
      BY <1>2, <2>1 DEF BInv, InTurn, Is
    <2>7. ASSUME NEW f \in filed' PROVE OnItsTurn(f)
      <3>1. CASE f \in filed
        BY <2>1, <3>1 DEF BInv, InTurn
      <3>2. CASE f \notin filed
        <4>1. Latest(f.receipt)
          BY <1>11, <2>1, <3>2 DEF BInv, InTurn
        <4> QED  BY <1>5, <3>2, <4>1 DEF Latest, OnItsTurn
      <3> QED  BY <3>1, <3>2
    <2> QED  BY <2>2, <2>4, <2>5, <2>6, <2>7 DEF InTurn
  <1> QED  BY <1>6, <1>7, <1>12, <1>13, <1>14 DEF BInv

(* The invariant of the bridge holds in every behaviour.                   *)
THEOREM BridgeInductive == Spec => []BInv
  <1>1. BInv /\ [Next]_vars => BInv'
    <2> SUFFICES ASSUME BInv, [Next]_vars PROVE BInv'
      OBVIOUS
    <2>1. CASE UNCHANGED vars
      <3>1. UNCHANGED <<mode, session_id, pending, pc, params, result, length, status, filed,
                        raced>>
        BY <2>1 DEF vars, state, server
      <3>2. TypeOK'
        BY <3>1 DEF BInv, TypeOK
      <3>3. CallsOK'
        BY <3>1 DEF BInv, CallsOK, Outstanding, Is
      <3>4. HoldsMade'
        BY <3>1 DEF BInv, HoldsMade, Made, Carries, Brings
      <3>5. HeldOnce'
        BY <3>1 DEF BInv, HeldOnce, EmissionAcknowledgedOnce, Carries, Brings
      <3>6. InTurn'
        BY <3>1 DEF BInv, InTurn, Latest, Outstanding, Is, Carries, Brings
      <3> QED  BY <3>2, <3>3, <3>4, <3>5, <3>6 DEF BInv
    <2>2. CASE Next
      BY <2>2, PostStep, QuietStep, ServeStep DEF Next, Call
    <2> QED  BY <2>1, <2>2
  <1> QED  BY InitBInv, <1>1, PTL DEF Spec

-----------------------------------------------------------------------------
(* However calls overlap, fail, are given up and done all the same, no     *)
(* emission is acknowledged twice; and while they follow one another every *)
(* receipt is on the turn it is about.                                     *)
THEOREM ReceiptsStaySound == Spec => []ReceiptsAreSound
  <1>1. BInv => ReceiptsAreSound
    BY DEF BInv, HeldOnce, InTurn, ReceiptsAreSound, UnracedReceiptsOnTheirTurn
  <1> QED  BY <1>1, BridgeInductive, PTL

(* While calls follow one another, only what the server has terminated is  *)
(* forgotten.                                                              *)
THEOREM ForgettingIsRight == Spec => UnracedForgettingIsRight
  <1>1. ASSUME BInv, [Next]_vars, Forgets, ~raced
        PROVE  status[session_id] = "terminated"
    <2>1. PICK c \in Calls : Return(c)
      <3>1. session_id' # session_id
        BY <1>1 DEF Forgets
      <3>2. ASSUME NEW c \in Calls, Serve(c) PROVE session_id' = session_id
        BY <1>1, <3>2, ServeFacts DEF ServedAs, Respond, state
      <3>3. ASSUME NEW c \in Calls, Call(c) PROVE session_id' = session_id
        BY <3>3 DEF Call, GetOffering, Initiate, Send, Terminate, Refused, Post, state
      <3>4. ASSUME NEW c \in Calls, TimesOut(c) PROVE session_id' = session_id
        BY <3>4 DEF TimesOut, AfterError, state
      <3> QED  BY <1>1, <3>1, <3>2, <3>3, <3>4 DEF Next, vars, state
    <2>2. pc[c] = "answered" /\ c \in Outstanding
      BY <2>1 DEF Return, Outstanding
    <2>3. CASE result[c] # Error /\ Is(c, "si_terminate_session")
      BY <1>1, <2>2, <2>3 DEF BInv, InTurn, CallsOK
    <2>4. result[c] # Error /\ Is(c, "si_initiate_session") => result[c].sid # None
      BY <1>1, <2>2, NoneAssumption DEF BInv, CallsOK
    <2> QED  BY <1>1, <2>1, <2>3, <2>4 DEF Return, AfterError, state, Forgets
  <1> QED  BY <1>1, BridgeInductive, PTL DEF Spec, UnracedForgettingIsRight
=============================================================================

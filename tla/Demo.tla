-------------------------------- MODULE Demo --------------------------------
(***************************************************************************)
(* The public demo (internal/demo/demo.go): every API request passes the   *)
(* limiter; chat and audit then take the handler's one mutex and keep it   *)
(* until their response is written, chat also while the LLM answers.       *)
(* Conversations and their receipts are in memory only.                    *)
(*                                                                         *)
(* A call is made once.  The id of a conversation is the call that opened  *)
(* it: newID draws 72 random bits.                                         *)
(***************************************************************************)
EXTENDS RateLimiter, Sequences

CONSTANTS Calls,
          Free,          \* the mutex is free; no session id; no session
          MaxRestarts    \* bound: restarts

ASSUME CallsAssumption    == Free \notin Calls
ASSUME RestartsAssumption == MaxRestarts \in Nat

VARIABLES mu,            \* the call that holds Handler.mu, or Free
          sessions,      \* Handler.sessions: id -> turns and receipts
          pc, call,
          into,          \* into[c]: the session id chat c was answered with
          shown,         \* shown[c]: the conversation audit c was answered with
          restarts

chats == <<mu, sessions, pc, call, into, shown, restarts>>
vars  == <<limiter, chats>>

Turns    == [role : {"brand", "host"}, by : Calls]
Sessions == [turns : Seq(Turns), receipts : Seq(Nat)]
Requests == [op : {"chat", "audit"}, sid : Calls \cup {Free}]

TypeOK ==
    /\ LimiterTypeOK
    /\ mu \in Calls \cup {Free}
    /\ DOMAIN sessions \subseteq Calls
    /\ sessions \in [DOMAIN sessions -> Sessions]
    /\ pc \in [Calls -> {"idle", "waiting", "asking", "writing", "done"}]
    /\ call \in [Calls -> Requests]
    /\ into \in [Calls -> Calls \cup {Free}]
    /\ shown \in [Calls -> Sessions \cup {Free}]
    /\ restarts \in 0 .. MaxRestarts

Init ==
    /\ LimiterInit
    /\ mu = Free
    /\ sessions = [s \in {} |-> Free]
    /\ pc = [c \in Calls |-> "idle"]
    /\ call = [c \in Calls |-> [op |-> "chat", sid |-> Free]]
    /\ into = [c \in Calls |-> Free]
    /\ shown = [c \in Calls |-> Free]
    /\ restarts = 0

-----------------------------------------------------------------------------
Goto(c, step) == pc' = [pc EXCEPT ![c] = step]

(* A page sends no session id, or one it was answered with: maybe before a *)
(* restart, maybe while the handler has yet to return.                     *)
KnownIds == {into[d] : d \in {e \in Calls : pc[e] \in {"writing", "done"}}} \cup {Free}

(* The limiter lets the request in, and chat or audit waits for the mutex. *)
Arrive(c) ==
    /\ pc[c] = "idle"
    /\ \E ip \in Addresses : Allow(ip)
    /\ \E request \in [op : {"chat", "audit"}, sid : KnownIds] :
            call' = [call EXCEPT ![c] = request]
    /\ Goto(c, "waiting")
    /\ UNCHANGED <<mu, sessions, into, shown, restarts>>

(* A request that is refused, or costs a token and changes nothing else: a *)
(* list of products, a chat without a message.                             *)
OtherRequest ==
    /\ \E ip \in Addresses : Allow(ip) \/ Refuse(ip)
    /\ UNCHANGED chats

-----------------------------------------------------------------------------
(* chat.                                                                   *)
Says(role, c) == [role |-> role, by |-> c]

(* Deliberately wrong: the turn about to be taken.                         *)
LastBrandTurnNext(turns) == Len(turns)

(* Turn numbers start at 0, sequences at 1.                                *)
LastBrandTurn(turns) ==
    LET brands == {i \in DOMAIN turns : turns[i].role = "brand"}
    IN  IF brands = {} THEN 0
        ELSE (CHOOSE i \in brands : \A j \in brands : j <= i) - 1

(* A new conversation: the welcome and the question.                       *)
Opened(c) == [turns |-> <<Says("brand", c), Says("host", c)>>, receipts |-> << >>]

(* One that goes on: a receipt for its last brand turn, and the question.  *)
Continued(session, c) ==
    [turns    |-> Append(session.turns, Says("host", c)),
     receipts |-> Append(session.receipts, LastBrandTurn(session.turns))]

Answered(session, c) == [session EXCEPT !.turns = Append(@, Says("brand", c))]

(* Deliberately wrong: let go of the mutex while the LLM answers.          *)
HoldingNothing(c) == mu' = Free
Holding(c)        == mu' = c

(* An id that is not in the map is dropped and a conversation is opened.   *)
ChatAsk(c) ==
    /\ pc[c] = "waiting" /\ call[c].op = "chat"
    /\ mu = Free /\ Holding(c)
    /\ LET sid == call[c].sid
       IN  IF sid \in DOMAIN sessions
           THEN /\ sessions' = [sessions EXCEPT ![sid] = Continued(sessions[sid], c)]
                /\ into' = [into EXCEPT ![c] = sid]
           ELSE /\ sessions' = [s \in DOMAIN sessions \cup {c} |->
                                    IF s = c THEN Opened(c) ELSE sessions[s]]
                /\ into' = [into EXCEPT ![c] = c]
    /\ Goto(c, "asking")
    /\ UNCHANGED <<limiter, call, shown, restarts>>

ChatAnswer(c) ==
    /\ pc[c] = "asking"
    /\ sessions' = [sessions EXCEPT ![into[c]] = Answered(sessions[into[c]], c)]
    /\ Goto(c, "writing")
    /\ UNCHANGED <<limiter, mu, call, into, shown, restarts>>

-----------------------------------------------------------------------------
(* audit, all of it under the mutex: its rows are copied, then written.    *)
Audit(c) ==
    /\ pc[c] = "waiting" /\ call[c].op = "audit"
    /\ mu = Free /\ mu' = c
    /\ call[c].sid \in DOMAIN sessions
    /\ shown' = [shown EXCEPT ![c] = sessions[call[c].sid]]
    /\ Goto(c, "writing")
    /\ UNCHANGED <<limiter, sessions, call, into, restarts>>

(* Deliberately wrong: return a 404 without unlocking.                     *)
AuditNotFoundLocked(c) ==
    /\ pc[c] = "waiting" /\ call[c].op = "audit"
    /\ mu = Free /\ mu' = c
    /\ call[c].sid \notin DOMAIN sessions
    /\ Goto(c, "done")
    /\ UNCHANGED <<limiter, sessions, call, into, shown, restarts>>

AuditNotFound(c) ==
    /\ pc[c] = "waiting" /\ call[c].op = "audit"
    /\ mu = Free /\ mu' = c
    /\ call[c].sid \notin DOMAIN sessions
    /\ Goto(c, "writing")
    /\ UNCHANGED <<limiter, sessions, call, into, shown, restarts>>

(* writeJSON returns and the deferred Unlock runs.  The server has no      *)
(* WriteTimeout: a client that does not read what is written to it keeps   *)
(* this step from being taken.                                             *)
WriteJSON(c) ==
    /\ pc[c] = "writing"
    /\ mu' = Free
    /\ Goto(c, "done")
    /\ UNCHANGED <<limiter, sessions, call, into, shown, restarts>>

-----------------------------------------------------------------------------
(* Deploys and crashes: conversations, buckets and calls are gone.         *)
Restart ==
    /\ restarts < MaxRestarts
    /\ restarts' = restarts + 1
    /\ Forget
    /\ mu' = Free
    /\ sessions' = [s \in {} |-> Free]
    /\ pc' = [c \in Calls |-> IF pc[c] = "idle" THEN "idle" ELSE "done"]
    /\ into' = [c \in Calls |-> IF pc[c] \in {"writing", "done"} THEN into[c] ELSE Free]
    /\ UNCHANGED <<call, shown>>

CallStep(c) ==
    \/ ChatAsk(c) \/ ChatAnswer(c)
    \/ Audit(c) \/ AuditNotFound(c)
    \/ WriteJSON(c)

Next ==
    \/ (Tick \/ StartWatch) /\ UNCHANGED chats
    \/ OtherRequest
    \/ \E c \in Calls : Arrive(c) \/ CallStep(c)
    \/ Restart

Spec == Init /\ [][Next]_vars

-----------------------------------------------------------------------------
(***************************************************************************)
(* Properties.                                                             *)
(***************************************************************************)

(* Brand, host, brand, ..., brand, and every question is followed by the   *)
(* answer of its own call.                                                 *)
Whole(turns) ==
    /\ Len(turns) % 2 = 1
    /\ \A i \in 1 .. Len(turns) :
            turns[i].role = IF i % 2 = 1 THEN "brand" ELSE "host"
    /\ \A i \in 1 .. Len(turns) - 1 : i % 2 = 0 => turns[i+1].by = turns[i].by

NobodyAsks == \A c \in Calls : pc[c] # "asking"

(* Whatever chats compete for a conversation, its exchanges never mix, and *)
(* none is open when no chat waits for its LLM: chat may fail nowhere      *)
(* between the question and the answer.                                    *)
ExchangesAreWhole ==
    NobodyAsks => \A s \in DOMAIN sessions : Whole(sessions[s].turns)

(* Every brand turn that a host went on from, the welcome apart, has one   *)
(* receipt, and no other turn has one.                                     *)
OneReceiptPerAnsweredTurn ==
    NobodyAsks => \A s \in DOMAIN sessions :
        LET receipts == sessions[s].receipts
        IN  /\ 2 * Len(receipts) + 3 = Len(sessions[s].turns)
            /\ \A i \in 1 .. Len(receipts) : receipts[i] = 2 * i

(* An audit never shows a question without its answer, and has a row for   *)
(* every receipt: those it has none for would be dropped.                  *)
AuditShowsWholeExchanges ==
    \A c \in Calls : shown[c] # Free =>
        /\ Whole(shown[c].turns)
        /\ \A i \in 1 .. Len(shown[c].receipts) :
                /\ shown[c].receipts[i] + 1 \in 1 .. Len(shown[c].turns)
                /\ shown[c].turns[shown[c].receipts[i] + 1].role = "brand"

(* Between Lock and Unlock.                                                *)
Locked == {"asking", "writing"}

(* No path of chat or audit returns with the mutex, and no two are between *)
(* Lock and Unlock: who holds it is a chat that waits for its LLM, a       *)
(* minute at most, or a chat or audit whose client has yet to read the     *)
(* response, for which the server sets no limit.                           *)
MutexIsReleased ==
    /\ mu # Free => pc[mu] \in Locked
    /\ \A c \in Calls : pc[c] \in Locked => mu = c
=============================================================================

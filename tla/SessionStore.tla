---------------------------- MODULE SessionStore ----------------------------
(***************************************************************************)
(* The SQLite store of bragent (internal/store/sqlite.go): three tables    *)
(* and the statements the SI handlers run on them.  The pool holds a       *)
(* single connection, so one statement is one atomic step; no transaction  *)
(* spans two of them.  Columns nothing here depends on (identity, locale,  *)
(* timestamps, ...) are left out.                                          *)
(*                                                                         *)
(* Every statement is an operator that returns the new value of its table; *)
(* who calls it, and when, is SessionHandlers.                             *)
(***************************************************************************)
EXTENDS Integers

CONSTANTS SessionIds,   \* the ids randomID may draw
          Requests      \* the calls hosts make: each is made once, a retry is another call

VARIABLES sessions,     \* sessions[s]: the session_status column, or NoRow
          messages,     \* messages[s]: turn -> row, the primary key is (session_id, turn)
          receipts      \* receipts[s]: turn -> the call whose receipt is stored there

tables == <<sessions, messages, receipts>>

NoRow         == "no_row"
Statuses      == {"active", "pending_handoff", "terminated"}
PreSession    == -1     \* the turn of a receipt that came with si_initiate_session

(* A message row: who speaks, the call that wrote it (which stands for the *)
(* text of a host turn), and for a brand turn the turns of the history its *)
(* text was computed from.                                                 *)
MessageRows   == [role : {"brand", "host"}, by : Requests, seen : SUBSET Nat]
BrandRow(r, seen) == [role |-> "brand", by |-> r, seen |-> seen]
HostRow(r)        == [role |-> "host",  by |-> r, seen |-> {}]

Empty == [t \in {} |-> {}]
Put(table, key, row) ==
    [k \in DOMAIN table \cup {key} |-> IF k = key THEN row ELSE table[k]]

StoreInit ==
    /\ sessions = [s \in SessionIds |-> NoRow]
    /\ messages = [s \in SessionIds |-> Empty]
    /\ receipts = [s \in SessionIds |-> Empty]

IsTable(table, keys, rows) ==
    /\ table = [k \in DOMAIN table |-> table[k]]
    /\ DOMAIN table \subseteq keys
    /\ \A k \in DOMAIN table : table[k] \in rows

StoreTypeOK ==
    /\ sessions \in [SessionIds -> Statuses \cup {NoRow}]
    /\ DOMAIN messages = SessionIds
    /\ DOMAIN receipts = SessionIds
    /\ \A s \in SessionIds : /\ IsTable(messages[s], Nat, MessageRows)
                             /\ IsTable(receipts[s], Nat \cup {PreSession}, Requests)

-----------------------------------------------------------------------------
Turns(s) == DOMAIN messages[s]

(* Deliberately wrong: INSERT OR REPLACE.                                  *)
PKTakenReplace(s, turn) == FALSE

(* INSERT INTO messages fails on a primary key that is already there.      *)
PKTaken(s, turn) == turn \in Turns(s)

(* COALESCE(MAX(turn), -1) + 1                                             *)
NextTurn(s) ==
    IF Turns(s) = {} THEN 0
    ELSE 1 + CHOOSE m \in Turns(s) : \A t \in Turns(s) : t <= m

(* SELECT ... ORDER BY turn: rows never change, so the turns stand for the *)
(* rows.                                                                   *)
ListMessages(s) == Turns(s)

CreateSession(s)               == [sessions EXCEPT ![s] = "active"]
UpdateSessionStatus(s, status) == [sessions EXCEPT ![s] = status]
AppendMessage(s, turn, row)    == [messages EXCEPT ![s] = Put(messages[s], turn, row)]

(* Deliberately wrong: one receipt for a session, the last one.            *)
SaveReceiptLast(s, turn, r)    == [receipts EXCEPT ![s] = Put(Empty, turn, r)]

SaveReceipt(s, turn, r)        == [receipts EXCEPT ![s] = Put(receipts[s], turn, r)]
=============================================================================

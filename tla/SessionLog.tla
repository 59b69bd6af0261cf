----------------------------- MODULE SessionLog -----------------------------
(***************************************************************************)
(* SessionHandlers implements TurnLog: the rows of the messages table, in  *)
(* the order of their turns, are the log.  And, given that the scheduler   *)
(* runs every handler, every question of the log settles.                  *)
(***************************************************************************)
EXTENDS SessionHandlers, Sequences

(* A row as an entry of the log: a reply counts the turns it was computed  *)
(* from; with a hole in them it counts none, and is no reply of TurnLog.   *)
Entry(t, row) ==
    [kind |-> IF row.role = "host" THEN "question"
              ELSE IF t = 0 THEN "welcome" ELSE "reply",
     by   |-> row.by,
     read |-> IF row.role = "brand" /\ t > 0 /\ row.seen = 0 .. t - 1 THEN t ELSE 0]

LogOf(s) == [i \in 1 .. NextTurn(s) |-> Entry(i - 1, messages[s][i-1])]

Log == INSTANCE TurnLog WITH log <- [s \in SessionIds |-> LogOf(s)]

(* Seen through LogOf, sends, failures and lost handlers in any order are  *)
(* steps of TurnLog.                                                       *)
ImplementsTurnLog == Log!Spec

(* Fairness: net/http gives every call a goroutine, the one connection of  *)
(* the pool is released after each statement, and the LLM client gives up  *)
(* after a minute.  Hosts need not call, statements need not fail.         *)
FairSpec == Spec /\ \A r \in Requests : WF_vars(HandlerStep(r))

(* A question in the log is eventually followed by its reply, or its call  *)
(* ends without success: no question hangs, and none is answered "ok" to   *)
(* the host with no reply on disk.                                         *)
QuestionsSettle ==
    \A r \in Requests : \A s \in SessionIds :
        (\E t \in Turns(s) : messages[s][t] = HostRow(r))
        ~> \/ answer[r] = "failed"
           \/ /\ answer[r] = "ok"
              /\ \E t \in Turns(s) : /\ messages[s][t].by = r
                                     /\ messages[s][t].role = "brand"
=============================================================================

------------------------------ MODULE TurnLog ------------------------------
(***************************************************************************)
(* What the session store and the SI handlers promise together about the   *)
(* log of a conversation: per session a sequence that only grows at its    *)
(* end.  A welcome opens it; a call asks its one question at any time      *)
(* after that; the brand replies to a question only while it is the last   *)
(* word, having read everything up to it.  Nothing is said of calls,       *)
(* handlers or statements: that several run at once does not show.         *)
(***************************************************************************)
EXTENDS Sequences, Naturals

CONSTANTS SessionIds, Requests

VARIABLE log    \* log[s]: the conversation of session s

Welcome(r)   == [kind |-> "welcome",  by |-> r, read |-> 0]
Question(r)  == [kind |-> "question", by |-> r, read |-> 0]
Reply(r, n)  == [kind |-> "reply",    by |-> r, read |-> n]

Init == log = [s \in SessionIds |-> << >>]

Extend(s, entry) == log' = [log EXCEPT ![s] = Append(log[s], entry)]

Open(s, r) ==
    /\ log[s] = << >>
    /\ Extend(s, Welcome(r))

(* A call asks once, in one session.                                       *)
Asked(r) == \E s \in SessionIds : \E i \in 1 .. Len(log[s]) : log[s][i] = Question(r)

Ask(s, r) ==
    /\ log[s] # << >>
    /\ ~Asked(r)
    /\ Extend(s, Question(r))

Answer(s, r) ==
    /\ log[s] # << >>
    /\ log[s][Len(log[s])] = Question(r)
    /\ Extend(s, Reply(r, Len(log[s])))

Next == \E s \in SessionIds, r \in Requests :
            Open(s, r) \/ Ask(s, r) \/ Answer(s, r)

Spec == Init /\ [][Next]_log
=============================================================================

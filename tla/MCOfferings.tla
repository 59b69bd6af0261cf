---------------------------- MODULE MCOfferings ----------------------------
(* Offerings on a small instance: two tents, one of them with a second     *)
(* content (renamed and sold out), and a pad, whose name is too short to   *)
(* be a hit; a term of one byte, a term within another, a word with intent *)
(* inside it.                                                              *)
EXTENDS Offerings

MCWords == {"x", "te", "tent", "Tent", "tents", "tent-1", "tent-2", "pad", "pad-3",
            "order", "Order"}

MCLower == [w \in MCWords |-> CASE w = "Tent"  -> "tent"
                                [] w = "Order" -> "order"
                                [] OTHER       -> w]

MCBytes == [w \in MCWords |-> CASE w = "x"   -> 1
                                [] w = "te"  -> 2
                                [] w = "pad" -> 3
                                [] w \in {"tent", "Tent"} -> 4
                                [] w \in {"tent-1", "tent-2"} -> 6
                                [] OTHER -> 5]

MCWithin == {<<w, w>> : w \in MCWords}
            \cup {<<"te", w>> : w \in {"tent", "tents", "tent-1", "tent-2"}}
            \cup {<<"tent", w>> : w \in {"tents", "tent-1", "tent-2"}}
            \cup {<<"pad", "pad-3">>}

MCProducts ==
    {[id |-> 1, code |-> "tent-1", name |-> "Tent", about |-> {"te"}, tags |-> {},
      available |-> TRUE],
     [id |-> 1, code |-> "tent-1", name |-> "tents", about |-> {"x"}, tags |-> {"pad"},
      available |-> FALSE],
     [id |-> 2, code |-> "tent-2", name |-> "Tent", about |-> {}, tags |-> {"tents"},
      available |-> TRUE],
     [id |-> 3, code |-> "pad-3", name |-> "pad", about |-> {"tent"}, tags |-> {"order"},
      available |-> TRUE]}

MCMessages == {{}, {"x"}, {"te"}, {"Tent"}, {"tents"}, {"tent-1", "tent-2"}, {"pad"},
            {"pad-3", "tent"}, {"Order", "tents"}, {"pad", "tent", "x"}}

MCLimits == {-1, 0, 1, 3}
=============================================================================

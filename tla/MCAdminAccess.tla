--------------------------- MODULE MCAdminAccess ---------------------------
(* AdminAccess with two tokens and two tabs.  Panel: what decides about    *)
(* the panel varies.  All: everything else does.                           *)
EXTENDS AdminAccess, TLC

Plain == [brand |-> TRUE, interval |-> "", timing |-> "", demo |-> FALSE,
          enabled |-> FALSE, token |-> Empty]

PanelFiles == {[Plain EXCEPT !.brand = FALSE], [Plain EXCEPT !.interval = "not positive"]}
              \cup {[Plain EXCEPT !.enabled = TRUE, !.token = k] : k \in Tokens \cup {Empty}}
PanelEnvs  == [brand : {FALSE}, demo : {""}, token : Tokens \cup {Empty}]

AllFiles == [brand : {TRUE}, interval : Intervals, timing : Timings, demo : BOOLEAN,
             enabled : {FALSE}, token : {Empty}]
AllEnvs  == [brand : {FALSE}, demo : Switches, token : {Empty}]

Symmetry == Permutations(Tokens) \cup Permutations(Tabs)
=============================================================================

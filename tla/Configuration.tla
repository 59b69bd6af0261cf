--------------------------- MODULE Configuration ---------------------------
(***************************************************************************)
(* Load (internal/config/config.go) on the fields that decide what is      *)
(* served: the TOML file, the environment over it, the defaults and the    *)
(* checks.  feed.New, which parses the refresh interval, is the next check *)
(* of a boot (cmd/bragent/main.go).                                        *)
(***************************************************************************)
EXTENDS Naturals

CONSTANTS Tokens        \* admin tokens an operator makes up

Empty == "no token"     \* the empty string

ASSUME TokensAssumption == Empty \notin Tokens

Intervals == {"", "positive", "not positive", "no duration"}
Timings   == {"", "in the enum", "not in the enum"}
Switches  == {"", "true", "false"}

(* brand stands for the three fields without which nothing starts; a       *)
(* variable of the environment that is empty is as good as none.           *)
Files == [brand : BOOLEAN, interval : Intervals, timing : Timings, demo : BOOLEAN,
          enabled : BOOLEAN, token : Tokens \cup {Empty}]
Envs  == [brand : BOOLEAN, demo : Switches, token : Tokens \cup {Empty}]

Setting(from_file, from_env) == IF from_env # Empty THEN from_env ELSE from_file

(* applyEnvOverrides, then applyDefaultsAndValidate.  A token in the       *)
(* environment turns the panel on; without any token it is off.            *)
Load(file, env) ==
    LET token == Setting(file.token, env.token)
    IN [valid    |-> file.brand \/ env.brand,
        interval |-> IF file.interval = "" THEN "positive" ELSE file.interval,
        timing   |-> IF file.timing = "" THEN "in the enum" ELSE file.timing,
        demo     |-> file.demo \/ env.demo = "true",
        admin    |-> (file.enabled \/ env.token # Empty) /\ token # Empty,
        token    |-> token]

Boots(config) == config.valid /\ config.interval # "no duration"
=============================================================================

---------------------------- MODULE ProcessProofs ---------------------------
(***************************************************************************)
(* Proofs about what a process is started on, for any number of processes, *)
(* starts and requests, and whatever the operator does between two starts. *)
(*                                                                         *)
(* Its files, in Lifecycle and KeyPublication: one that serves has a       *)
(* complete database and a key that is on disk; then its keys outside.     *)
(*                                                                         *)
(* Its configuration, in AdminAccess: the two sides of the admin panel's   *)
(* door, for any set of tokens and any number of tabs.                     *)
(***************************************************************************)
EXTENDS KeyPublication, AdminAccess, TLAPS

-----------------------------------------------------------------------------
(* The list of migrations.                                                 *)
LEMMA MigrationsFacts ==
    /\ Len(Migrations) = 4 /\ DOMAIN Migrations = 1 .. 4
    /\ Migrations[1] = [to |-> 1, adds |-> "sessions"]
    /\ Migrations[2] = [to |-> 1, adds |-> "messages"]
    /\ Migrations[3] = [to |-> 2, adds |-> "influence_mode"]
    /\ Migrations[4] = [to |-> 3, adds |-> "receipts"]
  BY DEF Migrations

(* Every object comes with some migration.                                 *)
LEMMA ObjectsFacts ==
    /\ Objects(3) = {Migrations[j].adds : j \in 1 .. 4}
    /\ \A v : Objects(v) \subseteq Objects(3)
  <1>1. \A j \in 1 .. 4 : Migrations[j].to <= 3
    BY MigrationsFacts
  <1>2. Objects(3) = {Migrations[j].adds : j \in 1 .. 4}
    BY <1>1, MigrationsFacts DEF Objects
  <1>3. \A v : Objects(v) \subseteq {Migrations[j].adds : j \in 1 .. 4}
    BY MigrationsFacts DEF Objects
  <1> QED BY <1>2, <1>3

(* What From skips, a database of version v holds already.                 *)
LEMMA FromSkips ==
    ASSUME NEW i \in 1 .. 5, NEW v \in 0 .. 3
    PROVE  /\ From(i, v) \in i .. 5
           /\ \A j \in i .. From(i, v) - 1 : Migrations[j].adds \in Objects(v)
  <1> DEFINE P(k) == /\ k <= Len(Migrations) => Migrations[k].to > v
                     /\ \A j \in i .. k - 1 : Migrations[j].to <= v
             w == IF i <= 2 /\ v < 1 THEN i
                  ELSE IF i <= 3 /\ v < 2 THEN 3
                  ELSE IF i <= 4 /\ v < 3 THEN 4 ELSE 5
  <1>1. w \in i .. 5
    OBVIOUS
  <1>2. P(w)
    <2>1. w <= 4 => Migrations[w].to > v
      BY MigrationsFacts
    <2>2. \A j \in i .. w - 1 : j \in 1 .. 4 /\ Migrations[j].to <= v
      BY MigrationsFacts
    <2> QED BY <2>1, <2>2, MigrationsFacts
  <1>3. From(i, v) = CHOOSE k \in i .. 5 : P(k)
    BY MigrationsFacts DEF From
  <1>4. From(i, v) \in i .. 5 /\ P(From(i, v))
    <2> HIDE DEF P, w
    <2> QED BY <1>1, <1>2, <1>3
  <1>5. \A j \in 1 .. 4 : Migrations[j].to <= v => Migrations[j].adds \in Objects(v)
    BY MigrationsFacts DEF Objects
  <1> QED BY <1>4, <1>5

-----------------------------------------------------------------------------
(* The inductive invariant of the database: the version never promises     *)
(* more than there is, and a migrating process has behind it every         *)
(* statement up to the one it is at.                                       *)
Full == schema = Objects(CurrentSchemaVersion)

SchemaOK ==
    /\ Objects(version) \subseteq schema
    /\ \A p \in Procs :
        /\ pc[p] \in {"migrate", "stamp"} =>
              /\ Objects(seen[p]) \subseteq schema
              /\ \A j \in 1 .. at[p] - 1 : Migrations[j].adds \in schema
        /\ pc[p] = "migrate" => at[p] \in 1 .. 4
        /\ pc[p] = "stamp" => at[p] = 5
        /\ pc[p] \in {"key"} \cup Creating \cup Up => Full

(* The inductive invariant of the key file, as long as nobody interferes:  *)
(* at most one process creates it, it is empty until that process has      *)
(* written it, and then it is the key of everybody who serves.             *)
KeyOK ==
    ~removed /\ ~overlapped =>
        \A p \in Procs :
            /\ pc[p] \in Up => key[p] = keyFile /\ keyFile > 0
            /\ pc[p] = "gen_open" => keyFile = NoFile
            /\ pc[p] = "gen_write" => keyFile = TornFile /\ key[p] > 0
            /\ pc[p] \in Creating => \A q \in Procs \ {p} : pc[q] \notin Creating

IInv == TypeOK /\ SchemaOK /\ KeyOK

-----------------------------------------------------------------------------

(* Before the first process starts.                                        *)
LEMMA InitIInv == Init => IInv
  <1> SUFFICES ASSUME Init PROVE IInv
    OBVIOUS
  <1>1. TypeOK
    <2>1. schema \subseteq Objects(CurrentSchemaVersion)
      BY ObjectsFacts DEF Init, CurrentSchemaVersion
    <2>2. 0 \in 0 .. MaxRequests /\ 0 \in 0 .. CurrentSchemaVersion /\ 1 \in 1 .. Len(Migrations) + 1
      BY MigrationsFacts, BoundsAssumption DEF CurrentSchemaVersion
    <2> QED BY <2>1, <2>2 DEF Init, TypeOK, NoFile
  <1>2. SchemaOK
    BY DEF Init, SchemaOK, Creating, Up
  <1>3. KeyOK
    BY DEF Init, KeyOK, Creating, Up
  <1> QED BY <1>1, <1>2, <1>3 DEF IInv

(* Types.                                                                  *)
LEMMA NextTypeOK == IInv /\ [Next]_vars => TypeOK'
  <1> SUFFICES ASSUME IInv, [Next]_vars PROVE TypeOK'
    OBVIOUS
  <1> USE MigrationsFacts, BoundsAssumption DEF IInv, Exit, Goto, disk, proc, ghost, CurrentSchemaVersion
  <1>1. CASE UNCHANGED vars
    BY <1>1 DEF TypeOK, vars
  <1>2. CASE RemoveKeyFile
    BY <1>2 DEF TypeOK, RemoveKeyFile, NoFile
  <1>3. ASSUME NEW p \in Procs, Start(p)
        PROVE  TypeOK'
    BY <1>3 DEF TypeOK, Start
  <1>4. ASSUME NEW p \in Procs, Stop(p) \/ ShutdownEnds(p)
        PROVE  TypeOK'
    <2>1. Exit(p) /\ UNCHANGED <<disk, ghost>>
      BY <1>4 DEF Stop, ShutdownEnds
    <2> QED BY <2>1 DEF TypeOK
  <1>5. ASSUME NEW p \in Procs, Shutdown(p) \/ Signal(p)
        PROVE  TypeOK'
    BY <1>5 DEF TypeOK, Shutdown, Signal, Up
  <1>6. ASSUME NEW p \in Procs, RequestArrives(p) \/ RequestEnds(p)
        PROVE  TypeOK'
    BY <1>6 DEF TypeOK, RequestArrives, RequestEnds
  <1>7. ASSUME NEW p \in Procs, ReadVersion(p)
        PROVE  TypeOK'
    <2>1. From(1, version) \in 1 .. 5
      BY FromSkips DEF TypeOK
    <2> QED BY <1>7, <2>1 DEF TypeOK, ReadVersion, NextStatement
  <1>8. ASSUME NEW p \in Procs, Migrate(p)
        PROVE  TypeOK'
    <2>1. at[p] \in 1 .. 4 /\ seen[p] \in 0 .. 3
      BY <1>8 DEF TypeOK, SchemaOK, Migrate
    <2>2. From(at[p] + 1, seen[p]) \in 1 .. 5
      BY <2>1, FromSkips
    <2>3. Migrations[at[p]].adds \in Objects(3)
      BY <2>1, ObjectsFacts
    <2>4. CASE Exit(p) /\ UNCHANGED <<schema, version, keyFile, ghost>>
      BY <2>4 DEF TypeOK
    <2>5. CASE /\ schema' = schema \cup {Migrations[at[p]].adds}
               /\ NextStatement(p, at[p] + 1, seen[p])
               /\ UNCHANGED <<seen, key, cancelled, inflight, version, keyFile, ghost>>
      BY <2>1, <2>2, <2>3, <2>5 DEF TypeOK, NextStatement
    <2> QED BY <1>8, <2>4, <2>5 DEF Migrate
  <1>9. ASSUME NEW p \in Procs, Stamp(p)
        PROVE  TypeOK'
    BY <1>9 DEF TypeOK, Stamp
  <1>10. ASSUME NEW p \in Procs, LoadKey(p)
        PROVE  TypeOK'
    <2>1. CASE Exit(p) /\ UNCHANGED <<disk, ghost>>
      BY <2>1 DEF TypeOK
    <2>2. CASE /\ Goto(p, "gen_open") /\ overlapped' \in BOOLEAN
               /\ UNCHANGED <<disk, at, seen, key, cancelled, inflight, starts, minted, removed>>
      BY <2>2 DEF TypeOK, Creating
    <2>3. CASE /\ keyFile \in Nat /\ key' = [key EXCEPT ![p] = keyFile]
               /\ Goto(p, "serving")
               /\ UNCHANGED <<disk, at, seen, cancelled, inflight, ghost>>
      BY <2>3 DEF TypeOK, Up
    <2>4. keyFile > 0 => keyFile \in Nat
      BY DEF TypeOK, TornFile
    <2>5. (overlapped \/ \E q \in Procs : pc[q] \in Creating) \in BOOLEAN
      OBVIOUS
    <2> QED BY <1>10, <2>1, <2>2, <2>3, <2>4, <2>5 DEF LoadKey
  <1>11. ASSUME NEW p \in Procs, CreateKeyFile(p) \/ WriteKey(p)
        PROVE  TypeOK'
    BY <1>11 DEF TypeOK, CreateKeyFile, WriteKey, Creating, Up
  <1> QED
    BY <1>1, <1>2, <1>3, <1>6, <1>7, <1>8, <1>9, <1>10, <1>4, <1>5, <1>11 DEF Next, BootStep

-----------------------------------------------------------------------------
(* The database.                                                           *)

(* A database that only grows spoils nothing for those who do not move, or *)
(* give up, or go on from a complete one.                                  *)
LEMMA SchemaFrame ==
    ASSUME IInv, TypeOK', schema \subseteq schema', version' = version,
           \A q \in Procs : \/ pc'[q] = pc[q] /\ at'[q] = at[q] /\ seen'[q] = seen[q]
                            \/ pc'[q] \in {"off", "open"}
                            \/ pc'[q] \in {"key"} \cup Creating \cup Up /\ Full
    PROVE  SchemaOK'
  <1>1. Full => Full'
    BY DEF Full, TypeOK
  <1>2. Objects(version') \subseteq schema'
    BY DEF IInv, SchemaOK
  <1>3. ASSUME NEW q \in Procs
        PROVE  /\ pc'[q] \in {"migrate", "stamp"} =>
                      /\ Objects(seen'[q]) \subseteq schema'
                      /\ \A j \in 1 .. at'[q] - 1 : Migrations[j].adds \in schema'
               /\ pc'[q] = "migrate" => at'[q] \in 1 .. 4
               /\ pc'[q] = "stamp" => at'[q] = 5
               /\ pc'[q] \in {"key"} \cup Creating \cup Up => Full'
    <2>1. CASE pc'[q] = pc[q] /\ at'[q] = at[q] /\ seen'[q] = seen[q]
      BY <1>1, <2>1 DEF IInv, SchemaOK
    <2>2. CASE pc'[q] \in {"off", "open"}
      BY <2>2 DEF Creating, Up
    <2>3. CASE pc'[q] \in {"key"} \cup Creating \cup Up /\ Full
      BY <1>1, <2>3 DEF Creating, Up
    <2> QED BY <2>1, <2>2, <2>3
  <1> QED BY <1>2, <1>3 DEF SchemaOK

(* All four statements make the whole schema.                              *)
LEMMA AllMakeFull ==
    ASSUME TypeOK, \A j \in 1 .. 4 : Migrations[j].adds \in schema
    PROVE  Full
  BY ObjectsFacts DEF Full, TypeOK, CurrentSchemaVersion

(* No step of any process leaves the version ahead of the schema.          *)
LEMMA NextSchemaOK == IInv /\ [Next]_vars => SchemaOK'
  <1> SUFFICES ASSUME IInv, [Next]_vars PROVE SchemaOK'
    OBVIOUS
  <1>1. TypeOK /\ TypeOK'
    BY NextTypeOK DEF IInv
  <1>2. CASE UNCHANGED vars \/ RemoveKeyFile
    <2>1. UNCHANGED <<schema, version, pc, at, seen>>
      BY <1>2 DEF vars, disk, proc, RemoveKeyFile
    <2> QED BY <1>1, <2>1, SchemaFrame
  <1>3. ASSUME NEW p \in Procs, Stop(p) \/ ShutdownEnds(p)
        PROVE  SchemaOK'
    <2>1. /\ UNCHANGED <<schema, version>> /\ pc'[p] = "off"
          /\ \A q \in Procs \ {p} : pc'[q] = pc[q] /\ at'[q] = at[q] /\ seen'[q] = seen[q]
      BY <1>1, <1>3 DEF Stop, ShutdownEnds, Exit, Goto, disk, TypeOK
    <2> QED BY <1>1, <2>1, SchemaFrame
  <1>4. ASSUME NEW p \in Procs,
               \/ Start(p) \/ Shutdown(p) \/ Signal(p)
               \/ RequestArrives(p) \/ RequestEnds(p)
               \/ CreateKeyFile(p) \/ WriteKey(p)
        PROVE  SchemaOK'
    <2>1. /\ UNCHANGED <<schema, version, at, seen>>
          /\ \A q \in Procs \ {p} : pc'[q] = pc[q]
          /\ \/ pc'[p] = pc[p]
             \/ pc'[p] = "open"
             \/ pc[p] \in Creating \cup Up /\ pc'[p] \in Creating \cup Up
      BY <1>1, <1>4 DEF Start, Shutdown, Signal, RequestArrives, RequestEnds, CreateKeyFile,
         WriteKey, Goto, disk, TypeOK, Creating, Up
    <2>2. pc[p] \in Creating \cup Up => Full
      BY DEF IInv, SchemaOK
    <2> QED BY <1>1, <2>1, <2>2, SchemaFrame
  <1>5. ASSUME NEW p \in Procs, LoadKey(p)
        PROVE  SchemaOK'
    <2>1. /\ UNCHANGED <<schema, version>>
          /\ \A q \in Procs \ {p} : pc'[q] = pc[q] /\ at'[q] = at[q] /\ seen'[q] = seen[q]
          /\ pc[p] = "key" /\ pc'[p] \in {"off", "gen_open", "serving"}
      BY <1>1, <1>5 DEF LoadKey, Exit, Goto, disk, TypeOK
    <2>2. Full
      BY <2>1 DEF IInv, SchemaOK
    <2> QED BY <1>1, <2>1, <2>2, SchemaFrame DEF Creating, Up
  <1>6. ASSUME NEW p \in Procs, ReadVersion(p)
        PROVE  SchemaOK'
    <2>1. /\ UNCHANGED <<schema, version>> /\ seen'[p] = version /\ version \in 0 .. 3
          /\ \A q \in Procs \ {p} : pc'[q] = pc[q] /\ at'[q] = at[q] /\ seen'[q] = seen[q]
      BY <1>1, <1>6 DEF ReadVersion, NextStatement, Goto, disk, TypeOK, CurrentSchemaVersion
    <2>2. CASE version >= CurrentSchemaVersion
      <3>1. pc'[p] = "key"
        BY <1>1, <1>6, <2>2 DEF ReadVersion, Goto, TypeOK
      <3>2. Full
        <4>1. version = CurrentSchemaVersion
          BY <2>1, <2>2 DEF CurrentSchemaVersion
        <4> QED BY <1>1, <4>1 DEF IInv, SchemaOK, Full, TypeOK
      <3> QED BY <1>1, <2>1, <3>1, <3>2, SchemaFrame
    <2>3. CASE ~(version >= CurrentSchemaVersion)
      <3> DEFINE k == From(1, version)
      <3>1. k \in 1 .. 5 /\ \A j \in 1 .. k - 1 : Migrations[j].adds \in Objects(version)
        BY <2>1, FromSkips
      <3>2. at'[p] = k /\ pc'[p] = IF k <= 4 THEN "migrate" ELSE "stamp"
        BY <1>1, <1>6, <2>3, MigrationsFacts DEF ReadVersion, NextStatement, Goto, TypeOK
      <3>3. Objects(version) \subseteq schema
        BY DEF IInv, SchemaOK
      <3> HIDE DEF k
      <3>4. ASSUME NEW q \in Procs \ {p}
            PROVE  /\ pc'[q] \in {"migrate", "stamp"} =>
                          /\ Objects(seen'[q]) \subseteq schema'
                          /\ \A j \in 1 .. at'[q] - 1 : Migrations[j].adds \in schema'
                   /\ pc'[q] = "migrate" => at'[q] \in 1 .. 4
                   /\ pc'[q] = "stamp" => at'[q] = 5
                   /\ pc'[q] \in {"key"} \cup Creating \cup Up => Full'
        BY <2>1 DEF IInv, SchemaOK, Full
      <3> QED BY <2>1, <3>1, <3>2, <3>3, <3>4 DEF SchemaOK, Creating, Up
    <2> QED BY <2>2, <2>3
  <1>7. ASSUME NEW p \in Procs, Migrate(p)
        PROVE  SchemaOK'
    <2>1. CASE Exit(p) /\ UNCHANGED <<schema, version>>
      <3>1. /\ pc'[p] = "off"
            /\ \A q \in Procs \ {p} : pc'[q] = pc[q] /\ at'[q] = at[q] /\ seen'[q] = seen[q]
        BY <1>1, <2>1 DEF Exit, Goto, TypeOK
      <3> QED BY <1>1, <2>1, <3>1, SchemaFrame
    <2>2. CASE /\ schema' = schema \cup {Migrations[at[p]].adds}
               /\ NextStatement(p, at[p] + 1, seen[p])
               /\ UNCHANGED <<seen, version>>
      <3> DEFINE k == From(at[p] + 1, seen[p])
      <3>1. /\ at[p] \in 1 .. 4 /\ seen[p] \in 0 .. 3
            /\ Objects(seen[p]) \subseteq schema
            /\ \A j \in 1 .. at[p] - 1 : Migrations[j].adds \in schema
        BY <1>1, <1>7 DEF IInv, SchemaOK, Migrate, TypeOK, CurrentSchemaVersion
      <3>2. /\ k \in at[p] + 1 .. 5
            /\ \A j \in at[p] + 1 .. k - 1 : Migrations[j].adds \in Objects(seen[p])
        BY <3>1, FromSkips
      <3>3. /\ at'[p] = k /\ pc'[p] = IF k <= 4 THEN "migrate" ELSE "stamp"
            /\ \A q \in Procs \ {p} : pc'[q] = pc[q] /\ at'[q] = at[q] /\ seen'[q] = seen[q]
        BY <1>1, <2>2, MigrationsFacts DEF NextStatement, Goto, TypeOK
      <3> HIDE DEF k
      <3>4. \A j \in 1 .. k - 1 : Migrations[j].adds \in schema'
        <4> TAKE j \in 1 .. k - 1
        <4>1. j \in 1 .. at[p] - 1 \/ j = at[p] \/ j \in at[p] + 1 .. k - 1
          BY <3>1, <3>2
        <4> QED BY <2>2, <3>1, <3>2, <4>1
      <3>5. Full => Full'
        BY <1>1, <2>2 DEF Full, TypeOK
      <3>6. ASSUME NEW q \in Procs \ {p}
            PROVE  /\ pc'[q] \in {"migrate", "stamp"} =>
                          /\ Objects(seen'[q]) \subseteq schema'
                          /\ \A j \in 1 .. at'[q] - 1 : Migrations[j].adds \in schema'
                   /\ pc'[q] = "migrate" => at'[q] \in 1 .. 4
                   /\ pc'[q] = "stamp" => at'[q] = 5
                   /\ pc'[q] \in {"key"} \cup Creating \cup Up => Full'
        BY <2>2, <3>3, <3>5 DEF IInv, SchemaOK
      <3>7. /\ pc'[p] \in {"migrate", "stamp"} =>
                   /\ Objects(seen'[p]) \subseteq schema'
                   /\ \A j \in 1 .. at'[p] - 1 : Migrations[j].adds \in schema'
            /\ pc'[p] = "migrate" => at'[p] \in 1 .. 4
            /\ pc'[p] = "stamp" => at'[p] = 5
            /\ pc'[p] \notin {"key"} \cup Creating \cup Up
        BY <2>2, <3>1, <3>2, <3>3, <3>4 DEF Creating, Up
      <3>8. Objects(version') \subseteq schema'
        BY <2>2 DEF IInv, SchemaOK
      <3> QED BY <3>6, <3>7, <3>8 DEF SchemaOK
    <2> QED BY <1>7, <2>1, <2>2 DEF Migrate
  <1>8. ASSUME NEW p \in Procs, Stamp(p)
        PROVE  SchemaOK'
    <2>1. /\ version' = 3 /\ UNCHANGED <<schema, at, seen>> /\ pc'[p] = "key"
          /\ \A q \in Procs \ {p} : pc'[q] = pc[q]
      BY <1>1, <1>8 DEF Stamp, Goto, TypeOK, CurrentSchemaVersion
    <2>2. Full
      <3>1. \A j \in 1 .. 4 : Migrations[j].adds \in schema
        BY <1>8 DEF IInv, SchemaOK, Stamp
      <3> QED BY <1>1, <3>1, AllMakeFull
    <2> QED BY <2>1, <2>2 DEF IInv, SchemaOK, Full, CurrentSchemaVersion
  <1> QED BY <1>2, <1>3, <1>4, <1>5, <1>6, <1>7, <1>8 DEF Next, BootStep

-----------------------------------------------------------------------------
(* The key file.                                                           *)

(* Nobody writes the key file, and processes stay, stop, or are before it. *)
LEMMA KeyFrame ==
    ASSUME IInv, UNCHANGED <<keyFile, removed, overlapped>>,
           \A q \in Procs : \/ pc'[q] = pc[q] /\ key'[q] = key[q]
                            \/ pc'[q] \notin Creating \cup Up
                            \/ pc[q] \in Up /\ pc'[q] \in Up /\ key'[q] = key[q]
    PROVE  KeyOK'
  <1> SUFFICES ASSUME ~removed, ~overlapped, NEW p \in Procs
               PROVE  /\ pc'[p] \in Up => key'[p] = keyFile /\ keyFile > 0
                      /\ pc'[p] = "gen_open" => keyFile = NoFile
                      /\ pc'[p] = "gen_write" => keyFile = TornFile /\ key'[p] > 0
                      /\ pc'[p] \in Creating => \A q \in Procs \ {p} : pc'[q] \notin Creating
    BY DEF KeyOK
  <1>1. \A q \in Procs : pc'[q] \in Creating => pc'[q] = pc[q] /\ key'[q] = key[q]
    BY DEF Creating, Up
  <1>2. \A q \in Procs : pc'[q] \in Up => pc[q] \in Up /\ key'[q] = key[q]
    BY DEF Creating, Up
  <1> QED BY <1>1, <1>2 DEF IInv, KeyOK, Creating

(* No step of any process breaks what is known of the key file.            *)
LEMMA NextKeyOK == IInv /\ [Next]_vars => KeyOK'
  <1> SUFFICES ASSUME IInv, [Next]_vars PROVE KeyOK'
    OBVIOUS
  <1>1. TypeOK
    BY DEF IInv
  <1>2. CASE UNCHANGED vars
    <2>1. UNCHANGED <<keyFile, removed, overlapped, pc, key>>
      BY <1>2 DEF vars, disk, proc, ghost
    <2> QED BY <2>1, KeyFrame
  <1>3. CASE RemoveKeyFile
    BY <1>3 DEF RemoveKeyFile, KeyOK
  <1>4. ASSUME NEW p \in Procs, Stop(p) \/ ShutdownEnds(p)
        PROVE  KeyOK'
    <2>1. /\ UNCHANGED <<keyFile, removed, overlapped>> /\ pc'[p] = "off"
          /\ \A q \in Procs \ {p} : pc'[q] = pc[q] /\ key'[q] = key[q]
      BY <1>1, <1>4 DEF Stop, ShutdownEnds, Exit, Goto, disk, ghost, TypeOK
    <2> QED BY <2>1, KeyFrame DEF Creating, Up
  <1>5. ASSUME NEW p \in Procs,
               \/ Start(p) \/ ReadVersion(p) \/ Migrate(p) \/ Stamp(p) \/ Shutdown(p)
               \/ Signal(p) \/ RequestArrives(p) \/ RequestEnds(p)
        PROVE  KeyOK'
    <2>1. /\ UNCHANGED <<keyFile, removed, overlapped>>
          /\ \A q \in Procs \ {p} : pc'[q] = pc[q] /\ key'[q] = key[q]
          /\ \/ pc'[p] = pc[p] /\ key'[p] = key[p]
             \/ pc'[p] \in {"off", "open", "migrate", "stamp", "key"}
             \/ pc[p] \in Up /\ pc'[p] \in Up /\ key'[p] = key[p]
      <3>1. CASE Start(p) \/ Shutdown(p) \/ Signal(p) \/ RequestArrives(p) \/ RequestEnds(p)
        BY <1>1, <3>1 DEF Start, Shutdown, Signal, RequestArrives, RequestEnds, Goto, disk,
           ghost, TypeOK, Up
      <3>2. CASE ReadVersion(p) \/ Stamp(p)
        BY <1>1, <3>2 DEF ReadVersion, Stamp, NextStatement, Goto, disk, ghost, TypeOK
      <3>3. CASE Migrate(p)
        BY <1>1, <3>3 DEF Migrate, NextStatement, Exit, Goto, ghost, TypeOK
      <3> QED BY <1>5, <3>1, <3>2, <3>3
    <2> QED BY <2>1, KeyFrame DEF Creating, Up
  <1>6. ASSUME NEW p \in Procs, LoadKey(p)
        PROVE  KeyOK'
    <2>1. /\ UNCHANGED <<keyFile, removed>> /\ pc[p] = "key"
          /\ \A q \in Procs \ {p} : pc'[q] = pc[q] /\ key'[q] = key[q]
      BY <1>1, <1>6 DEF LoadKey, Exit, Goto, disk, TypeOK
    <2>2. CASE /\ keyFile = NoFile /\ pc'[p] = "gen_open"
               /\ overlapped' = (overlapped \/ \E q \in Procs : pc[q] \in Creating)
      <3> SUFFICES ASSUME ~removed, ~overlapped, \A q \in Procs : pc[q] \notin Creating
                   PROVE  KeyOK'
        BY <2>1, <2>2 DEF KeyOK
      <3>1. \A q \in Procs : pc[q] \notin Up
        BY <2>2 DEF IInv, KeyOK, NoFile
      <3> QED BY <2>1, <2>2, <3>1 DEF KeyOK, Creating, Up
    <2>3. CASE pc'[p] = "off" /\ UNCHANGED overlapped
      BY <2>1, <2>3, KeyFrame DEF Creating, Up
    <2>4. CASE /\ keyFile > 0 /\ key'[p] = keyFile /\ pc'[p] = "serving"
               /\ UNCHANGED overlapped
      BY <2>1, <2>4 DEF IInv, KeyOK, Creating, Up
    <2> QED BY <1>1, <1>6, <2>2, <2>3, <2>4 DEF LoadKey, Exit, Goto, TypeOK
  <1>7. ASSUME NEW p \in Procs, CreateKeyFile(p)
        PROVE  KeyOK'
    <2>1. /\ UNCHANGED <<removed, overlapped>> /\ keyFile' = TornFile
          /\ pc[p] = "gen_open" /\ pc'[p] = "gen_write" /\ key'[p] > 0
          /\ \A q \in Procs \ {p} : pc'[q] = pc[q] /\ key'[q] = key[q]
      BY <1>1, <1>7 DEF CreateKeyFile, Goto, TypeOK
    <2>2. ~removed /\ ~overlapped => \A q \in Procs \ {p} : pc[q] \notin Creating \cup Up
      BY <2>1 DEF IInv, KeyOK, Creating, NoFile
    <2> QED BY <2>1, <2>2 DEF KeyOK, Creating, Up
  <1>8. ASSUME NEW p \in Procs, WriteKey(p)
        PROVE  KeyOK'
    <2>1. /\ UNCHANGED <<removed, overlapped, key>> /\ keyFile' = key[p]
          /\ pc[p] = "gen_write" /\ pc'[p] = "serving"
          /\ \A q \in Procs \ {p} : pc'[q] = pc[q]
      BY <1>1, <1>8 DEF WriteKey, Goto, ghost, TypeOK
    <2>2. ~removed /\ ~overlapped =>
              key[p] > 0 /\ \A q \in Procs \ {p} : pc[q] \notin Creating \cup Up
      BY <2>1 DEF IInv, KeyOK, Creating, TornFile
    <2> QED BY <2>1, <2>2 DEF KeyOK, Creating, Up
  <1> QED BY <1>2, <1>3, <1>4, <1>5, <1>6, <1>7, <1>8 DEF Next, BootStep

-----------------------------------------------------------------------------

(* The invariant of the processes is inductive.                            *)
LEMMA LifecycleStep == IInv /\ [Next]_vars => IInv'
  BY NextTypeOK, NextSchemaOK, NextKeyOK DEF IInv

(* The invariant holds in every state of every behaviour.                  *)
THEOREM LifecycleInductive == Spec => []IInv
  BY InitIInv, LifecycleStep, PTL DEF Spec

(* The variables of Lifecycle keep their types.                            *)
THEOREM LifecycleTyping == Spec => []TypeOK
  BY LifecycleInductive, PTL DEF IInv

(* Nobody serves on a database that lacks a table or a column.             *)
THEOREM SchemaIsFull == Spec => []ServesOnFullSchema
  <1>1. IInv => ServesOnFullSchema
    BY DEF IInv, SchemaOK, Full, ServesOnFullSchema
  <1> QED BY <1>1, LifecycleInductive, PTL

(* Who serves signs with the key on disk.                                  *)
THEOREM SigningKeyIsTheFiles == Spec => []SigningKeyIsOnDisk
  <1>1. IInv => SigningKeyIsOnDisk
    BY DEF IInv, KeyOK, SigningKeyIsOnDisk
  <1> QED BY <1>1, LifecycleInductive, PTL

-----------------------------------------------------------------------------
(***************************************************************************)
(* KeyPublication: the keys outside the process.                           *)
(***************************************************************************)

(* Nobody signs with the zero of a key that was never there.               *)
KeysPositive == \A p \in Procs : pc[p] \in {"gen_write"} \cup Up => key[p] > 0

(* Whatever leaves the process is named by the key it belongs to.          *)
NamesOK ==
    /\ \A k \in cached : k.kid = k.x
    /\ response.kid = response.key
    /\ \A sig \in notarised : sig.kid = sig.key

(* What the server gave out since its start is of the key it holds.        *)
RunOK ==
    /\ "keys" \in sameRun =>
          \E p \in HttpProcs : pc[p] \in Up /\ cached = JWKS(p)
    /\ "response" \in sameRun =>
          \E p \in HttpProcs : pc[p] \in Up /\ response = Signature(key[p])

(* As long as nobody interferes, what was notarised is of the key on disk. *)
NotaryOK ==
    ~removed /\ ~overlapped =>
        \A sig \in notarised : keyFile > 0 /\ sig.key = keyFile

PInv == IInv /\ PublicTypeOK /\ KeysPositive /\ NamesOK /\ RunOK /\ NotaryOK

(* Before anything was published or signed.                                *)
LEMMA InitPInv == PublicInit => PInv
  <1> SUFFICES ASSUME PublicInit PROVE PInv
    OBVIOUS
  <1>1. IInv
    BY InitIInv DEF PublicInit
  <1>2. KeysPositive
    BY DEF PublicInit, Init, KeysPositive, Up
  <1>3. PublicTypeOK /\ NamesOK /\ RunOK /\ NotaryOK
    BY DEF PublicInit, PublicTypeOK, NoResponse, NamesOK, RunOK, NotaryOK
  <1> QED  BY <1>1, <1>2, <1>3 DEF PInv

(* A key in the file stays while nobody interferes, and a process that     *)
(* serves keeps its key until it is gone.                                  *)
LEMMA KeysStay ==
    ASSUME IInv, [Next]_vars
    PROVE  /\ removed => removed'
           /\ overlapped => overlapped'
           /\ ~removed' /\ ~overlapped' /\ keyFile > 0 => keyFile' = keyFile
           /\ \A p \in Procs : pc[p] \in Up =>
                 pc'[p] = "off" \/ (pc'[p] \in Up /\ key'[p] = key[p])
  <1>0. TypeOK
    BY DEF IInv
  <1> USE DEF Goto, Exit, disk, proc, ghost, Up, TypeOK
  <1>1. CASE UNCHANGED vars
    BY <1>1 DEF vars
  <1>2. CASE RemoveKeyFile
    BY <1>0, <1>2 DEF RemoveKeyFile
  <1>3. ASSUME NEW p \in Procs, Start(p) \/ Signal(p) \/ Stop(p) \/ RequestArrives(p)
                                \/ RequestEnds(p) \/ Shutdown(p) \/ ShutdownEnds(p)
        PROVE  /\ UNCHANGED <<removed, overlapped, keyFile>>
               /\ \A q \in Procs : pc[q] \in Up =>
                     pc'[q] = "off" \/ (pc'[q] \in Up /\ key'[q] = key[q])
    <2>1. CASE Start(p) \/ Signal(p) \/ RequestArrives(p) \/ RequestEnds(p) \/ Shutdown(p)
      BY <1>0, <2>1 DEF Start, Signal, RequestArrives, RequestEnds, Shutdown
    <2>2. CASE Stop(p) \/ ShutdownEnds(p)
      BY <1>0, <2>2 DEF Stop, ShutdownEnds
    <2> QED  BY <1>3, <2>1, <2>2
  <1>4. ASSUME NEW p \in Procs, ReadVersion(p) \/ Migrate(p) \/ Stamp(p)
        PROVE  /\ UNCHANGED <<removed, overlapped, keyFile>>
               /\ \A q \in Procs : pc[q] \in Up =>
                     pc'[q] = "off" \/ (pc'[q] \in Up /\ key'[q] = key[q])
    BY <1>0, <1>4 DEF ReadVersion, Migrate, Stamp, NextStatement
  <1>5. ASSUME NEW p \in Procs, LoadKey(p)
        PROVE  /\ UNCHANGED <<removed, keyFile>> /\ (overlapped => overlapped')
               /\ \A q \in Procs : pc[q] \in Up =>
                     pc'[q] = "off" \/ (pc'[q] \in Up /\ key'[q] = key[q])
    BY <1>0, <1>5 DEF LoadKey
  <1>6. ASSUME NEW p \in Procs, CreateKeyFile(p) \/ WriteKey(p)
        PROVE  /\ UNCHANGED <<removed, overlapped>>
               /\ ~removed /\ ~overlapped => ~(keyFile > 0)
               /\ \A q \in Procs : pc[q] \in Up =>
                     pc'[q] = "off" \/ (pc'[q] \in Up /\ key'[q] = key[q])
    <2>1. ~removed /\ ~overlapped => ~(keyFile > 0)
      BY <1>6 DEF IInv, KeyOK, CreateKeyFile, WriteKey, NoFile, TornFile
    <2> QED  BY <1>0, <1>6, <2>1 DEF CreateKeyFile, WriteKey
  <1> QED  BY <1>1, <1>2, <1>3, <1>4, <1>5, <1>6 DEF Next, BootStep

(* A process that is up, or writing its new key, holds a key.              *)
LEMMA KeysPositiveStep ==
    ASSUME IInv, KeysPositive, [Next]_vars
    PROVE  KeysPositive'
  <1>1. CASE UNCHANGED vars
    BY <1>1 DEF vars, proc, KeysPositive
  <1>2. ASSUME NEW p \in Procs, pc'[p] \in {"gen_write"} \cup Up,
               ~(pc[p] \in {"gen_write"} \cup Up)
        PROVE  key'[p] > 0
    <2> USE DEF Goto, Exit, Up
    <2>1. TypeOK
      BY DEF IInv
    <2>2. CASE RemoveKeyFile
      BY <1>2, <2>2 DEF RemoveKeyFile, proc
    <2>3. ASSUME NEW q \in Procs, Start(q) \/ Signal(q) \/ Stop(q) \/ RequestArrives(q)
                                  \/ RequestEnds(q) \/ Shutdown(q) \/ ShutdownEnds(q)
          PROVE  FALSE
      BY <1>2, <2>1, <2>3 DEF Start, Signal, RequestArrives, RequestEnds, Shutdown, Stop,
                              ShutdownEnds, TypeOK
    <2>4. ASSUME NEW q \in Procs, ReadVersion(q) \/ Migrate(q) \/ Stamp(q)
          PROVE  FALSE
      BY <1>2, <2>1, <2>4 DEF ReadVersion, Migrate, Stamp, NextStatement, TypeOK
    <2>5. ASSUME NEW q \in Procs, LoadKey(q)
          PROVE  key'[p] > 0
      BY <1>2, <2>1, <2>5 DEF LoadKey, TypeOK
    <2>6. ASSUME NEW q \in Procs, CreateKeyFile(q) \/ WriteKey(q)
          PROVE  key'[p] > 0
      BY <1>2, <2>1, <2>6 DEF CreateKeyFile, WriteKey, TypeOK
    <2>7. CASE UNCHANGED vars
      BY <1>2, <2>7 DEF vars, proc
    <2> QED  BY <2>2, <2>3, <2>4, <2>5, <2>6, <2>7 DEF Next, BootStep
  <1>3. ASSUME NEW p \in Procs, pc[p] = "gen_write", pc'[p] \in {"gen_write"} \cup Up
        PROVE  key'[p] = key[p]
    <2> USE DEF Goto, Exit, Up
    <2>1. TypeOK
      BY DEF IInv
    <2>2. CASE RemoveKeyFile \/ UNCHANGED vars
      BY <2>2 DEF RemoveKeyFile, vars, proc
    <2>3. ASSUME NEW q \in Procs, Start(q) \/ Signal(q) \/ Stop(q) \/ RequestArrives(q)
                                  \/ RequestEnds(q) \/ Shutdown(q) \/ ShutdownEnds(q)
          PROVE  key'[p] = key[p]
      BY <1>3, <2>1, <2>3 DEF Start, Signal, RequestArrives, RequestEnds, Shutdown, Stop,
                              ShutdownEnds, TypeOK
    <2>4. ASSUME NEW q \in Procs, BootStep(q)
          PROVE  key'[p] = key[p]
      BY <1>3, <2>1, <2>4 DEF BootStep, ReadVersion, Migrate, Stamp, NextStatement,
                              LoadKey, CreateKeyFile, WriteKey, TypeOK
    <2> QED  BY <2>2, <2>3, <2>4 DEF Next
  <1> QED  BY <1>2, <1>3, KeysStay DEF KeysPositive, Up

(* A step of a process, seen by those outside who hold its keys.           *)
LEMMA ProcessStepOK ==
    ASSUME PInv, ProcessStep \/ UNCHANGED publicVars
    PROVE  PInv'
  <1> USE DEF PInv
  <1>1. [Next]_vars /\ UNCHANGED <<cached, response, notarised>>
    BY DEF ProcessStep, publicVars, outside
  <1>2. IInv' /\ KeysPositive'
    BY <1>1, LifecycleStep, KeysPositiveStep
  <1>3. sameRun' \subseteq sameRun
    BY DEF ProcessStep, publicVars, outside
  <1>4. PublicTypeOK' /\ NamesOK'
    BY <1>1, <1>3 DEF PublicTypeOK, NamesOK
  <1>5. ASSUME NEW p \in HttpProcs, pc[p] \in Up, sameRun' # {}
        PROVE  pc'[p] \in Up /\ key'[p] = key[p]
    <2>1. p \in Procs
      BY ProcsAssumption
    <2>2. pc'[p] # "off"
      BY <1>5, <2>1 DEF ProcessStep, publicVars, vars, proc, Up
    <2> QED  BY <1>1, <1>5, <2>1, <2>2, KeysStay
  <1>6. RunOK'
    BY <1>1, <1>3, <1>5 DEF RunOK, JWKS, JWK, Signature
  <1>7. NotaryOK'
    BY <1>1, KeysStay DEF NotaryOK
  <1> QED  BY <1>2, <1>4, <1>6, <1>7

(* The invariant of keys and signatures is inductive.                      *)
LEMMA NextPInv == PInv /\ [PublicNext]_publicVars => PInv'
  <1> SUFFICES ASSUME PInv, [PublicNext]_publicVars PROVE PInv'
    OBVIOUS
  <1>1. CASE ProcessStep \/ UNCHANGED publicVars
    BY <1>1, ProcessStepOK
  <1>2. ASSUME NEW p \in Procs, FetchKeys(p) \/ SignResponse(p) \/ Notarise(p)
        PROVE  PInv'
    <2>1. UNCHANGED vars /\ pc[p] \in Up
      BY <1>2 DEF FetchKeys, SignResponse, Notarise, Up
    <2>2. key[p] \in Nat /\ key[p] > 0
      BY <2>1 DEF PInv, IInv, TypeOK, KeysPositive
    <2>3. IInv' /\ KeysPositive'
      BY <2>1, LifecycleStep, KeysPositiveStep DEF PInv
    <2>4. PublicTypeOK' /\ NamesOK'
      <3>1. CASE FetchKeys(p)
        <4>1. cached' = {[kid |-> key[p], x |-> key[p]]}
          BY <3>1 DEF FetchKeys, JWKS, JWK, KeyID
        <4>2. UNCHANGED <<response, notarised>> /\ sameRun' = sameRun \cup {"keys"}
          BY <3>1 DEF FetchKeys
        <4> QED  BY <4>1, <4>2, <2>2 DEF PInv, PublicTypeOK, NamesOK
      <3>2. CASE SignResponse(p)
        <4>1. response' = [kid |-> key[p], key |-> key[p]]
          BY <3>2 DEF SignResponse, Signature, KeyID
        <4>2. UNCHANGED <<cached, notarised>> /\ sameRun' = sameRun \cup {"response"}
          BY <3>2 DEF SignResponse
        <4> QED  BY <4>1, <4>2, <2>2 DEF PInv, PublicTypeOK, NamesOK
      <3>3. CASE Notarise(p)
        <4>1. notarised' = notarised \cup {[kid |-> key[p], key |-> key[p]]}
          BY <3>3 DEF Notarise, Signature, KeyID
        <4>2. UNCHANGED <<cached, response, sameRun>>
          BY <3>3 DEF Notarise
        <4> QED  BY <4>1, <4>2, <2>2 DEF PInv, PublicTypeOK, NamesOK
      <3> QED  BY <1>2, <3>1, <3>2, <3>3
    <2>5. RunOK'
      BY <1>2, <2>1 DEF PInv, FetchKeys, SignResponse, Notarise, RunOK, vars, proc, JWKS,
                        JWK, Signature
    <2>6. NotaryOK'
      <3>1. CASE Notarise(p)
        <4>1. ~removed /\ ~overlapped => key[p] = keyFile /\ keyFile > 0
          BY <2>1 DEF PInv, IInv, KeyOK
        <4> QED  BY <2>1, <3>1, <4>1 DEF PInv, Notarise, NotaryOK, Signature, vars, disk,
                                         ghost
      <3>2. CASE FetchKeys(p) \/ SignResponse(p)
        BY <2>1, <3>2 DEF PInv, FetchKeys, SignResponse, NotaryOK, vars, disk, ghost
      <3> QED  BY <1>2, <3>1, <3>2
    <2> QED  BY <2>3, <2>4, <2>5, <2>6 DEF PInv
  <1> QED  BY <1>1, <1>2 DEF PublicNext

(* Keys and signatures keep their invariant in every behaviour.            *)
LEMMA PublicInductive == PublicSpec => []PInv
  BY InitPInv, NextPInv, PTL DEF PublicSpec

-----------------------------------------------------------------------------
(* A verifier with any keys it was ever given takes no genuine response    *)
(* for a forged one, and one with the keys of this start finds the key of  *)
(* what was signed since.                                                  *)
THEOREM KeysSound == PublicSpec => []KeysAreSound
  <1>1. PInv => KeysAreSound
    <2> SUFFICES ASSUME PInv PROVE KeysAreSound
      OBVIOUS
    <2>1. NoFalseMismatch
      BY DEF PInv, NamesOK, NoFalseMismatch, Verdict
    <2>2. OwnKeysVerify
      <3> SUFFICES ASSUME sameRun = {"response", "keys"}
                   PROVE  Verdict(cached, response) = "valid"
        BY DEF OwnKeysVerify
      <3>1. PICK p \in HttpProcs : cached = JWKS(p)
        BY DEF PInv, RunOK
      <3>2. PICK q \in HttpProcs : response = Signature(key[q])
        BY DEF PInv, RunOK
      <3>3. p = q
        BY OneServerAssumption
      <3> QED  BY <3>1, <3>2, <3>3 DEF Verdict, JWKS, JWK, Signature
    <2> QED  BY <2>1, <2>2 DEF PInv, KeysAreSound
  <1> QED  BY <1>1, PublicInductive, PTL

(* While nobody removes the key file and no two processes create it, every *)
(* notary signature on file verifies with the keys of the server that is   *)
(* up, whichever process wrote it and however many starts ago.             *)
THEOREM NotaryOutlives == PublicSpec => []NotaryOutlivesTheProcess
  <1>1. PInv => NotaryOutlivesTheProcess
    <2> SUFFICES ASSUME PInv, ~removed, ~overlapped, NEW p \in HttpProcs, pc[p] \in Up,
                        NEW sig \in notarised
                 PROVE  Verdict(JWKS(p), sig) = "valid"
      BY DEF NotaryOutlivesTheProcess
    <2>1. key[p] = keyFile
      BY ProcsAssumption DEF PInv, IInv, KeyOK
    <2>2. sig.key = keyFile /\ sig.kid = keyFile
      BY DEF PInv, NotaryOK, NamesOK
    <2> QED  BY <2>1, <2>2 DEF Verdict, JWKS, JWK, KeyID
  <1> QED  BY <1>1, PublicInductive, PTL

-----------------------------------------------------------------------------
(* The admin panel.  The inductive invariant.                              *)

(* Whatever a browser holds, somebody typed into it.                       *)
HeldOK ==
    /\ cookie \in told \cup {Empty}
    /\ \A t \in Tabs : url[t] \in told \cup {Empty} /\ stored[t] \in told \cup {Empty}

(* One that was let in with the token in force has it in its cookie.       *)
AuthedOK == authed => Token # Empty /\ cookie = Token

AInv == PanelIsGuarded /\ HeldOK /\ AuthedOK

-----------------------------------------------------------------------------
(* The token in force is one of the operator's or none, and a panel that   *)
(* is served has one.                                                      *)
LEMMA TokenFacts ==
    ASSUME AccessTypeOK
    PROVE  /\ Token \in Tokens \cup {Empty}
           /\ running.admin => Token # Empty
  <1>1. started.file.token \in Tokens \cup {Empty} /\ started.env.token \in Tokens \cup {Empty}
    BY ChoicesAssumption DEF AccessTypeOK, Files, Envs
  <1> QED  BY <1>1 DEF running, Token, Load, Setting

(* A new browser knows no token, and the panel is not up.                  *)
LEMMA InitAInv == AccessInit => AInv
  <1> SUFFICES ASSUME AccessInit PROVE AInv
    OBVIOUS
  <1>1. boots \in 0 .. MaxBoots
    <2>1. boots = 0
      BY DEF AccessInit
    <2> QED  BY <2>1, MaxBootsAssumption
  <1>2. last.accepted = FALSE /\ last.authed = FALSE
        /\ last \in [accepted : BOOLEAN, knew : BOOLEAN, authed : BOOLEAN]
    BY DEF AccessInit, NoRequest
  <1>3. AccessTypeOK
    BY <1>1, <1>2 DEF AccessInit, AccessTypeOK, Pages
  <1>4. OnlyTheTold /\ StaysIn
    BY <1>2 DEF OnlyTheTold, StaysIn
  <1>5. HeldOK /\ AuthedOK
    BY DEF AccessInit, HeldOK, AuthedOK
  <1> QED  BY <1>3, <1>4, <1>5 DEF AInv, PanelIsGuarded

(* A request is let in by a token of its own or by the cookie, so never    *)
(* one of a browser that was not told; and always by the cookie of one     *)
(* that was let in before.                                                 *)
LEMMA RequestFacts ==
    ASSUME AInv, NEW header \in told \cup {Empty}, NEW query \in Tokens \cup {Empty},
           Request(header, query)
    PROVE  /\ last' \in [accepted : BOOLEAN, knew : BOOLEAN, authed : BOOLEAN]
           /\ OnlyTheTold' /\ StaysIn'
           /\ cookie' \in Tokens \cup {Empty}
           /\ cookie' \in told \cup {query, Empty}
           /\ authed \/ query = Token => cookie' = Token
           /\ Token # Empty
  <1>1. Token # Empty /\ Token \in Tokens
    BY TokenFacts DEF AInv, PanelIsGuarded, Request, Serving
  <1> DEFINE ok == Authorised(header, query)
  <1>2. ok <=> Token = header \/ Token = cookie \/ Token = query
    BY <1>1 DEF Authorised
  <1>3. /\ last' = [accepted |-> ok, knew |-> Token \in told \cup {query}, authed |-> authed]
        /\ cookie' = IF ok THEN Token ELSE cookie
    BY DEF Request, EnsureCookie
  <1>4. ok => Token \in told \cup {query}
    BY <1>1, <1>2 DEF AInv, HeldOK
  <1>5. authed => ok
    BY <1>2 DEF AInv, AuthedOK
  <1>6. ok \in BOOLEAN /\ (Token \in told \cup {query}) \in BOOLEAN /\ authed \in BOOLEAN
    BY DEF AInv, PanelIsGuarded, AccessTypeOK, Authorised
  <1> HIDE DEF ok
  <1>7. last' \in [accepted : BOOLEAN, knew : BOOLEAN, authed : BOOLEAN]
    BY <1>3, <1>6
  <1>8. OnlyTheTold' /\ StaysIn'
    BY <1>3, <1>4, <1>5 DEF OnlyTheTold, StaysIn
  <1>9. cookie \in Tokens \cup {Empty} /\ cookie \in told \cup {Empty}
    BY DEF AInv, PanelIsGuarded, AccessTypeOK, HeldOK
  <1>10. query = Token => ok
    BY <1>2
  <1> QED  BY <1>1, <1>3, <1>4, <1>5, <1>7, <1>8, <1>9, <1>10

(* What the operator does leaves the browser alone.                        *)
LEMMA OperatorStep == AInv /\ (Edit \/ Restart \/ RefreshLoop) => AInv'
  <1> SUFFICES ASSUME AInv, Edit \/ Restart \/ RefreshLoop PROVE AInv'
    OBVIOUS
  <1>1. UNCHANGED <<cookie, url, stored, page, told, last>>
    BY DEF Edit, Restart, RefreshLoop, browser
  <1>2. boots' \in 0 .. MaxBoots
    <2>1. boots \in 0 .. MaxBoots
      BY DEF AInv, PanelIsGuarded, AccessTypeOK
    <2>2. boots' = boots \/ (boots < MaxBoots /\ boots' = boots + 1)
      BY DEF Edit, Restart, RefreshLoop
    <2> QED  BY <2>1, <2>2, MaxBootsAssumption
  <1>3. authed' \in BOOLEAN /\ (authed' => authed /\ Token' = Token)
    <2>1. authed \in BOOLEAN
      BY DEF AInv, PanelIsGuarded, AccessTypeOK
    <2>2. CASE Edit \/ RefreshLoop
      <3>1. started' = started /\ authed' = authed
        BY <2>2 DEF Edit, RefreshLoop, browser
      <3> QED  BY <2>1, <3>1 DEF Token, running
    <2>3. CASE Restart
      BY <2>3 DEF Restart
    <2> QED  BY <2>2, <2>3
  <1>4. AccessTypeOK'
    <2>1. file' \in FileChoices /\ env' \in EnvChoices
      BY DEF Edit, Restart, RefreshLoop, AInv, PanelIsGuarded, AccessTypeOK
    <2>2. started' \in [file : FileChoices, env : EnvChoices]
      <3>1. /\ file \in FileChoices /\ env \in EnvChoices
            /\ started \in [file : FileChoices, env : EnvChoices]
        BY DEF AInv, PanelIsGuarded, AccessTypeOK
      <3>2. started' = started \/ started' = [file |-> file, env |-> env]
        BY DEF Edit, Restart, RefreshLoop
      <3> QED  BY <3>1, <3>2
    <2>3. process' \in {"down", "refused", "up", "panicked"}
      BY DEF Edit, Restart, RefreshLoop, AInv, PanelIsGuarded, AccessTypeOK
    <2> QED  BY <1>1, <1>2, <1>3, <2>1, <2>2, <2>3 DEF AInv, PanelIsGuarded, AccessTypeOK
  <1>5. OnlyTheTold' /\ StaysIn' /\ HeldOK'
    BY <1>1 DEF AInv, PanelIsGuarded, OnlyTheTold, StaysIn, HeldOK
  <1>6. AuthedOK'
    BY <1>1, <1>3 DEF AInv, AuthedOK
  <1> QED  BY <1>4, <1>5, <1>6 DEF AInv, PanelIsGuarded

(* Opening or reloading the page, let in or not.                           *)
LEMMA OpenStep ==
    ASSUME AInv, NEW t \in Tabs, NEW token \in Tokens \cup {Empty}, Open(t, token)
    PROVE  AInv'
  <1>1. Request(Empty, token)
    BY DEF Open
  <1>2. /\ last' \in [accepted : BOOLEAN, knew : BOOLEAN, authed : BOOLEAN]
        /\ OnlyTheTold' /\ StaysIn'
        /\ cookie' \in Tokens \cup {Empty}
        /\ cookie' \in told \cup {token, Empty}
        /\ authed \/ token = Token => cookie' = Token
        /\ Token # Empty
    BY <1>1, RequestFacts
  <1>3. /\ url' = [url EXCEPT ![t] = token] /\ stored' = stored
        /\ told' = told \cup ({token} \ {Empty})
        /\ authed' = (authed \/ token = Token)
        /\ page' = [page EXCEPT ![t] = IF last'.accepted THEN "html" ELSE "refused"]
        /\ UNCHANGED <<file, env, boots, process, started>>
    BY DEF Open, config
  <1>4. Token' = Token
    BY <1>3 DEF Token, running
  <1>5. AccessTypeOK'
    BY <1>2, <1>3 DEF AInv, PanelIsGuarded, AccessTypeOK, Pages
  <1>6. HeldOK'
    BY <1>2, <1>3 DEF AInv, PanelIsGuarded, AccessTypeOK, HeldOK
  <1>7. AuthedOK'
    BY <1>2, <1>3, <1>4 DEF AuthedOK
  <1> QED  BY <1>2, <1>5, <1>6, <1>7 DEF AInv, PanelIsGuarded

(* The others type nothing: what they send is in the tab or in the cookie. *)
LEMMA TabStep ==
    ASSUME AInv, NEW t \in Tabs, Reload(t) \/ Script(t) \/ Api(t)
    PROVE  AInv'
  <1>1. PICK header \in told \cup {Empty}, query \in told \cup {Empty} :
           /\ Request(header, query)
           /\ authed' = (authed \/ query = Token)
    <2>1. url[t] \in told \cup {Empty} /\ stored[t] \in told \cup {Empty}
      BY DEF AInv, HeldOK
    <2>2. CASE Reload(t)
      BY <2>1, <2>2 DEF Reload
    <2>3. CASE Script(t)
      <3>1. Request(Empty, Empty) /\ authed' = authed
        BY <2>3 DEF Script
      <3>2. Token # Empty
        BY <3>1, RequestFacts
      <3> QED  BY <3>1, <3>2 DEF AInv, PanelIsGuarded, AccessTypeOK
    <2>4. CASE Api(t)
      <3>1. Request(stored[t], Empty) /\ authed' = authed
        BY <2>4 DEF Api
      <3>2. Token # Empty
        BY <2>1, <3>1, RequestFacts
      <3> QED  BY <2>1, <3>1, <3>2 DEF AInv, PanelIsGuarded, AccessTypeOK
    <2> QED  BY <2>2, <2>3, <2>4
  <1>2. told \subseteq Tokens /\ query \in Tokens \cup {Empty}
    BY DEF AInv, PanelIsGuarded, AccessTypeOK
  <1>3. /\ last' \in [accepted : BOOLEAN, knew : BOOLEAN, authed : BOOLEAN]
        /\ OnlyTheTold' /\ StaysIn'
        /\ cookie' \in Tokens \cup {Empty}
        /\ cookie' \in told \cup {query, Empty}
        /\ authed \/ query = Token => cookie' = Token
        /\ Token # Empty
    BY <1>1, <1>2, RequestFacts
  <1>4. UNCHANGED <<file, env, boots, process, started, told>>
    BY DEF Reload, Script, Api, config
  <1>5. Token' = Token
    BY <1>4 DEF Token, running
  <1>6. /\ url' \in [Tabs -> told \cup {Empty}] /\ stored' \in [Tabs -> told \cup {Empty}]
        /\ page' \in [Tabs -> Pages]
        /\ \A u \in Tabs : page'[u] = "panel" => stored'[u] # Empty /\ url'[u] = Empty
    <2>1. /\ url \in [Tabs -> told \cup {Empty}] /\ stored \in [Tabs -> told \cup {Empty}]
          /\ page \in [Tabs -> Pages]
          /\ \A u \in Tabs : page[u] = "panel" => stored[u] # Empty /\ url[u] = Empty
      BY DEF AInv, PanelIsGuarded, AccessTypeOK, HeldOK
    <2>2. CASE Reload(t)
      BY <2>1, <2>2 DEF Reload, Pages
    <2>3. CASE Script(t)
      <3>1. PICK token \in told \cup {Empty} :
               \/ /\ stored' = [stored EXCEPT ![t] = token]
                  /\ url' = [url EXCEPT ![t] = Empty]
                  /\ page' = [page EXCEPT ![t] = Panel(token)]
               \/ UNCHANGED <<url, stored, page>>
        BY <2>1, <2>3 DEF Script
      <3> QED  BY <2>1, <3>1 DEF Panel, Pages
    <2>4. CASE Api(t)
      BY <2>1, <2>4 DEF Api
    <2> QED  BY <2>2, <2>3, <2>4
  <1>7. authed' \in BOOLEAN
    BY <1>1
  <1>8. AccessTypeOK'
    <2>1. url' \in [Tabs -> Tokens \cup {Empty}] /\ stored' \in [Tabs -> Tokens \cup {Empty}]
      BY <1>2, <1>6
    <2> QED  BY <1>2, <1>3, <1>4, <1>6, <1>7, <2>1 DEF AInv, PanelIsGuarded, AccessTypeOK
  <1>9. HeldOK'
    BY <1>3, <1>4, <1>6 DEF HeldOK
  <1>10. AuthedOK'
    BY <1>1, <1>3, <1>5 DEF AuthedOK
  <1> QED  BY <1>3, <1>8, <1>9, <1>10 DEF AInv, PanelIsGuarded

(* Closing a tab or the browser forgets, and nothing else.                 *)
LEMMA CloseStep == AInv /\ (CloseBrowser \/ \E t \in Tabs : CloseTab(t)) => AInv'
  <1> SUFFICES ASSUME AInv, CloseBrowser \/ \E t \in Tabs : CloseTab(t) PROVE AInv'
    OBVIOUS
  <1>1. CASE CloseBrowser
    <2>1. last'.accepted = FALSE /\ last'.authed = FALSE
          /\ last' \in [accepted : BOOLEAN, knew : BOOLEAN, authed : BOOLEAN]
      BY <1>1 DEF CloseBrowser, NoRequest
    <2>2. AccessTypeOK'
      BY <1>1, <2>1 DEF CloseBrowser, ClosedTabs, config, AInv, PanelIsGuarded, AccessTypeOK, Pages
    <2>3. OnlyTheTold' /\ StaysIn'
      BY <2>1 DEF OnlyTheTold, StaysIn
    <2>4. HeldOK' /\ AuthedOK'
      BY <1>1 DEF CloseBrowser, ClosedTabs, HeldOK, AuthedOK
    <2> QED  BY <2>2, <2>3, <2>4 DEF AInv, PanelIsGuarded
  <1>2. ASSUME NEW t \in Tabs, CloseTab(t) PROVE AInv'
    <2>1. AccessTypeOK'
      BY <1>2 DEF CloseTab, config, AInv, PanelIsGuarded, AccessTypeOK, Pages
    <2>2. OnlyTheTold' /\ StaysIn'
      BY <1>2 DEF CloseTab, OnlyTheTold, StaysIn, AInv, PanelIsGuarded
    <2>3. HeldOK'
      BY <1>2 DEF CloseTab, HeldOK, AInv, PanelIsGuarded, AccessTypeOK
    <2>4. AuthedOK'
      BY <1>2 DEF CloseTab, AuthedOK, AInv, Token, running, config
    <2> QED  BY <2>1, <2>2, <2>3, <2>4 DEF AInv, PanelIsGuarded
  <1> QED  BY <1>1, <1>2

(* The invariant of the panel's door holds in every behaviour.             *)
THEOREM AccessInductive == AccessSpec => []AInv
  <1>1. AInv /\ [AccessNext]_accessVars => AInv'
    <2> SUFFICES ASSUME AInv, [AccessNext]_accessVars PROVE AInv'
      OBVIOUS
    <2>1. CASE UNCHANGED accessVars
      BY <2>1 DEF accessVars, config, browser, AInv, PanelIsGuarded, AccessTypeOK, OnlyTheTold, StaysIn,
                  HeldOK, AuthedOK, Token, running
    <2>2. CASE AccessNext
      BY <2>2, OperatorStep, OpenStep, TabStep, CloseStep DEF AccessNext
    <2> QED  BY <2>1, <2>2
  <1> QED  BY InitAInv, <1>1, PTL DEF AccessSpec

-----------------------------------------------------------------------------
(* authorised and ensureCookie: over any number of rotations and restarts  *)
(* nobody is let in who was not told the token in force, and a browser     *)
(* that was let in with it stays in, in all of its tabs.                   *)
THEOREM PanelStaysGuarded == AccessSpec => []PanelIsGuarded
  BY AccessInductive, PTL DEF AInv
=============================================================================

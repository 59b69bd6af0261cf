----------------------------- MODULE Lifecycle -----------------------------
(***************************************************************************)
(* The life of bragent processes (cmd/bragent/main.go) on the files they   *)
(* share: the database that store.Open migrates and the key file that      *)
(* signing.LoadOrCreate reads or creates.  An HTTP server then serves      *)
(* until a signal, and Shutdown gives its requests five seconds; a stdio   *)
(* bridge ends as StdioBridge says, here at any time.  A start that fails  *)
(* before store.Open (the config, the feed) touches no file and is left    *)
(* out.  [brand].signing_key_path is set.                                  *)
(***************************************************************************)
EXTENDS Integers, Sequences

CONSTANTS Procs,         \* the processes of one installation
          HttpProcs,     \* those that listen; the others are stdio bridges
          MaxStarts,     \* bound: starts
          MaxRequests    \* bound: requests in flight

ASSUME ProcsAssumption  == HttpProcs \subseteq Procs
ASSUME BoundsAssumption == MaxStarts \in Nat /\ MaxRequests \in Nat

VARIABLES schema,      \* what the database holds of tables and columns
          version,     \* PRAGMA user_version
          keyFile,     \* the key in the key file, NoFile or TornFile
          starts,
          minted,      \* keys generated so far
          pc, at,      \* where a process is; the statement of migrate it is at
          seen,        \* seen[p]: the version migrate read
          key,         \* key[p]: the key p signs with
          cancelled,   \* cancelled[p]: a signal came
          inflight,    \* inflight[p]: requests running
          removed,     \* has the operator removed the key file?
          overlapped   \* were two processes creating a key at once?

disk  == <<schema, version, keyFile>>
proc  == <<pc, at, seen, key, cancelled, inflight>>
ghost == <<starts, minted, removed, overlapped>>
vars  == <<disk, proc, ghost>>

-----------------------------------------------------------------------------
(* migrate: each statement is committed on its own, and each is run when   *)
(* the version read at the start is below its own.                         *)
Migrations == << [to |-> 1, adds |-> "sessions"],
                 [to |-> 1, adds |-> "messages"],
                 [to |-> 2, adds |-> "influence_mode"],
                 [to |-> 3, adds |-> "receipts"] >>

CurrentSchemaVersion == 3
Objects(v) == {Migrations[i].adds : i \in {j \in DOMAIN Migrations : Migrations[j].to <= v}}

(* The first statement from the i-th on that a database of version v needs.*)
From(i, v) ==
    CHOOSE k \in i .. Len(Migrations) + 1 :
        /\ k <= Len(Migrations) => Migrations[k].to > v
        /\ \A j \in i .. k - 1 : Migrations[j].to <= v

NoFile   == 0
TornFile == -1

Creating == {"gen_open", "gen_write"}
Up       == {"serving", "draining"}

TypeOK ==
    /\ schema \subseteq Objects(CurrentSchemaVersion)
    /\ version \in 0 .. CurrentSchemaVersion
    /\ keyFile \in Nat \cup {TornFile}
    /\ starts \in Nat /\ minted \in Nat
    /\ pc \in [Procs -> {"off", "open", "migrate", "stamp", "key"} \cup Creating \cup Up]
    /\ at \in [Procs -> 1 .. Len(Migrations) + 1]
    /\ seen \in [Procs -> 0 .. CurrentSchemaVersion]
    /\ key \in [Procs -> Nat]
    /\ cancelled \in [Procs -> BOOLEAN]
    /\ inflight \in [Procs -> 0 .. MaxRequests]
    /\ removed \in BOOLEAN /\ overlapped \in BOOLEAN

(* A new installation, or one an older release left behind.                *)
Init ==
    /\ version \in 0 .. CurrentSchemaVersion
    /\ schema = Objects(version)
    /\ keyFile = NoFile
    /\ starts = 0 /\ minted = 0
    /\ pc = [p \in Procs |-> "off"]
    /\ at = [p \in Procs |-> 1]
    /\ seen = [p \in Procs |-> 0]
    /\ key = [p \in Procs |-> 0]
    /\ cancelled = [p \in Procs |-> FALSE]
    /\ inflight = [p \in Procs |-> 0]
    /\ removed = FALSE /\ overlapped = FALSE

-----------------------------------------------------------------------------
Goto(p, l) == pc' = [pc EXCEPT ![p] = l]

(* The process is gone: log.Fatalf, os.Exit, a return from main, a crash.  *)
Exit(p) ==
    /\ Goto(p, "off")
    /\ at' = [at EXCEPT ![p] = 1]
    /\ seen' = [seen EXCEPT ![p] = 0]
    /\ key' = [key EXCEPT ![p] = 0]
    /\ cancelled' = [cancelled EXCEPT ![p] = FALSE]
    /\ inflight' = [inflight EXCEPT ![p] = 0]

Start(p) ==
    /\ pc[p] = "off" /\ starts < MaxStarts
    /\ starts' = starts + 1
    /\ Goto(p, "open")
    /\ UNCHANGED <<disk, at, seen, key, cancelled, inflight, minted, removed, overlapped>>

(* After the last statement a stamp is due, unless nothing was to be done. *)
NextStatement(p, i, v) ==
    /\ at' = [at EXCEPT ![p] = From(i, v)]
    /\ Goto(p, IF From(i, v) <= Len(Migrations) THEN "migrate" ELSE "stamp")

(* Deliberately wrong: stamp the version before the statements run.        *)
ReadVersionAndStamp(p) ==
    /\ pc[p] = "open"
    /\ seen' = [seen EXCEPT ![p] = version]
    /\ version' = CurrentSchemaVersion
    /\ IF version >= CurrentSchemaVersion
       THEN Goto(p, "key") /\ UNCHANGED at
       ELSE NextStatement(p, 1, version)
    /\ UNCHANGED <<schema, keyFile, key, cancelled, inflight, ghost>>

ReadVersion(p) ==
    /\ pc[p] = "open"
    /\ seen' = [seen EXCEPT ![p] = version]
    /\ IF version >= CurrentSchemaVersion
       THEN Goto(p, "key") /\ UNCHANGED at
       ELSE NextStatement(p, 1, version)
    /\ UNCHANGED <<disk, key, cancelled, inflight, ghost>>

(* CREATE TABLE and ADD COLUMN fail on what is already there.              *)
Migrate(p) ==
    /\ pc[p] = "migrate"
    /\ LET new == Migrations[at[p]].adds
       IN  IF new \in schema
           THEN Exit(p) /\ UNCHANGED schema
           ELSE /\ schema' = schema \cup {new}
                /\ NextStatement(p, at[p] + 1, seen[p])
                /\ UNCHANGED <<seen, key, cancelled, inflight>>
    /\ UNCHANGED <<version, keyFile, ghost>>

Stamp(p) ==
    /\ pc[p] = "stamp"
    /\ version' = CurrentSchemaVersion
    /\ Goto(p, "key")
    /\ UNCHANGED <<schema, keyFile, at, seen, key, cancelled, inflight, ghost>>

-----------------------------------------------------------------------------
(* Deliberately wrong: create a key whenever the file cannot be read.      *)
LoadKeyOrElse(p) ==
    /\ pc[p] = "key"
    /\ \/ /\ Goto(p, "gen_open")
          /\ overlapped' = (overlapped \/ \E q \in Procs : pc[q] \in Creating)
          /\ UNCHANGED <<at, seen, key, cancelled, inflight>>
       \/ keyFile = TornFile /\ Exit(p) /\ UNCHANGED overlapped
       \/ /\ keyFile > 0
          /\ key' = [key EXCEPT ![p] = keyFile]
          /\ Goto(p, "serving")
          /\ UNCHANGED <<at, seen, cancelled, inflight, overlapped>>
    /\ UNCHANGED <<disk, starts, minted, removed>>

(* LoadOrCreate.  A key file that does not parse ends the process.         *)
LoadKey(p) ==
    /\ pc[p] = "key"
    /\ \/ /\ keyFile = NoFile
          /\ Goto(p, "gen_open")
          /\ overlapped' = (overlapped \/ \E q \in Procs : pc[q] \in Creating)
          /\ UNCHANGED <<at, seen, key, cancelled, inflight>>
       \/ keyFile = TornFile /\ Exit(p) /\ UNCHANGED overlapped
       \/ /\ keyFile > 0
          /\ key' = [key EXCEPT ![p] = keyFile]
          /\ Goto(p, "serving")
          /\ UNCHANGED <<at, seen, cancelled, inflight, overlapped>>
    /\ UNCHANGED <<disk, starts, minted, removed>>

(* os.WriteFile: created or truncated, then written.                       *)
CreateKeyFile(p) ==
    /\ pc[p] = "gen_open"
    /\ minted' = minted + 1
    /\ keyFile' = TornFile
    /\ key' = [key EXCEPT ![p] = minted + 1]
    /\ Goto(p, "gen_write")
    /\ UNCHANGED <<schema, version, at, seen, cancelled, inflight, starts, removed, overlapped>>

(* Deliberately wrong: serve with a key that could not be saved.           *)
WriteKeyUnchecked(p) ==
    /\ pc[p] = "gen_write"
    /\ keyFile' \in {key[p], keyFile}
    /\ Goto(p, "serving")
    /\ UNCHANGED <<schema, version, at, seen, key, cancelled, inflight, ghost>>

WriteKey(p) ==
    /\ pc[p] = "gen_write"
    /\ keyFile' = key[p]
    /\ Goto(p, "serving")
    /\ UNCHANGED <<schema, version, at, seen, key, cancelled, inflight, ghost>>

(* "Operators can rotate by deleting the file".                            *)
RemoveKeyFile ==
    /\ keyFile # NoFile
    /\ keyFile' = NoFile /\ removed' = TRUE
    /\ UNCHANGED <<schema, version, proc, starts, minted, overlapped>>

-----------------------------------------------------------------------------
(* The handlers run until they return, which may take an LLM a minute.     *)
RequestArrives(p) ==
    /\ p \in HttpProcs
    /\ pc[p] = "serving" /\ inflight[p] < MaxRequests
    /\ inflight' = [inflight EXCEPT ![p] = @ + 1]
    /\ UNCHANGED <<disk, pc, at, seen, key, cancelled, ghost>>

(* Deliberately wrong: counted out twice.                                  *)
RequestEndsTwice(p) ==
    /\ inflight' = [inflight EXCEPT ![p] = @ - 1]
    /\ UNCHANGED <<disk, pc, at, seen, key, cancelled, ghost>>

RequestEnds(p) ==
    /\ inflight[p] > 0
    /\ inflight' = [inflight EXCEPT ![p] = @ - 1]
    /\ UNCHANGED <<disk, pc, at, seen, key, cancelled, ghost>>

(* signal.NotifyContext catches signals once the store is open.            *)
Signal(p) ==
    /\ pc[p] \in {"key"} \cup Creating \cup Up /\ ~cancelled[p]
    /\ cancelled' = [cancelled EXCEPT ![p] = TRUE]
    /\ UNCHANGED <<disk, pc, at, seen, key, inflight, ghost>>

Shutdown(p) ==
    /\ p \in HttpProcs
    /\ pc[p] = "serving" /\ cancelled[p]
    /\ Goto(p, "draining")
    /\ UNCHANGED <<disk, at, seen, key, cancelled, inflight, ghost>>

(* Deliberately wrong: Shutdown without a deadline.                        *)
DrainedOnly(p) ==
    /\ pc[p] = "draining" /\ inflight[p] = 0
    /\ Exit(p)
    /\ UNCHANGED <<disk, ghost>>

(* No request is left, or the five seconds are over and what is left is    *)
(* dropped: main exits either way.                                         *)
ShutdownEnds(p) ==
    /\ pc[p] = "draining"
    /\ Exit(p)
    /\ UNCHANGED <<disk, ghost>>

(* A statement or a file operation fails, the port is taken, stdin closes, *)
(* or the process is killed.                                               *)
Stop(p) ==
    /\ pc[p] # "off"
    /\ Exit(p)
    /\ UNCHANGED <<disk, ghost>>

BootStep(p) ==
    ReadVersion(p) \/ Migrate(p) \/ Stamp(p) \/ LoadKey(p) \/ CreateKeyFile(p) \/ WriteKey(p)

Next ==
    \/ RemoveKeyFile
    \/ \E p \in Procs :
        \/ Start(p) \/ BootStep(p) \/ Signal(p) \/ Stop(p)
        \/ RequestArrives(p) \/ RequestEnds(p)
        \/ Shutdown(p) \/ ShutdownEnds(p)

Spec == Init /\ [][Next]_vars

(* The code runs and the timer of Shutdown fires; a request may hang.      *)
Fairness == \A p \in Procs : WF_vars(BootStep(p) \/ Shutdown(p) \/ ShutdownEnds(p))

FairSpec == Spec /\ Fairness

-----------------------------------------------------------------------------
(***************************************************************************)
(* Properties.                                                             *)
(***************************************************************************)

(* Crashes and two processes in the middle of a migration may cost starts, *)
(* but nobody ever serves on a database that lacks a table or a column.    *)
ServesOnFullSchema ==
    \A p \in Procs : pc[p] \in Up => schema = Objects(CurrentSchemaVersion)

(* The key a process signs with is the one in the key file, which the next *)
(* start will load, unless the operator removed the file or two processes  *)
(* created it at the same time.                                            *)
SigningKeyIsOnDisk ==
    ~removed /\ ~overlapped => \A p \in Procs : pc[p] \in Up => key[p] = keyFile

(* A signal ends an HTTP server, whatever its requests do.                 *)
StopsOnSignal ==
    \A p \in HttpProcs : cancelled[p] ~> pc[p] = "off"
=============================================================================

------------------------------ MODULE Startup ------------------------------
(***************************************************************************)
(* The life of the processes: construction of the fx graph, the goroutine  *)
(* that OnStart leaves behind (connection check, migration, seeds,         *)
(* ListenAndServe), the requests it serves, OnStop and the exit            *)
(* (main.go, bootstrap/bootstrap.go, internal/config, the probes of        *)
(* internal/router/router.go, cli/app.go).                                 *)
(*                                                                         *)
(* Several instances share one database.  The main goroutine, the serving  *)
(* goroutine and the goroutines of the requests interleave freely: a       *)
(* signal may come while the serving goroutine is still migrating.         *)
(*                                                                         *)
(* X_Y is a faulty form of the operator X that no specification uses: it   *)
(* serves to confirm that a property notices the fault.                    *)
(***************************************************************************)
EXTENDS Integers

CONSTANTS
  Instance,     \* processes that run the same build
  Request,      \* requests, each sent once
  None,         \* no instance
  Environment,  \* the values of ENVIRONMENT to look at
  Files,        \* migrations of the folder that golang-migrate recognises
  MaxStarts,    \* bound: processes started
  MaxFaults     \* bound: failed calls and killed processes

\* validateEnv lets no other value through; NewEnv ends the process.
ValidEnvironment == {"local", "development", "production", "test"}

ASSUME EnvironmentAssumption == Environment \subseteq ValidEnvironment
ASSUME BoundsAssumption == {Files, MaxStarts, MaxFaults} \subseteq Nat
ASSUME NoneAssumption == None \notin Instance

VARIABLES
  environment, \* ENVIRONMENT of the deployment
  proc,        \* proc[i]: the process of instance i
  schema,      \* schema_migrations: the version, and whether it is half done
  lock,        \* the instance whose migrator holds the advisory lock
  req,         \* req[r]: the request and the instance that serves it
  starts, faults

vars == <<environment, proc, schema, lock, req, starts, faults>>

\* main is the goroutine that runs fx, worker the one that OnStart starts.
\* handle is database.DB, broken says that connectionError is set, shut that
\* server.Shutdown was called, late that it gave up before the requests ended.
Main == {"down", "database", "migrator", "start", "up", "stopping", "closing", "exiting"}
Worker == {"none", "connect", "lock", "up", "apply", "seed", "listen", "serving",
           "menu", "gone"}
Process == [main : Main, cli : BOOLEAN, handle : {"nil", "open", "closed"},
            broken : BOOLEAN, worker : Worker, shut : BOOLEAN, late : BOOLEAN]

Down == [main |-> "down", cli |-> FALSE, handle |-> "nil", broken |-> FALSE,
         worker |-> "none", shut |-> FALSE, late |-> FALSE]

TypeOK ==
  /\ environment \in Environment
  /\ proc \in [Instance -> Process]
  /\ schema \in [version : 0..Files, dirty : BOOLEAN]
  /\ lock \in Instance \cup {None}
  /\ req \in [Request -> [on : Instance \cup {None},
                          answer : {"none", "alive", "ready", "unavailable", "cut"}]]
  /\ starts \in 0..MaxStarts
  /\ faults \in 0..MaxFaults

Init ==
  /\ environment \in Environment
  /\ proc = [i \in Instance |-> Down]
  /\ schema = [version |-> 0, dirty |-> FALSE]
  /\ lock = None
  /\ req = [r \in Request |-> [on |-> None, answer |-> "none"]]
  /\ starts = 0
  /\ faults = 0

-----------------------------------------------------------------------------
MainAt(i, label) == proc[i].main = label
WorkerAt(i, label) == proc[i].worker = label

Fault == faults < MaxFaults /\ faults' = faults + 1
Ok == UNCHANGED faults

\* Steps that change only the process itself.
Alone == UNCHANGED <<environment, schema, lock, req, starts>>

Work(i, label) == proc' = [proc EXCEPT ![i].worker = label]

Open(r) == req[r].on # None /\ req[r].answer = "none"
Busy(i) == \E r \in Request : Open(r) /\ req[r].on = i

\* The process ends, with every goroutine in it; the connections of its
\* clients break and MySQL frees the lock of its migrator's session.
Exit(i) ==
  /\ proc' = [proc EXCEPT ![i] = Down]
  /\ lock' = IF lock = i THEN None ELSE lock
  /\ req' = [r \in Request |->
       IF Open(r) /\ req[r].on = i THEN [req[r] EXCEPT !.answer = "cut"] ELSE req[r]]
  /\ UNCHANGED <<environment, schema, starts>>

-----------------------------------------------------------------------------
(* Construction *)

\* main, NewEnv: with a valid .env, as a server or with the argument cli.
Start(i) ==
  /\ MainAt(i, "down") /\ starts < MaxStarts
  /\ starts' = starts + 1
  /\ \E cli \in BOOLEAN :
       proc' = [proc EXCEPT ![i].main = "database", ![i].cli = cli]
  /\ UNCHANGED <<environment, schema, lock, req, faults>>

\* NewDatabase keeps a failure for later: of gorm.Open, without a handle, or
\* of USE, with one.
NewDatabase(i) ==
  /\ MainAt(i, "database")
  /\ \/ Ok /\ proc' = [proc EXCEPT ![i].main = "migrator", ![i].handle = "open"]
     \/ /\ Fault
        /\ \E handle \in {"nil", "open"} :
             proc' = [proc EXCEPT ![i].main = "migrator", ![i].handle = handle,
                                  ![i].broken = TRUE]
  /\ Alone

\* NewMigrations opens a connection of its own, or panics.
NewMigrations(i) ==
  /\ MainAt(i, "migrator")
  /\ \/ Ok /\ proc' = [proc EXCEPT ![i].main = "start"] /\ Alone
     \/ Fault /\ Exit(i)

\* OnStart of bootstrap starts the menu or the serving goroutine, and returns.
OnStart(i) ==
  /\ MainAt(i, "start")
  /\ proc' = [proc EXCEPT ![i].main = "up",
                          ![i].worker = IF proc[i].cli THEN "menu" ELSE "connect"]
  /\ Ok /\ Alone

-----------------------------------------------------------------------------
(* The serving goroutine *)

Migrates == environment \in {"development", "production"}

CheckConnection(i) ==
  /\ WorkerAt(i, "connect")
  /\ Work(i, IF proc[i].broken THEN "gone" ELSE IF Migrates THEN "lock" ELSE "seed")
  /\ Ok /\ Alone

AfterFailure_Continue == "seed"
\* A failed migration is logged and the goroutine returns.
AfterFailure == "gone"

\* Up of golang-migrate: the advisory lock first; while another instance has
\* it, the wait for it may be given up, after 15 seconds.
Lock(i) ==
  /\ WorkerAt(i, "lock")
  /\ \/ lock = None /\ lock' = i /\ Work(i, "up") /\ Ok
     \/ lock # None /\ Work(i, AfterFailure) /\ UNCHANGED lock /\ Ok
     \/ Fault /\ Work(i, AfterFailure) /\ UNCHANGED lock
  /\ UNCHANGED <<environment, schema, req, starts>>

Refused_DirtyIgnored == Files = 0
\* An empty folder is an error, and a dirty schema is left to an operator.
Refused == schema.dirty \/ Files = 0

Pending_PastEnd == TRUE
Pending == schema.version < Files

AfterNoChange_Fails == "gone"
\* MigrateUp takes ErrNoChange for a success.
AfterNoChange == "seed"

\* MigrateUp: each file is begun by recording its version as dirty.  Reading
\* the version, writing it, or reading it again at the end, may fail.
Up(i) ==
  /\ WorkerAt(i, "up")
  /\ \/ Refused /\ Work(i, AfterFailure) /\ lock' = None /\ UNCHANGED schema /\ Ok
     \/ /\ ~Refused /\ ~Pending /\ Ok
        /\ Work(i, AfterNoChange) /\ lock' = None /\ UNCHANGED schema
     \/ /\ ~Refused /\ Pending /\ Ok
        /\ schema' = [version |-> schema.version + 1, dirty |-> TRUE]
        /\ Work(i, "apply") /\ UNCHANGED lock
     \/ Fault /\ Work(i, AfterFailure) /\ lock' = None /\ UNCHANGED schema
  /\ UNCHANGED <<environment, req, starts>>

\* The statements of the file, and the mark removed; on an error it stays.
Apply(i) ==
  /\ WorkerAt(i, "apply")
  /\ \/ /\ Ok
        /\ schema' = [schema EXCEPT !.dirty = FALSE]
        /\ Work(i, "up") /\ UNCHANGED lock
     \/ /\ Fault
        /\ Work(i, AfterFailure) /\ lock' = None /\ UNCHANGED schema
  /\ UNCHANGED <<environment, req, starts>>

\* The group "seeds" is empty: seeds.Module provides none.
Seed(i) == WorkerAt(i, "seed") /\ Work(i, "listen") /\ Ok /\ Alone

Listen_ShutIgnored(i) ==
  /\ WorkerAt(i, "listen")
  /\ Work(i, "serving") /\ Ok /\ Alone

\* ListenAndServe: ErrServerClosed after Shutdown, or a port in use.
Listen(i) ==
  /\ WorkerAt(i, "listen")
  /\ \/ ~proc[i].shut /\ Work(i, "serving") /\ Ok
     \/ proc[i].shut /\ Work(i, "gone") /\ Ok
     \/ Fault /\ Work(i, "gone")
  /\ Alone

\* The menu of cli/app.go: EXIT_APPLICATION ends its goroutine and nothing
\* else; a failed prompt selects no command, and calling it panics.
\* CREATE_SEED_DATA runs nothing, and the menu starts again.
Menu(i) ==
  /\ WorkerAt(i, "menu")
  /\ \/ Work(i, "gone") /\ Ok /\ Alone
     \/ Fault /\ Exit(i)

-----------------------------------------------------------------------------
(* Requests *)

Accept(i, r) ==
  /\ WorkerAt(i, "serving") /\ req[r].on = None
  /\ req' = [req EXCEPT ![r].on = i]
  /\ UNCHANGED <<environment, proc, schema, lock, starts, faults>>

Write(r, answer) == req' = [req EXCEPT ![r].answer = answer]

\* The probes; every other handler needs the database as readyz does.
Livez(r) == Open(r) /\ Write(r, "alive") /\ Ok
Readyz(r) ==
  /\ Open(r)
  /\ \/ proc[req[r].on].handle = "open" /\ Write(r, "ready") /\ Ok
     \/ proc[req[r].on].handle # "open" /\ Write(r, "unavailable") /\ Ok
     \/ Fault /\ Write(r, "unavailable")
Answer(r) ==
  /\ Livez(r) \/ Readyz(r)
  /\ UNCHANGED <<environment, proc, schema, lock, starts>>

-----------------------------------------------------------------------------
(* OnStop *)

OnStop_CloseFirst(i) ==
  /\ MainAt(i, "up")
  /\ proc' = [proc EXCEPT ![i].main = "stopping", ![i].shut = ~proc[i].cli,
       ![i].handle = "closed",
       ![i].worker = IF proc[i].worker = "serving" THEN "gone" ELSE proc[i].worker]
  /\ Ok /\ Alone

\* A signal: fx runs OnStop.  Shutdown closes the listener, which ends
\* ListenAndServe, and then waits; the menu has no server to shut down.
OnStop(i) ==
  /\ MainAt(i, "up")
  /\ proc' = [proc EXCEPT
       ![i].main = IF proc[i].cli THEN "closing" ELSE "stopping",
       ![i].shut = ~proc[i].cli,
       ![i].worker = IF proc[i].worker = "serving" THEN "gone" ELSE proc[i].worker]
  /\ Ok /\ Alone

\* Shutdown returns when no connection is active.
Drained(i) ==
  /\ MainAt(i, "stopping") /\ ~Busy(i)
  /\ proc' = [proc EXCEPT ![i].main = "closing"]
  /\ Ok /\ Alone

TimeOut_Never(i) == MainAt(i, "stopping") /\ FALSE /\ UNCHANGED vars

\* Its 15 seconds pass: the error is logged and the stop goes on.  fx allows
\* the hooks as many seconds, and may be the one that gives up and exits.
TimeOut(i) ==
  /\ MainAt(i, "stopping") /\ Busy(i) /\ Ok
  /\ \/ proc' = [proc EXCEPT ![i].main = "closing", ![i].late = TRUE] /\ Alone
     \/ Exit(i)

\* appStop; without a handle it panics.
Close(i) ==
  /\ MainAt(i, "closing") /\ Ok
  /\ \/ /\ proc[i].handle # "nil"
        /\ proc' = [proc EXCEPT ![i].main = "exiting", ![i].handle = "closed"]
        /\ Alone
     \/ proc[i].handle = "nil" /\ Exit(i)

Return(i) == MainAt(i, "exiting") /\ Exit(i) /\ Ok

Kill(i) == ~MainAt(i, "down") /\ Fault /\ Exit(i)

-----------------------------------------------------------------------------
MainStep(i) ==
  \/ NewDatabase(i) \/ NewMigrations(i) \/ OnStart(i)
  \/ Drained(i) \/ TimeOut(i) \/ Close(i) \/ Return(i)
WorkerStep(i) ==
  CheckConnection(i) \/ Lock(i) \/ Up(i) \/ Apply(i) \/ Seed(i) \/ Listen(i)

Next ==
  \/ \E i \in Instance :
       \/ Start(i) \/ MainStep(i) \/ WorkerStep(i) \/ Menu(i)
       \/ OnStop(i) \/ Kill(i)
       \/ \E r \in Request : Accept(i, r)
  \/ \E r \in Request : Answer(r)

Spec == Init /\ [][Next]_vars

\* The scheduler runs both goroutines, calls return and timers fire; nothing
\* is assumed of signals, clients, the menu's user or how long a request is.
FairSpec ==
  Spec /\ \A i \in Instance : WF_vars(MainStep(i)) /\ WF_vars(WorkerStep(i))

-----------------------------------------------------------------------------
(* Properties *)

Serving(i) == WorkerAt(i, "serving")

\* Where the program migrates, no instance serves a schema that is not
\* migrated to the end, whatever was killed, refused or raced before.
ServesMigratedSchema ==
  \A i \in Instance :
    Serving(i) /\ Migrates => schema = [version |-> Files, dirty |-> FALSE]

Interrupted == schema.dirty /\ \A i \in Instance : ~WorkerAt(i, "apply")

\* A migration that was interrupted, by a failure, a stop or a kill, leaves the
\* schema as it is for good: no later start runs another file over it.
InterruptedStays == [][Interrupted => Interrupted']_vars

\* A request finds the database closed only if it outlived the 15 seconds:
\* Shutdown waits for requests before appStop closes the handle.
RequestsKeepDatabase ==
  \A r \in Request :
    Open(r) /\ proc[req[r].on].handle # "open" => proc[req[r].on].late

\* Once Shutdown was called no request is accepted, even if the goroutine
\* reaches ListenAndServe only then.
StoppedNeverAccepts ==
  [][\A r \in Request :
       req[r].on = None /\ req'[r].on # None => ~proc[req'[r].on].shut]_vars

\* A stop always ends the process, however long a request or a migration
\* takes.
StopEnds == \A i \in Instance : MainAt(i, "stopping") ~> MainAt(i, "down")

\* If nothing fails, the serving goroutine comes to listen where there is
\* nothing to migrate or a folder that is not empty, unless it is stopped, a
\* stop in the middle of a migration has left the schema dirty, or another
\* instance migrates meanwhile, for whose lock it may wait too long.
StartServes ==
  \A i \in Instance :
    WorkerAt(i, "connect") /\ (Migrates => Files > 0) ~>
      \/ Serving(i) \/ ~MainAt(i, "up")
      \/ faults > 0 \/ schema.dirty \/ lock \notin {i, None}

=============================================================================

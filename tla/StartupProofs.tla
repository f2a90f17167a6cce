--------------------------- MODULE StartupProofs ---------------------------
(***************************************************************************)
(* Theorems about Startup, for any number of instances, requests,          *)
(* migrations, starts and failures.                                        *)
(***************************************************************************)
EXTENDS Startup, TLAPS

\* The labels from which the next step may serve: the migration is behind.
Past == {"seed", "listen", "serving"}
Connected == {"lock", "up", "apply"} \cup Past
Stopping == {"stopping", "closing", "exiting"}

\* What the two goroutines of a process know of each other: the serving
\* goroutine exists from OnStart on, a server that stops has been shut down,
\* and only a server that runs and was not shut down serves.
LifeOK(i) ==
  /\ proc[i].main \notin {"up"} \cup Stopping => proc[i].worker = "none"
  /\ proc[i].cli => proc[i].worker \in {"none", "menu", "gone"}
  /\ proc[i].main \in Stopping => proc[i].cli \/ proc[i].shut
  /\ proc[i].worker = "serving" => proc[i].main = "up" /\ ~proc[i].shut

\* A connection that was not found broken has an open handle until Close, and
\* a goroutine that is past the check did not find it broken.
HandleOK(i) ==
  /\ /\ proc[i].main \in {"migrator", "start", "up", "stopping", "closing"}
     /\ ~proc[i].broken
     => proc[i].handle = "open"
  /\ proc[i].worker \in Connected => ~proc[i].broken

\* The advisory lock is held from its acquisition to the end of the migration,
\* a file that is being run is marked, and who is past the migration has found
\* it complete.
MigrationOK(i) ==
  /\ lock = i <=> proc[i].worker \in {"up", "apply"}
  /\ proc[i].worker = "apply" => schema.dirty
  /\ proc[i].worker \in Past /\ Migrates => schema = [version |-> Files, dirty |-> FALSE]

\* A request that is open is on a server whose main goroutine still runs or
\* waits for it, or has given up waiting.
RequestOK(r) ==
  Open(r) =>
    LET p == proc[req[r].on]
    IN  /\ ~p.broken /\ ~p.cli
        /\ p.main \in {"up"} \cup Stopping
        /\ p.main \in {"closing", "exiting"} => p.late

IInv ==
  /\ TypeOK
  /\ \A i \in Instance : LifeOK(i) /\ HandleOK(i) /\ MigrationOK(i)
  /\ \A r \in Request : RequestOK(r)

-----------------------------------------------------------------------------
(* Frames *)

\* A step of instance i: the other processes are as before.
Only(i) == \A j \in Instance \ {i} : proc'[j] = proc[j]

LEMMA Bounds == Files \in Nat /\ MaxStarts \in Nat /\ MaxFaults \in Nat
BY BoundsAssumption

\* What is known of a process that a step leaves alone, if the step is fair to
\* its lock and its schema.
LEMMA Untouched ==
  ASSUME NEW j \in Instance, LifeOK(j), HandleOK(j), proc'[j] = proc[j]
  PROVE  LifeOK(j)' /\ HandleOK(j)'
BY DEF LifeOK, HandleOK

\* Steps that change one process, and neither the lock nor the schema nor the
\* requests: what has to be shown is about that process.
LEMMA AloneStep ==
  ASSUME IInv, NEW i \in Instance, Only(i), Alone,
         proc' \in [Instance -> Process], faults' \in 0..MaxFaults,
         LifeOK(i)', HandleOK(i)', MigrationOK(i)',
         \A r \in Request : Open(r) /\ req[r].on = i => RequestOK(r)'
  PROVE  IInv'
<1>1. TypeOK'
  BY DEF IInv, TypeOK, Alone
<1>2. ASSUME NEW j \in Instance PROVE (LifeOK(j) /\ HandleOK(j) /\ MigrationOK(j))'
  <2>1. CASE j = i
    BY <2>1
  <2>2. CASE j # i
    <3>1. proc'[j] = proc[j]
      BY <2>2 DEF Only
    <3>2. LifeOK(j)' /\ HandleOK(j)'
      BY <3>1, Untouched DEF IInv
    <3>3. MigrationOK(j)'
      BY <3>1 DEF IInv, MigrationOK, Migrates, Alone
    <3> QED BY <3>2, <3>3
  <2> QED BY <2>1, <2>2
<1>3. ASSUME NEW r \in Request PROVE RequestOK(r)'
  <2>1. CASE Open(r) /\ req[r].on = i
    BY <2>1
  <2>2. CASE Open(r) /\ req[r].on # i
    <3>1. req[r].on \in Instance /\ proc'[req[r].on] = proc[req[r].on]
      BY <2>2 DEF Only, Open, IInv, TypeOK
    <3> QED BY <3>1 DEF IInv, RequestOK, Open, Alone
  <2>3. CASE ~Open(r)
    BY <2>3 DEF RequestOK, Open, Alone
  <2> QED BY <2>1, <2>2, <2>3
<1> QED BY <1>1, <1>2, <1>3 DEF IInv

\* The end of a process leaves nothing of it behind.
LEMMA ExitStep ==
  ASSUME IInv, NEW i \in Instance, Exit(i), faults' \in 0..MaxFaults
  PROVE  IInv'
<1>1. /\ proc'[i] = Down /\ Only(i)
      /\ proc' \in [Instance -> Process]
  BY DEF IInv, TypeOK, Exit, Only, Down, Process, Main, Worker
<1>2. /\ \A r \in Request :
           req'[r] = IF Open(r) /\ req[r].on = i THEN [req[r] EXCEPT !.answer = "cut"] ELSE req[r]
  BY DEF Exit
<1>3. TypeOK'
  BY <1>1, <1>2, NoneAssumption DEF IInv, TypeOK, Exit
<1>4. ASSUME NEW j \in Instance PROVE (LifeOK(j) /\ HandleOK(j) /\ MigrationOK(j))'
  <2>1. CASE j = i
    BY <1>1, <2>1, NoneAssumption
    DEF IInv, TypeOK, LifeOK, HandleOK, MigrationOK, Exit, Down, Stopping, Connected, Past
  <2>2. CASE j # i
    <3>1. proc'[j] = proc[j]
      BY <1>1, <2>2 DEF Only
    <3>2. LifeOK(j)' /\ HandleOK(j)'
      BY <3>1, Untouched DEF IInv
    <3>3. MigrationOK(j)'
      BY <2>2, <3>1, NoneAssumption DEF IInv, MigrationOK, Migrates, Exit
    <3> QED BY <3>2, <3>3
  <2> QED BY <2>1, <2>2
<1>5. ASSUME NEW r \in Request, Open(r)' PROVE RequestOK(r)'
  <2>1. Open(r) /\ req[r].on # i /\ req'[r] = req[r]
    BY <1>2, <1>5 DEF Open, IInv, TypeOK
  <2>2. req[r].on \in Instance /\ proc'[req[r].on] = proc[req[r].on]
    BY <1>1, <2>1 DEF Only, Open, IInv, TypeOK
  <2> QED BY <2>1, <2>2 DEF IInv, RequestOK, Open
<1> QED BY <1>3, <1>4, <1>5 DEF IInv, RequestOK

-----------------------------------------------------------------------------
(* The steps *)

LEMMA NewDatabaseKeeps ==
  ASSUME IInv, NEW i \in Instance, NewDatabase(i)
  PROVE  IInv'
<1>1. Only(i) /\ Alone /\ proc' \in [Instance -> Process] /\ faults' \in 0..MaxFaults
  BY Bounds DEF IInv, TypeOK, NewDatabase, Ok, Fault, MainAt, WorkerAt, Work, Only, Alone,
     Process, Main, Worker
<1>2. (LifeOK(i) /\ HandleOK(i) /\ MigrationOK(i))'
  BY DEF IInv, TypeOK, LifeOK, HandleOK, MigrationOK, NewDatabase, Ok, Fault, MainAt,
     WorkerAt, Work, Alone, Process, Stopping, Connected, Past, Migrates
<1>3. ASSUME NEW r \in Request, Open(r), req[r].on = i PROVE RequestOK(r)'
  BY <1>3 DEF IInv, TypeOK, RequestOK, Open, Alone, NewDatabase, Ok, Fault, MainAt,
     WorkerAt, Work, Process, Stopping
<1> QED BY <1>1, <1>2, <1>3, AloneStep

LEMMA OnStartKeeps ==
  ASSUME IInv, NEW i \in Instance, OnStart(i)
  PROVE  IInv'
<1>1. Only(i) /\ Alone /\ proc' \in [Instance -> Process] /\ faults' \in 0..MaxFaults
  <2>1. PICK worker \in Worker :
          proc' = [proc EXCEPT ![i].main = "up", ![i].worker = worker]
    BY DEF OnStart, Worker
  <2>2. [proc[i] EXCEPT !.main = "up", !.worker = worker] \in Process
    <3>1. proc[i] \in Process /\ "up" \in Main
      BY DEF IInv, TypeOK, Main
    <3> QED BY <3>1 DEF Process
  <2>3. proc' \in [Instance -> Process] /\ Only(i)
    BY <2>1, <2>2 DEF IInv, TypeOK, Only
  <2> QED BY <2>3 DEF IInv, TypeOK, OnStart, Ok, Alone
<1>2. (LifeOK(i) /\ HandleOK(i) /\ MigrationOK(i))'
  BY DEF IInv, TypeOK, LifeOK, HandleOK, MigrationOK, OnStart, Ok, Fault, MainAt,
     WorkerAt, Work, Alone, Process, Stopping, Connected, Past, Migrates
<1>3. ASSUME NEW r \in Request, Open(r), req[r].on = i PROVE RequestOK(r)'
  BY <1>3 DEF IInv, TypeOK, RequestOK, Open, Alone, OnStart, Ok, Fault, MainAt,
     WorkerAt, Work, Process, Stopping
<1> QED BY <1>1, <1>2, <1>3, AloneStep

LEMMA CheckConnectionKeeps ==
  ASSUME IInv, NEW i \in Instance, CheckConnection(i)
  PROVE  IInv'
<1>1. Only(i) /\ Alone /\ proc' \in [Instance -> Process] /\ faults' \in 0..MaxFaults
  BY Bounds DEF IInv, TypeOK, CheckConnection, Ok, Fault, MainAt, WorkerAt, Work, Only, Alone,
     Process, Main, Worker
<1>2. (LifeOK(i) /\ HandleOK(i) /\ MigrationOK(i))'
  BY DEF IInv, TypeOK, LifeOK, HandleOK, MigrationOK, CheckConnection, Ok, Fault, MainAt,
     WorkerAt, Work, Alone, Process, Stopping, Connected, Past, Migrates
<1>3. ASSUME NEW r \in Request, Open(r), req[r].on = i PROVE RequestOK(r)'
  BY <1>3 DEF IInv, TypeOK, RequestOK, Open, Alone, CheckConnection, Ok, Fault, MainAt,
     WorkerAt, Work, Process, Stopping
<1> QED BY <1>1, <1>2, <1>3, AloneStep

LEMMA SeedKeeps ==
  ASSUME IInv, NEW i \in Instance, Seed(i)
  PROVE  IInv'
<1>1. Only(i) /\ Alone /\ proc' \in [Instance -> Process] /\ faults' \in 0..MaxFaults
  BY Bounds DEF IInv, TypeOK, Seed, Ok, Fault, MainAt, WorkerAt, Work, Only, Alone,
     Process, Main, Worker
<1>2. (LifeOK(i) /\ HandleOK(i) /\ MigrationOK(i))'
  BY DEF IInv, TypeOK, LifeOK, HandleOK, MigrationOK, Seed, Ok, Fault, MainAt,
     WorkerAt, Work, Alone, Process, Stopping, Connected, Past, Migrates
<1>3. ASSUME NEW r \in Request, Open(r), req[r].on = i PROVE RequestOK(r)'
  BY <1>3 DEF IInv, TypeOK, RequestOK, Open, Alone, Seed, Ok, Fault, MainAt,
     WorkerAt, Work, Process, Stopping
<1> QED BY <1>1, <1>2, <1>3, AloneStep

LEMMA ListenKeeps ==
  ASSUME IInv, NEW i \in Instance, Listen(i)
  PROVE  IInv'
<1>1. Only(i) /\ Alone /\ proc' \in [Instance -> Process] /\ faults' \in 0..MaxFaults
  BY Bounds DEF IInv, TypeOK, Listen, Ok, Fault, MainAt, WorkerAt, Work, Only, Alone,
     Process, Main, Worker
<1>2. (LifeOK(i) /\ HandleOK(i) /\ MigrationOK(i))'
  BY DEF IInv, TypeOK, LifeOK, HandleOK, MigrationOK, Listen, Ok, Fault, MainAt,
     WorkerAt, Work, Alone, Process, Stopping, Connected, Past, Migrates
<1>3. ASSUME NEW r \in Request, Open(r), req[r].on = i PROVE RequestOK(r)'
  BY <1>3 DEF IInv, TypeOK, RequestOK, Open, Alone, Listen, Ok, Fault, MainAt,
     WorkerAt, Work, Process, Stopping
<1> QED BY <1>1, <1>2, <1>3, AloneStep

LEMMA OnStopKeeps ==
  ASSUME IInv, NEW i \in Instance, OnStop(i)
  PROVE  IInv'
<1>1. PICK main \in Main, worker \in Worker :
        proc' = [proc EXCEPT ![i].main = main, ![i].shut = ~proc[i].cli,
                             ![i].worker = worker]
  <2>1. (IF proc[i].cli THEN "closing" ELSE "stopping") \in Main
    BY DEF Main
  <2>2. (IF proc[i].worker = "serving" THEN "gone" ELSE proc[i].worker) \in Worker
    BY DEF IInv, TypeOK, Process, Worker
  <2> QED BY <2>1, <2>2 DEF OnStop
<1>4. Only(i) /\ Alone /\ proc' \in [Instance -> Process] /\ faults' \in 0..MaxFaults
  <2>1. proc[i] \in Process /\ (~proc[i].cli) \in BOOLEAN
    BY DEF IInv, TypeOK
  <2>2. [proc[i] EXCEPT !.main = main, !.shut = ~proc[i].cli, !.worker = worker] \in Process
    BY <2>1 DEF Process
  <2>3. proc' \in [Instance -> Process] /\ Only(i)
    BY <1>1, <2>2 DEF IInv, TypeOK, Only
  <2> QED BY <2>3 DEF IInv, TypeOK, OnStop, Ok, Alone
<1>2. (LifeOK(i) /\ HandleOK(i) /\ MigrationOK(i))'
  BY DEF IInv, TypeOK, LifeOK, HandleOK, MigrationOK, OnStop, Ok, Fault, MainAt,
     WorkerAt, Work, Alone, Process, Stopping, Connected, Past, Migrates
<1>3. ASSUME NEW r \in Request, Open(r), req[r].on = i PROVE RequestOK(r)'
  BY <1>3 DEF IInv, TypeOK, RequestOK, Open, Alone, OnStop, Ok, Fault, MainAt,
     WorkerAt, Work, Process, Stopping
<1> QED BY <1>2, <1>3, <1>4, AloneStep

LEMMA DrainedKeeps ==
  ASSUME IInv, NEW i \in Instance, Drained(i)
  PROVE  IInv'
<1>1. Only(i) /\ Alone /\ proc' \in [Instance -> Process] /\ faults' \in 0..MaxFaults
  BY Bounds DEF IInv, TypeOK, Drained, Ok, Fault, MainAt, WorkerAt, Work, Only, Alone,
     Process, Main, Worker
<1>2. (LifeOK(i) /\ HandleOK(i) /\ MigrationOK(i))'
  BY DEF IInv, TypeOK, LifeOK, HandleOK, MigrationOK, Drained, Ok, Fault, MainAt,
     WorkerAt, Work, Alone, Process, Stopping, Connected, Past, Migrates
<1>3. ASSUME NEW r \in Request, Open(r), req[r].on = i PROVE RequestOK(r)'
  BY <1>3 DEF IInv, TypeOK, RequestOK, Open, Alone, Drained, Ok, Fault, MainAt,
     WorkerAt, Work, Process, Stopping, Busy
<1> QED BY <1>1, <1>2, <1>3, AloneStep

LEMMA NewMigrationsKeeps ==
  ASSUME IInv, NEW i \in Instance, NewMigrations(i)
  PROVE  IInv'
<1>1. CASE Exit(i) /\ Fault
  BY <1>1, Bounds, ExitStep DEF IInv, TypeOK, Fault
<1>2. CASE ~(Exit(i) /\ Fault)
  <2>1. Only(i) /\ Alone /\ proc' \in [Instance -> Process] /\ faults' \in 0..MaxFaults
    BY <1>2 DEF IInv, TypeOK, NewMigrations, Ok, Only, Alone, Process, Main
  <2>2. (LifeOK(i) /\ HandleOK(i) /\ MigrationOK(i))'
    BY <1>2 DEF IInv, TypeOK, LifeOK, HandleOK, MigrationOK, NewMigrations, MainAt,
       Alone, Process, Stopping, Connected, Past, Migrates
  <2>3. ASSUME NEW r \in Request, Open(r), req[r].on = i PROVE RequestOK(r)'
    BY <2>3 DEF IInv, RequestOK, NewMigrations, MainAt, Stopping
  <2> QED BY <2>1, <2>2, <2>3, AloneStep
<1> QED BY <1>1, <1>2

LEMMA MenuKeeps ==
  ASSUME IInv, NEW i \in Instance, Menu(i)
  PROVE  IInv'
<1>1. CASE Exit(i) /\ Fault
  BY <1>1, Bounds, ExitStep DEF IInv, TypeOK, Fault
<1>2. CASE ~(Exit(i) /\ Fault)
  <2>1. Only(i) /\ Alone /\ proc' \in [Instance -> Process] /\ faults' \in 0..MaxFaults
    BY <1>2 DEF IInv, TypeOK, Menu, Work, Ok, Only, Alone, Process, Worker
  <2>2. (LifeOK(i) /\ HandleOK(i) /\ MigrationOK(i))'
    BY <1>2 DEF IInv, TypeOK, LifeOK, HandleOK, MigrationOK, Menu, Work, WorkerAt,
       Alone, Process, Stopping, Connected, Past, Migrates
  <2>3. ASSUME NEW r \in Request, Open(r), req[r].on = i PROVE RequestOK(r)'
    BY <1>2, <2>3 DEF IInv, TypeOK, RequestOK, Open, Menu, Work, WorkerAt, Alone, Process
  <2> QED BY <2>1, <2>2, <2>3, AloneStep
<1> QED BY <1>1, <1>2

LEMMA TimeOutKeeps ==
  ASSUME IInv, NEW i \in Instance, TimeOut(i)
  PROVE  IInv'
<1>1. CASE Exit(i)
  BY <1>1, ExitStep DEF IInv, TypeOK, TimeOut, Ok
<1>2. CASE ~Exit(i)
  <2>1. Only(i) /\ Alone /\ proc' \in [Instance -> Process] /\ faults' \in 0..MaxFaults
    BY <1>2 DEF IInv, TypeOK, TimeOut, Ok, Only, Alone, Process, Main
  <2>2. (LifeOK(i) /\ HandleOK(i) /\ MigrationOK(i))'
    BY <1>2 DEF IInv, TypeOK, LifeOK, HandleOK, MigrationOK, TimeOut, MainAt,
       Alone, Process, Stopping, Connected, Past, Migrates
  <2>3. ASSUME NEW r \in Request, Open(r), req[r].on = i PROVE RequestOK(r)'
    BY <1>2, <2>3 DEF IInv, TypeOK, RequestOK, Open, TimeOut, Alone, Process, Stopping
  <2> QED BY <2>1, <2>2, <2>3, AloneStep
<1> QED BY <1>1, <1>2

\* Close leaves the handle closed only behind requests that were given up.
LEMMA CloseKeeps ==
  ASSUME IInv, NEW i \in Instance, Close(i)
  PROVE  IInv'
<1>1. CASE Exit(i)
  BY <1>1, ExitStep DEF IInv, TypeOK, Close, Ok
<1>2. CASE ~Exit(i)
  <2>1. Only(i) /\ Alone /\ proc' \in [Instance -> Process] /\ faults' \in 0..MaxFaults
    BY <1>2 DEF IInv, TypeOK, Close, Ok, Only, Alone, Process, Main
  <2>2. (LifeOK(i) /\ HandleOK(i) /\ MigrationOK(i))'
    BY <1>2 DEF IInv, TypeOK, LifeOK, HandleOK, MigrationOK, Close, MainAt,
       Alone, Process, Stopping, Connected, Past, Migrates
  <2>3. ASSUME NEW r \in Request, Open(r), req[r].on = i PROVE RequestOK(r)'
    BY <1>2, <2>3 DEF IInv, TypeOK, RequestOK, Open, Close, MainAt, Alone, Process, Stopping
  <2> QED BY <2>1, <2>2, <2>3, AloneStep
<1> QED BY <1>1, <1>2

LEMMA ReturnKeeps ==
  ASSUME IInv, NEW i \in Instance, Return(i) \/ Kill(i)
  PROVE  IInv'
BY Bounds, ExitStep DEF IInv, TypeOK, Return, Kill, Fault, Ok

LEMMA StartKeeps ==
  ASSUME IInv, NEW i \in Instance, Start(i)
  PROVE  IInv'
<1>1. Only(i) /\ proc' \in [Instance -> Process]
  <2>1. PICK cli \in BOOLEAN :
          proc' = [proc EXCEPT ![i].main = "database", ![i].cli = cli]
    BY DEF Start
  <2>2. proc[i] \in Process /\ "database" \in Main
    BY DEF IInv, TypeOK, Main
  <2>3. [proc[i] EXCEPT !.main = "database", !.cli = cli] \in Process
    BY <2>2 DEF Process
  <2> QED BY <2>1, <2>3 DEF IInv, TypeOK, Only
<1>2. TypeOK'
  BY <1>1, Bounds DEF IInv, TypeOK, Start
<1>3. ASSUME NEW j \in Instance PROVE (LifeOK(j) /\ HandleOK(j) /\ MigrationOK(j))'
  <2>1. CASE j = i
    BY <2>1 DEF IInv, TypeOK, LifeOK, HandleOK, MigrationOK, Start, MainAt, Process,
       Stopping, Connected, Past, Migrates
  <2>2. CASE j # i
    BY <1>1, <2>2 DEF IInv, LifeOK, HandleOK, MigrationOK, Only, Start, Migrates
  <2> QED BY <2>1, <2>2
<1>4. ASSUME NEW r \in Request, Open(r)' PROVE RequestOK(r)'
  <2>1. Open(r) /\ req' = req
    BY <1>4 DEF Open, Start
  <2>2. req[r].on \in Instance /\ req[r].on # i
    BY <2>1 DEF IInv, TypeOK, RequestOK, Open, Start, MainAt, Stopping
  <2>3. proc'[req[r].on] = proc[req[r].on]
    BY <1>1, <2>2 DEF Only
  <2> QED BY <2>1, <2>3 DEF IInv, RequestOK, Open
<1> QED BY <1>2, <1>3, <1>4 DEF IInv, RequestOK

-----------------------------------------------------------------------------
(* The migration *)

\* A step of the migrator of i changes the worker of i, the lock and the
\* schema; it is told what it may do to the other instances.
LEMMA MigratorStep ==
  ASSUME IInv, NEW i \in Instance, NEW label \in Worker, Work(i, label),
         proc[i].worker \in {"lock", "up", "apply"},
         label \in {"up", "apply", "seed", "gone"},
         UNCHANGED <<environment, req, starts>>, faults' \in 0..MaxFaults,
         lock' \in Instance \cup {None},
         schema' \in [version : 0..Files, dirty : BOOLEAN],
         MigrationOK(i)',
         \A j \in Instance \ {i} : proc'[j] = proc[j] => MigrationOK(j)'
  PROVE  IInv'
<1>1. Only(i) /\ proc' \in [Instance -> Process]
  <2>1. proc[i] \in Process
    BY DEF IInv, TypeOK
  <2>2. [proc[i] EXCEPT !.worker = label] \in Process
    BY <2>1 DEF Process
  <2> QED BY <2>2 DEF IInv, TypeOK, Work, Only
<1>2. TypeOK'
  BY <1>1 DEF IInv, TypeOK
<1>3. proc'[i] = [proc[i] EXCEPT !.worker = label]
  BY DEF IInv, TypeOK, Work
<1>4. ASSUME NEW j \in Instance PROVE (LifeOK(j) /\ HandleOK(j) /\ MigrationOK(j))'
  <2>1. CASE j = i
    BY <1>3, <2>1 DEF IInv, TypeOK, LifeOK, HandleOK, Process, Stopping, Connected, Past
  <2>2. CASE j # i
    <3>1. proc'[j] = proc[j]
      BY <1>1, <2>2 DEF Only
    <3> QED BY <2>2, <3>1, Untouched DEF IInv
  <2> QED BY <2>1, <2>2
<1>5. ASSUME NEW r \in Request, Open(r)' PROVE RequestOK(r)'
  <2>1. Open(r)
    BY <1>5 DEF Open
  <2>2. req[r].on \in Instance
    BY <2>1 DEF Open, IInv, TypeOK
  <2>3. CASE req[r].on = i
    BY <1>3, <2>1, <2>3 DEF IInv, TypeOK, RequestOK, Open, Process
  <2>4. CASE req[r].on # i
    BY <1>1, <2>1, <2>2, <2>4 DEF IInv, RequestOK, Open, Only
  <2> QED BY <2>3, <2>4
<1> QED BY <1>2, <1>4, <1>5 DEF IInv, RequestOK

LEMMA LockKeeps ==
  ASSUME IInv, NEW i \in Instance, Lock(i)
  PROVE  IInv'
<1>0. proc[i].worker = "lock" /\ lock # i /\ "up" \in Worker /\ "gone" \in Worker
  BY DEF IInv, MigrationOK, Lock, WorkerAt, Worker
<1>1. CASE lock = None /\ lock' = i /\ Work(i, "up") /\ Ok
  <2>1. MigrationOK(i)'
    BY <1>0, <1>1 DEF IInv, TypeOK, MigrationOK, Work, Process, Past, Migrates
  <2>2. ASSUME NEW j \in Instance \ {i}, proc'[j] = proc[j] PROVE MigrationOK(j)'
    BY <1>0, <1>1, <2>2, NoneAssumption DEF IInv, MigrationOK, Lock, Migrates
  <2> QED BY <1>0, <1>1, <2>1, <2>2, MigratorStep DEF IInv, TypeOK, Lock, Ok
<1>2. CASE (Fault \/ Ok) /\ Work(i, AfterFailure) /\ UNCHANGED lock
  <2>1. MigrationOK(i)'
    BY <1>0, <1>2 DEF IInv, TypeOK, MigrationOK, Work, AfterFailure, Process, Past, Migrates
  <2>2. ASSUME NEW j \in Instance \ {i}, proc'[j] = proc[j] PROVE MigrationOK(j)'
    BY <1>0, <1>2, <2>2 DEF IInv, MigrationOK, Lock, Migrates
  <2>3. faults' \in 0..MaxFaults
    BY <1>2, Bounds DEF IInv, TypeOK, Fault, Ok
  <2> QED BY <1>0, <1>2, <2>1, <2>2, <2>3, MigratorStep
          DEF IInv, TypeOK, Lock, AfterFailure
<1> QED BY <1>1, <1>2 DEF Lock

LEMMA UpKeeps ==
  ASSUME IInv, NEW i \in Instance, Up(i)
  PROVE  IInv'
<1>0. lock = i /\ proc[i].worker = "up" /\ "gone" \in Worker /\ "seed" \in Worker /\ "apply" \in Worker
  BY DEF IInv, MigrationOK, Up, WorkerAt, Worker
<1>1. CASE (Fault \/ Ok) /\ Work(i, AfterFailure) /\ lock' = None /\ UNCHANGED schema
  <2>1. MigrationOK(i)'
    BY <1>0, <1>1, NoneAssumption
    DEF IInv, TypeOK, MigrationOK, Up, Work, AfterFailure, Process, Past, Migrates
  <2>2. ASSUME NEW j \in Instance \ {i}, proc'[j] = proc[j] PROVE MigrationOK(j)'
    BY <1>0, <1>1, <2>2, NoneAssumption DEF IInv, MigrationOK, Up, Migrates
  <2>3. faults' \in 0..MaxFaults
    BY <1>1, Bounds DEF IInv, TypeOK, Fault, Ok
  <2> QED BY <1>0, <1>1, <2>1, <2>2, <2>3, MigratorStep DEF IInv, TypeOK, Up, AfterFailure
<1>2. CASE ~Refused /\ ~Pending /\ Work(i, AfterNoChange) /\ lock' = None /\ UNCHANGED schema /\ Ok
  <2>1. schema = [version |-> Files, dirty |-> FALSE]
    BY <1>2, Bounds DEF IInv, TypeOK, Refused, Pending
  <2>2. MigrationOK(i)'
    BY <1>0, <1>2, <2>1, NoneAssumption
    DEF IInv, TypeOK, MigrationOK, Up, Work, AfterNoChange, Process, Past, Migrates
  <2>3. ASSUME NEW j \in Instance \ {i}, proc'[j] = proc[j] PROVE MigrationOK(j)'
    BY <1>0, <1>2, <2>3, NoneAssumption DEF IInv, MigrationOK, Up, Migrates
  <2> QED BY <1>0, <1>2, <2>2, <2>3, MigratorStep DEF IInv, TypeOK, Up, Ok, AfterNoChange
<1>3. CASE /\ ~Refused /\ Pending
           /\ schema' = [version |-> schema.version + 1, dirty |-> TRUE]
           /\ Work(i, "apply") /\ UNCHANGED lock /\ Ok
  <2>1. schema' \in [version : 0..Files, dirty : BOOLEAN] /\ schema'.dirty
    BY <1>3, Bounds DEF IInv, TypeOK, Pending
  <2>2. schema # [version |-> Files, dirty |-> FALSE]
    BY <1>3, Bounds DEF IInv, TypeOK, Pending
  <2>3. MigrationOK(i)'
    BY <1>0, <1>3, <2>1
    DEF IInv, TypeOK, MigrationOK, Up, Work, Process, Past, Migrates
  <2>4. ASSUME NEW j \in Instance \ {i}, proc'[j] = proc[j] PROVE MigrationOK(j)'
    BY <1>0, <1>3, <2>1, <2>2, <2>4 DEF IInv, MigrationOK, Up, Migrates
  <2> QED BY <1>0, <1>3, <2>1, <2>3, <2>4, MigratorStep DEF IInv, TypeOK, Up, Ok
<1> QED BY <1>1, <1>2, <1>3 DEF Up

LEMMA ApplyKeeps ==
  ASSUME IInv, NEW i \in Instance, Apply(i)
  PROVE  IInv'
<1>0. /\ lock = i /\ proc[i].worker = "apply" /\ schema.dirty
      /\ "up" \in Worker /\ "gone" \in Worker
  BY DEF IInv, MigrationOK, Apply, WorkerAt, Worker
<1>1. CASE Ok /\ schema' = [schema EXCEPT !.dirty = FALSE] /\ Work(i, "up") /\ UNCHANGED lock
  <2>1. schema' \in [version : 0..Files, dirty : BOOLEAN]
    BY <1>1 DEF IInv, TypeOK
  <2>2. MigrationOK(i)'
    BY <1>0, <1>1 DEF IInv, TypeOK, MigrationOK, Apply, Work, Process, Past, Migrates
  <2>3. ASSUME NEW j \in Instance \ {i}, proc'[j] = proc[j] PROVE MigrationOK(j)'
    BY <1>0, <1>1, <2>3 DEF IInv, MigrationOK, Apply, Migrates
  <2> QED BY <1>0, <1>1, <2>1, <2>2, <2>3, MigratorStep DEF IInv, TypeOK, Apply, Ok
<1>2. CASE Fault /\ Work(i, AfterFailure) /\ lock' = None /\ UNCHANGED schema
  <2>1. MigrationOK(i)'
    BY <1>0, <1>2, NoneAssumption
    DEF IInv, TypeOK, MigrationOK, Apply, Work, AfterFailure, Process, Past, Migrates
  <2>2. ASSUME NEW j \in Instance \ {i}, proc'[j] = proc[j] PROVE MigrationOK(j)'
    BY <1>0, <1>2, <2>2, NoneAssumption DEF IInv, MigrationOK, Apply, Migrates
  <2>3. faults' \in 0..MaxFaults
    BY <1>2, Bounds DEF IInv, TypeOK, Fault
  <2> QED BY <1>0, <1>2, <2>1, <2>2, <2>3, MigratorStep
          DEF IInv, TypeOK, Apply, AfterFailure
<1> QED BY <1>1, <1>2 DEF Apply

-----------------------------------------------------------------------------
(* The requests *)

\* A step of the requests alone: none of them opens on a process on which it
\* would not be safe.
LEMMA RequestStep ==
  ASSUME IInv, UNCHANGED <<environment, proc, schema, lock, starts>>,
         TypeOK',
         \A r \in Request :
           Open(r)' => \/ Open(r) /\ req'[r].on = req[r].on
                       \/ RequestOK(r)'
  PROVE  IInv'
<1>1. ASSUME NEW i \in Instance PROVE (LifeOK(i) /\ HandleOK(i) /\ MigrationOK(i))'
  BY DEF IInv, LifeOK, HandleOK, MigrationOK, Migrates
<1>2. ASSUME NEW r \in Request PROVE RequestOK(r)'
  BY DEF IInv, RequestOK
<1> QED BY <1>1, <1>2 DEF IInv

\* Only a server that runs, was not shut down and has a connection accepts.
LEMMA AcceptSafe ==
  ASSUME IInv, NEW i \in Instance, WorkerAt(i, "serving")
  PROVE  /\ proc[i].main = "up" /\ ~proc[i].shut /\ ~proc[i].cli
         /\ ~proc[i].broken /\ proc[i].handle = "open"
BY DEF IInv, TypeOK, LifeOK, HandleOK, WorkerAt, Process, Connected, Past

LEMMA AcceptKeeps ==
  ASSUME IInv, NEW i \in Instance, NEW r \in Request, Accept(i, r)
  PROVE  IInv'
<1>1. TypeOK'
  BY DEF IInv, TypeOK, Accept
<1>2. RequestOK(r)'
  BY AcceptSafe DEF IInv, TypeOK, Accept, RequestOK
<1>3. \A q \in Request : q # r => req'[q] = req[q]
  BY DEF IInv, TypeOK, Accept
<1> QED BY <1>1, <1>2, <1>3, RequestStep DEF Accept, Open

\* No other step gives a request to an instance.
LEMMA StartedStay ==
  ASSUME IInv, [Next]_vars, NEW r \in Request, req[r].on = None, req'[r].on # None
  PROVE  \E i \in Instance, q \in Request : Accept(i, q)
<1>1. ~Open(r)
  BY DEF Open
<1>2. ASSUME NEW i \in Instance, Exit(i) PROVE req'[r] = req[r]
  BY <1>1, <1>2 DEF Exit
<1>3. ASSUME NEW i \in Instance,
             Start(i) \/ MainStep(i) \/ WorkerStep(i) \/ Menu(i) \/ OnStop(i) \/ Kill(i)
      PROVE  req'[r] = req[r]
  BY <1>2, <1>3 DEF Start, MainStep, WorkerStep, Menu, OnStop, Kill, NewDatabase,
     NewMigrations, OnStart, Drained, TimeOut, Close, Return, CheckConnection, Lock, Up,
     Apply, Seed, Listen, Alone
<1>4. ASSUME NEW q \in Request, Answer(q) PROVE req'[r].on = req[r].on
  BY <1>4 DEF Answer, Livez, Readyz, Write, IInv, TypeOK
<1>5. CASE UNCHANGED vars
  BY <1>5 DEF vars
<1> QED BY <1>3, <1>4, <1>5 DEF Next

LEMMA AnswerKeeps ==
  ASSUME IInv, NEW r \in Request, Answer(r)
  PROVE  IInv'
<1>1. PICK answer \in {"alive", "ready", "unavailable"} : Write(r, answer)
  BY DEF Answer, Livez, Readyz
<1>2. faults' \in 0..MaxFaults
  BY Bounds DEF IInv, TypeOK, Answer, Livez, Readyz, Ok, Fault
<1>3. TypeOK'
  BY <1>1, <1>2 DEF IInv, TypeOK, Answer, Write
<1>4. \A q \in Request : req'[q].on = req[q].on /\ (Open(q)' => Open(q))
  BY <1>1 DEF IInv, TypeOK, Write, Open
<1> QED BY <1>3, <1>4, RequestStep DEF Answer

-----------------------------------------------------------------------------
LEMMA InitIInv == Init => IInv
<1> SUFFICES ASSUME Init PROVE IInv
  OBVIOUS
<1>1. Down \in Process
  BY DEF Down, Process, Main, Worker
<1>2. TypeOK
  BY <1>1, Bounds DEF Init, TypeOK
<1>3. ASSUME NEW i \in Instance PROVE LifeOK(i) /\ HandleOK(i) /\ MigrationOK(i)
  BY NoneAssumption
  DEF Init, Down, LifeOK, HandleOK, MigrationOK, Stopping, Connected, Past
<1>4. ASSUME NEW r \in Request PROVE RequestOK(r)
  BY DEF Init, RequestOK, Open
<1> QED BY <1>2, <1>3, <1>4 DEF IInv

LEMMA NextIInv == IInv /\ [Next]_vars => IInv'
<1> SUFFICES ASSUME IInv, [Next]_vars PROVE IInv'
  OBVIOUS
<1>1. ASSUME NEW i \in Instance, MainStep(i) PROVE IInv'
  BY <1>1, NewDatabaseKeeps, NewMigrationsKeeps, OnStartKeeps, DrainedKeeps,
     TimeOutKeeps, CloseKeeps, ReturnKeeps DEF MainStep
<1>2. ASSUME NEW i \in Instance, WorkerStep(i) PROVE IInv'
  BY <1>2, CheckConnectionKeeps, LockKeeps, UpKeeps, ApplyKeeps, SeedKeeps,
     ListenKeeps DEF WorkerStep
<1>3. ASSUME NEW i \in Instance, Start(i) \/ Menu(i) \/ OnStop(i) \/ Kill(i) PROVE IInv'
  BY <1>3, StartKeeps, MenuKeeps, OnStopKeeps, ReturnKeeps
<1>4. ASSUME NEW i \in Instance, NEW r \in Request, Accept(i, r) PROVE IInv'
  BY <1>4, AcceptKeeps
<1>5. ASSUME NEW r \in Request, Answer(r) PROVE IInv'
  BY <1>5, AnswerKeeps
<1>6. CASE UNCHANGED vars
  BY <1>6 DEF vars, IInv, TypeOK, LifeOK, HandleOK, MigrationOK, RequestOK, Open, Migrates
<1> QED BY <1>1, <1>2, <1>3, <1>4, <1>5, <1>6 DEF Next

-----------------------------------------------------------------------------
(* The theorems *)

\* The inductive invariant holds in every state, whatever fails, is killed or
\* is started again.
THEOREM Invariance == Spec => []IInv
<1> QED BY InitIInv, NextIInv, PTL DEF Spec

\* The variables have their types: the labels of the two goroutines, the
\* schema's version within the folder, one holder of the lock.
THEOREM TypeCorrect == Spec => []TypeOK
<1>1. IInv => TypeOK
  BY DEF IInv
<1> QED BY <1>1, Invariance, PTL

\* A server of an environment that migrates (bootstrap.go) serves nothing but
\* the schema of its own build, whatever number of instances start, race for
\* the lock, fail or are killed.
THEOREM Migrated == Spec => []ServesMigratedSchema
<1>1. IInv => ServesMigratedSchema
  BY DEF IInv, MigrationOK, ServesMigratedSchema, Serving, WorkerAt, Past
<1> QED BY <1>1, Invariance, PTL

\* appStop closes the database under a request only when Shutdown gave up
\* waiting for it.
THEOREM DatabaseKept == Spec => []RequestsKeepDatabase
<1>1. IInv => RequestsKeepDatabase
  <2> SUFFICES ASSUME IInv, NEW r \in Request, Open(r),
                      proc[req[r].on].handle # "open"
               PROVE  proc[req[r].on].late
    BY DEF RequestsKeepDatabase
  <2>1. req[r].on \in Instance
    BY DEF IInv, TypeOK, Open
  <2> QED BY <2>1 DEF IInv, RequestOK, HandleOK, Stopping
<1> QED BY <1>1, Invariance, PTL

\* No start, of any number of instances, runs a migration over one that was
\* interrupted.
THEOREM Interruption == Spec => InterruptedStays
<1>1. IInv /\ [Next]_vars => (Interrupted => Interrupted')
  <2> SUFFICES ASSUME IInv, [Next]_vars, Interrupted PROVE Interrupted'
    OBVIOUS
  <2> DEFINE Quiet == schema' = schema /\ \A j \in Instance : proc'[j].worker # "apply"
  <2>0. schema.dirty /\ \A j \in Instance : proc[j].worker # "apply" /\ proc[j] \in Process
    BY DEF Interrupted, WorkerAt, IInv, TypeOK
  <2>1. ASSUME NEW i \in Instance, Exit(i) PROVE Quiet
    BY <2>0, <2>1 DEF Exit, Down, IInv, TypeOK
  <2>2. ASSUME NEW i \in Instance, MainStep(i) \/ Start(i) \/ OnStop(i) PROVE Quiet
    <3>1. CASE Start(i)
      BY <2>0, <3>1 DEF Start, IInv, TypeOK, Process
    <3>2. CASE NewDatabase(i)
      BY <2>0, <3>2 DEF NewDatabase, Alone, IInv, TypeOK, Process
    <3>3. CASE NewMigrations(i)
      BY <2>0, <2>1, <3>3 DEF NewMigrations, Alone, IInv, TypeOK, Process
    <3>4. CASE OnStart(i)
      BY <2>0, <3>4 DEF OnStart, Alone, IInv, TypeOK, Process
    <3>5. CASE Drained(i)
      BY <2>0, <3>5 DEF Drained, Alone, IInv, TypeOK, Process
    <3>6. CASE TimeOut(i)
      BY <2>0, <2>1, <3>6 DEF TimeOut, Alone, IInv, TypeOK, Process
    <3>7. CASE Close(i)
      BY <2>0, <2>1, <3>7 DEF Close, Alone, IInv, TypeOK, Process
    <3>8. CASE Return(i)
      BY <2>1, <3>8 DEF Return
    <3>9. CASE OnStop(i)
      BY <2>0, <3>9 DEF OnStop, Alone, IInv, TypeOK, Process
    <3> QED BY <2>2, <3>1, <3>2, <3>3, <3>4, <3>5, <3>6, <3>7, <3>8, <3>9 DEF MainStep
  <2>3. ASSUME NEW i \in Instance, WorkerStep(i) PROVE Quiet
    <3>1. CASE CheckConnection(i)
      BY <2>0, <3>1 DEF CheckConnection, Work, Alone, IInv, TypeOK, Process
    <3>2. CASE Lock(i)
      BY <2>0, <3>2 DEF Lock, Work, AfterFailure, IInv, TypeOK, Process
    <3>3. CASE Up(i)
      BY <2>0, <3>3 DEF Up, Refused, Work, AfterFailure, IInv, TypeOK, Process
    <3>4. ~Apply(i)
      BY <2>0 DEF Apply, WorkerAt
    <3>5. CASE Seed(i)
      BY <2>0, <3>5 DEF Seed, Work, Alone, IInv, TypeOK, Process
    <3>6. CASE Listen(i)
      BY <2>0, <3>6 DEF Listen, Work, Alone, IInv, TypeOK, Process
    <3> QED BY <2>3, <3>1, <3>2, <3>3, <3>4, <3>5, <3>6 DEF WorkerStep
  <2>4. ASSUME NEW i \in Instance, Menu(i) \/ Kill(i) PROVE Quiet
    BY <2>0, <2>1, <2>4 DEF Menu, Kill, Work, Alone, IInv, TypeOK, Process
  <2>5. ASSUME UNCHANGED <<proc, schema>> PROVE Quiet
    BY <2>0, <2>5
  <2>6. Quiet
    <3>1. ASSUME NEW i \in Instance, NEW r \in Request, Accept(i, r) PROVE Quiet
      BY <2>5, <3>1 DEF Accept
    <3>2. ASSUME NEW r \in Request, Answer(r) PROVE Quiet
      BY <2>5, <3>2 DEF Answer
    <3>3. CASE UNCHANGED vars
      BY <2>5, <3>3 DEF vars
    <3> HIDE DEF Quiet
    <3> QED BY <2>2, <2>3, <2>4, <3>1, <3>2, <3>3 DEF Next
  <2> QED BY <2>0, <2>6 DEF Interrupted, WorkerAt
<1> QED BY <1>1, Invariance, PTL DEF Spec, InterruptedStays

\* A server on which Shutdown was called accepts no request, not even when its
\* goroutine reaches ListenAndServe afterwards.
THEOREM StoppedRefuses == Spec => StoppedNeverAccepts
<1>1. IInv /\ [Next]_vars =>
        \A r \in Request :
          req[r].on = None /\ req'[r].on # None => ~proc[req'[r].on].shut
  <2> SUFFICES ASSUME IInv, [Next]_vars, NEW r \in Request,
                      req[r].on = None, req'[r].on # None
               PROVE  ~proc[req'[r].on].shut
    OBVIOUS
  <2>1. \E i \in Instance, q \in Request : Accept(i, q)
    BY StartedStay
  <2>2. PICK i \in Instance, q \in Request : Accept(i, q)
    BY <2>1
  <2>3. req'[r].on = i
    BY <2>2 DEF Accept, IInv, TypeOK
  <2> QED BY <2>2, <2>3, AcceptSafe DEF Accept
<1> QED BY <1>1, Invariance, PTL DEF Spec, StoppedNeverAccepts

=============================================================================

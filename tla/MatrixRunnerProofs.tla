------------------------- MODULE MatrixRunnerProofs -------------------------
(***************************************************************************)
(* A run that says PASS is sound, and a verified replay stays, for every   *)
(* set of cases, every number of workers and any number of faults.         *)
(*                                                                         *)
(* The inductive invariant says what the parent process relies on at each  *)
(* of its stages.  A launch that is busy has put RUNNING in the manifest,  *)
(* so no earlier PASS is left while files change; whatever is registered,  *)
(* in checkpoint.json or in memory, has all its files (Registration); and  *)
(* no file is younger than the source nor older than the source on record  *)
(* (Ages), so that finding the two equal at the end dates every replay.    *)
(***************************************************************************)
EXTENDS MatrixRunner, TLAPS

\* The stages inside the try block.
Busy == {"running", "registering", "publishing", "replacing", "closing", "reporting"}

\* Those after the last replay is registered.
Late == {"publishing", "replacing", "closing", "reporting"}

(* The type invariant. *)
Types ==
    /\ driver \in Driver
    /\ source \in Version
    /\ frozen \in Version \cup {None}
    /\ checkpoint \in Checkpoint \cup {None}
    /\ output \in [Job -> Evidence \cup {None, Partial}]
    /\ parent \in {"down", "opening", "recovering"} \cup Busy
    /\ memory \in [Job -> Result \cup {None}]
    /\ work \in [Job -> Task \cup {None}]

(* Before the run directory there is nothing. *)
Fresh ==
    frozen = None =>
        checkpoint = None /\ output = Nothing /\ work = Nothing /\ parent = "down"

(* load_completed: the directory has the files that were registered. *)
Holds(out, result) == IsComplete(out) /\ out.result = result

(* What is registered, on disk or in the parent, is there. *)
Registration ==
    /\ checkpoint # None =>
          \A j \in Job : checkpoint.done[j] # None => Holds(output[j], checkpoint.done[j])
    /\ parent # "down" =>
          \A j \in Job : memory[j] # None => Holds(output[j], memory[j])
    /\ (parent # "down" /\ checkpoint # None) =>
          \A j \in Job : checkpoint.done[j] # None => memory[j] = checkpoint.done[j]

(* Sources get younger only, and a worker imports what it finds. *)
Ages ==
    frozen # None =>
        /\ frozen <= source
        /\ \A j \in Job : IsComplete(output[j]) => frozen <= output[j].by /\ output[j].by <= source
        /\ \A j \in Job : work[j] # None => frozen <= work[j].by /\ work[j].by <= source

(* What each stage of the parent, and of a worker, has behind it. *)
Stages ==
    /\ \A j \in Job : work[j] # None =>
          /\ work[j].at = "writing" => output[j] = Partial
          /\ work[j].at = "returned" => IsComplete(output[j])
    /\ parent \in {"opening", "recovering"} => work = Nothing
    /\ parent = "opening" => checkpoint = None /\ memory = Nothing
    /\ parent \in Busy \cup {"recovering"} => checkpoint # None
    /\ parent \in Busy => manifest = "RUNNING"
    /\ parent \in Busy \ {"registering"} => Accepted(memory)
    /\ parent \in Late =>
          \A j \in Job : memory[j] # None /\ (driver # "matrix" => output[j].by = frozen)
    /\ parent \in {"closing", "reporting"} => tables = Built
    /\ parent = "reporting" => checkpoint = [status |-> "PASS", done |-> memory]

Inv == Types /\ Fresh /\ Registration /\ Ages /\ Stages /\ PassSound

-----------------------------------------------------------------------------

LEMMA CompleteOutput ==
    ASSUME NEW out \in Evidence \cup {None, Partial}
    PROVE  /\ IsComplete(out) <=> out \in Evidence
           /\ IsComplete(out) => out.result \in Result /\ out.result # None /\ out.by \in Version
  BY NoneAssumption DEF IsComplete, Evidence

LEMMA NewOutput ==
    ASSUME NEW r \in Result, NEW v \in Version
    PROVE  /\ [result |-> r, by |-> v] \in Evidence
           /\ IsComplete([result |-> r, by |-> v])
  BY NoneAssumption DEF IsComplete, Evidence

LEMMA NewTask ==
    ASSUME NEW at \in {"replaying", "writing", "returned"}, NEW v \in Version
    PROVE  /\ [at |-> at, by |-> v] \in Task
           /\ [at |-> at, by |-> v] # None
  BY NoneAssumption DEF Task

LEMMA NewCheckpoint ==
    ASSUME NEW status \in {"RUNNING", "INVALID", "INTERRUPTED_CHECKPOINTED", "PASS"},
           NEW done \in [Job -> Result \cup {None}]
    PROVE  /\ [status |-> status, done |-> done] \in Checkpoint
           /\ [status |-> status, done |-> done] # None
  BY NoneAssumption DEF Checkpoint

LEMMA NothingYet ==
    /\ Nothing \in [Job -> Evidence \cup {None, Partial}]
    /\ Nothing \in [Job -> Result \cup {None}]
    /\ Nothing \in [Job -> Task \cup {None}]
    /\ \A j \in Job : Nothing[j] = None
    /\ ~IsComplete(None) /\ ~IsComplete(Partial)
  BY DEF Nothing, IsComplete

LEMMA MatrixInit == Init => Inv
  <1> SUFFICES ASSUME Init PROVE Inv
    OBVIOUS
  <1>1. Types
    BY NothingYet, MatrixAssumption DEF Init, Types, Version
  <1>2. Fresh /\ Registration /\ Ages /\ Stages /\ PassSound
    BY NothingYet DEF Init, Fresh, Registration, Ages, Stages, PassSound, Passed, Busy, Late
  <1> QED BY <1>1, <1>2 DEF Inv


(* The verdict over the registered replays and the tables they make depend *)
(* on the driver and on what is registered.                                *)
LEMMA SameVerdict ==
    ASSUME memory' = memory, driver' = driver
    PROVE  /\ Accepted(memory)' <=> Accepted(memory)
           /\ Built' = Built
  BY DEF Accepted, Repeatable, GatesHold, Registered, Built

(* A step that leaves the files of the run alone and declares nothing      *)
(* passed leaves a sound verdict sound.                                    *)
LEMMA VerdictStays ==
    ASSUME PassSound, Passed' => Passed, UNCHANGED <<driver, frozen, output, tables>>
    PROVE  PassSound'
  <1> SUFFICES ASSUME Passed' PROVE PassSound'
    BY DEF PassSound
  <1>1. Accepted(Found)' <=> Accepted(Found)
    BY DEF Accepted, Repeatable, GatesHold, Registered, Found
  <1> QED BY <1>1 DEF PassSound

(* A replay without all its files is not registered, and a run with one is *)
(* neither published nor passed.                                           *)
LEMMA Unfinished ==
    ASSUME Inv, NEW j \in Job, ~IsComplete(output[j])
    PROVE  /\ checkpoint # None => checkpoint.done[j] = None
           /\ parent # "down" => memory[j] = None
           /\ parent \notin Late
           /\ ~Passed
  <1>1. (checkpoint # None => checkpoint.done[j] = None) /\ (parent # "down" => memory[j] = None)
    BY DEF Inv, Registration, Holds
  <1>2. parent \notin Late
    BY <1>1 DEF Inv, Stages, Late
  <1>3. ~Passed
    BY DEF Inv, PassSound
  <1> QED BY <1>1, <1>2, <1>3

(* Whoever is at work has a run directory, and a process that is busy has  *)
(* not declared the run passed.                                            *)
LEMMA BusyRun ==
    ASSUME Inv, parent \in Busy
    PROVE  /\ frozen \in Version /\ source \in Version
           /\ checkpoint \in Checkpoint
           /\ ~Passed
  BY DEF Inv, Types, Fresh, Stages, Passed, Busy

(* The handler keeps what is registered and calls nothing passed.          *)
LEMMA HaltKeeps ==
    ASSUME Inv, parent \in Busy, Halt("INVALID") \/ Halt("INTERRUPTED_CHECKPOINTED"),
           UNCHANGED <<driver, source>>
    PROVE  Inv'
  <1>1. PICK status \in {"INVALID", "INTERRUPTED_CHECKPOINTED"} : Halt(status)
    OBVIOUS
  <1>2. /\ checkpoint' \in Checkpoint /\ checkpoint' # None
        /\ checkpoint'.done = memory /\ checkpoint'.status = status
    BY <1>1, NewCheckpoint DEF Inv, Types, Halt
  <1>3. Types'
    BY <1>1, <1>2, NothingYet DEF Inv, Types, Halt
  <1>4. Fresh'
    BY <1>1, BusyRun, NoneAssumption DEF Fresh, Halt
  <1>5. Registration'
    BY <1>1, <1>2 DEF Inv, Registration, Busy, Halt
  <1>6. Ages'
    BY <1>1, NothingYet DEF Inv, Ages, Halt
  <1>7. Stages'
    BY <1>1, NothingYet DEF Stages, Busy, Late, Halt
  <1>8. PassSound'
    BY <1>2 DEF PassSound, Passed
  <1> QED BY <1>3, <1>4, <1>5, <1>6, <1>7, <1>8 DEF Inv


LEMMA StartKeeps ==
    ASSUME Inv, Start
    PROVE  Inv'
  <1>1. Types'
    BY NothingYet DEF Inv, Types, Start
  <1>2. Fresh'
    BY NoneAssumption DEF Inv, Types, Fresh, Start
  <1>3. Registration'
    BY NothingYet DEF Inv, Fresh, Registration, Start
  <1>4. Ages'
    BY NothingYet DEF Inv, Types, Fresh, Ages, Version, Start
  <1>5. Stages'
    BY NothingYet DEF Inv, Fresh, Stages, Busy, Late, Start
  <1>6. PassSound'
    BY DEF Inv, Fresh, PassSound, Passed, Start
  <1> QED BY <1>1, <1>2, <1>3, <1>4, <1>5, <1>6 DEF Inv

LEMMA ResumeKeeps ==
    ASSUME Inv, Resume
    PROVE  Inv'
  <1>1. Types'
    BY DEF Inv, Types, Checkpoint, disk, Resume
  <1>2. Fresh'
    BY DEF Inv, Fresh, Resume, disk
  <1>3. Registration'
    BY DEF Inv, Registration, Resume, disk
  <1>4. Ages'
    BY DEF Inv, Ages, Resume, disk
  <1>5. Stages'
    BY SameVerdict DEF Inv, Stages, Busy, Late, Resume, disk
  <1>6. PassSound'
    BY VerdictStays DEF Inv, Passed, Resume, disk
  <1> QED BY <1>1, <1>2, <1>3, <1>4, <1>5, <1>6 DEF Inv

LEMMA RecoverKeeps ==
    ASSUME Inv, NEW j \in Job, Recover(j)
    PROVE  Inv'
  <1>1. CASE IsComplete(output[j])
    <2>1. memory' = [memory EXCEPT ![j] = output[j].result] /\ output' = output
      BY <1>1 DEF Recover
    <2>2. output[j].result \in Result
      BY <1>1, CompleteOutput DEF Inv, Types
    <2>3. Types'
      BY <2>1, <2>2 DEF Inv, Types, Recover
    <2>4. Fresh'
      BY DEF Inv, Fresh, Recover
    <2>5. Registration'
      BY <1>1, <2>1 DEF Inv, Types, Registration, Holds, Recover, Unregistered
    <2>6. Ages'
      BY <2>1 DEF Inv, Ages, Recover
    <2>7. Stages'
      BY <2>1, NothingYet DEF Inv, Stages, Busy, Late, Recover
    <2>8. PassSound'
      BY <2>1, VerdictStays DEF Inv, Passed, Recover
    <2> QED BY <2>3, <2>4, <2>5, <2>6, <2>7, <2>8 DEF Inv
  <1>2. CASE ~IsComplete(output[j])
    <2>1. output' = [output EXCEPT ![j] = None] /\ memory' = memory
      BY <1>2 DEF Recover
    <2>2. Types'
      BY <2>1 DEF Inv, Types, Recover
    <2>3. Fresh'
      BY DEF Inv, Fresh, Recover
    <2>4. Registration'
      BY <1>2, <2>1, Unfinished DEF Inv, Types, Registration, Recover
    <2>5. Ages'
      BY <2>1, NothingYet DEF Inv, Types, Ages, Recover
    <2>6. Stages'
      BY <2>1, NothingYet DEF Inv, Stages, Busy, Late, Recover
    <2>7. PassSound'
      BY <1>2, Unfinished DEF PassSound, Passed, Recover
    <2> QED BY <2>2, <2>3, <2>4, <2>5, <2>6, <2>7 DEF Inv
  <1> QED BY <1>1, <1>2

LEMMA OpenKeeps ==
    ASSUME Inv, Open
    PROVE  Inv'
  <1>1. /\ checkpoint' \in Checkpoint /\ checkpoint' # None
        /\ checkpoint'.done = memory
    <2> DEFINE status == IF checkpoint = None THEN "RUNNING" ELSE checkpoint.status
    <2>1. status \in {"RUNNING", "INVALID", "INTERRUPTED_CHECKPOINTED", "PASS"}
      BY DEF Inv, Types, Checkpoint
    <2> HIDE DEF status
    <2>2. checkpoint' = [status |-> status, done |-> memory]
      BY DEF Open, status
    <2> QED BY <2>1, <2>2, NewCheckpoint DEF Inv, Types
  <1>2. parent \in {"opening", "recovering"} /\ work = Nothing
    BY DEF Inv, Stages, Open, ReadyToOpen
  <1>3. Types'
    BY <1>1 DEF Inv, Types, Busy, Open
  <1>4. Fresh'
    BY <1>2 DEF Inv, Fresh, Open
  <1>5. Registration'
    BY <1>1, <1>2 DEF Inv, Registration, Open
  <1>6. Ages'
    BY DEF Inv, Ages, Open
  <1>7. Stages'
    BY <1>1, <1>2, NothingYet, SameVerdict DEF Stages, Busy, Late, Open
  <1>8. PassSound'
    BY DEF PassSound, Passed, Open
  <1> QED BY <1>3, <1>4, <1>5, <1>6, <1>7, <1>8 DEF Inv

LEMMA RefuseToOpenKeeps ==
    ASSUME Inv, RefuseToOpen
    PROVE  Inv'
  <1>1. Types'
    BY DEF Inv, Types, Busy, RefuseToOpen, disk
  <1>2. Fresh'
    BY DEF Inv, Fresh, RefuseToOpen, disk
  <1>3. Registration'
    BY DEF Inv, Registration, RefuseToOpen, disk
  <1>4. Ages'
    BY DEF Inv, Ages, RefuseToOpen, disk
  <1>5. Stages'
    BY SameVerdict DEF Inv, Stages, Busy, Late, RefuseToOpen, disk
  <1>6. PassSound'
    BY VerdictStays DEF Inv, Passed, RefuseToOpen, disk
  <1> QED BY <1>1, <1>2, <1>3, <1>4, <1>5, <1>6 DEF Inv

LEMMA TakeKeeps ==
    ASSUME Inv, NEW j \in Job, Take(j)
    PROVE  Inv'
  <1>1. Types'
    BY NewTask DEF Inv, Types, disk, Take
  <1>2. Fresh'
    BY DEF Inv, Fresh, Take, disk
  <1>3. Registration'
    BY DEF Inv, Registration, Take, disk
  <1>4. Ages'
    <2>1. frozen <= source /\ source <= source
      BY BusyRun, NoneAssumption DEF Inv, Ages, Busy, Version, Take
    <2> QED BY <2>1 DEF Inv, Types, Ages, disk, Take
  <1>5. Stages'
    BY SameVerdict DEF Inv, Stages, Busy, Late, Take, disk
  <1>6. PassSound'
    BY VerdictStays DEF Inv, Passed, Take, disk
  <1> QED BY <1>1, <1>2, <1>3, <1>4, <1>5, <1>6 DEF Inv

LEMMA MakeOutputKeeps ==
    ASSUME Inv, NEW j \in Job, MakeOutput(j)
    PROVE  Inv'
  <1>1. /\ work[j] \in Task /\ output[j] = None /\ ~IsComplete(output[j])
        /\ work' = [work EXCEPT ![j] = [at |-> "writing", by |-> work[j].by]]
        /\ output' = [output EXCEPT ![j] = Partial]
    <2>1. work[j] \in Task
      BY DEF Inv, Types, MakeOutput, At
    <2>2. [work[j] EXCEPT !.at = "writing"] = [at |-> "writing", by |-> work[j].by]
      BY <2>1 DEF Task
    <2> QED BY <2>1, <2>2, NothingYet DEF MakeOutput
  <1>2. work[j].by \in Version
    BY <1>1 DEF Task
  <1>3. Types'
    BY <1>1, <1>2, NewTask DEF Inv, Types, MakeOutput
  <1>4. Fresh'
    BY <1>1, NothingYet, NoneAssumption DEF Inv, Fresh, MakeOutput
  <1>5. Registration'
    BY <1>1, Unfinished DEF Inv, Types, Registration, MakeOutput
  <1>6. Ages'
    BY <1>1, NothingYet, NoneAssumption DEF Inv, Types, Ages, MakeOutput
  <1>7. Stages'
    <2>1. parent \notin {"opening", "recovering"} \cup Late
      BY <1>1, NothingYet, NoneAssumption, Unfinished DEF Inv, Stages
    <2> QED BY <1>1, <2>1, NothingYet, SameVerdict DEF Inv, Types, Stages, Busy, Late, MakeOutput
  <1>8. PassSound'
    BY <1>1, Unfinished DEF PassSound, Passed, MakeOutput
  <1> QED BY <1>3, <1>4, <1>5, <1>6, <1>7, <1>8 DEF Inv

LEMMA FinishOutputKeeps ==
    ASSUME Inv, NEW j \in Job, FinishOutput(j)
    PROVE  Inv'
  <1>1. /\ work[j] \in Task /\ work[j] # None /\ ~IsComplete(output[j])
        /\ work[j].by \in Version
    BY NothingYet, NoneAssumption DEF Inv, Types, Stages, Task, FinishOutput, At
  <1>2. PICK r \in Result : output' = [output EXCEPT ![j] = [result |-> r, by |-> work[j].by]]
    BY DEF FinishOutput
  <1>3. PICK t \in Task \cup {None} :
           /\ work' = [work EXCEPT ![j] = t]
           /\ t # None => t = [at |-> "returned", by |-> work[j].by]
    <2>1. CASE parent = "down"
      BY <2>1 DEF FinishOutput
    <2>2. CASE parent # "down"
      <3>1. [work[j] EXCEPT !.at = "returned"] = [at |-> "returned", by |-> work[j].by]
        BY <1>1 DEF Task
      <3>2. work' = [work EXCEPT ![j] = [at |-> "returned", by |-> work[j].by]]
        BY <2>2, <3>1 DEF FinishOutput
      <3> QED BY <1>1, <3>2, NewTask
    <2> QED BY <2>1, <2>2
  <1>4. Types'
    BY <1>1, <1>2, <1>3, NewOutput DEF Inv, Types, FinishOutput
  <1>5. Fresh'
    BY <1>1, NothingYet DEF Inv, Fresh, FinishOutput
  <1>6. Registration'
    BY <1>1, <1>2, Unfinished DEF Inv, Types, Registration, FinishOutput
  <1>7. Ages'
    BY <1>1, <1>2, <1>3 DEF Inv, Types, Ages, FinishOutput
  <1>8. Stages'
    <2>1. parent \notin {"opening", "recovering"} \cup Late
      BY <1>1, NothingYet, Unfinished DEF Inv, Stages
    <2>2. IsComplete(output'[j])
      BY <1>1, <1>2, NewOutput DEF Inv, Types
    <2> QED BY <1>2, <1>3, <2>1, <2>2, SameVerdict DEF Inv, Types, Stages, Busy, Late, FinishOutput
  <1>9. PassSound'
    BY <1>1, Unfinished DEF PassSound, Passed, FinishOutput
  <1> QED BY <1>4, <1>5, <1>6, <1>7, <1>8, <1>9 DEF Inv

LEMMA CollectKeeps ==
    ASSUME Inv, NEW j \in Job, Collect(j)
    PROVE  Inv'
  <1>1. IsComplete(output[j]) /\ output[j].result \in Result
    BY CompleteOutput DEF Inv, Types, Stages, Collect, At
  <1>2. memory' = [memory EXCEPT ![j] = output[j].result] /\ memory' \in [Job -> Result \cup {None}]
    BY <1>1 DEF Inv, Types, Collect
  <1>3. /\ checkpoint' \in Checkpoint /\ checkpoint' # None
        /\ checkpoint'.done = memory'
    <2>1. PICK status \in {"RUNNING", "INVALID", "INTERRUPTED_CHECKPOINTED", "PASS"} :
            checkpoint' = [status |-> status, done |-> memory']
      BY BusyRun DEF Collect, Status, Busy, Checkpoint
    <2>2. PICK done \in [Job -> Result \cup {None}] : done = memory'
      BY <1>2
    <2> QED BY <2>1, <2>2, NewCheckpoint
  <1>4. Types'
    BY <1>2, <1>3 DEF Inv, Types, Busy, Collect
  <1>5. Fresh'
    BY DEF Inv, Fresh, Collect
  <1>6. Registration'
    BY <1>1, <1>2, <1>3 DEF Inv, Types, Registration, Holds, Collect
  <1>7. Ages'
    BY DEF Inv, Types, Ages, Collect
  <1>8. Stages'
    BY <1>3 DEF Inv, Types, Stages, Busy, Late, Collect
  <1>9. PassSound'
    BY DEF Inv, Stages, PassSound, Passed, Busy, Collect
  <1> QED BY <1>4, <1>5, <1>6, <1>7, <1>8, <1>9 DEF Inv

LEMMA RegisterKeeps ==
    ASSUME Inv, Register
    PROVE  Inv'
  <1>1. Types'
    BY DEF Inv, Types, Busy, Register
  <1>2. Fresh'
    BY DEF Inv, Fresh, Register
  <1>3. Registration'
    BY DEF Inv, Registration, Register
  <1>4. Ages'
    BY DEF Inv, Ages, Register
  <1>5. Stages'
    BY SameVerdict DEF Inv, Stages, Busy, Late, Register
  <1>6. PassSound'
    BY VerdictStays DEF Inv, Passed, Register
  <1> QED BY <1>1, <1>2, <1>3, <1>4, <1>5, <1>6 DEF Inv

LEMMA RejectKeeps ==
    ASSUME Inv, Reject
    PROVE  Inv'
  BY HaltKeeps DEF Reject, Halt, Busy

LEMMA ConcludeKeeps ==
    ASSUME Inv, Conclude
    PROVE  Inv'
  <1>1. Types'
    BY DEF Inv, Types, Busy, Conclude, AllDone, disk
  <1>2. Fresh'
    BY DEF Inv, Fresh, Conclude, AllDone, disk
  <1>3. Registration'
    BY DEF Inv, Registration, Conclude, AllDone, disk
  <1>4. Ages'
    BY DEF Inv, Ages, Conclude, AllDone, disk
  <1>5. Stages'
    <2>1. ASSUME NEW j \in Job PROVE memory[j] # None /\ (driver # "matrix" => output[j].by = frozen)
      <3>1. memory[j] # None /\ IsComplete(output[j]) /\ output[j].by \in Version
        BY CompleteOutput DEF Inv, Types, Registration, Holds, Conclude, AllDone
      <3>2. CASE driver # "matrix"
        <4>1. frozen = source
          <5>1. driver \in {"d1", "d2"}
            BY <3>2, MatrixAssumption DEF Inv, Types
          <5> QED BY <5>1 DEF Conclude, SameSource
        <4> QED BY <3>1, <4>1, BusyRun, NoneAssumption DEF Inv, Ages, Busy, Version, Conclude, AllDone
      <3> QED BY <3>1, <3>2
    <2> QED BY <2>1, SameVerdict DEF Inv, Stages, Busy, Late, disk, Conclude, AllDone
  <1>6. PassSound'
    BY VerdictStays DEF Inv, Passed, Conclude, AllDone, disk
  <1> QED BY <1>1, <1>2, <1>3, <1>4, <1>5, <1>6 DEF Inv

LEMMA SourceChangedKeeps ==
    ASSUME Inv, SourceChanged
    PROVE  Inv'
  BY HaltKeeps DEF SourceChanged, Halt, AllDone, Busy

LEMMA WriteTablesKeeps ==
    ASSUME Inv, WriteTables
    PROVE  Inv'
  <1>1. Types'
    BY DEF Inv, Types, Busy, WriteTables, disk
  <1>2. Fresh'
    BY DEF Inv, Fresh, WriteTables, disk
  <1>3. Registration'
    BY DEF Inv, Registration, WriteTables, disk
  <1>4. Ages'
    BY DEF Inv, Ages, WriteTables, disk
  <1>5. Stages'
    BY SameVerdict DEF Inv, Stages, Busy, Late, WriteTables, disk
  <1>6. PassSound'
    BY VerdictStays DEF Inv, Passed, WriteTables, disk
  <1> QED BY <1>1, <1>2, <1>3, <1>4, <1>5, <1>6 DEF Inv

LEMMA SupersedeKeeps ==
    ASSUME Inv, Supersede
    PROVE  Inv'
  <1>1. Types'
    BY DEF Inv, Types, Busy, Supersede
  <1>2. Fresh'
    BY DEF Inv, Fresh, Supersede
  <1>3. Registration'
    BY DEF Inv, Registration, Supersede
  <1>4. Ages'
    BY DEF Inv, Ages, Supersede
  <1>5. Stages'
    BY SameVerdict DEF Inv, Stages, Busy, Late, Supersede
  <1>6. PassSound'
    BY DEF Inv, Stages, PassSound, Passed, Busy, Supersede
  <1> QED BY <1>1, <1>2, <1>3, <1>4, <1>5, <1>6 DEF Inv

LEMMA ReplaceTablesKeeps ==
    ASSUME Inv, ReplaceTables
    PROVE  Inv'
  <1>1. Types'
    BY DEF Inv, Types, Busy, ReplaceTables
  <1>2. Fresh'
    BY DEF Inv, Fresh, ReplaceTables
  <1>3. Registration'
    BY DEF Inv, Registration, ReplaceTables
  <1>4. Ages'
    BY DEF Inv, Ages, ReplaceTables
  <1>5. Stages'
    BY SameVerdict DEF Inv, Stages, Busy, Late, ReplaceTables
  <1>6. PassSound'
    BY DEF Inv, Stages, PassSound, Passed, Busy, ReplaceTables
  <1> QED BY <1>1, <1>2, <1>3, <1>4, <1>5, <1>6 DEF Inv

LEMMA MarkPassKeeps ==
    ASSUME Inv, MarkPass
    PROVE  Inv'
  <1>1. Types'
    <2>1. checkpoint' \in Checkpoint
      BY NewCheckpoint DEF Inv, Types, MarkPass
    <2> QED BY <2>1 DEF Inv, Types, Busy, MarkPass
  <1>2. Fresh'
    BY DEF Inv, Fresh, MarkPass
  <1>3. Registration'
    BY DEF Inv, Registration, MarkPass
  <1>4. Ages'
    BY DEF Inv, Ages, MarkPass
  <1>5. Stages'
    <2>1. checkpoint' # None
      BY NewCheckpoint DEF Inv, Types, MarkPass
    <2> QED BY <2>1, SameVerdict DEF Inv, Stages, Busy, Late, MarkPass
  <1>6. PassSound'
    BY DEF Inv, Stages, PassSound, Passed, Busy, MarkPass
  <1> QED BY <1>1, <1>2, <1>3, <1>4, <1>5, <1>6 DEF Inv

LEMMA ReportKeeps ==
    ASSUME Inv, Report
    PROVE  Inv'
  <1>1. Types'
    BY DEF Inv, Types, Busy, Report
  <1>2. Fresh'
    BY DEF Inv, Fresh, Report
  <1>3. Registration'
    BY DEF Inv, Registration, Report
  <1>4. Ages'
    BY DEF Inv, Ages, Report
  <1>5. Stages'
    BY SameVerdict DEF Inv, Stages, Busy, Late, Report
  <1>6. PassSound'
    <2>1. /\ Accepted(memory) /\ tables = Built
          /\ \A j \in Job : memory[j] # None /\ (driver # "matrix" => output[j].by = frozen)
      BY DEF Inv, Stages, Busy, Late, Report
    <2>2. \A j \in Job : IsComplete(output[j]) /\ output[j].result = memory[j]
      BY <2>1 DEF Inv, Registration, Holds, Report
    <2>3. Found = memory
      BY <2>2 DEF Inv, Types, Found
    <2>4. tables = [c \in Case |-> output[<<c, 1>>].result]
      BY <2>1, <2>2 DEF Built, Job
    <2>5. Accepted(Found)' <=> Accepted(Found)
      BY DEF Accepted, Repeatable, GatesHold, Registered, Found, Report
    <2> QED BY <2>1, <2>2, <2>3, <2>4, <2>5 DEF PassSound, Report
  <1> QED BY <1>1, <1>2, <1>3, <1>4, <1>5, <1>6 DEF Inv

LEMMA InterruptKeeps ==
    ASSUME Inv, Interrupt
    PROVE  Inv'
  BY HaltKeeps DEF Interrupt, Halt, Trying, Busy

LEMMA WorkerLostKeeps ==
    ASSUME Inv, WorkerLost
    PROVE  Inv'
  BY HaltKeeps DEF WorkerLost, Halt, Busy

LEMMA KillKeeps ==
    ASSUME Inv, Kill
    PROVE  Inv'
  <1>1. Types'
    BY DEF Inv, Types, Busy, Kill, At, disk
  <1>2. Fresh'
    BY DEF Inv, Fresh, Kill, At, disk
  <1>3. Registration'
    BY DEF Inv, Registration, Kill, At, disk
  <1>4. Ages'
    BY DEF Inv, Ages, Kill, At, disk
  <1>5. Stages'
    BY SameVerdict DEF Inv, Stages, Busy, Late, Kill, At, disk
  <1>6. PassSound'
    BY VerdictStays DEF Inv, Passed, Kill, At, disk
  <1> QED BY <1>1, <1>2, <1>3, <1>4, <1>5, <1>6 DEF Inv

LEMMA OrphanDiesKeeps ==
    ASSUME Inv, NEW j \in Job, OrphanDies(j)
    PROVE  Inv'
  <1>1. Types'
    BY DEF Inv, Types, Busy, OrphanDies, disk
  <1>2. Fresh'
    BY NothingYet DEF Inv, Fresh, disk, OrphanDies
  <1>3. Registration'
    BY DEF Inv, Registration, OrphanDies, disk
  <1>4. Ages'
    BY DEF Inv, Ages, OrphanDies, disk
  <1>5. Stages'
    BY SameVerdict DEF Inv, Stages, Busy, Late, OrphanDies, disk
  <1>6. PassSound'
    BY VerdictStays DEF Inv, Passed, OrphanDies, disk
  <1> QED BY <1>1, <1>2, <1>3, <1>4, <1>5, <1>6 DEF Inv

LEMMA EditKeeps ==
    ASSUME Inv, Edit
    PROVE  Inv'
  <1>1. Types'
    <2>1. source' \in Version
      BY MatrixAssumption DEF Inv, Types, Version, Edit
    <2> QED BY <2>1 DEF Inv, Types, disk, Edit
  <1>2. Fresh'
    BY DEF Inv, Fresh, Edit, disk
  <1>3. Registration'
    BY DEF Inv, Registration, Edit, disk
  <1>4. Ages'
    <2>1. \A v \in Version : v <= source => v <= source'
      BY MatrixAssumption DEF Inv, Types, Version, Edit
    <2>2. \A j \in Job : /\ IsComplete(output[j]) => output[j].by \in Version
                         /\ work[j] # None => work[j].by \in Version
      BY CompleteOutput DEF Inv, Types, Task
    <2> QED BY <2>1, <2>2 DEF Inv, Types, Ages, disk, Edit
  <1>5. Stages'
    BY SameVerdict DEF Inv, Stages, Busy, Late, Edit, disk
  <1>6. PassSound'
    BY VerdictStays DEF Inv, Passed, Edit, disk
  <1> QED BY <1>1, <1>2, <1>3, <1>4, <1>5, <1>6 DEF Inv


(* Every step keeps the invariant. *)
LEMMA MatrixStep ==
    ASSUME Inv, [Next]_vars
    PROVE  Inv'
  <1>1. CASE Start
    BY <1>1, StartKeeps
  <1>2. CASE Resume
    BY <1>2, ResumeKeeps
  <1>3. ASSUME NEW j \in Job, Recover(j) PROVE Inv'
    BY <1>3, RecoverKeeps
  <1>4. CASE Open
    BY <1>4, OpenKeeps
  <1>5. CASE RefuseToOpen
    BY <1>5, RefuseToOpenKeeps
  <1>6. ASSUME NEW j \in Job, Take(j) PROVE Inv'
    BY <1>6, TakeKeeps
  <1>7. ASSUME NEW j \in Job, MakeOutput(j) PROVE Inv'
    BY <1>7, MakeOutputKeeps
  <1>8. ASSUME NEW j \in Job, FinishOutput(j) PROVE Inv'
    BY <1>8, FinishOutputKeeps
  <1>9. ASSUME NEW j \in Job, Collect(j) PROVE Inv'
    BY <1>9, CollectKeeps
  <1>10. CASE Register
    BY <1>10, RegisterKeeps
  <1>11. CASE Reject
    BY <1>11, RejectKeeps
  <1>12. CASE Conclude
    BY <1>12, ConcludeKeeps
  <1>13. CASE SourceChanged
    BY <1>13, SourceChangedKeeps
  <1>14. CASE WriteTables
    BY <1>14, WriteTablesKeeps
  <1>15. CASE Supersede
    BY <1>15, SupersedeKeeps
  <1>16. CASE ReplaceTables
    BY <1>16, ReplaceTablesKeeps
  <1>17. CASE MarkPass
    BY <1>17, MarkPassKeeps
  <1>18. CASE Report
    BY <1>18, ReportKeeps
  <1>19. CASE Interrupt
    BY <1>19, InterruptKeeps
  <1>20. CASE WorkerLost
    BY <1>20, WorkerLostKeeps
  <1>21. CASE Kill
    BY <1>21, KillKeeps
  <1>22. ASSUME NEW j \in Job, OrphanDies(j) PROVE Inv'
    BY <1>22, OrphanDiesKeeps
  <1>23. CASE Edit
    BY <1>23, EditKeeps
  <1>24. CASE UNCHANGED vars
    <2>1. /\ Types' <=> Types
          /\ Fresh' <=> Fresh
          /\ Registration' <=> Registration
          /\ Ages' <=> Ages
      BY <1>24 DEF Types, Fresh, Registration, Ages, vars
    <2>2. Stages' <=> Stages
      BY <1>24, SameVerdict DEF Stages, vars
    <2>3. PassSound'
      BY <1>24, VerdictStays DEF Inv, Passed, vars
    <2> QED BY <2>1, <2>2, <2>3 DEF Inv
  <1> QED
    BY <1>1, <1>2, <1>3, <1>4, <1>5, <1>6, <1>7, <1>8, <1>9, <1>10, <1>11, <1>12, <1>13, <1>14, <1>15, <1>16, <1>17, <1>18, <1>19, <1>20, <1>21, <1>22, <1>23, <1>24
       DEF Next, Progress

(* At every moment of every launch, interrupted and resumed however often: *)
(* what is registered has its files, what is busy has not passed, and what *)
(* has passed is sound.                                                    *)
THEOREM MatrixInvariant == Spec => []Inv
  <1> QED BY MatrixInit, MatrixStep, PTL DEF Spec

(* run_matrix.py, run_stage_d1.py and run_stage_d2.py: a run that says     *)
(* PASS in both of its files has two complete and equal replays of every   *)
(* case, its gates hold, its tables are those of these replays, and under  *)
(* D1 and D2 all of them come from the source that is on record.           *)
THEOREM PassIsSound == Spec => []PassSound
  <1>1. Inv => PassSound
    BY DEF Inv
  <1> QED BY <1>1, MatrixInvariant, PTL

(* The files of a registered replay stand still, and it stays registered.  *)
VerifiedKept ==
    checkpoint # None =>
        \A j \in Job : checkpoint.done[j] # None =>
            checkpoint'.done[j] = checkpoint.done[j] /\ output'[j] = output[j]

LEMMA VerifiedStep ==
    ASSUME Inv, [Next]_vars
    PROVE  VerifiedKept
  <1> SUFFICES ASSUME checkpoint # None, NEW k \in Job, checkpoint.done[k] # None
               PROVE  checkpoint'.done[k] = checkpoint.done[k] /\ output'[k] = output[k]
    BY DEF VerifiedKept
  <1>1. Holds(output[k], checkpoint.done[k])
    BY DEF Inv, Registration
  <1>2. parent # "down" => memory[k] = checkpoint.done[k]
    BY DEF Inv, Registration
  <1>3. ASSUME NEW j \in Job, Recover(j) \/ MakeOutput(j) \/ FinishOutput(j)
        PROVE  checkpoint' = checkpoint /\ output'[k] = output[k]
    <2>1. checkpoint' = checkpoint
      BY <1>3 DEF Recover, MakeOutput, FinishOutput
    <2>2. CASE IsComplete(output[j])
      <3>1. ~MakeOutput(j) /\ ~FinishOutput(j)
        BY <2>2, NothingYet DEF Inv, Stages, MakeOutput, FinishOutput, At
      <3> QED BY <1>3, <2>1, <2>2, <3>1 DEF Recover
    <2>3. CASE ~IsComplete(output[j])
      <3>1. j # k
        BY <1>1, <2>3 DEF Holds
      <3> QED BY <1>3, <2>1, <3>1 DEF Inv, Types, Recover, MakeOutput, FinishOutput
    <2> QED BY <2>2, <2>3
  <1>4. CASE Open
    BY <1>2, <1>4 DEF Open, ReadyToOpen
  <1>5. ASSUME NEW j \in Job, Collect(j)
        PROVE  checkpoint'.done[k] = checkpoint.done[k] /\ output'[k] = output[k]
    BY <1>1, <1>2, <1>5 DEF Inv, Types, Holds, Collect
  <1>6. CASE Reject \/ SourceChanged \/ Interrupt \/ WorkerLost
    BY <1>2, <1>6 DEF Reject, SourceChanged, AllDone, Interrupt, Trying, WorkerLost, Halt
  <1>7. CASE MarkPass
    BY <1>2, <1>7 DEF MarkPass
  <1>8. CASE Start \/ Resume \/ RefuseToOpen \/ Register \/ Conclude \/ WriteTables
             \/ Supersede \/ ReplaceTables \/ Report \/ Kill \/ Edit \/ UNCHANGED vars
    BY <1>8 DEF Start, Resume, RefuseToOpen, Register, Conclude, WriteTables,
                Supersede, ReplaceTables, Report, Kill, Edit, disk, vars
  <1>9. ASSUME NEW j \in Job, Take(j) \/ OrphanDies(j)
        PROVE  checkpoint' = checkpoint /\ output' = output
    BY <1>9 DEF Take, OrphanDies, disk
  <1> QED BY <1>3, <1>4, <1>5, <1>6, <1>7, <1>8, <1>9 DEF Next, Progress

(* "A verified replay is not computed again": neither a worker that        *)
(* outlives its parent nor a launch that tidies up touches its files, and  *)
(* no checkpoint drops it.                                                 *)
THEOREM VerifiedStaysSo == Spec => VerifiedStays
  <1>1. Inv /\ [Next]_vars => [VerifiedKept]_vars
    BY VerifiedStep
  <1>2. [][VerifiedKept]_vars => VerifiedStays
    BY PTL DEF VerifiedStays, VerifiedKept
  <1> QED BY <1>1, <1>2, MatrixInvariant, PTL DEF Spec
=============================================================================

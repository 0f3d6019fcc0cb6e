---------------------------- MODULE MatrixRunner ----------------------------
(***************************************************************************)
(* The three drivers that replay every case of an experiment matrix twice: *)
(* run_matrix.py (driver "matrix"), run_stage_d1.py ("d1") and             *)
(* run_stage_d2.py ("d2").  A parent process hands the replays to a pool   *)
(* of worker processes; a worker writes its files into a directory of its  *)
(* own, the parent notes every finished replay in checkpoint.json,         *)
(* compares the two replays of a case, and publishes tables and a verdict  *)
(* when all have agreed.  Any of these processes can be killed between two *)
(* writes, and the run is started again with --resume.                     *)
(*                                                                         *)
(* A control file is replaced in one step (write_json).  The files of a    *)
(* replay are not, but its evidence file comes last and in one step, so a  *)
(* directory holds either all of them or Partial.                          *)
(*                                                                         *)
(* As scripts/task_main/README.md asks, a run is resumed only when no      *)
(* process of the previous launch is left; an edit of the source is not    *)
(* taken back.                                                             *)
(***************************************************************************)
EXTENDS Integers, FiniteSets

CONSTANTS
    Case,       \* the configurations of the matrix
    Gate,       \* pairs of cases whose execution must agree (Gate A)
    Rank,       \* the order in which replays are submitted to the pool
    Result,     \* what the files of a replay can say
    Driver,     \* the drivers to consider
    Workers,    \* max_workers of the pool
    MaxFaults,  \* bound: processes killed or interrupted
    MaxEdits,   \* bound: edits of the source
    None, Partial

ASSUME MatrixAssumption ==
    /\ Gate \subseteq Case \X Case
    /\ Driver \subseteq {"matrix", "d1", "d2"}
    /\ Workers \in Nat \ {0}
    /\ MaxFaults \in Nat /\ MaxEdits \in Nat

Job == Case \X {1, 2}

Version == 0 .. MaxEdits  \* what source_identity can be

Evidence == [result : Result, by : Version]

Task == [at : {"replaying", "writing", "returned"}, by : Version]

Checkpoint == [status : {"RUNNING", "INVALID", "INTERRUPTED_CHECKPOINTED", "PASS"},
               done : [Job -> Result \cup {None}]]

\* None and Partial are none of the things they stand in for.
ASSUME NoneAssumption ==
    /\ None \notin Result \cup Version
    /\ None \notin Evidence
    /\ None \notin Task
    /\ None \notin Checkpoint
    /\ Partial \notin Evidence
    /\ None # Partial

ASSUME RankAssumption ==
    Rank \in [Job -> Nat] /\ \A i, j \in Job : Rank[i] = Rank[j] => i = j

VARIABLES
    driver,      \* which of the scripts runs
    source,      \* the working tree as it is now
    frozen,      \* source_provenance.json; None before the directory exists
    checkpoint,  \* checkpoint.json: status and the results of completed replays
    manifest,    \* status in validation_manifest.json
    output,      \* per replay: its directory, None, Partial or its files
    tables,      \* the published tables: what was found per case
    parent,      \* where the parent process is, "down" if there is none
    memory,      \* checkpoint["completed"] in the parent
    work,        \* per replay: what a worker process does about it
    faults       \* processes killed so far

vars == <<driver, source, frozen, checkpoint, manifest, output, tables,
          parent, memory, work, faults>>

disk == <<frozen, checkpoint, manifest, output, tables>>

Nothing == [j \in Job |-> None]

Init ==
    /\ driver \in Driver
    /\ source = 0
    /\ frozen = None /\ checkpoint = None /\ manifest = None /\ tables = None
    /\ output = Nothing /\ memory = Nothing /\ work = Nothing
    /\ parent = "down"
    /\ faults = 0

IsComplete(out) == out \notin {None, Partial}

At(place) == {j \in Job : work[j] # None /\ work[j].at = place}

(* register: the two replays of a case have the same files, and the two    *)
(* lines of a gate the same execution.                                     *)
Repeatable(done) ==
    \A c \in Case : done[<<c, 1>>] = done[<<c, 2>>] \/ None \in {done[<<c, 1>>], done[<<c, 2>>]}

Registered(done) == {c \in Case : None \notin {done[<<c, 1>>], done[<<c, 2>>]}}

GatesHold(done) ==
    driver = "matrix" =>
        \A g \in Gate : {g[1], g[2]} \subseteq Registered(done) =>
            done[<<g[1], 1>>] = done[<<g[2], 1>>]

Accepted(done) == Repeatable(done) /\ GatesHold(done)

-----------------------------------------------------------------------------
(* Launches *)

Start ==
    /\ parent = "down" /\ frozen = None
    /\ frozen' = source
    /\ memory' = Nothing
    /\ parent' = "opening"
    /\ UNCHANGED <<driver, source, checkpoint, manifest, output, tables, work, faults>>

Resume ==
    /\ parent = "down" /\ work = Nothing
    /\ checkpoint # None /\ source = frozen
    /\ memory' = checkpoint.done
    /\ parent' = "recovering"
    /\ UNCHANGED <<driver, source, disk, work, faults>>

\* Mutant: what a killed worker left is not moved out of the way.
UnregisteredComplete ==
    {j \in Job : memory[j] = None /\ output[j] # None /\ output[j] # Partial}

(* The replays with a directory that the checkpoint does not know. *)
Unregistered == {j \in Job : memory[j] = None /\ output[j] # None}

(* A directory with all its files counts, any other is put aside. *)
Recover(j) ==
    /\ parent = "recovering" /\ j \in Unregistered
    /\ IF IsComplete(output[j])
         THEN memory' = [memory EXCEPT ![j] = output[j].result] /\ UNCHANGED output
         ELSE output' = [output EXCEPT ![j] = None] /\ UNCHANGED memory
    /\ UNCHANGED <<driver, source, frozen, checkpoint, manifest, tables, parent, work, faults>>

(* load_completed: the files are still the ones that were registered. *)
Intact == \A j \in Job : memory[j] # None => IsComplete(output[j]) /\ output[j].result = memory[j]

ReadyToOpen ==
    \/ parent = "opening"
    \/ parent = "recovering" /\ Unregistered = {}

Open ==
    /\ ReadyToOpen /\ Intact /\ Accepted(memory)
    /\ checkpoint' = [status |-> IF checkpoint = None THEN "RUNNING" ELSE checkpoint.status,
                      done |-> memory]
    /\ manifest' = "RUNNING"
    /\ parent' = "running"
    /\ UNCHANGED <<driver, source, frozen, output, tables, memory, work, faults>>

(* The reload is not inside the try block: the process ends as it is. *)
RefuseToOpen ==
    /\ ReadyToOpen /\ ~(Intact /\ Accepted(memory))
    /\ parent' = "down"
    /\ UNCHANGED <<driver, source, disk, memory, work, faults>>

-----------------------------------------------------------------------------
(* Workers *)

(* The next replay in the queue of the pool. *)
Take(j) ==
    /\ parent = "running" /\ memory[j] = None /\ work[j] = None
    /\ \A i \in Job : Rank[i] < Rank[j] => memory[i] # None \/ work[i] # None
    /\ Cardinality(At("replaying") \cup At("writing")) < Workers
    /\ work' = [work EXCEPT ![j] = [at |-> "replaying", by |-> source]]
    /\ UNCHANGED <<driver, source, disk, parent, memory, faults>>

(* write_outputs refuses a directory that exists. *)
MakeOutput(j) ==
    /\ j \in At("replaying") /\ output[j] = None
    /\ output' = [output EXCEPT ![j] = Partial]
    /\ work' = [work EXCEPT ![j].at = "writing"]
    /\ UNCHANGED <<driver, source, frozen, checkpoint, manifest, tables, parent, memory, faults>>

FinishOutput(j) ==
    /\ j \in At("writing")
    /\ \E r \in Result : output' = [output EXCEPT ![j] = [result |-> r, by |-> work[j].by]]
    /\ work' = IF parent = "down" THEN [work EXCEPT ![j] = None]
                                  ELSE [work EXCEPT ![j].at = "returned"]
    /\ UNCHANGED <<driver, source, frozen, checkpoint, manifest, tables, parent, memory, faults>>

-----------------------------------------------------------------------------
(* The parent *)

Status(status) == IF driver = "matrix" THEN status ELSE checkpoint.status

Collect(j) ==
    /\ parent = "running" /\ j \in At("returned")
    /\ memory' = [memory EXCEPT ![j] = output[j].result]
    /\ checkpoint' = [status |-> Status("RUNNING"), done |-> memory']
    /\ work' = [work EXCEPT ![j] = None]
    /\ parent' = "registering"
    /\ UNCHANGED <<driver, source, frozen, manifest, output, tables, faults>>

\* Mutant: the handler writes a checkpoint of its own.
HaltForgets(status) ==
    /\ checkpoint' = [status |-> status, done |-> Nothing]
    /\ manifest' = status
    /\ work' = Nothing
    /\ parent' = "down"
    /\ UNCHANGED <<driver, source, frozen, output, tables, memory>>

(* The handler of any exception in the try block. *)
Halt(status) ==
    /\ checkpoint' = [status |-> status, done |-> memory]
    /\ manifest' = status
    /\ work' = Nothing
    /\ parent' = "down"
    /\ UNCHANGED <<driver, source, frozen, output, tables, memory>>

Register ==
    /\ parent = "registering" /\ Accepted(memory)
    /\ manifest' = "RUNNING"
    /\ parent' = "running"
    /\ UNCHANGED <<driver, source, frozen, checkpoint, output, tables, memory, work, faults>>

Reject ==
    /\ parent = "registering" /\ ~Accepted(memory)
    /\ Halt("INVALID")
    /\ UNCHANGED faults

AllDone == parent = "running" /\ \A j \in Job : memory[j] # None

\* Mutant: nobody looks at the source again.
SameSourceAssumed == TRUE

(* D1 and D2 look at the source once more, run_matrix does not. *)
SameSource == driver \in {"d1", "d2"} => source = frozen

Conclude ==
    /\ AllDone /\ SameSource
    /\ parent' = "publishing"
    /\ UNCHANGED <<driver, source, disk, memory, work, faults>>

SourceChanged ==
    /\ AllDone /\ ~SameSource
    /\ Halt("INVALID")
    /\ UNCHANGED faults

Built == [c \in Case |-> memory[<<c, 1>>]]

(* The tables are written aside.  Equal ones that are there already stay,  *)
(* but D2 replaces them all the same.  run_matrix would refuse others, but *)
(* no run gets that far with them.                                         *)
WriteTables ==
    /\ parent = "publishing"
    /\ driver = "matrix" => tables \in {None, Built}
    /\ parent' = IF tables = Built /\ driver # "d2" THEN "closing" ELSE "replacing"
    /\ UNCHANGED <<driver, source, disk, memory, work, faults>>

Supersede ==
    /\ parent = "replacing" /\ tables # None
    /\ tables' = None
    /\ UNCHANGED <<driver, source, frozen, checkpoint, manifest, output, parent, memory, work, faults>>

ReplaceTables ==
    /\ parent = "replacing" /\ tables = None
    /\ tables' = Built
    /\ parent' = "closing"
    /\ UNCHANGED <<driver, source, frozen, checkpoint, manifest, output, memory, work, faults>>

MarkPass ==
    /\ parent = "closing"
    /\ checkpoint' = [status |-> "PASS", done |-> memory]
    /\ parent' = "reporting"
    /\ UNCHANGED <<driver, source, frozen, manifest, output, tables, memory, work, faults>>

Report ==
    /\ parent = "reporting"
    /\ manifest' = "PASS"
    /\ parent' = "down"
    /\ UNCHANGED <<driver, source, frozen, checkpoint, output, tables, memory, work, faults>>

-----------------------------------------------------------------------------
(* What goes wrong *)

Fault == faults < MaxFaults /\ faults' = faults + 1

Trying == {"running", "registering", "publishing", "replacing", "closing", "reporting"}

Interrupt ==
    /\ Fault /\ parent \in Trying
    /\ Halt("INTERRUPTED_CHECKPOINTED")

(* A worker dies under a live parent: the pool is broken. *)
WorkerLost ==
    /\ Fault /\ parent = "running" /\ At("replaying") \cup At("writing") # {}
    /\ Halt("INVALID")

(* The parent dies without its handler; its workers may go on. *)
Kill ==
    /\ Fault /\ parent # "down"
    /\ parent' = "down"
    /\ work' = [j \in Job |-> IF j \in At("returned") THEN None ELSE work[j]]
    /\ UNCHANGED <<driver, source, disk, memory>>

OrphanDies(j) ==
    /\ parent = "down" /\ work[j] # None
    /\ work' = [work EXCEPT ![j] = None]
    /\ UNCHANGED <<driver, source, disk, parent, memory, faults>>

Edit ==
    /\ source < MaxEdits
    /\ source' = source + 1
    /\ UNCHANGED <<driver, disk, parent, memory, work, faults>>

Progress ==
    \/ Resume
    \/ \E j \in Job : Recover(j)
    \/ Open
    \/ RefuseToOpen
    \/ \E j \in Job : Take(j) \/ MakeOutput(j) \/ FinishOutput(j) \/ Collect(j) \/ OrphanDies(j)
    \/ Register
    \/ Reject
    \/ Conclude
    \/ SourceChanged
    \/ WriteTables
    \/ Supersede
    \/ ReplaceTables
    \/ MarkPass
    \/ Report

Next == Progress \/ Start \/ Interrupt \/ WorkerLost \/ Kill \/ Edit

Spec == Init /\ [][Next]_vars /\ WF_vars(Progress)

-----------------------------------------------------------------------------
(* Properties *)

Passed == checkpoint # None /\ checkpoint.status = "PASS" /\ manifest = "PASS"

Found == [j \in Job |-> IF IsComplete(output[j]) THEN output[j].result ELSE None]

(* What the later stages rely on when they read a run as their reference   *)
(* (validate_formal_reference): a run that says PASS in both files has two *)
(* complete replays of every case that agree, the gates hold, the tables   *)
(* are those of these replays, and under D1 and D2 every one of them was   *)
(* made by the source that is on record.                                   *)
PassSound ==
    Passed =>
        /\ \A j \in Job : IsComplete(output[j])
        /\ Accepted(Found)
        /\ tables = [c \in Case |-> output[<<c, 1>>].result]
        /\ driver # "matrix" => \A j \in Job : output[j].by = frozen

(* "a verified replay is not computed again" (README of task_main): what   *)
(* the checkpoint has stays in it, and nobody touches its files, neither   *)
(* workers that outlive their parent nor a launch that tidies up.          *)
VerifiedStays ==
    [][checkpoint # None =>
         \A j \in Job : checkpoint.done[j] # None =>
            checkpoint'.done[j] = checkpoint.done[j] /\ output'[j] = output[j]]_vars

(* Killed wherever it may be, a run that has a checkpoint and is resumed   *)
(* gets to its verdict, unless the source is edited or replays differ.     *)
RunPasses ==
    checkpoint # None ~> Passed \/ source # frozen \/ ~Accepted(Found)

(* "If the process is interrupted and source and configuration have not    *)
(* changed, resume" (README of task_main): an interrupted run is one that  *)
(* --resume takes.                                                         *)
InterruptedCanResume ==
    (frozen # None /\ parent = "down" /\ source = frozen) => checkpoint # None
=============================================================================

----------------------------- MODULE CaseRunner -----------------------------
(***************************************************************************)
(* run_case of scripts/task_main_stage2/run.py: several runner processes,  *)
(* one case, and what the case keeps on disk.  A runner checks whether the *)
(* case is complete, takes its lock, restores or begins, replays one batch *)
(* of equal time after the other with a checkpoint now and then, exports   *)
(* the result and tidies up.  It may be killed, or raise, between any two  *)
(* changes of the disk.                                                    *)
(*                                                                         *)
(* The trace is 1 .. Batches, and batch k leaves one candidate decision,   *)
(* k, in the DecisionLedger (task_main/stage2/ledger.py); what else the    *)
(* engine holds is a function of the batches done.  A file is written in   *)
(* one step: its name is a new uuid, so a half written one is as good as   *)
(* one that nothing mentions.  Files a machine loses after the process     *)
(* has written them, and logs, progress.json and status.json, which no     *)
(* runner reads, are left out.                                             *)
(***************************************************************************)
EXTENDS Naturals, FiniteSets

CONSTANTS
    Runner,     \* processes that may work on the case
    File,       \* names of files, uuids
    Batches,    \* batches of the trace
    FlushAt,    \* decisions that fill a ledger segment
    MaxFaults,  \* bound on kills and exceptions
    Nobody, NoFile, NoMark, NoResult, NoEngine

ASSUME RunnerAssumption ==
    /\ Batches \in Nat \ {0}
    /\ FlushAt \in Nat \ {0}
    /\ MaxFaults \in Nat
    /\ Nobody \notin Runner
    /\ NoFile \notin File
    /\ NoMark \notin [engine : File, processed : 0 .. Batches]
    /\ \A S \in SUBSET (File \cup {NoFile}) : NoResult \notin [S -> SUBSET (1 .. Batches)]

VARIABLES
    engines,   \* engine.<uuid>.pickle.gz: the engine pickled in it
    segments,  \* candidate_segments/<uuid>.pickle.gz: the decisions in it
    mark,      \* resume.json
    started,   \* STARTED.json exists
    complete,  \* the decisions in the directory with COMPLETE.json
    lock,      \* who holds case.lock
    proc,      \* where each runner is, and what it has in memory
    faults

vars == <<engines, segments, mark, started, complete, lock, proc, faults>>

disk == <<engines, segments, mark, started, complete>>

(* An engine: batches done, and the ledger: decisions in memory, and for   *)
(* each segment it has written what its hash stands for.                   *)
FreshEngine == [done |-> 0, pending |-> {}, segment_sha256 |-> << >>]

Idle == [at |-> "idle", resume |-> FALSE, engine |-> NoEngine, file |-> NoFile]

Init ==
    /\ engines = << >>
    /\ segments = << >>
    /\ mark = NoMark
    /\ started = FALSE
    /\ complete = NoResult
    /\ lock = Nobody
    /\ proc = [r \in Runner |-> Idle]
    /\ faults = 0

-----------------------------------------------------------------------------
(* Files *)

(* A uuid: a name that nothing on disk or in memory mentions.  File bounds *)
(* how many there are.                                                     *)
Mentioned ==
    DOMAIN engines \cup DOMAIN segments
        \cup (IF mark = NoMark THEN {} ELSE {mark.engine})
        \cup {proc[r].file : r \in Runner}

NameLeft == File \ Mentioned # {}

NewFile == CHOOSE f \in File : f \notin Mentioned

With(files, f, content) ==
    [x \in DOMAIN files \cup {f} |-> IF x = f THEN content ELSE files[x]]

Without(files, f) == [x \in DOMAIN files \ {f} |-> files[x]]

(* The engine once its ledger has written f. *)
Flushed(e, f) ==
    [done           |-> e.done,
     pending        |-> {},
     segment_sha256 |-> With(e.segment_sha256, f, e.pending)]

(* load_checkpoint succeeds: the pickle is there, and the segments it      *)
(* names still have their hashes.                                          *)
Loadable ==
    /\ mark.engine \in DOMAIN engines
    /\ \A f \in DOMAIN engines[mark.engine].segment_sha256 :
          /\ f \in DOMAIN segments
          /\ segments[f] = engines[mark.engine].segment_sha256[f]

(* What run_case accepts once it has the lock. *)
Accepts(resume) ==
    IF mark # NoMark THEN resume /\ Loadable ELSE complete = NoResult /\ ~started

-----------------------------------------------------------------------------
(* The steps of runner r *)

Goto(r, place) == proc' = [proc EXCEPT ![r].at = place]

(* verify_done, before the lock is taken. *)
Launch(r, resume) ==
    /\ proc[r].at = "idle"
    /\ complete = NoResult
    /\ proc' = [proc EXCEPT ![r].at = "verified", ![r].resume = resume]
    /\ UNCHANGED <<disk, lock, faults>>

SkipComplete(r) ==
    /\ proc[r].at = "idle"
    /\ complete # NoResult
    /\ UNCHANGED vars

\* Mutant: the file is opened but not locked.
LockFreeAlways == TRUE

(* flock with LOCK_NB. *)
LockFree == lock = Nobody

Refused(r) ==
    /\ proc[r].at = "verified"
    /\ ~(LockFree /\ Accepts(proc[r].resume))
    /\ proc' = [proc EXCEPT ![r] = Idle]
    /\ UNCHANGED <<disk, lock, faults>>

Restore(r) ==
    /\ proc[r].at = "verified"
    /\ LockFree
    /\ mark # NoMark /\ Accepts(proc[r].resume)
    /\ lock' = r
    /\ proc' = [proc EXCEPT ![r].at = "run", ![r].engine = engines[mark.engine]]
    /\ UNCHANGED <<disk, faults>>

\* Mutant: STARTED.json is written before the first checkpoint.
BeginStarted(r) ==
    /\ proc[r].at = "verified"
    /\ LockFree
    /\ mark = NoMark /\ Accepts(proc[r].resume)
    /\ lock' = r
    /\ proc' = [proc EXCEPT ![r].at = "pickle", ![r].engine = FreshEngine]
    /\ started' = TRUE
    /\ UNCHANGED <<engines, segments, mark, complete, faults>>

(* A new engine, on its way to its first checkpoint. *)
Begin(r) ==
    /\ proc[r].at = "verified"
    /\ LockFree
    /\ mark = NoMark /\ Accepts(proc[r].resume)
    /\ lock' = r
    /\ proc' = [proc EXCEPT ![r].at = "pickle", ![r].engine = FreshEngine]
    /\ UNCHANGED <<disk, faults>>

WriteSegment(r) ==
    /\ NameLeft
    /\ segments' = With(segments, NewFile, proc[r].engine.pending)
    /\ proc' = [proc EXCEPT ![r].engine = Flushed(@, NewFile)]

(* save_checkpoint, first the forced flush of the ledger. *)
SaveSegment(r) ==
    /\ proc[r].at = "pickle"
    /\ proc[r].engine.pending # {}
    /\ WriteSegment(r)
    /\ UNCHANGED <<engines, mark, started, complete, lock, faults>>

\* Mutant: the old checkpoint makes room for the new one.
SaveEngineOver(r) ==
    /\ proc[r].at = "pickle"
    /\ proc[r].engine.pending = {}
    /\ NameLeft
    /\ engines' = With(<< >>, NewFile, proc[r].engine)
    /\ proc' = [proc EXCEPT ![r].at = "mark", ![r].file = NewFile]
    /\ UNCHANGED <<segments, mark, started, complete, lock, faults>>

(* The pickle; its name is kept in file until it is marked. *)
SaveEngine(r) ==
    /\ proc[r].at = "pickle"
    /\ proc[r].engine.pending = {}
    /\ NameLeft
    /\ engines' = With(engines, NewFile, proc[r].engine)
    /\ proc' = [proc EXCEPT ![r].at = "mark", ![r].file = NewFile]
    /\ UNCHANGED <<segments, mark, started, complete, lock, faults>>

(* resume.json is replaced by one that names the new pickle. *)
SaveMark(r) ==
    /\ proc[r].at = "mark"
    /\ mark' = [engine |-> proc[r].file, processed |-> proc[r].engine.done]
    /\ proc' = [proc EXCEPT ![r].at = "unlink",
                            ![r].file = IF mark = NoMark THEN NoFile ELSE mark.engine]
    /\ UNCHANGED <<engines, segments, started, complete, lock, faults>>

(* The pickle before goes, if there was one; after the first checkpoint,   *)
(* before anything is replayed, comes STARTED.json.                        *)
SaveDone(r) ==
    /\ proc[r].at = "unlink"
    /\ engines' = Without(engines, proc[r].file)
    /\ proc' = [proc EXCEPT ![r].at = IF proc[r].engine.done = 0 THEN "start" ELSE "run",
                            ![r].file = NoFile]
    /\ UNCHANGED <<segments, mark, started, complete, lock, faults>>

MarkStarted(r) ==
    /\ proc[r].at = "start"
    /\ started' = TRUE
    /\ Goto(r, "run")
    /\ UNCHANGED <<engines, segments, mark, complete, lock, faults>>

(* One batch of Stage2Engine.run, with its decision in the ledger. *)
Advanced(e) ==
    [done           |-> e.done + 1,
     pending        |-> e.pending \cup {e.done + 1},
     segment_sha256 |-> e.segment_sha256]

Replay(r) ==
    /\ proc[r].at = "run"
    /\ proc[r].engine.done < Batches
    /\ proc' = [proc EXCEPT ![r].at = "flush", ![r].engine = Advanced(@)]
    /\ UNCHANGED <<disk, lock, faults>>

(* StreamingController.execute flushes a full ledger. *)
FlushFull(r) ==
    /\ proc[r].at = "flush"
    /\ Cardinality(proc[r].engine.pending) >= FlushAt
    /\ WriteSegment(r)
    /\ UNCHANGED <<engines, mark, started, complete, lock, faults>>

(* The checkpoint callback: a checkpoint is due after some time, and after *)
(* the last batch in any case.                                             *)
Callback(r) ==
    /\ proc[r].at = "flush"
    /\ Cardinality(proc[r].engine.pending) < FlushAt
    /\ \/ proc[r].engine.done < Batches /\ Goto(r, "run")
       \/ Goto(r, "pickle")
    /\ UNCHANGED <<disk, lock, faults>>

(* The decisions as an export iterates over them, one set per segment.     *)
\* Mutant: every segment in the directory is taken.
ExportedAll(e) ==
    [f \in DOMAIN segments \cup {NoFile} |-> IF f = NoFile THEN e.pending ELSE segments[f]]

Exported(e) ==
    [f \in DOMAIN e.segment_sha256 \cup {NoFile} |->
        IF f = NoFile THEN e.pending ELSE segments[f]]

(* export_replay into a directory of its own, and os.rename, which fails   *)
(* when a runner that was killed right after it has been here.             *)
Publish(r) ==
    /\ proc[r].at = "run"
    /\ proc[r].engine.done = Batches
    /\ complete = NoResult
    /\ complete' = Exported(proc[r].engine)
    /\ Goto(r, "tidy segments")
    /\ UNCHANGED <<engines, segments, mark, started, lock, faults>>

PublishedAlready(r) ==
    /\ proc[r].at = "run"
    /\ proc[r].engine.done = Batches
    /\ complete # NoResult
    /\ proc' = [proc EXCEPT ![r] = Idle]
    /\ lock' = Nobody
    /\ UNCHANGED <<disk, faults>>

TidySegments(r) ==
    /\ proc[r].at = "tidy segments"
    /\ segments' = << >>
    /\ Goto(r, "tidy engines")
    /\ UNCHANGED <<engines, mark, started, complete, lock, faults>>

TidyEngines(r) ==
    /\ proc[r].at = "tidy engines"
    /\ engines' = << >>
    /\ proc' = [proc EXCEPT ![r] = Idle]
    /\ lock' = Nobody
    /\ UNCHANGED <<segments, mark, started, complete, faults>>

(* Killed, or out by an exception: the memory is gone, the lock is free. *)
Abort(r) ==
    /\ proc[r].at # "idle"
    /\ faults < MaxFaults
    /\ faults' = faults + 1
    /\ proc' = [proc EXCEPT ![r] = Idle]
    /\ lock' = IF lock = r THEN Nobody ELSE lock
    /\ UNCHANGED disk

Step(r) ==
    \/ Refused(r) \/ Restore(r) \/ Begin(r)
    \/ SaveSegment(r) \/ SaveEngine(r) \/ SaveMark(r) \/ SaveDone(r) \/ MarkStarted(r)
    \/ Replay(r) \/ FlushFull(r) \/ Callback(r)
    \/ Publish(r) \/ PublishedAlready(r) \/ TidySegments(r) \/ TidyEngines(r)

Next ==
    \E r \in Runner :
        \/ \E resume \in BOOLEAN : Launch(r, resume)
        \/ SkipComplete(r)
        \/ Step(r)
        \/ Abort(r)

Spec == Init /\ [][Next]_vars

(* A process that runs goes on running, and whoever finds the case undone  *)
(* starts it again with --resume, as the run book says.                    *)
FairSpec ==
    /\ Spec
    /\ \A r \in Runner : WF_vars(Step(r)) /\ SF_vars(Launch(r, TRUE))
-----------------------------------------------------------------------------
(* Properties *)

(* "If tmux has exited, repeat the same command, with --resume" (README of *)
(* scripts/task_main_stage2): wherever a runner was killed, a case that is *)
(* not complete and that nobody works on is taken up again.                *)
ResumeAccepted == (lock = Nobody /\ complete = NoResult) => Accepts(TRUE)

(* The published result has the decision of every batch exactly once, with *)
(* the segments of how many killed runners ever in the directory           *)
(* ("Lossless", task_main/stage2/ledger.py).                               *)
ExportedOnce ==
    complete # NoResult =>
        \A k \in 1 .. Batches : Cardinality({f \in DOMAIN complete : k \in complete[f]}) = 1

(* Work that is checkpointed is not done again, and a result is final:     *)
(* the checkpoint of a case never goes back, also when several runners are *)
(* started on it.                                                          *)
NeverReplayed ==
    [][/\ mark # NoMark => mark' # NoMark /\ mark'.processed >= mark.processed
       /\ complete # NoResult => complete' = complete]_vars

(* A case that is started again after every fault gets done. *)
CaseCompletes == <>(complete # NoResult)
=============================================================================

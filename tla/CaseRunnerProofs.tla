-------------------------- MODULE CaseRunnerProofs --------------------------
(***************************************************************************)
(* Proofs about CaseRunner, for any number of runners, batches and kills:  *)
(* a case can always be taken up again, its checkpoint never goes back,    *)
(* and its result has every decision once.                                 *)
(*                                                                         *)
(* The argument: every engine, pickled or in memory, accounts for each of  *)
(* its decisions exactly once (Accounts), and the one in resume.json, as   *)
(* well as the one a runner works with, finds its segments as it wrote     *)
(* them (Intact), because new files get new names and nothing is removed   *)
(* that they mention before the result is published.                       *)
(***************************************************************************)
EXTENDS CaseRunner, FiniteSetTheorems, TLAPS

Decision == 1 .. Batches

(* Directories of files with contents in T. *)
Files(T) == UNION {[S -> T] : S \in SUBSET File}

Engine == [done : 0 .. Batches, pending : SUBSET Decision, segment_sha256 : Files(SUBSET Decision)]

Mark == [engine : File, processed : 0 .. Batches]

Working == {"run", "flush", "pickle", "mark", "unlink", "start"}

Tidying == {"tidy segments", "tidy engines"}

Phase == {"idle", "verified"} \cup Working \cup Tidying

Process == [at : Phase, resume : BOOLEAN, engine : Engine \cup {NoEngine}, file : File \cup {NoFile}]

Types ==
    /\ engines \in Files(Engine)
    /\ segments \in Files(SUBSET Decision)
    /\ mark \in Mark \cup {NoMark}
    /\ started \in BOOLEAN
    /\ lock \in Runner \cup {Nobody}
    /\ proc \in [Runner -> Process]

(* The decisions of the batches done are all there, none of them twice. *)
Accounts(e) ==
    /\ e.pending \subseteq 1 .. e.done
    /\ \A f \in DOMAIN e.segment_sha256 :
          /\ e.segment_sha256[f] \subseteq 1 .. e.done
          /\ e.segment_sha256[f] \cap e.pending = {}
    /\ \A f, g \in DOMAIN e.segment_sha256 :
          f # g => e.segment_sha256[f] \cap e.segment_sha256[g] = {}
    /\ \A k \in 1 .. e.done :
          k \in e.pending \/ \E f \in DOMAIN e.segment_sha256 : k \in e.segment_sha256[f]

Intact(e) ==
    \A f \in DOMAIN e.segment_sha256 : f \in DOMAIN segments /\ segments[f] = e.segment_sha256[f]

(* A runner past the lock holds it. *)
OneWorker ==
    \A r \in Runner :
        /\ proc[r].at \in Working \cup Tidying => lock = r
        /\ proc[r].at \in Tidying => complete # NoResult

PicklesAccount == \A f \in DOMAIN engines : Accounts(engines[f])

(* resume.json names an engine that has done what it says, and that can be *)
(* loaded as long as there is no result.                                   *)
MarkSound ==
    /\ started => mark # NoMark
    /\ mark # NoMark =>
          /\ mark.engine \in DOMAIN engines => engines[mark.engine].done = mark.processed
          /\ complete = NoResult => Loadable

(* What a runner has in memory, and how far it is with its checkpoint. *)
Sound(r) ==
    /\ proc[r].engine \in Engine
    /\ Accounts(proc[r].engine)
    /\ Intact(proc[r].engine)
    /\ mark # NoMark => proc[r].engine.done >= mark.processed
    /\ proc[r].at = "mark" =>
          /\ proc[r].file \in DOMAIN engines
          /\ engines[proc[r].file] = proc[r].engine
          /\ mark # NoMark => proc[r].file # mark.engine
    /\ proc[r].at \in {"unlink", "start"} => mark # NoMark
    /\ proc[r].at = "unlink" => proc[r].file # mark.engine

WorkSound == \A r \in Runner : proc[r].at \in Working => Sound(r)

RunnerInv ==
    /\ Types
    /\ OneWorker
    /\ PicklesAccount
    /\ MarkSound
    /\ WorkSound
    /\ ExportedOnce

-----------------------------------------------------------------------------
(* Files *)

(* The name of a new file is one that nothing mentions. *)
LEMMA NewFileIsNew ==
    ASSUME NameLeft
    PROVE  /\ NewFile \in File
           /\ NewFile \notin DOMAIN engines
           /\ NewFile \notin DOMAIN segments
           /\ mark # NoMark => NewFile # mark.engine
<1>1. \E f \in File : f \notin Mentioned
  BY DEF NameLeft
<1>2. NewFile \in File /\ NewFile \notin Mentioned
  BY <1>1 DEF NewFile
<1> QED
  BY <1>2 DEF Mentioned

(* What a directory of T is after a file is written. *)
Added(new, T, files, f, content) ==
    /\ new \in Files(T)
    /\ DOMAIN new = DOMAIN files \cup {f}
    /\ new[f] = content
    /\ \A x \in DOMAIN files \ {f} : new[x] = files[x]

LEMMA WithFile ==
    ASSUME NEW T, NEW files \in Files(T), NEW f \in File, NEW content \in T
    PROVE  Added(With(files, f, content), T, files, f, content)
<1>1. PICK S \in SUBSET File : files \in [S -> T]
  BY DEF Files
<1>2. With(files, f, content) \in [S \cup {f} -> T]
  BY <1>1 DEF With
<1>3. S \cup {f} \in SUBSET File
  OBVIOUS
<1> QED
  BY <1>1, <1>2, <1>3 DEF With, Files, Added

(* What it is after a file is removed. *)
Removed(new, T, files, f) ==
    /\ new \in Files(T)
    /\ DOMAIN new = DOMAIN files \ {f}
    /\ \A x \in DOMAIN files \ {f} : new[x] = files[x]

LEMMA WithoutFile ==
    ASSUME NEW T, NEW files \in Files(T), NEW f
    PROVE  Removed(Without(files, f), T, files, f)
<1>1. PICK S \in SUBSET File : files \in [S -> T]
  BY DEF Files
<1>2. Without(files, f) \in [S \ {f} -> T]
  BY <1>1 DEF Without
<1>3. S \ {f} \in SUBSET File
  OBVIOUS
<1> QED
  BY <1>1, <1>2, <1>3 DEF Without, Files, Removed

(* An empty directory is a directory. *)
LEMMA NoFiles == ASSUME NEW T PROVE << >> \in Files(T) /\ DOMAIN << >> = {}
<1>1. << >> \in [{} -> T]
  OBVIOUS
<1> QED
  BY <1>1 DEF Files

(* What is in a directory is of its type. *)
LEMMA FileContent ==
    ASSUME NEW T, NEW files \in Files(T)
    PROVE  /\ DOMAIN files \subseteq File
           /\ \A f \in DOMAIN files : files[f] \in T
BY DEF Files

-----------------------------------------------------------------------------
(* Engines *)

(* A new engine accounts for its decisions. *)
LEMMA FreshAccounts == FreshEngine \in Engine /\ Accounts(FreshEngine)
<1>1. << >> \in Files(SUBSET Decision) /\ DOMAIN << >> = {}
  BY NoFiles
<1>2. 0 \in 0 .. Batches
  BY RunnerAssumption
<1> QED
  BY <1>1, <1>2 DEF FreshEngine, Engine, Accounts

(* Writing the decisions in memory to a new segment keeps the account. *)
LEMMA FlushKeepsAccount ==
    ASSUME NEW e \in Engine, Accounts(e), NEW f \in File, f \notin DOMAIN e.segment_sha256
    PROVE  /\ Flushed(e, f) \in Engine
           /\ Accounts(Flushed(e, f))
           /\ Flushed(e, f).done = e.done
           /\ Flushed(e, f).segment_sha256 = With(e.segment_sha256, f, e.pending)
<1> DEFINE sha == With(e.segment_sha256, f, e.pending)
<1>1. /\ e.segment_sha256 \in Files(SUBSET Decision)
      /\ e.pending \in SUBSET Decision
      /\ e.done \in 0 .. Batches
  BY DEF Engine
<1>2. /\ sha \in Files(SUBSET Decision)
      /\ DOMAIN sha = DOMAIN e.segment_sha256 \cup {f}
      /\ sha[f] = e.pending
      /\ \A x \in DOMAIN e.segment_sha256 \ {f} : sha[x] = e.segment_sha256[x]
  <2>1. Added(sha, SUBSET Decision, e.segment_sha256, f, e.pending)
    BY <1>1, WithFile
  <2> HIDE DEF sha
  <2> QED
    BY <2>1 DEF Added
<1>3. Flushed(e, f) = [done |-> e.done, pending |-> {}, segment_sha256 |-> sha]
  BY DEF Flushed
<1> HIDE DEF sha
<1>4. Flushed(e, f) \in Engine
  BY <1>1, <1>2, <1>3 DEF Engine
<1>5. Accounts([done |-> e.done, pending |-> {}, segment_sha256 |-> sha])
  <2>1. \A g \in DOMAIN sha : sha[g] \subseteq 1 .. e.done
    BY <1>2 DEF Accounts
  <2>2. \A g, h \in DOMAIN sha : g # h => sha[g] \cap sha[h] = {}
    BY <1>2 DEF Accounts
  <2>3. \A k \in 1 .. e.done : \E g \in DOMAIN sha : k \in sha[g]
    BY <1>2 DEF Accounts
  <2> QED
    BY <2>1, <2>2, <2>3 DEF Accounts
<1> QED
  BY <1>3, <1>4, <1>5 DEF sha

(* A batch adds its decision to those in memory. *)
LEMMA AdvanceKeepsAccount ==
    ASSUME NEW e \in Engine, Accounts(e), e.done < Batches
    PROVE  /\ Advanced(e) \in Engine
           /\ Accounts(Advanced(e))
           /\ Advanced(e).done = e.done + 1
           /\ Advanced(e).segment_sha256 = e.segment_sha256
<1>1. Advanced(e) = [done |-> e.done + 1, pending |-> e.pending \cup {e.done + 1},
                     segment_sha256 |-> e.segment_sha256]
  BY DEF Advanced
<1>2. e.done \in 0 .. Batches /\ e.done + 1 \in 0 .. Batches /\ e.done + 1 \in Decision
  BY RunnerAssumption DEF Engine, Decision
<1>3. Advanced(e) \in Engine
  BY <1>1, <1>2 DEF Engine
<1>4. 1 .. (e.done + 1) = (1 .. e.done) \cup {e.done + 1} /\ e.done + 1 \notin 1 .. e.done
  BY <1>2
<1>5. Accounts(Advanced(e))
  BY <1>1, <1>4 DEF Accounts
<1> QED
  BY <1>1, <1>3, <1>5

(* The export of a complete engine whose segments are intact has every     *)
(* decision once, and is a result.                                         *)
LEMMA ExportOnce ==
    ASSUME NEW e \in Engine, Accounts(e), Intact(e), e.done = Batches
    PROVE  /\ \A k \in 1 .. Batches :
                  Cardinality({f \in DOMAIN Exported(e) : k \in Exported(e)[f]}) = 1
           /\ Exported(e) # NoResult
<1> DEFINE sha == e.segment_sha256
           X == Exported(e)
<1>1. /\ DOMAIN sha \subseteq File
      /\ \A f \in DOMAIN sha : sha[f] \in SUBSET Decision
      /\ e.pending \in SUBSET Decision
  BY FileContent DEF Engine
<1>2. NoFile \notin DOMAIN sha
  BY <1>1, RunnerAssumption
<1>3. /\ DOMAIN X = DOMAIN sha \cup {NoFile}
      /\ X[NoFile] = e.pending
      /\ \A f \in DOMAIN sha : X[f] = sha[f]
  BY <1>2 DEF Exported, Intact
<1>4. X \in [DOMAIN sha \cup {NoFile} -> SUBSET Decision]
  BY <1>1, <1>2 DEF Exported, Intact
<1>5. DOMAIN sha \cup {NoFile} \in SUBSET (File \cup {NoFile})
  BY <1>1
<1>6. X # NoResult
  BY <1>4, <1>5, RunnerAssumption DEF Decision
<1> HIDE DEF X
<1>7. ASSUME NEW k \in 1 .. Batches
      PROVE  Cardinality({f \in DOMAIN X : k \in X[f]}) = 1
  <2>1. k \in e.pending \/ \E f \in DOMAIN sha : k \in sha[f]
    BY DEF Accounts
  <2>2. \A f, g \in DOMAIN X : k \in X[f] /\ k \in X[g] => f = g
    BY <1>3 DEF Accounts
  <2>3. PICK f \in DOMAIN X : k \in X[f]
    BY <2>1, <1>3
  <2>4. {g \in DOMAIN X : k \in X[g]} = {f}
    BY <2>2, <2>3
  <2> QED
    BY <2>4, FS_Singleton
<1> QED
  BY <1>6, <1>7 DEF X
-----------------------------------------------------------------------------
(* Runners *)

(* What a step of r does to proc: r is p now, and the others as before. *)
Becomes(r, p) ==
    /\ p \in Process
    /\ proc' \in [Runner -> Process]
    /\ proc'[r] = p
    /\ \A q \in Runner \ {r} : proc'[q] = proc[q]

(* A runner that gets somewhere with what it has. *)
LEMMA Goes ==
    ASSUME Types, NEW r \in Runner, NEW place \in Phase, Goto(r, place)
    PROVE  Becomes(r, [at |-> place, resume |-> proc[r].resume,
                       engine |-> proc[r].engine, file |-> proc[r].file])
BY DEF Types, Process, Goto, Becomes

(* A runner that gets another engine. *)
LEMMA GetsEngine ==
    ASSUME Types, NEW r \in Runner, NEW place \in Phase, NEW e \in Engine,
           proc' = [proc EXCEPT ![r].at = place, ![r].engine = e]
    PROVE  Becomes(r, [at |-> place, resume |-> proc[r].resume,
                       engine |-> e, file |-> proc[r].file])
BY DEF Types, Process, Becomes

(* A runner that gets another file. *)
LEMMA GetsFile ==
    ASSUME Types, NEW r \in Runner, NEW place \in Phase, NEW f \in File \cup {NoFile},
           proc' = [proc EXCEPT ![r].at = place, ![r].file = f]
    PROVE  Becomes(r, [at |-> place, resume |-> proc[r].resume,
                       engine |-> proc[r].engine, file |-> f])
BY DEF Types, Process, Becomes

(* A runner that is through. *)
LEMMA GoesIdle ==
    ASSUME Types, NEW r \in Runner, proc' = [proc EXCEPT ![r] = Idle]
    PROVE  Becomes(r, Idle)
BY DEF Types, Process, Becomes, Idle, Phase

(* As long as r has the lock, or nobody, the others do nothing that needs  *)
(* it, and a step of r only has to see to r.                               *)
LEMMA OnlyOne ==
    ASSUME OneWorker, NEW r \in Runner, lock \in {r, Nobody}, NEW p, Becomes(r, p),
           p.at \in Working \cup Tidying => lock' = r,
           p.at \in Tidying => complete' # NoResult,
           p.at \in Working => Sound(r)'
    PROVE  OneWorker' /\ WorkSound'
<1>1. \A q \in Runner \ {r} : proc'[q].at \notin Working \cup Tidying
  BY RunnerAssumption DEF OneWorker, Becomes
<1>2. proc'[r] = p
  BY DEF Becomes
<1>3. OneWorker'
  BY <1>1, <1>2 DEF OneWorker
<1>4. WorkSound'
  BY <1>1, <1>2 DEF WorkSound
<1> QED
  BY <1>3, <1>4

(* A step that leaves the disk alone leaves what it says about it alone. *)
LEMMA DiskKept ==
    ASSUME UNCHANGED disk, PicklesAccount, MarkSound, ExportedOnce
    PROVE  PicklesAccount' /\ MarkSound' /\ ExportedOnce'
BY DEF disk, PicklesAccount, MarkSound, Loadable, ExportedOnce

(* A runner that has done nothing yet, or nothing any more, may be anywhere *)
(* else, as long as the others keep the lock.                              *)
LEMMA Bystander ==
    ASSUME OneWorker, WorkSound, NEW r \in Runner, NEW p, Becomes(r, p),
           p.at \in {"idle", "verified"}, UNCHANGED disk,
           lock' = lock \/ lock = r
    PROVE  OneWorker' /\ WorkSound'
<1>1. \A q \in Runner : proc'[q].at \in Working \cup Tidying => q # r /\ proc'[q] = proc[q]
  BY DEF Becomes, Working, Tidying
<1>2. OneWorker'
  BY <1>1 DEF OneWorker, disk
<1>3. ASSUME NEW q \in Runner, proc'[q].at \in Working
      PROVE  Sound(q)'
  <2>1. proc'[q] = proc[q] /\ Sound(q)
    BY <1>1, <1>3 DEF WorkSound
  <2> QED
    BY <2>1 DEF Sound, Intact, Accounts, disk
<1> QED
  BY <1>2, <1>3 DEF WorkSound
-----------------------------------------------------------------------------
(* The steps *)

(* Launch, Refused and Abort. *)
LEMMA LaunchKeeps ==
    ASSUME RunnerInv, NEW r \in Runner, NEW resume \in BOOLEAN, Launch(r, resume)
    PROVE  RunnerInv'
<1> USE DEF RunnerInv
<1>1. Becomes(r, [at |-> "verified", resume |-> resume,
                  engine |-> proc[r].engine, file |-> proc[r].file])
  BY DEF Launch, Types, Process, Becomes, Phase
<1>2. OneWorker' /\ WorkSound'
  BY <1>1, Bystander DEF Launch
<1>3. Types'
  BY <1>1 DEF Types, Launch, disk, Becomes
<1> QED
  BY <1>2, <1>3, DiskKept DEF Launch

LEMMA RefusedKeeps ==
    ASSUME RunnerInv, NEW r \in Runner, Refused(r)
    PROVE  RunnerInv'
<1> USE DEF RunnerInv
<1>1. Becomes(r, Idle)
  BY GoesIdle DEF Refused
<1>2. OneWorker' /\ WorkSound'
  BY <1>1, Bystander DEF Refused, Idle
<1>3. Types'
  BY <1>1 DEF Types, Refused, disk, Becomes
<1> QED
  BY <1>2, <1>3, DiskKept DEF Refused

LEMMA AbortKeeps ==
    ASSUME RunnerInv, NEW r \in Runner, Abort(r)
    PROVE  RunnerInv'
<1> USE DEF RunnerInv
<1>1. Becomes(r, Idle)
  BY GoesIdle DEF Abort
<1>2. lock' = lock \/ lock = r
  BY DEF Abort
<1>3. OneWorker' /\ WorkSound'
  BY <1>1, <1>2, Bystander DEF Abort, Idle
<1>4. Types'
  BY <1>1 DEF Types, Abort, disk, Becomes
<1> QED
  BY <1>3, <1>4, DiskKept DEF Abort

(* Restore: the engine that resume.json names has its segments. *)
LEMMA RestoreKeeps ==
    ASSUME RunnerInv, NEW r \in Runner, Restore(r)
    PROVE  RunnerInv'
<1> USE DEF RunnerInv
<1>0. PICK e : e = engines[mark.engine]
  OBVIOUS
<1>1. mark # NoMark /\ Loadable /\ mark.engine \in DOMAIN engines
  BY DEF Restore, Accepts, Loadable
<1>2. e \in Engine
  BY <1>0, <1>1, FileContent DEF Types
<1>3. Accounts(e) /\ e.done = mark.processed
  BY <1>0, <1>1 DEF PicklesAccount, MarkSound
<1>4. Intact(e)
  BY <1>0, <1>1 DEF Loadable, Intact
<1> DEFINE p == [at |-> "run", resume |-> proc[r].resume, engine |-> e, file |-> proc[r].file]
<1>5. Becomes(r, p)
  BY <1>0, <1>2, GetsEngine DEF Restore, Phase, Working
<1>6. p.at = "run" /\ proc'[r] = p
  BY <1>5 DEF Becomes
<1>7. Sound(r)'
  <2>1. e.done >= mark.processed
    BY <1>2, <1>3 DEF Engine
  <2>2. Intact(e)'
    BY <1>4 DEF Intact, Restore, disk
  <2>3. mark' = mark
    BY DEF Restore, disk
  <2> QED
    BY <1>2, <1>3, <1>6, <2>1, <2>2, <2>3 DEF Sound
<1>8. OneWorker' /\ WorkSound'
  BY <1>5, <1>7, OnlyOne DEF Restore, LockFree, Tidying
<1>9. Types'
  BY <1>5 DEF Types, Restore, disk, Becomes
<1> QED
  BY <1>8, <1>9, DiskKept DEF Restore

(* Begin: a new engine has no segments. *)
LEMMA BeginKeeps ==
    ASSUME RunnerInv, NEW r \in Runner, Begin(r)
    PROVE  RunnerInv'
<1> USE DEF RunnerInv
<1> DEFINE p == [at |-> "pickle", resume |-> proc[r].resume, engine |-> FreshEngine, file |-> proc[r].file]
<1>1. Becomes(r, p)
  BY FreshAccounts, GetsEngine DEF Begin, Phase, Working
<1>2. p.at = "pickle" /\ proc'[r] = p
  BY <1>1 DEF Becomes
<1>3. Sound(r)'
  <2>1. Intact(FreshEngine)'
    BY NoFiles DEF Intact, FreshEngine
  <2>2. ~(mark # NoMark)'
    BY DEF Begin, disk
  <2> QED
    BY <1>2, <2>1, <2>2, FreshAccounts DEF Sound
<1>4. OneWorker' /\ WorkSound'
  BY <1>1, <1>3, OnlyOne DEF Begin, LockFree, Tidying
<1>5. Types'
  BY <1>1 DEF Types, Begin, disk, Becomes
<1> QED
  BY <1>4, <1>5, DiskKept DEF Begin

(* A new segment disturbs none of those that an engine with its segments   *)
(* in place mentions.                                                      *)
LEMMA SegmentKeepsIntact ==
    ASSUME Types, NameLeft, NEW e \in Engine, Intact(e),
           NEW content \in SUBSET Decision, segments' = With(segments, NewFile, content)
    PROVE  /\ NewFile \notin DOMAIN e.segment_sha256
           /\ Intact(e)'
           /\ segments' \in Files(SUBSET Decision)
           /\ segments'[NewFile] = content
           /\ NewFile \in DOMAIN segments'
<1>1. NewFile \in File /\ NewFile \notin DOMAIN segments
  BY NewFileIsNew
<1>2. Added(segments', SUBSET Decision, segments, NewFile, content)
  BY <1>1, WithFile DEF Types
<1> QED
  BY <1>1, <1>2 DEF Intact, Added

(* SaveSegment and FlushFull: the ledger of the engine has one more file.  *)
LEMMA SegmentKeeps ==
    ASSUME RunnerInv, NEW r \in Runner, proc[r].at \in {"pickle", "flush"}, WriteSegment(r),
           UNCHANGED <<engines, mark, started, complete, lock, faults>>
    PROVE  RunnerInv'
<1> USE DEF RunnerInv
<1>1. lock = r /\ Sound(r) /\ proc[r].at \in Working
  BY DEF OneWorker, WorkSound, Working
<1>2. PICK e \in Engine : e = proc[r].engine
  BY <1>1 DEF Sound
<1>3. PICK f : f = NewFile
  OBVIOUS
<1>4. /\ Accounts(e) /\ Intact(e)
      /\ mark # NoMark => e.done >= mark.processed
      /\ e.pending \in SUBSET Decision
  BY <1>1, <1>2 DEF Sound, Engine
<1>5. /\ f \in File /\ f \notin DOMAIN e.segment_sha256 /\ Intact(e)'
      /\ segments' \in Files(SUBSET Decision)
      /\ segments'[f] = e.pending
      /\ f \in DOMAIN segments'
  BY <1>2, <1>3, <1>4, SegmentKeepsIntact, NewFileIsNew DEF WriteSegment
<1>6. PICK g : g = Flushed(e, f)
  OBVIOUS
<1>7. /\ g \in Engine /\ Accounts(g) /\ g.done = e.done
      /\ g.segment_sha256 = With(e.segment_sha256, f, e.pending)
  BY <1>4, <1>5, <1>6, FlushKeepsAccount
<1>8. Intact(g)'
  <2>1. Added(With(e.segment_sha256, f, e.pending), SUBSET Decision, e.segment_sha256, f, e.pending)
    BY <1>4, <1>5, WithFile DEF Engine
  <2> QED
    BY <1>5, <1>7, <2>1 DEF Intact, Added
<1> DEFINE p == [at |-> proc[r].at, resume |-> proc[r].resume, engine |-> g, file |-> proc[r].file]
<1>9. Becomes(r, p)
  BY <1>2, <1>3, <1>6, <1>7 DEF WriteSegment, Types, Process, Becomes
<1>10. Sound(r)'
  BY <1>4, <1>7, <1>8, <1>9 DEF Sound, Becomes
<1>11. OneWorker' /\ WorkSound'
  BY <1>1, <1>9, <1>10, OnlyOne DEF Working, Tidying
<1>12. Types'
  BY <1>5, <1>9 DEF Types, Becomes
<1>13. PicklesAccount' /\ ExportedOnce'
  BY DEF PicklesAccount, ExportedOnce
<1>14. MarkSound'
  <2>1. ASSUME mark # NoMark, complete = NoResult
        PROVE  Loadable'
    <3>1. PICK d : d = engines[mark.engine]
      OBVIOUS
    <3>2. mark.engine \in DOMAIN engines /\ Intact(d)
      BY <2>1, <3>1 DEF MarkSound, Loadable, Intact
    <3>3. d \in Engine
      BY <3>1, <3>2, FileContent DEF Types
    <3>4. Intact(d)'
      BY <1>2, <1>4, <3>2, <3>3, SegmentKeepsIntact DEF WriteSegment
    <3> QED
      BY <3>1, <3>2, <3>4 DEF Loadable, Intact
  <2> QED
    BY <2>1 DEF MarkSound
<1> QED
  BY <1>11, <1>12, <1>13, <1>14

(* SaveEngine: the pickle gets a name of its own, so that the one that is  *)
(* marked stays.                                                           *)
LEMMA SaveEngineKeeps ==
    ASSUME RunnerInv, NEW r \in Runner, SaveEngine(r)
    PROVE  RunnerInv'
<1> USE DEF RunnerInv
<1>1. lock = r /\ Sound(r)
  BY DEF SaveEngine, OneWorker, WorkSound, Working
<1>2. PICK e \in Engine : e = proc[r].engine
  BY <1>1 DEF Sound
<1>3. PICK f : f = NewFile
  OBVIOUS
<1>4. /\ Accounts(e) /\ Intact(e)
      /\ mark # NoMark => e.done >= mark.processed
  BY <1>1, <1>2 DEF Sound
<1>5. f \in File /\ f \notin DOMAIN engines /\ (mark # NoMark => f # mark.engine)
  BY <1>3, NewFileIsNew DEF SaveEngine
<1>6. Added(engines', Engine, engines, f, e)
  BY <1>2, <1>3, <1>5, WithFile DEF SaveEngine, Types
<1> DEFINE p == [at |-> "mark", resume |-> proc[r].resume, engine |-> proc[r].engine, file |-> f]
<1>7. Becomes(r, p)
  BY <1>3, <1>5, GetsFile DEF SaveEngine, Phase, Working
<1>8. segments' = segments /\ mark' = mark /\ complete' = complete /\ started' = started /\ lock' = lock
  BY DEF SaveEngine
<1>9. Sound(r)'
  <2>1. proc'[r].at = "mark" /\ proc'[r].engine = e /\ proc'[r].file = f
    BY <1>2, <1>7 DEF Becomes
  <2>2. Intact(e)'
    BY <1>4, <1>8 DEF Intact
  <2>3. f \in DOMAIN engines' /\ engines'[f] = e
    BY <1>6 DEF Added
  <2> QED
    BY <1>4, <1>5, <1>8, <2>1, <2>2, <2>3 DEF Sound
<1>10. OneWorker' /\ WorkSound'
  BY <1>1, <1>7, <1>8, <1>9, OnlyOne DEF Tidying
<1>11. Types'
  BY <1>6, <1>7, <1>8 DEF Types, Added, Becomes
<1>12. PicklesAccount'
  BY <1>4, <1>6 DEF PicklesAccount, Added
<1>13. MarkSound'
  BY <1>5, <1>6, <1>8 DEF MarkSound, Loadable, Added
<1>14. ExportedOnce'
  BY <1>8 DEF ExportedOnce
<1> QED
  BY <1>10, <1>11, <1>12, <1>13, <1>14

(* SaveMark: the new pickle has its segments. *)
LEMMA SaveMarkKeeps ==
    ASSUME RunnerInv, NEW r \in Runner, SaveMark(r)
    PROVE  RunnerInv'
<1> USE DEF RunnerInv
<1>1. lock = r /\ Sound(r)
  BY DEF SaveMark, OneWorker, WorkSound, Working
<1>2. PICK e \in Engine : e = proc[r].engine
  BY <1>1 DEF Sound
<1>3. PICK f : f = proc[r].file
  OBVIOUS
<1>4. /\ Accounts(e) /\ Intact(e)
      /\ f \in DOMAIN engines /\ engines[f] = e
      /\ mark # NoMark => f # mark.engine
  BY <1>1, <1>2, <1>3 DEF Sound, SaveMark
<1>5. f \in File /\ e.done \in 0 .. Batches
  BY <1>4, FileContent DEF Types, Engine
<1>6. mark' = [engine |-> f, processed |-> e.done] /\ mark' \in Mark /\ mark' # NoMark
  BY <1>2, <1>3, <1>5, RunnerAssumption DEF SaveMark, Mark
<1>7. PICK old : old = IF mark = NoMark THEN NoFile ELSE mark.engine
  OBVIOUS
<1>8. old \in File \cup {NoFile} /\ old # f
  BY <1>4, <1>5, <1>7, RunnerAssumption DEF Types, Mark
<1> DEFINE p == [at |-> "unlink", resume |-> proc[r].resume, engine |-> proc[r].engine, file |-> old]
<1>9. Becomes(r, p)
  BY <1>7, <1>8, GetsFile DEF SaveMark, Phase, Working
<1>10. engines' = engines /\ segments' = segments /\ complete' = complete /\ started' = started /\ lock' = lock
  BY DEF SaveMark
<1>11. Sound(r)'
  <2>1. proc'[r].at = "unlink" /\ proc'[r].engine = e /\ proc'[r].file = old
    BY <1>2, <1>9 DEF Becomes
  <2>2. Intact(e)'
    BY <1>4, <1>10 DEF Intact
  <2>3. e.done >= mark'.processed /\ old # mark'.engine
    BY <1>5, <1>6, <1>8
  <2> QED
    BY <1>4, <1>6, <2>1, <2>2, <2>3 DEF Sound
<1>12. OneWorker' /\ WorkSound'
  BY <1>1, <1>9, <1>10, <1>11, OnlyOne DEF Tidying
<1>13. Types'
  BY <1>6, <1>9, <1>10 DEF Types, Becomes
<1>14. PicklesAccount' /\ ExportedOnce'
  BY <1>10 DEF PicklesAccount, ExportedOnce
<1>15. MarkSound'
  BY <1>4, <1>6, <1>10 DEF MarkSound, Loadable, Intact
<1> QED
  BY <1>12, <1>13, <1>14, <1>15

(* SaveDone: the pickle that goes is not the one that is marked. *)
LEMMA SaveDoneKeeps ==
    ASSUME RunnerInv, NEW r \in Runner, SaveDone(r)
    PROVE  RunnerInv'
<1> USE DEF RunnerInv
<1>1. lock = r /\ Sound(r)
  BY DEF SaveDone, OneWorker, WorkSound, Working
<1>2. PICK f : f = proc[r].file
  OBVIOUS
<1>3. mark # NoMark /\ f # mark.engine
  BY <1>1, <1>2 DEF Sound, SaveDone
<1>4. Removed(engines', Engine, engines, f)
  BY <1>2, WithoutFile DEF SaveDone, Types
<1>5. PICK place \in {"start", "run"} : place = IF proc[r].engine.done = 0 THEN "start" ELSE "run"
  OBVIOUS
<1> DEFINE p == [at |-> place, resume |-> proc[r].resume, engine |-> proc[r].engine, file |-> NoFile]
<1>6. Becomes(r, p)
  BY <1>5, GetsFile DEF SaveDone, Phase, Working
<1>7. segments' = segments /\ mark' = mark /\ complete' = complete /\ started' = started /\ lock' = lock
  BY DEF SaveDone
<1>8. Sound(r)'
  <2>1. proc'[r].at = place /\ proc'[r].engine = proc[r].engine
    BY <1>6 DEF Becomes
  <2>2. Intact(proc[r].engine) => Intact(proc[r].engine)'
    BY <1>7, <2>1 DEF Intact
  <2> QED
    BY <1>1, <1>3, <1>7, <2>1, <2>2 DEF Sound
<1>9. OneWorker' /\ WorkSound'
  BY <1>1, <1>6, <1>7, <1>8, OnlyOne DEF Tidying
<1>10. Types'
  BY <1>4, <1>6, <1>7 DEF Types, Removed, Becomes
<1>11. PicklesAccount'
  BY <1>4 DEF PicklesAccount, Removed
<1>12. MarkSound'
  BY <1>3, <1>4, <1>7 DEF MarkSound, Loadable, Removed
<1>13. ExportedOnce'
  BY <1>7 DEF ExportedOnce
<1> QED
  BY <1>9, <1>10, <1>11, <1>12, <1>13

(* A runner that goes on with the engine it has, without touching what an  *)
(* engine depends on, is as sound as before.                               *)
LEMMA MovingOn ==
    ASSUME RunnerInv, NEW r \in Runner, proc[r].at \in Working, NEW place \in {"run", "pickle"},
           Goto(r, place), UNCHANGED <<engines, segments, mark, complete, lock>>
    PROVE  /\ Becomes(r, [at |-> place, resume |-> proc[r].resume,
                          engine |-> proc[r].engine, file |-> proc[r].file])
           /\ OneWorker' /\ WorkSound'
<1> USE DEF RunnerInv
<1>1. lock = r /\ Sound(r)
  BY DEF OneWorker, WorkSound
<1> DEFINE p == [at |-> place, resume |-> proc[r].resume,
                 engine |-> proc[r].engine, file |-> proc[r].file]
<1>2. Becomes(r, p)
  BY Goes DEF Phase, Working
<1>3. Sound(r)'
  <2>1. proc'[r].at = place /\ proc'[r].engine = proc[r].engine
    BY <1>2 DEF Becomes
  <2>2. Intact(proc[r].engine) => Intact(proc[r].engine)'
    BY <2>1 DEF Intact
  <2> QED
    BY <1>1, <2>1, <2>2 DEF Sound
<1>4. OneWorker' /\ WorkSound'
  BY <1>1, <1>2, <1>3, OnlyOne DEF Tidying
<1> QED
  BY <1>2, <1>4

LEMMA MarkStartedKeeps ==
    ASSUME RunnerInv, NEW r \in Runner, MarkStarted(r)
    PROVE  RunnerInv'
<1> USE DEF RunnerInv
<1>1. /\ Becomes(r, [at |-> "run", resume |-> proc[r].resume,
                     engine |-> proc[r].engine, file |-> proc[r].file])
      /\ OneWorker' /\ WorkSound'
  BY MovingOn DEF MarkStarted, Working
<1>2. mark # NoMark
  BY DEF MarkStarted, WorkSound, Sound, Working
<1>3. MarkSound'
  BY <1>2 DEF MarkStarted, MarkSound, Loadable
<1>4. Types'
  BY <1>1 DEF Types, MarkStarted, Becomes
<1>5. PicklesAccount' /\ ExportedOnce'
  BY DEF MarkStarted, PicklesAccount, ExportedOnce
<1> QED
  BY <1>1, <1>3, <1>4, <1>5

LEMMA CallbackKeeps ==
    ASSUME RunnerInv, NEW r \in Runner, Callback(r)
    PROVE  RunnerInv'
<1> USE DEF RunnerInv
<1>1. PICK place \in {"run", "pickle"} : Goto(r, place)
  BY DEF Callback
<1>2. /\ Becomes(r, [at |-> place, resume |-> proc[r].resume,
                     engine |-> proc[r].engine, file |-> proc[r].file])
      /\ OneWorker' /\ WorkSound'
  BY <1>1, MovingOn DEF Callback, Working, disk
<1>3. Types'
  BY <1>2 DEF Types, Callback, disk, Becomes
<1> QED
  BY <1>2, <1>3, DiskKept DEF Callback

(* Replay: the decision of the next batch is a new one. *)
LEMMA ReplayKeeps ==
    ASSUME RunnerInv, NEW r \in Runner, Replay(r)
    PROVE  RunnerInv'
<1> USE DEF RunnerInv
<1>1. lock = r /\ Sound(r)
  BY DEF Replay, OneWorker, WorkSound, Working
<1>2. PICK e \in Engine : e = proc[r].engine
  BY <1>1 DEF Sound
<1>3. PICK g : g = Advanced(e)
  OBVIOUS
<1>4. /\ Accounts(e) /\ Intact(e) /\ e.done < Batches
      /\ mark # NoMark => e.done >= mark.processed
  BY <1>1, <1>2 DEF Sound, Replay
<1>5. /\ g \in Engine /\ Accounts(g) /\ g.done = e.done + 1
      /\ g.segment_sha256 = e.segment_sha256
  BY <1>3, <1>4, AdvanceKeepsAccount
<1> DEFINE p == [at |-> "flush", resume |-> proc[r].resume, engine |-> g, file |-> proc[r].file]
<1>6. Becomes(r, p)
  <2>1. g = Advanced(proc[r].engine)
    BY <1>2, <1>3
  <2>2. proc' = [proc EXCEPT ![r].at = "flush", ![r].engine = g]
    BY <2>1 DEF Replay
  <2> QED
    BY <1>5, <2>2, GetsEngine DEF Phase, Working
<1>7. UNCHANGED <<engines, segments, mark, started, complete, lock>>
  BY DEF Replay, disk
<1>8. Sound(r)'
  <2>1. proc'[r].at = "flush" /\ proc'[r].engine = g
    BY <1>6 DEF Becomes
  <2>2. Intact(g)'
    BY <1>4, <1>5, <1>7 DEF Intact
  <2>3. mark # NoMark => g.done >= mark.processed
    BY <1>4, <1>5 DEF Types, Mark, Engine
  <2> QED
    BY <1>5, <1>7, <2>1, <2>2, <2>3 DEF Sound
<1>9. OneWorker' /\ WorkSound'
  BY <1>1, <1>6, <1>7, <1>8, OnlyOne DEF Tidying
<1>10. Types'
  BY <1>6, <1>7 DEF Types, Becomes
<1> QED
  BY <1>7, <1>9, <1>10, DiskKept DEF disk

(* Publish: the engine is complete and its segments are in place. *)
LEMMA PublishKeeps ==
    ASSUME RunnerInv, NEW r \in Runner, Publish(r)
    PROVE  RunnerInv'
<1> USE DEF RunnerInv
<1>1. lock = r /\ Sound(r)
  BY DEF Publish, OneWorker, WorkSound, Working
<1>2. /\ complete' # NoResult
      /\ ExportedOnce'
  <2>1. PICK e \in Engine : e = proc[r].engine
    BY <1>1 DEF Sound
  <2>2. PICK X : X = Exported(e)
    OBVIOUS
  <2>3. Accounts(e) /\ Intact(e) /\ e.done = Batches
    BY <1>1, <2>1 DEF Sound, Publish
  <2>4. /\ \A k \in 1 .. Batches : Cardinality({f \in DOMAIN X : k \in X[f]}) = 1
        /\ X # NoResult
    BY <2>2, <2>3, ExportOnce
  <2>5. complete' = X
    BY <2>1, <2>2 DEF Publish
  <2> QED
    BY <2>4, <2>5 DEF ExportedOnce
<1> DEFINE p == [at |-> "tidy segments", resume |-> proc[r].resume,
                 engine |-> proc[r].engine, file |-> proc[r].file]
<1>3. Becomes(r, p)
  BY Goes DEF Publish, Phase, Tidying
<1>4. OneWorker' /\ WorkSound'
  BY <1>1, <1>2, <1>3, OnlyOne DEF Publish, Working
<1>5. Types'
  BY <1>3 DEF Types, Publish, Becomes
<1>6. PicklesAccount'
  BY DEF Publish, PicklesAccount
<1>7. MarkSound'
  BY <1>2 DEF Publish, MarkSound
<1> QED
  BY <1>2, <1>4, <1>5, <1>6, <1>7

LEMMA PublishedAlreadyKeeps ==
    ASSUME RunnerInv, NEW r \in Runner, PublishedAlready(r)
    PROVE  RunnerInv'
<1> USE DEF RunnerInv
<1>1. lock = r
  BY DEF PublishedAlready, OneWorker, Working
<1>2. Becomes(r, Idle)
  BY GoesIdle DEF PublishedAlready
<1>3. OneWorker' /\ WorkSound'
  BY <1>1, <1>2, Bystander DEF PublishedAlready, Idle
<1>4. Types'
  BY <1>2 DEF Types, PublishedAlready, disk, Becomes
<1> QED
  BY <1>3, <1>4, DiskKept DEF PublishedAlready

(* TidySegments and TidyEngines: with the result there, nothing needs the  *)
(* checkpoint any more.                                                    *)
LEMMA TidySegmentsKeeps ==
    ASSUME RunnerInv, NEW r \in Runner, TidySegments(r)
    PROVE  RunnerInv'
<1> USE DEF RunnerInv
<1>1. lock = r /\ complete # NoResult
  BY DEF TidySegments, OneWorker, Tidying
<1> DEFINE p == [at |-> "tidy engines", resume |-> proc[r].resume,
                 engine |-> proc[r].engine, file |-> proc[r].file]
<1>2. Becomes(r, p)
  BY Goes DEF TidySegments, Phase, Tidying
<1>3. OneWorker' /\ WorkSound'
  BY <1>1, <1>2, OnlyOne DEF TidySegments, Working
<1>4. Types'
  BY <1>2, NoFiles DEF Types, TidySegments, Becomes
<1>5. PicklesAccount' /\ ExportedOnce'
  BY DEF TidySegments, PicklesAccount, ExportedOnce
<1>6. MarkSound'
  BY <1>1 DEF TidySegments, MarkSound
<1> QED
  BY <1>3, <1>4, <1>5, <1>6

LEMMA TidyEnginesKeeps ==
    ASSUME RunnerInv, NEW r \in Runner, TidyEngines(r)
    PROVE  RunnerInv'
<1> USE DEF RunnerInv
<1>1. lock = r /\ complete # NoResult
  BY DEF TidyEngines, OneWorker, Tidying
<1>2. Becomes(r, Idle)
  BY GoesIdle DEF TidyEngines
<1>3. OneWorker' /\ WorkSound'
  BY <1>1, <1>2, OnlyOne DEF TidyEngines, Idle, Working, Tidying
<1>4. Types'
  BY <1>2, NoFiles DEF Types, TidyEngines, Becomes
<1>5. PicklesAccount' /\ ExportedOnce'
  BY NoFiles DEF TidyEngines, PicklesAccount, ExportedOnce
<1>6. MarkSound'
  BY <1>1, NoFiles DEF TidyEngines, MarkSound
<1> QED
  BY <1>3, <1>4, <1>5, <1>6
-----------------------------------------------------------------------------
(* Theorems *)

(* A case nobody has worked on is in order. *)
LEMMA RunnerInit == Init => RunnerInv
<1> SUFFICES ASSUME Init PROVE RunnerInv
  OBVIOUS
<1>1. Types
  BY NoFiles DEF Init, Types, Process, Idle, Phase
<1>2. OneWorker /\ WorkSound
  BY DEF Init, OneWorker, WorkSound, Idle, Working, Tidying
<1>3. PicklesAccount /\ MarkSound /\ ExportedOnce
  BY NoFiles DEF Init, PicklesAccount, MarkSound, ExportedOnce
<1> QED
  BY <1>1, <1>2, <1>3 DEF RunnerInv

(* Every step, and every stutter, keeps a case in order. *)
LEMMA RunnerNext == RunnerInv /\ [Next]_vars => RunnerInv'
<1>1. ASSUME RunnerInv, UNCHANGED vars
      PROVE  RunnerInv'
  <2> USE <1>1
  <2>1. UNCHANGED disk /\ lock' = lock /\ proc' = proc
    BY DEF vars, disk
  <2>2. PicklesAccount' /\ MarkSound' /\ ExportedOnce'
    BY <2>1, DiskKept DEF RunnerInv
  <2>3. Types'
    BY <2>1 DEF RunnerInv, Types, disk
  <2>4. OneWorker'
    BY <2>1 DEF RunnerInv, OneWorker, disk
  <2>5. WorkSound'
    BY <2>1 DEF RunnerInv, WorkSound, Sound, Intact, disk
  <2> QED
    BY <2>2, <2>3, <2>4, <2>5 DEF RunnerInv
<1>2. ASSUME RunnerInv, NEW r \in Runner, Step(r)
      PROVE  RunnerInv'
  <2> USE <1>2
  <2>1. CASE Refused(r)  BY <2>1, RefusedKeeps
  <2>2. CASE Restore(r)  BY <2>2, RestoreKeeps
  <2>3. CASE Begin(r)  BY <2>3, BeginKeeps
  <2>4. CASE SaveSegment(r)  BY <2>4, SegmentKeeps DEF SaveSegment
  <2>5. CASE SaveEngine(r)  BY <2>5, SaveEngineKeeps
  <2>6. CASE SaveMark(r)  BY <2>6, SaveMarkKeeps
  <2>7. CASE SaveDone(r)  BY <2>7, SaveDoneKeeps
  <2>8. CASE MarkStarted(r)  BY <2>8, MarkStartedKeeps
  <2>9. CASE Replay(r)  BY <2>9, ReplayKeeps
  <2>10. CASE FlushFull(r)  BY <2>10, SegmentKeeps DEF FlushFull
  <2>11. CASE Callback(r)  BY <2>11, CallbackKeeps
  <2>12. CASE Publish(r)  BY <2>12, PublishKeeps
  <2>13. CASE PublishedAlready(r)  BY <2>13, PublishedAlreadyKeeps
  <2>14. CASE TidySegments(r)  BY <2>14, TidySegmentsKeeps
  <2>15. CASE TidyEngines(r)  BY <2>15, TidyEnginesKeeps
  <2> QED
    BY <1>2, <2>1, <2>2, <2>3, <2>4, <2>5, <2>6, <2>7, <2>8, <2>9, <2>10, <2>11, <2>12,
       <2>13, <2>14, <2>15 DEF Step
<1>3. ASSUME RunnerInv, NEW r \in Runner, SkipComplete(r)
      PROVE  RunnerInv'
  BY <1>1, <1>3 DEF SkipComplete
<1> QED
  BY <1>1, <1>2, <1>3, LaunchKeeps, AbortKeeps DEF Next

(* However many runners are started and killed on a case, and wherever,    *)
(* the engines and segments on disk and in memory fit each other.          *)
THEOREM RunnerAlwaysSound == Spec => []RunnerInv
BY RunnerInit, RunnerNext, PTL DEF Spec

(* A case without a result that nobody works on is taken up by --resume:   *)
(* the engine its resume.json names is there, with all of its segments.    *)
THEOREM AlwaysResumable == Spec => []ResumeAccepted
<1>1. RunnerInv => ResumeAccepted
  BY DEF RunnerInv, MarkSound, ResumeAccepted, Accepts
<1> QED
  BY <1>1, RunnerAlwaysSound, PTL

(* A published result has the decision of every batch exactly once. *)
THEOREM AlwaysExportedOnce == Spec => []ExportedOnce
<1>1. RunnerInv => ExportedOnce
  BY DEF RunnerInv
<1> QED
  BY <1>1, RunnerAlwaysSound, PTL

(* The checkpoint of a case never goes back, and its result is final. *)
THEOREM CheckpointNeverGoesBack == Spec => NeverReplayed
<1> DEFINE Forward ==
        /\ mark # NoMark => mark' # NoMark /\ mark'.processed >= mark.processed
        /\ complete # NoResult => complete' = complete
<1>1. ASSUME RunnerInv, UNCHANGED <<mark, complete>>
      PROVE  Forward
  BY <1>1 DEF RunnerInv, Types, Mark
<1>2. ASSUME RunnerInv, NEW r \in Runner, SaveMark(r)
      PROVE  Forward
  <2>1. Sound(r) /\ proc[r].at = "mark"
    BY <1>2 DEF RunnerInv, WorkSound, SaveMark, Working
  <2>2. mark' = [engine |-> proc[r].file, processed |-> proc[r].engine.done] /\ mark' \in Mark
    <3>1. proc[r].file \in File /\ proc[r].engine.done \in 0 .. Batches
      BY <1>2, <2>1, FileContent DEF RunnerInv, Types, Sound, Engine
    <3> QED
      BY <1>2, <3>1 DEF SaveMark, Mark
  <2>3. mark # NoMark => mark'.processed >= mark.processed
    BY <2>1, <2>2 DEF Sound
  <2>4. mark' # NoMark
    BY <2>2, RunnerAssumption DEF Mark
  <2> QED
    BY <1>2, <2>3, <2>4 DEF SaveMark
<1>3. ASSUME RunnerInv, NEW r \in Runner, Publish(r)
      PROVE  Forward
  <2>1. mark' = mark /\ complete = NoResult
    BY <1>3 DEF Publish
  <2>2. mark # NoMark => mark.processed >= mark.processed
    BY <1>3 DEF RunnerInv, Types, Mark
  <2> QED
    BY <2>1, <2>2
<1>4. RunnerInv /\ [Next]_vars => Forward
  <2>1. ASSUME NEW r \in Runner,
               Step(r) \/ SkipComplete(r) \/ Abort(r) \/ \E resume \in BOOLEAN : Launch(r, resume)
        PROVE  SaveMark(r) \/ Publish(r) \/ UNCHANGED <<mark, complete>>
    BY <2>1 DEF Step, SkipComplete, Abort, Launch, Refused, Restore, Begin, SaveSegment,
                SaveEngine, SaveDone, MarkStarted, Replay, FlushFull, Callback,
                PublishedAlready, TidySegments, TidyEngines, disk, vars
  <2>2. ASSUME [Next]_vars
        PROVE  UNCHANGED <<mark, complete>> \/ \E r \in Runner : SaveMark(r) \/ Publish(r)
    BY <2>1, <2>2 DEF Next, vars
  <2> QED
    BY <1>1, <1>2, <1>3, <2>2
<1>5. [][Forward]_vars => NeverReplayed
  BY DEF NeverReplayed
<1> QED
  BY <1>4, <1>5, RunnerAlwaysSound, PTL DEF Spec
=============================================================================

---------------------------- MODULE ReleaseProofs ----------------------------
(***************************************************************************)
(* Theorems about ReleasePointer: types, PointerResolves,                  *)
(* ServedReleaseStays and PublishedAsGated, for any sets of releases,      *)
(* publishers and workers and any number of switches and faults.           *)
(***************************************************************************)
EXTENDS ReleasePointer, TLAPS

-----------------------------------------------------------------------------
(* The inductive invariant *)

(* What the pointer names is in the root with the manifest it names.       *)
Named ==
    \A e \in {pointer.active, pointer.fallback} \ {None} :
        Present(e.release) /\ dir[e.release].binding = e.binding

BrokenAreHurt == \A r \in Releases : dir[r].state = "broken" => hurt[r] = "hurt"

(* The active release is never its own fallback.                           *)
TwoReleases ==
    pointer.active # None /\ pointer.fallback # None
        => pointer.active.release # pointer.fallback.release

LockHeld ==
    /\ \A p \in Publishers : job[p].phase \in {"switch", "clean"} => lock = p
    /\ \A w \in Workers : worker[w].phase = "quarantine" => lock = w

(* What a publication may remove is not named by the pointer.              *)
JobInOrder(x, ptr) ==
    /\ x.phase # "idle" => x.release \in Releases
    /\ x.drop # {} => x.phase = "clean"
    /\ x.drop \cap Protected(ptr) = {}
    /\ x.made => x.phase \in {"switch", "clean"}
    /\ x.made /\ x.phase = "switch" => x.release \notin Protected(ptr)

(* What a worker has read is the pointer, if the generation is the same.   *)
(* It quarantines what it found broken and the pointer names no more.      *)
SeenInOrder(x, ptr, harm) ==
    /\ x.phase \in {"validate", "rollback"} =>
          /\ x.seen.generation <= ptr.generation
          /\ x.seen.generation = ptr.generation => x.seen = ptr
    /\ x.phase = "rollback" =>
          /\ x.seen.active # None
          /\ x.seen.generation = ptr.generation => harm[x.seen.active.release] # "none"
    /\ x.phase = "quarantine" =>
          /\ x.seen.active # None
          /\ x.seen.active.release \notin Protected(ptr)

(* What a worker opened is active, or the fallback one switch later.       *)
EntryKept(x, ptr, harm) ==
    /\ x.phase \in {"open", "serving"} =>
          /\ x.since <= ptr.generation
          /\ x.since = ptr.generation => x.entry = ptr.active
          /\ x.since + 1 = ptr.generation /\ x.entry # None =>
                \/ x.entry \in {ptr.active, ptr.fallback}
                \/ harm[x.entry.release] # "none"
    /\ x.phase = "serving" => x.entry # None

WorkerInOrder(x, ptr, harm) == SeenInOrder(x, ptr, harm) /\ EntryKept(x, ptr, harm)

RInv ==
    /\ ReleaseTypeOK
    /\ Named /\ BrokenAreHurt /\ TwoReleases /\ LockHeld
    /\ \A p \in Publishers : JobInOrder(job[p], pointer)
    /\ \A w \in Workers : WorkerInOrder(worker[w], pointer, hurt)

(* The binding a Web publication verified stays the candidate's, its       *)
(* copy's, and the one of the release it is about to switch to; what it is *)
(* about to remove is there.  (st and d stand for staged and dir.)         *)
GatedJob(p, x, st, d) ==
    LET once == st[x.release].writes <= 1
    IN  /\ x.phase \in {"seal", "write", "verify", "copy"} => p \in Web
        /\ x.phase \in {"seal", "write", "verify", "copy", "wait", "switch"} /\ p \in Web
              => x.binding \in Bindings
        /\ x.phase \in {"copy", "wait", "switch"} /\ p \in Web =>
              st[x.release].writes > 0 /\ (once => st[x.release].binding = x.binding)
        /\ x.copied # None => p \in Web /\ x.phase \in {"wait", "switch", "clean"}
        /\ x.incoming <=> x.copied # None /\ x.phase = "wait"
        /\ x.phase \in {"wait", "switch"} /\ x.copied # None /\ once => x.copied = x.binding
        /\ x.phase = "switch" /\ x.copied # None =>
              /\ d[x.release].state # "absent"
              /\ once => d[x.release].binding = x.binding
        /\ \A r \in x.drop : d[r].state # "absent"

(* Nobody else writes to the release the CLI does not build.               *)
GatedRelease(r) ==
    Present(r) => /\ staged[r].writes > 0
                  /\ staged[r].writes <= 1 => dir[r].binding = staged[r].binding

Gated ==
    /\ \A r \in Releases : staged[r].writes = 0 <=> staged[r].binding = None
    /\ \A r \in Releases \ Built : GatedRelease(r)
    /\ \A p \in Publishers : GatedJob(p, job[p], staged, dir)

-----------------------------------------------------------------------------
(* Types *)

(* The idle job and the worker that is down have their types.              *)
LEMMA Constants == IdleJob \in Job /\ DownWorker \in Worker /\ NoDirectory \in Directory
                   /\ NoPointer \in Pointer
  BY DEF IdleJob, Job, JobPhase, DownWorker, Worker, WorkerPhase, NoDirectory, Directory,
         NoPointer, Pointer

(* Moving a job or a worker on keeps its type.                             *)
LEMMA MovesTyped ==
    ASSUME ReleaseTypeOK
    PROVE  /\ \A p, ph : ph \in JobPhase /\ JobGoes(p, ph) => job' \in [Publishers -> Job]
           /\ \A p : JobEnds(p) => job' \in [Publishers -> Job]
           /\ \A w, ph : ph \in WorkerPhase /\ WorkerGoes(w, ph) => worker' \in [Workers -> Worker]
           /\ \A w : RunsWithoutRag(w) => worker' \in [Workers -> Worker]
           /\ \A r : Hurts(r) \/ Mends(r) => hurt' \in [Releases -> Harm]
  <1>1. ASSUME NEW p, NEW ph, ph \in JobPhase, JobGoes(p, ph) PROVE job' \in [Publishers -> Job]
    <2>1. \A x \in Job : [x EXCEPT !.phase = ph] \in Job
      BY <1>1 DEF Job
    <2> QED BY <1>1, <2>1 DEF ReleaseTypeOK, JobGoes
  <1>2. ASSUME NEW p, JobEnds(p) PROVE job' \in [Publishers -> Job]
    BY <1>2, Constants DEF ReleaseTypeOK, JobEnds
  <1>3. ASSUME NEW w, NEW ph, ph \in WorkerPhase, WorkerGoes(w, ph)
        PROVE  worker' \in [Workers -> Worker]
    <2>1. \A x \in Worker : [x EXCEPT !.phase = ph] \in Worker
      BY <1>3 DEF Worker
    <2> QED BY <1>3, <2>1 DEF ReleaseTypeOK, WorkerGoes
  <1>4. ASSUME NEW w, RunsWithoutRag(w) PROVE worker' \in [Workers -> Worker]
    <2>1. [DownWorker EXCEPT !.phase = "unavailable"] \in Worker
      BY Constants DEF Worker, WorkerPhase
    <2> QED BY <1>4, <2>1 DEF ReleaseTypeOK, RunsWithoutRag
  <1>5. ASSUME NEW r, Hurts(r) \/ Mends(r) PROVE hurt' \in [Releases -> Harm]
    BY <1>5 DEF ReleaseTypeOK, Hurts, Mends, Harm
  <1> QED BY <1>1, <1>2, <1>3, <1>4, <1>5

(* A directory that is made, removed or broken keeps its type.             *)
LEMMA DirectoriesTyped ==
    ASSUME ReleaseTypeOK
    PROVE  /\ \A r : [dir EXCEPT ![r] = NoDirectory] \in [Releases -> Directory]
           /\ \A r : [dir EXCEPT ![r].state = "broken"] \in [Releases -> Directory]
           /\ \A r, b : b \in Bindings \cup {None} =>
                 [dir EXCEPT ![r] = [state |-> "whole", binding |-> b]] \in [Releases -> Directory]
  <1>1. \A x \in Directory : [x EXCEPT !.state = "broken"] \in Directory
    BY DEF Directory
  <1>2. \A b \in Bindings \cup {None} : [state |-> "whole", binding |-> b] \in Directory
    BY DEF Directory
  <1> QED BY <1>1, <1>2, Constants DEF ReleaseTypeOK

-----------------------------------------------------------------------------
(* Steps that leave the pointer alone *)

(* If what the pointer names is not touched, nothing damaged is forgotten, *)
(* and the jobs and workers that move end up in order, RInv is preserved.  *)
LEMMA SamePointer ==
    ASSUME RInv, ReleaseTypeOK', UNCHANGED pointer, BrokenAreHurt', LockHeld',
           \A r \in Protected(pointer) \ {None} :
              dir'[r].state # "absent" /\ dir'[r].binding = dir[r].binding,
           \A r \in Releases : hurt[r] # "none" => hurt'[r] # "none",
           \A p \in Publishers : JobInOrder(job'[p], pointer'),
           \A w \in Workers : \/ worker'[w] = worker[w]
                              \/ WorkerInOrder(worker'[w], pointer', hurt')
    PROVE  RInv'
  <1>1. Named'
    <2>1. ASSUME NEW e \in {pointer.active, pointer.fallback} \ {None}
          PROVE  e.release \in Protected(pointer) \ {None}
      BY ReleaseAssumption DEF RInv, ReleaseTypeOK, Pointer, Entry, Protected, IdOf
    <2>2. ASSUME NEW e \in {pointer.active, pointer.fallback} \ {None}
          PROVE  dir'[e.release].state # "absent" /\ dir'[e.release].binding = e.binding
      BY <2>1 DEF RInv, Named
    <2> QED BY <2>2 DEF Named, Present
  <1>2. TwoReleases'
    BY DEF RInv, TwoReleases
  <1>3. \A p \in Publishers : JobInOrder(job[p], pointer)'
    BY DEF JobInOrder, Protected
  <1>4. ASSUME NEW w \in Workers PROVE WorkerInOrder(worker[w], pointer, hurt)'
    <2>1. CASE worker'[w] = worker[w]
      <3>1. worker[w] \in Worker /\ WorkerInOrder(worker[w], pointer, hurt)
        BY DEF RInv, ReleaseTypeOK
      <3>2. /\ worker[w].seen.active # None => worker[w].seen.active.release \in Releases
            /\ worker[w].entry # None => worker[w].entry.release \in Releases
        BY <3>1 DEF Worker, Pointer, Entry
      <3>3. SeenInOrder(worker[w], pointer, hurt)'
        BY <2>1, <3>1, <3>2 DEF WorkerInOrder, SeenInOrder, Protected
      <3>4. EntryKept(worker[w], pointer, hurt)'
        BY <2>1, <3>1, <3>2 DEF WorkerInOrder, EntryKept
      <3> QED BY <3>3, <3>4 DEF WorkerInOrder
    <2>2. CASE WorkerInOrder(worker'[w], pointer', hurt')
      BY <2>2 DEF WorkerInOrder, SeenInOrder, EntryKept
    <2> QED BY <2>1, <2>2
  <1> QED BY <1>1, <1>2, <1>3, <1>4 DEF RInv

(* A job that moves on by itself, into no phase under the lock, leaves     *)
(* RInv alone.                                                             *)
LEMMA JobMoves ==
    ASSUME RInv, NEW p \in Publishers, NEW x \in Job, JobInOrder(x, pointer),
           x.phase \notin {"switch", "clean"},
           job' = [job EXCEPT ![p] = x],
           staged' \in [Releases -> Candidate], faults' \in Nat,
           UNCHANGED <<pointer, dir, hurt, lock, worker>>
    PROVE  RInv'
  <1>1. ReleaseTypeOK'
    BY DEF RInv, ReleaseTypeOK
  <1>2. BrokenAreHurt'
    BY DEF RInv, BrokenAreHurt
  <1>3. LockHeld'
    BY DEF RInv, LockHeld, ReleaseTypeOK
  <1>4. \A r \in Protected(pointer) \ {None} : dir'[r].state # "absent" /\ dir'[r].binding = dir[r].binding
    BY DEF RInv, Named, Present, Protected, IdOf
  <1>5. \A q \in Publishers : JobInOrder(job'[q], pointer')
    BY DEF RInv, ReleaseTypeOK
  <1> QED BY <1>1, <1>2, <1>3, <1>4, <1>5, SamePointer DEF RInv

(* So does a worker that moves on by itself.                               *)
LEMMA WorkerMoves ==
    ASSUME RInv, NEW w \in Workers, NEW x \in Worker, WorkerInOrder(x, pointer, hurt),
           x.phase # "quarantine",
           worker' = [worker EXCEPT ![w] = x],
           UNCHANGED <<pointer, filesVars, lock, job, faults>>
    PROVE  RInv'
  <1>1. ReleaseTypeOK'
    BY DEF RInv, ReleaseTypeOK, filesVars
  <1>2. BrokenAreHurt'
    BY DEF RInv, BrokenAreHurt, filesVars
  <1>3. LockHeld'
    BY DEF RInv, LockHeld, ReleaseTypeOK
  <1>4. \A r \in Protected(pointer) \ {None} : dir'[r].state # "absent" /\ dir'[r].binding = dir[r].binding
    BY DEF RInv, Named, Present, Protected, IdOf, filesVars
  <1>5. WorkerInOrder(x, pointer', hurt')
    BY DEF WorkerInOrder, SeenInOrder, EntryKept, Protected, filesVars
  <1>6. \A v \in Workers : \/ worker'[v] = worker[v]
                           \/ WorkerInOrder(worker'[v], pointer', hurt')
    BY <1>5 DEF RInv, ReleaseTypeOK, WorkerInOrder, SeenInOrder, EntryKept
  <1> QED BY <1>1, <1>2, <1>3, <1>4, <1>6, SamePointer DEF RInv, filesVars

-----------------------------------------------------------------------------
(* The steps, one by one *)

(* Everything a publication or rollback does before the lock.              *)
LEMMA BeforeTheLock ==
    ASSUME RInv, NEW p \in Publishers, NEW r \in Releases,
           \/ \E b \in Bindings : CheckRelease(p, r, b)
           \/ PublishCandidate(p, r) \/ AskRollback(p)
           \/ SealReads(p) \/ SealWrites(p) \/ Verify(p) \/ Materialize(p)
    PROVE  RInv'
  <1>1. /\ pointer \in Pointer /\ dir \in [Releases -> Directory] /\ faults \in Nat
        /\ staged \in [Releases -> Candidate] /\ job \in [Publishers -> Job]
        /\ job[p] \in Job /\ JobInOrder(job[p], pointer)
        /\ IdleJob \in Job /\ JobInOrder(IdleJob, pointer)
    BY Constants DEF RInv, ReleaseTypeOK, IdleJob, JobInOrder
  <1>2. \A g \in {None, pointer.generation}, b \in Bindings :
           LET x == [IdleJob EXCEPT !.phase = "seal", !.release = r, !.binding = b, !.expected = g]
           IN  x \in Job /\ JobInOrder(x, pointer)
    <2>1. TAKE g \in {None, pointer.generation}, b \in Bindings
    <2>2. PICK x : x = [IdleJob EXCEPT !.phase = "seal", !.release = r, !.binding = b,
                                       !.expected = g]
      OBVIOUS
    <2>3. g \in Nat \cup {None} /\ b \in Bindings \cup {None}
      BY <1>1 DEF Pointer
    <2>4. x = [phase |-> "seal", release |-> r, binding |-> b, expected |-> g,
               incoming |-> FALSE, copied |-> None, made |-> FALSE, drop |-> {}]
      BY <2>2 DEF IdleJob
    <2>5. x \in Job
      BY <2>3, <2>4 DEF Job, JobPhase
    <2>6. JobInOrder(x, pointer)
      BY <2>4 DEF JobInOrder
    <2> QED BY <2>2, <2>5, <2>6
  <1>3. LET x == [IdleJob EXCEPT !.phase = "wait", !.release = r]
        IN  x \in Job /\ JobInOrder(x, pointer)
    BY <1>1 DEF Job, JobPhase, IdleJob, JobInOrder
  <1>4. ASSUME job[p].phase \in {"seal", "write", "verify", "copy"},
               NEW ph \in {"write", "verify", "copy", "wait"}
        PROVE  LET x == [job[p] EXCEPT !.phase = ph] IN x \in Job /\ JobInOrder(x, pointer)
    BY <1>1, <1>4 DEF Job, JobPhase, JobInOrder
  <1>5. CASE \E b \in Bindings : CheckRelease(p, r, b)
    BY <1>1, <1>2, <1>5, JobMoves DEF CheckRelease, filesVars, IdleJob
  <1>6. CASE PublishCandidate(p, r)
    BY <1>1, <1>3, <1>6, JobMoves DEF PublishCandidate, filesVars, IdleJob
  <1>7. CASE AskRollback(p)
    <2>1. PICK g \in {None, pointer.generation} :
             job' = [job EXCEPT ![p] = [IdleJob EXCEPT !.phase = "rollback", !.expected = g,
                                                      !.release = pointer.fallback.release]]
      BY <1>7 DEF AskRollback
    <2> DEFINE x == [IdleJob EXCEPT !.phase = "rollback", !.expected = g,
                                    !.release = pointer.fallback.release]
    <2>2. pointer.fallback.release \in Releases
      BY <1>1, <1>7 DEF AskRollback, Pointer, Entry
    <2>3. x \in Job /\ JobInOrder(x, pointer)
      BY <1>1, <2>2 DEF Job, JobPhase, Pointer, IdleJob, JobInOrder
    <2>4. x.phase = "rollback"
      BY DEF IdleJob
    <2> HIDE DEF x
    <2> QED BY <1>1, <1>7, <2>1, <2>3, <2>4, JobMoves DEF AskRollback, filesVars, x
  <1>8. ASSUME NEW ph \in {"write", "verify", "copy", "wait"}, JobGoes(p, ph) \/ JobEnds(p),
               job[p].phase \in {"seal", "write", "verify", "copy"},
               staged' \in [Releases -> Candidate],
               UNCHANGED <<pointer, dir, hurt, lock, worker, faults>>
        PROVE  RInv'
    <2>1. CASE JobEnds(p)
      BY <1>1, <1>8, <2>1, JobMoves DEF JobEnds, IdleJob
    <2>2. CASE JobGoes(p, ph)
      <3> DEFINE x == [job[p] EXCEPT !.phase = ph]
      <3>1. x \in Job /\ JobInOrder(x, pointer) /\ x.phase = ph
        BY <1>1, <1>4, <1>8 DEF Job
      <3>2. job' = [job EXCEPT ![p] = x]
        BY <1>1, <2>2 DEF JobGoes
      <3> HIDE DEF x
      <3> QED BY <1>1, <1>8, <3>1, <3>2, JobMoves
    <2> QED BY <1>8, <2>1, <2>2
  <1>9. CASE SealReads(p)
    BY <1>1, <1>8, <1>9 DEF SealReads, filesVars
  <1>10. CASE SealWrites(p)
    <2>1. \A x \in Candidate : [binding |-> job[p].binding, writes |-> x.writes + 1] \in Candidate
      BY <1>1 DEF Candidate, Job
    <2>2. staged' \in [Releases -> Candidate]
      BY <1>1, <1>10, <2>1 DEF SealWrites
    <2> QED BY <1>1, <1>8, <1>10, <2>2 DEF SealWrites
  <1>11. CASE Verify(p)
    BY <1>1, <1>8, <1>11 DEF Verify, filesVars
  <1>12. CASE Materialize(p)
    <2> DEFINE x == [job[p] EXCEPT !.phase = "wait", !.incoming = TRUE,
                                   !.copied = staged[job[p].release].binding]
    <2>1. CASE JobGoes(p, "wait") \/ JobEnds(p)
      BY <1>1, <1>8, <1>12, <2>1 DEF Materialize, filesVars
    <2>2. CASE job' = [job EXCEPT ![p] = x]
      <3>1. job[p].release \in Releases
        BY <1>1, <1>12 DEF JobInOrder, Materialize
      <3>2. x \in Job /\ x.phase = "wait"
        BY <1>1, <3>1 DEF Job, JobPhase, Candidate
      <3>3. JobInOrder(x, pointer)
        BY <1>1, <1>12 DEF Job, JobInOrder, Materialize
      <3> HIDE DEF x
      <3> QED BY <1>1, <1>12, <2>2, <3>2, <3>3, JobMoves DEF Materialize, filesVars
    <2> QED BY <1>1, <1>12, <2>1, <2>2 DEF Materialize
  <1> QED BY <1>5, <1>6, <1>7, <1>9, <1>10, <1>11, <1>12

(* What the pointer names and is not known to be hurt is whole.            *)
LEMMA NamedIsValid ==
    ASSUME RInv, NEW e \in {pointer.active, pointer.fallback} \ {None},
           hurt[e.release] # "hurt"
    PROVE  Valid(e)
  <1>1. /\ e \in Entry
        /\ dir[e.release] \in Directory
        /\ dir[e.release].state # "absent" /\ dir[e.release].binding = e.binding
    BY DEF RInv, ReleaseTypeOK, Pointer, Entry, Named, Present
  <1>2. dir[e.release].state # "broken"
    BY <1>1 DEF RInv, BrokenAreHurt, Entry
  <1> QED BY <1>1, <1>2 DEF Valid, Directory

(* Everything a worker does without the lock.                              *)
LEMMA WorkerAlone ==
    ASSUME RInv, NEW w \in Workers,
           \/ Start(w) \/ Inspect(w) \/ Recover(w) \/ ValidateActive(w)
           \/ Open(w) \/ Serve(w) \/ Restart(w)
    PROVE  RInv'
  <1>1. /\ pointer \in Pointer /\ worker \in [Workers -> Worker] /\ worker[w] \in Worker
        /\ WorkerInOrder(worker[w], pointer, hurt)
        /\ DownWorker \in Worker /\ DownWorker.seen = NoPointer /\ DownWorker.phase = "down"
    BY Constants DEF RInv, ReleaseTypeOK, DownWorker
  <1> DEFINE At(ph, e) == [phase |-> ph, entry |-> e, seen |-> NoPointer, since |-> 0]
  <1>2. ASSUME NEW ph \in {"down", "check", "ready", "recover", "unavailable"},
               NEW e \in Entry \cup {None}
        PROVE  At(ph, e) \in Worker /\ WorkerInOrder(At(ph, e), pointer, hurt)
               /\ At(ph, e).phase # "quarantine"
    BY Constants DEF Worker, WorkerPhase, WorkerInOrder, SeenInOrder, EntryKept
  <1>3. \A ph : [DownWorker EXCEPT !.phase = ph] = At(ph, None)
    BY DEF DownWorker
  <1>4. DownWorker = At("down", None)
    BY DEF DownWorker
  <1> HIDE DEF At
  <1>5. CASE Start(w)
    <2> DEFINE x == [DownWorker EXCEPT !.phase = "check", !.entry = pointer.active]
    <2>1. x \in Worker /\ x.phase = "check"
      BY <1>1 DEF Worker, WorkerPhase, Pointer
    <2>2. WorkerInOrder(x, pointer, hurt)
      BY <2>1 DEF WorkerInOrder, SeenInOrder, EntryKept
    <2>3. worker' = [worker EXCEPT ![w] = x]
      BY <1>5 DEF Start
    <2> HIDE DEF x
    <2> QED BY <1>5, <2>1, <2>2, <2>3, WorkerMoves DEF Start
  <1>6. CASE Inspect(w)
    <2>1. PICK ph \in {"ready", "recover"} : worker' = [worker EXCEPT ![w] = At(ph, None)]
      BY <1>3, <1>6 DEF Inspect
    <2>2. At(ph, None) \in Worker /\ WorkerInOrder(At(ph, None), pointer, hurt)
          /\ At(ph, None).phase # "quarantine"
      BY <1>2
    <2> QED BY <1>6, <2>1, <2>2, WorkerMoves DEF Inspect
  <1>7. CASE Recover(w)
    <2> DEFINE x == [worker[w] EXCEPT !.phase = "validate", !.seen = pointer]
    <2>1. x \in Worker /\ x.phase = "validate"
      BY <1>1 DEF Worker, WorkerPhase
    <2>2. WorkerInOrder(x, pointer, hurt)
      BY <1>1 DEF Worker, Pointer, WorkerInOrder, SeenInOrder, EntryKept
    <2>3. worker' = [worker EXCEPT ![w] = x]
      BY <1>7 DEF Recover
    <2> HIDE DEF x
    <2> QED BY <1>7, <2>1, <2>2, <2>3, WorkerMoves DEF Recover
  <1>8. CASE ValidateActive(w)
    <2>1. CASE RunsWithoutRag(w)
      BY <1>2, <1>3, <1>8, <2>1, WorkerMoves DEF ValidateActive, RunsWithoutRag
    <2>2. CASE WorkerGoes(w, "rollback") /\ worker[w].seen.active # None
               /\ ~Valid(worker[w].seen.active)
      <3> DEFINE x == [worker[w] EXCEPT !.phase = "rollback"]
      <3>1. x \in Worker /\ x.phase = "rollback"
        BY <1>1 DEF Worker, WorkerPhase
      <3>2. /\ worker[w].seen.generation <= pointer.generation
            /\ worker[w].seen.generation = pointer.generation => worker[w].seen = pointer
        BY <1>1, <1>8 DEF WorkerInOrder, SeenInOrder, ValidateActive
      <3>3. worker[w].seen.generation = pointer.generation
               => hurt[worker[w].seen.active.release] # "none"
        BY <2>2, <3>2, NamedIsValid
      <3>4. WorkerInOrder(x, pointer, hurt)
        BY <1>1, <2>2, <3>2, <3>3 DEF Worker, WorkerInOrder, SeenInOrder, EntryKept
      <3>5. worker' = [worker EXCEPT ![w] = x]
        BY <2>2 DEF WorkerGoes
      <3> HIDE DEF x
      <3> QED BY <1>8, <3>1, <3>4, <3>5, WorkerMoves DEF ValidateActive
    <2> QED BY <1>8, <2>1, <2>2 DEF ValidateActive
  <1>9. CASE Open(w)
    <2> DEFINE x == [worker[w] EXCEPT !.phase = "open", !.entry = pointer.active,
                                      !.since = pointer.generation]
    <2>1. x \in Worker /\ x.phase = "open"
      BY <1>1 DEF Worker, WorkerPhase, Pointer
    <2>2. WorkerInOrder(x, pointer, hurt)
      BY <1>1 DEF Worker, Pointer, WorkerInOrder, SeenInOrder, EntryKept
    <2>3. worker' = [worker EXCEPT ![w] = x]
      BY <1>9 DEF Open
    <2> HIDE DEF x
    <2> QED BY <1>9, <2>1, <2>2, <2>3, WorkerMoves DEF Open
  <1>10. CASE Serve(w)
    <2>1. CASE worker' = [worker EXCEPT ![w] = [DownWorker EXCEPT !.phase = "ready"]]
      BY <1>2, <1>3, <1>10, <2>1, WorkerMoves DEF Serve
    <2>2. CASE Valid(worker[w].entry) /\ worker' = [worker EXCEPT ![w].phase = "serving"]
      <3> DEFINE x == [worker[w] EXCEPT !.phase = "serving"]
      <3>1. x \in Worker /\ x.phase = "serving"
        BY <1>1 DEF Worker, WorkerPhase
      <3>2. WorkerInOrder(x, pointer, hurt)
        BY <1>1, <1>10, <2>2 DEF Worker, Serve, Valid, WorkerInOrder, SeenInOrder, EntryKept
      <3>3. worker' = [worker EXCEPT ![w] = x]
        BY <2>2
      <3> HIDE DEF x
      <3> QED BY <1>10, <3>1, <3>2, <3>3, WorkerMoves DEF Serve
    <2> QED BY <1>10, <2>1, <2>2 DEF Serve
  <1>11. CASE Restart(w)
    BY <1>2, <1>4, <1>11, WorkerMoves DEF Restart
  <1> QED BY <1>5, <1>6, <1>7, <1>8, <1>9, <1>10, <1>11

(* A directory that the pointer does not name may be made, removed or      *)
(* replaced, and any directory may break, as long as hurt remembers it.    *)
LEMMA RootChanges ==
    ASSUME RInv, NEW r \in Releases,
           \/ /\ dir' = [dir EXCEPT ![r].state = "broken"]
              /\ Present(r)
              /\ Hurts(r)
           \/ /\ dir' = [dir EXCEPT ![r].state = "broken"]
              /\ r \notin Protected(pointer)
              /\ Hurts(r)
           \/ /\ \/ dir' = [dir EXCEPT ![r] = NoDirectory]
                 \/ \E b : dir' = [dir EXCEPT ![r] = [state |-> "whole", binding |-> b]]
              /\ r \notin Protected(pointer)
              /\ Mends(r) \/ UNCHANGED hurt
    PROVE  /\ BrokenAreHurt'
           /\ \A x \in Protected(pointer) \ {None} :
                 dir'[x].state # "absent" /\ dir'[x].binding = dir[x].binding
           /\ \A x \in Releases : hurt[x] # "none" => hurt'[x] # "none"
  <1>1. /\ dir \in [Releases -> Directory] /\ hurt \in [Releases -> Harm] /\ BrokenAreHurt
        /\ \A x \in Protected(pointer) \ {None} : x \in Releases /\ Present(x)
    BY DEF RInv, ReleaseTypeOK, Pointer, Entry, Named, Protected, IdOf
  <1>2. CASE dir' = [dir EXCEPT ![r].state = "broken"] /\ Hurts(r)
             /\ (Present(r) \/ r \notin Protected(pointer))
    <2>1. BrokenAreHurt'
      BY <1>1, <1>2 DEF BrokenAreHurt, Hurts
    <2>2. \A x \in Releases : dir'[x].binding = dir[x].binding
             /\ dir'[x].state = IF x = r THEN "broken" ELSE dir[x].state
      BY <1>1, <1>2 DEF Directory
    <2> QED BY <1>1, <1>2, <2>1, <2>2 DEF Hurts, Present
  <1>3. CASE /\ \/ dir' = [dir EXCEPT ![r] = NoDirectory]
                \/ \E b : dir' = [dir EXCEPT ![r] = [state |-> "whole", binding |-> b]]
             /\ r \notin Protected(pointer)
             /\ Mends(r) \/ UNCHANGED hurt
    <2>1. dir'[r].state # "broken" /\ \A x \in Releases \ {r} : dir'[x] = dir[x]
      BY <1>1, <1>3 DEF NoDirectory
    <2>2. \A x \in Releases : /\ x # r => hurt'[x] = hurt[x]
                              /\ hurt[x] # "none" => hurt'[x] # "none"
      BY <1>1, <1>3 DEF Mends
    <2> QED BY <1>1, <1>3, <2>1, <2>2 DEF BrokenAreHurt, Present
  <1> QED BY <1>2, <1>3

(* The release of an absent directory is not one that the pointer names.   *)
LEMMA AbsentIsFree ==
    ASSUME RInv, NEW r \in Releases, ~Present(r)
    PROVE  r \notin Protected(pointer)
  BY ReleaseAssumption DEF RInv, Named, Protected, IdOf

(* Building in the root, and damage.                                       *)
LEMMA RootSteps ==
    ASSUME RInv, NEW r \in Releases, Damage(r) \/ \E p \in Publishers : BuildCandidate(p, r)
    PROVE  RInv'
  <1>1. UNCHANGED <<pointer, staged, lock, job, worker>>
    BY DEF Damage, BuildCandidate
  <1>2. ReleaseTypeOK'
    BY MovesTyped, DirectoriesTyped DEF RInv, ReleaseTypeOK, Damage, BuildCandidate, Fault
  <1>3. /\ BrokenAreHurt'
        /\ \A x \in Protected(pointer) \ {None} :
              dir'[x].state # "absent" /\ dir'[x].binding = dir[x].binding
        /\ \A x \in Releases : hurt[x] # "none" => hurt'[x] # "none"
    <2>1. CASE Damage(r)
      BY <2>1, RootChanges DEF Damage, Present
    <2>2. CASE \E p \in Publishers : BuildCandidate(p, r)
      BY <2>2, RootChanges, AbsentIsFree DEF BuildCandidate
    <2> QED BY <2>1, <2>2
  <1>4. LockHeld'
    BY <1>1 DEF RInv, LockHeld
  <1> QED BY <1>1, <1>2, <1>3, <1>4, SamePointer DEF RInv

(* Taking the lock; a copy becomes the release.                            *)
LEMMA Enters ==
    ASSUME RInv, NEW p \in Publishers, Enter(p)
    PROVE  RInv'
  <1> DEFINE r == job[p].release
             in == [job[p] EXCEPT !.phase = "switch", !.incoming = FALSE]
             new == [job[p] EXCEPT !.phase = "switch", !.incoming = FALSE, !.made = TRUE]
  <1>1. /\ job \in [Publishers -> Job] /\ job[p] \in Job /\ JobInOrder(job[p], pointer)
        /\ job[p].phase = "wait" /\ lock = None
        /\ IdleJob \in Job /\ JobInOrder(IdleJob, pointer)
        /\ UNCHANGED <<pointer, staged, worker, faults>>
    BY Constants DEF RInv, ReleaseTypeOK, Enter, IdleJob, JobInOrder
  <1>2. r \in Releases /\ job[p].drop = {} /\ ~job[p].made
    BY <1>1 DEF JobInOrder
  <1>3. CASE JobEnds(p) /\ UNCHANGED <<dir, hurt, lock>>
    BY <1>1, <1>3, JobMoves DEF JobEnds, IdleJob, RInv, ReleaseTypeOK
  <1>4. CASE lock' = p /\ job' = [job EXCEPT ![p] = in] /\ UNCHANGED <<dir, hurt>>
    <2>1. in \in Job /\ in.phase = "switch" /\ JobInOrder(in, pointer)
      BY <1>1, <1>2 DEF Job, JobPhase, JobInOrder
    <2> HIDE DEF in
    <2>2. ReleaseTypeOK'
      BY <1>1, <1>4, <2>1 DEF RInv, ReleaseTypeOK
    <2>3. BrokenAreHurt'
      BY <1>4 DEF RInv, BrokenAreHurt
    <2>4. LockHeld'
      BY <1>1, <1>4, ReleaseAssumption DEF RInv, LockHeld, Publishers
    <2>5. \A x \in Protected(pointer) \ {None} : dir'[x].state # "absent" /\ dir'[x].binding = dir[x].binding
      BY <1>4 DEF RInv, Named, Present, Protected, IdOf
    <2>6. \A q \in Publishers : JobInOrder(job'[q], pointer')
      BY <1>1, <1>4, <2>1 DEF RInv
    <2> QED BY <1>1, <1>4, <2>2, <2>3, <2>4, <2>5, <2>6, SamePointer DEF RInv
  <1>5. CASE /\ ~Present(r) /\ Mends(r)
             /\ dir' = [dir EXCEPT ![r] = [state |-> "whole", binding |-> job[p].copied]]
             /\ lock' = p /\ job' = [job EXCEPT ![p] = new]
    <2>1. r \notin Protected(pointer)
      BY <1>2, <1>5, AbsentIsFree
    <2>2. new \in Job /\ new.phase = "switch" /\ JobInOrder(new, pointer)
      BY <1>1, <1>2, <2>1 DEF Job, JobPhase, JobInOrder
    <2>3. job[p].copied \in Bindings \cup {None}
      BY <1>1 DEF Job
    <2>4. /\ BrokenAreHurt'
          /\ \A x \in Protected(pointer) \ {None} :
                dir'[x].state # "absent" /\ dir'[x].binding = dir[x].binding
          /\ \A x \in Releases : hurt[x] # "none" => hurt'[x] # "none"
      BY <1>2, <1>5, <2>1, RootChanges
    <2> HIDE DEF new, r
    <2>5. dir' \in [Releases -> Directory] /\ hurt' \in [Releases -> Harm]
      BY <1>5, <2>3, MovesTyped, DirectoriesTyped DEF RInv
    <2>6. ReleaseTypeOK'
      BY <1>1, <1>5, <2>2, <2>5 DEF RInv, ReleaseTypeOK
    <2>7. LockHeld'
      BY <1>1, <1>5, ReleaseAssumption DEF RInv, LockHeld, Publishers
    <2>8. \A q \in Publishers : JobInOrder(job'[q], pointer')
      BY <1>1, <1>5, <2>2 DEF RInv
    <2> QED BY <1>1, <2>4, <2>6, <2>7, <2>8, SamePointer DEF RInv
  <1> QED BY <1>3, <1>4, <1>5 DEF Enter

(* The lock is given back: its holder's job ends, or its worker goes on    *)
(* without RAG, and what the pointer names has not been touched.           *)
LEMMA GivesBack ==
    ASSUME RInv, ReleaseTypeOK', UNCHANGED <<pointer, hurt>>, lock' = None, lock # None,
           \/ \E p \in Publishers : lock = p /\ JobEnds(p) /\ UNCHANGED worker
           \/ \E w \in Workers : /\ lock = w /\ UNCHANGED job
                                 /\ \A v \in Workers \ {w} : worker'[v] = worker[v]
                                 /\ worker'[w].phase \in {"unavailable", "down"},
           \/ UNCHANGED dir
           \/ \E r \in Releases \ Protected(pointer) : dir' = [dir EXCEPT ![r] = NoDirectory]
    PROVE  RInv'
  <1>1. /\ \A p \in Publishers : JobInOrder(job[p], pointer)
        /\ job \in [Publishers -> Job] /\ JobInOrder(IdleJob, pointer)
        /\ BrokenAreHurt
    BY DEF RInv, ReleaseTypeOK, IdleJob, JobInOrder
  <1>2. \A p \in Publishers : JobInOrder(job'[p], pointer')
    BY <1>1 DEF JobEnds
  <1>3. /\ BrokenAreHurt'
        /\ \A x \in Protected(pointer) \ {None} :
              dir'[x].state # "absent" /\ dir'[x].binding = dir[x].binding
    <2>1. CASE UNCHANGED dir
      BY <1>1, <2>1 DEF RInv, BrokenAreHurt, Named, Present, Protected, IdOf
    <2>2. CASE \E r \in Releases \ Protected(pointer) : dir' = [dir EXCEPT ![r] = NoDirectory]
      BY <2>2, RootChanges
    <2> QED BY <2>1, <2>2
  <1>4. \A w \in Workers : worker'[w] = worker[w] \/ WorkerInOrder(worker'[w], pointer', hurt')
    BY DEF WorkerInOrder, SeenInOrder, EntryKept
  <1>5. LockHeld'
    <2>1. LockHeld /\ Publishers \cap Workers = {}
      BY ReleaseAssumption DEF RInv, Publishers
    <2>2. CASE \E p \in Publishers : lock = p /\ JobEnds(p) /\ UNCHANGED worker
      <3>1. \A p \in Publishers : job'[p].phase \in {"switch", "clean"} => job'[p] = job[p] /\ lock # p
        BY <1>1, <2>2 DEF JobEnds, IdleJob
      <3>2. \A w \in Workers : worker[w].phase # "quarantine"
        BY <2>1, <2>2 DEF LockHeld
      <3> QED BY <2>1, <2>2, <3>1, <3>2 DEF LockHeld
    <2>3. CASE \E w \in Workers : /\ lock = w /\ UNCHANGED job
                                  /\ \A v \in Workers \ {w} : worker'[v] = worker[v]
                                  /\ worker'[w].phase \in {"unavailable", "down"}
      BY <2>1, <2>3 DEF LockHeld
    <2> QED BY <2>2, <2>3
  <1> QED BY <1>2, <1>3, <1>4, <1>5, SamePointer DEF RInv

(* The ends of what holds the lock, and the clean-up.                      *)
LEMMA UnderTheLock ==
    ASSUME RInv, NEW p \in Publishers,
           SwitchFails(p) \/ Leave(p) \/ \E r \in Releases : CleanUp(p, r)
    PROVE  RInv'
  <1>1. /\ job \in [Publishers -> Job] /\ job[p] \in Job /\ JobInOrder(job[p], pointer)
        /\ lock = p /\ p # None
    BY ReleaseAssumption DEF RInv, ReleaseTypeOK, LockHeld, SwitchFails, Leave, CleanUp, Publishers
  <1>2. CASE SwitchFails(p)
    <2>1. ReleaseTypeOK'
      BY <1>2, MovesTyped, DirectoriesTyped DEF RInv, ReleaseTypeOK, SwitchFails, Fault
    <2>2. \/ UNCHANGED dir
          \/ \E r \in Releases \ Protected(pointer) : dir' = [dir EXCEPT ![r] = NoDirectory]
      BY <1>1, <1>2 DEF SwitchFails, JobInOrder
    <2> QED BY <1>1, <1>2, <2>1, <2>2, GivesBack DEF SwitchFails
  <1>3. CASE Leave(p)
    <2>1. ReleaseTypeOK'
      BY <1>3, MovesTyped DEF RInv, ReleaseTypeOK, Leave, filesVars
    <2> QED BY <1>1, <1>3, <2>1, GivesBack DEF Leave, filesVars
  <1>4. ASSUME NEW r \in Releases, CleanUp(p, r) PROVE RInv'
    <2> DEFINE x == [job[p] EXCEPT !.drop = job[p].drop \ {r}]
    <2>1. x \in Job /\ x.phase = job[p].phase /\ JobInOrder(x, pointer)
      BY <1>1, <1>4 DEF Job, JobInOrder, CleanUp
    <2>2. job' = [job EXCEPT ![p] = x]
      BY <1>4 DEF CleanUp
    <2>3. r \notin Protected(pointer)
      BY <1>1, <1>4 DEF JobInOrder, CleanUp
    <2> HIDE DEF x
    <2>4. ReleaseTypeOK'
      <3>1. ReleaseTypeOK /\ UNCHANGED <<pointer, staged, lock, worker>>
        BY <1>4 DEF RInv, CleanUp
      <3>2. dir' \in [Releases -> Directory]
        BY <1>4, <3>1, DirectoriesTyped DEF CleanUp
      <3>3. hurt' \in [Releases -> Harm]
        BY <1>4, <3>1, MovesTyped DEF CleanUp, ReleaseTypeOK
      <3>4. faults' \in Nat
        BY <1>4, <3>1 DEF CleanUp, Fault, ReleaseTypeOK
      <3> QED BY <1>1, <2>1, <2>2, <3>1, <3>2, <3>3, <3>4 DEF ReleaseTypeOK
    <2>5. /\ BrokenAreHurt'
          /\ \A y \in Protected(pointer) \ {None} :
                dir'[y].state # "absent" /\ dir'[y].binding = dir[y].binding
          /\ \A y \in Releases : hurt[y] # "none" => hurt'[y] # "none"
      BY <1>4, <2>3, RootChanges DEF CleanUp
    <2>6. LockHeld' /\ UNCHANGED <<pointer, worker>>
      BY <1>1, <1>4, <2>1, <2>2 DEF RInv, LockHeld, CleanUp
    <2>7. \A q \in Publishers : JobInOrder(job'[q], pointer')
      BY <1>1, <2>1, <2>2, <2>6 DEF RInv
    <2> QED BY <2>4, <2>5, <2>6, <2>7, SamePointer DEF RInv
  <1> QED BY <1>2, <1>3, <1>4

(* The end of a quarantine, in one way or another.                         *)
LEMMA QuarantineEnds ==
    ASSUME RInv, NEW w \in Workers, Quarantine(w) \/ WorkerDies(w)
    PROVE  RInv'
  <1>1. /\ worker \in [Workers -> Worker] /\ worker[w] \in Worker
        /\ WorkerInOrder(worker[w], pointer, hurt)
        /\ lock = w /\ w # None /\ worker[w].phase = "quarantine"
    BY ReleaseAssumption DEF RInv, ReleaseTypeOK, LockHeld, Quarantine, WorkerDies
  <1>2. CASE Quarantine(w)
    <2>1. worker[w].seen.active.release \in Releases \ Protected(pointer)
      BY <1>1 DEF WorkerInOrder, SeenInOrder, Worker, Pointer, Entry
    <2>2. ReleaseTypeOK'
      BY <1>2, MovesTyped, DirectoriesTyped DEF RInv, ReleaseTypeOK, Quarantine
    <2>3. /\ \A v \in Workers \ {w} : worker'[v] = worker[v]
          /\ worker'[w].phase = "unavailable"
      BY <1>1, <1>2, Constants DEF Quarantine, RunsWithoutRag, Worker
    <2> QED BY <1>1, <1>2, <2>1, <2>2, <2>3, GivesBack DEF Quarantine
  <1>3. CASE WorkerDies(w)
    <2>1. ReleaseTypeOK' /\ lock' = None
      BY <1>1, <1>3, Constants DEF RInv, ReleaseTypeOK, WorkerDies, Frees, filesVars
    <2>2. /\ \A v \in Workers \ {w} : worker'[v] = worker[v]
          /\ worker'[w].phase = "down"
      BY <1>1, <1>3 DEF WorkerDies, DownWorker
    <2> QED BY <1>1, <1>3, <2>1, <2>2, GivesBack DEF WorkerDies, filesVars
  <1> QED BY <1>2, <1>3

(* Publishers that die free the lock and may leave half a directory.       *)
LEMMA Dying ==
    ASSUME RInv, NEW ps, ps \subseteq Publishers, PublishersDie(ps)
    PROVE  RInv'
  <1>1. /\ job \in [Publishers -> Job] /\ \A p \in Publishers : JobInOrder(job[p], pointer)
        /\ IdleJob \in Job /\ JobInOrder(IdleJob, pointer)
        /\ UNCHANGED <<pointer, staged, worker>>
    BY Constants DEF RInv, ReleaseTypeOK, PublishersDie, IdleJob, JobInOrder
  <1>2. job' = [p \in Publishers |-> IF p \in ps THEN IdleJob ELSE job[p]]
    BY DEF PublishersDie
  <1>3. job' \in [Publishers -> Job] /\ \A p \in Publishers : JobInOrder(job'[p], pointer')
    BY <1>1, <1>2
  <1>4. \/ UNCHANGED <<dir, hurt>>
        \/ \E r \in Releases \ Protected(pointer) :
              dir' = [dir EXCEPT ![r].state = "broken"] /\ Hurts(r)
    BY <1>1 DEF PublishersDie, JobInOrder, Job
  <1>5. /\ BrokenAreHurt'
        /\ \A y \in Protected(pointer) \ {None} :
              dir'[y].state # "absent" /\ dir'[y].binding = dir[y].binding
        /\ \A y \in Releases : hurt[y] # "none" => hurt'[y] # "none"
    <2>1. CASE UNCHANGED <<dir, hurt>>
      BY <2>1 DEF RInv, BrokenAreHurt, Named, Present, Protected, IdOf
    <2>2. CASE \E r \in Releases \ Protected(pointer) :
                  dir' = [dir EXCEPT ![r].state = "broken"] /\ Hurts(r)
      BY <2>2, RootChanges
    <2> QED BY <1>4, <2>1, <2>2
  <1>6. lock' \in Publishers \cup Workers \cup {None} /\ faults' \in Nat
    BY DEF RInv, ReleaseTypeOK, PublishersDie, Frees, Fault
  <1>7. ReleaseTypeOK'
    BY <1>1, <1>3, <1>4, <1>6, MovesTyped, DirectoriesTyped DEF RInv, ReleaseTypeOK
  <1>8. LockHeld'
    <2>1. LockHeld /\ ps \cap Workers = {}
      BY ReleaseAssumption DEF RInv, Publishers
    <2>2. \A p \in Publishers : job'[p].phase \in {"switch", "clean"} => p \notin ps /\ lock = p
      BY <1>2, <2>1 DEF IdleJob, LockHeld
    <2> QED BY <1>1, <2>1, <2>2 DEF LockHeld, PublishersDie, Frees
  <1> QED BY <1>1, <1>3, <1>5, <1>7, <1>8, SamePointer DEF RInv

-----------------------------------------------------------------------------
(* Steps that switch the pointer *)

(* One switch by the only process that may clean up, made with the lock.   *)
(* The new active release is in the root, the fallback is one the pointer  *)
(* named, and what was active remains named or is known to be hurt.        *)
LEMMA OneSwitch ==
    ASSUME RInv, ReleaseTypeOK', LockHeld', UNCHANGED <<dir, hurt>>,
           pointer'.generation = pointer.generation + 1,
           pointer'.active # None,
           Present(pointer'.active.release),
           dir[pointer'.active.release].binding = pointer'.active.binding,
           pointer'.fallback \in {pointer.active, pointer.fallback, None},
           pointer'.fallback # None => pointer'.active.release # pointer'.fallback.release,
           \/ pointer.active \in {pointer'.active, pointer'.fallback, None}
           \/ hurt[pointer.active.release] # "none",
           \A p \in Publishers : JobInOrder(job'[p], pointer'),
           \A w \in Workers : \/ worker'[w] = worker[w] /\ worker[w].phase # "quarantine"
                              \/ WorkerInOrder(worker'[w], pointer', hurt)
    PROVE  RInv'
  <1>1. pointer \in Pointer /\ Named /\ BrokenAreHurt
    BY DEF RInv, ReleaseTypeOK
  <1>2. Named'
    BY <1>1 DEF Named, Present
  <1>3. BrokenAreHurt' /\ TwoReleases'
    BY <1>1 DEF BrokenAreHurt, TwoReleases
  <1>4. ASSUME NEW w \in Workers, worker'[w] = worker[w], worker[w].phase # "quarantine"
        PROVE  WorkerInOrder(worker[w], pointer', hurt)
    <2>1. /\ worker[w] \in Worker /\ WorkerInOrder(worker[w], pointer, hurt)
          /\ pointer.generation \in Nat
      BY DEF RInv, ReleaseTypeOK, Pointer
    <2>2. SeenInOrder(worker[w], pointer', hurt)
      <3>1. worker[w].seen.generation \in Nat
        BY <2>1 DEF Worker, Pointer
      <3> QED BY <1>4, <2>1, <3>1 DEF WorkerInOrder, SeenInOrder
    <2>3. EntryKept(worker[w], pointer', hurt)
      <3>1. worker[w].since \in Nat
        BY <2>1 DEF Worker
      <3> QED BY <2>1, <3>1 DEF WorkerInOrder, EntryKept
    <2> QED BY <2>2, <2>3 DEF WorkerInOrder
  <1>5. \A w \in Workers : WorkerInOrder(worker'[w], pointer', hurt')
    BY <1>4
  <1> QED BY <1>2, <1>3, <1>5 DEF RInv

(* The switch of a publication.                                            *)
LEMMA Switches ==
    ASSUME RInv, NEW p \in Publishers, Switch(p)
    PROVE  RInv'
  <1> DEFINE r == job[p].release
             new == [generation |-> pointer.generation + 1,
                     active |-> [release |-> r, binding |-> dir[r].binding],
                     fallback |-> NextFallback(r)]
             x == [job[p] EXCEPT !.phase = "clean", !.drop = Unreferenced(pointer, new)]
  <1>1. /\ job \in [Publishers -> Job] /\ job[p] \in Job /\ JobInOrder(job[p], pointer)
        /\ job[p].phase = "switch" /\ r \in Releases /\ lock = p /\ p # None
        /\ pointer \in Pointer /\ dir \in [Releases -> Directory]
        /\ UNCHANGED <<filesVars, worker, faults>>
    BY ReleaseAssumption DEF RInv, ReleaseTypeOK, LockHeld, Switch, JobInOrder, Publishers
  <1>2. CASE JobEnds(p) /\ lock' = None /\ UNCHANGED pointer
    <2>1. ReleaseTypeOK'
      BY <1>1, <1>2, MovesTyped DEF RInv, ReleaseTypeOK, filesVars
    <2> QED BY <1>1, <1>2, <2>1, GivesBack DEF filesVars
  <1>3. CASE Present(r) /\ pointer' = new /\ job' = [job EXCEPT ![p] = x] /\ UNCHANGED lock
    <2>1. new \in Pointer
      BY <1>1 DEF Pointer, Entry, Directory, NextFallback
    <2>2. new.fallback \in {pointer.active, pointer.fallback}
          /\ (new.fallback # None => r # new.fallback.release)
      <3>1. IdOf(pointer.active) = r => pointer.active # None /\ pointer.active.release = r
        BY <1>1, ReleaseAssumption DEF IdOf
      <3>2. IdOf(pointer.active) # r /\ pointer.active # None => pointer.active.release # r
        BY DEF IdOf
      <3> QED BY <3>1, <3>2 DEF NextFallback, RInv, TwoReleases
    <2>3. pointer.active \in {new.active, new.fallback, None}
      <3>1. CASE IdOf(pointer.active) = r
        <4>1. pointer.active \in Entry /\ pointer.active # None /\ pointer.active.release = r
          BY <1>1, <3>1, ReleaseAssumption DEF IdOf, Pointer
        <4>2. pointer.active.binding = dir[r].binding
          BY <4>1 DEF RInv, Named
        <4> QED BY <4>1, <4>2 DEF Entry
      <3>2. CASE IdOf(pointer.active) # r
        BY <3>2 DEF NextFallback
      <3> QED BY <3>1, <3>2
    <2>4. x \in Job /\ x.phase = "clean" /\ x.drop = Unreferenced(pointer, new)
          /\ x.release = r
      BY <1>1 DEF Job, JobPhase, Unreferenced
    <2>5. JobInOrder(x, new)
      BY <1>1, <2>4 DEF JobInOrder, Unreferenced
    <2>6. \A q \in Publishers \ {p} : job[q].phase \notin {"switch", "clean"}
      BY <1>1 DEF RInv, LockHeld
    <2>7. \A q \in Publishers \ {p} : JobInOrder(job[q], new)
      BY <2>6 DEF RInv, JobInOrder
    <2>8. \A w \in Workers : worker[w].phase # "quarantine"
      BY <1>1, ReleaseAssumption DEF RInv, LockHeld, Publishers
    <2> HIDE DEF x
    <2>9. \A q \in Publishers : JobInOrder(job'[q], new)
      BY <1>1, <1>3, <2>5, <2>7
    <2>10. ReleaseTypeOK'
      BY <1>1, <1>3, <2>1, <2>4 DEF RInv, ReleaseTypeOK, filesVars
    <2>11. LockHeld'
      BY <1>1, <1>3, <2>4 DEF RInv, LockHeld
    <2>12. /\ new.active # None /\ new.active.release = r /\ new.active.binding = dir[r].binding
           /\ new.generation = pointer.generation + 1
      <3>1. [release |-> r, binding |-> dir[r].binding] \in Entry
        BY <1>1 DEF Entry, Directory
      <3> QED BY <3>1, EntryAssumption
    <2> HIDE DEF new, r
    <2> QED BY <1>1, <1>3, <2>2, <2>3, <2>8, <2>9, <2>10, <2>11, <2>12, OneSwitch DEF filesVars
  <1> QED BY <1>2, <1>3 DEF Switch

(* A rollback on request: the active release and its fallback change       *)
(* places.                                                                 *)
LEMMA RollsBack ==
    ASSUME RInv, NEW p \in Publishers, Rollback(p)
    PROVE  RInv'
  <1>1. /\ job \in [Publishers -> Job] /\ IdleJob \in Job /\ lock = None
        /\ \A q : JobInOrder(IdleJob, q)
        /\ pointer \in Pointer
        /\ JobEnds(p) /\ UNCHANGED <<filesVars, lock, worker, faults>>
    BY Constants DEF RInv, ReleaseTypeOK, IdleJob, JobInOrder, Rollback
  <1>2. CASE UNCHANGED pointer
    BY <1>1, <1>2, JobMoves DEF JobEnds, IdleJob, RInv, ReleaseTypeOK, filesVars
  <1>3. CASE /\ Valid(pointer.fallback)
             /\ pointer' = [generation |-> pointer.generation + 1,
                            active |-> pointer.fallback, fallback |-> pointer.active]
    <2>1. pointer' \in Pointer
      BY <1>1, <1>3 DEF Pointer
    <2>2. /\ pointer.fallback # None
          /\ Present(pointer.fallback.release)
          /\ dir[pointer.fallback.release].binding = pointer.fallback.binding
      BY <1>3 DEF Valid, RInv, Named
    <2>3. ReleaseTypeOK' /\ LockHeld'
      BY <1>1, <2>1, MovesTyped, ReleaseAssumption
         DEF RInv, ReleaseTypeOK, LockHeld, filesVars, JobEnds, IdleJob, Publishers
    <2>4. /\ \A q \in Publishers : job[q].phase \notin {"switch", "clean"}
          /\ \A w \in Workers : worker[w].phase # "quarantine"
      BY <1>1, ReleaseAssumption DEF RInv, LockHeld, Publishers
    <2>5. \A q \in Publishers : JobInOrder(job'[q], pointer')
      BY <1>1, <2>4 DEF RInv, JobInOrder, JobEnds
    <2>6. pointer.active # None => pointer.fallback.release # pointer.active.release
      BY <2>2 DEF RInv, TwoReleases
    <2> QED BY <1>1, <1>3, <2>2, <2>3, <2>4, <2>5, <2>6, OneSwitch DEF filesVars
  <1> QED BY <1>2, <1>3 DEF Rollback

(* The rollback of a worker that found the active release broken.          *)
LEMMA WorkerRollsBack ==
    ASSUME RInv, NEW w \in Workers, RollbackActive(w)
    PROVE  RInv'
  <1>1. /\ worker \in [Workers -> Worker] /\ worker[w] \in Worker /\ lock = None
        /\ WorkerInOrder(worker[w], pointer, hurt) /\ worker[w].phase = "rollback"
        /\ pointer \in Pointer
        /\ UNCHANGED <<filesVars, job, faults>>
    BY DEF RInv, ReleaseTypeOK, RollbackActive
  <1>2. CASE RunsWithoutRag(w) /\ UNCHANGED <<pointer, lock>>
    <2> DEFINE x == [DownWorker EXCEPT !.phase = "unavailable"]
    <2>1. x \in Worker /\ x.phase = "unavailable" /\ WorkerInOrder(x, pointer, hurt)
      BY Constants DEF Worker, WorkerPhase, WorkerInOrder, SeenInOrder, EntryKept
    <2>2. worker' = [worker EXCEPT ![w] = x]
      BY <1>2 DEF RunsWithoutRag
    <2> HIDE DEF x
    <2> QED BY <1>1, <1>2, <2>1, <2>2, WorkerMoves
  <1>3. CASE /\ pointer.generation = worker[w].seen.generation /\ Valid(pointer.fallback)
             /\ pointer' = [generation |-> pointer.generation + 1,
                            active |-> pointer.fallback, fallback |-> None]
             /\ WorkerGoes(w, "quarantine") /\ lock' = w
    <2> DEFINE x == [worker[w] EXCEPT !.phase = "quarantine"]
    <2>1. /\ pointer' \in Pointer
          /\ pointer.fallback # None /\ pointer.fallback.release \in Releases
          /\ Present(pointer.fallback.release)
          /\ dir[pointer.fallback.release].binding = pointer.fallback.binding
      BY <1>1, <1>3 DEF Pointer, Entry, Valid, RInv, Named
    <2>2. /\ worker[w].seen = pointer /\ pointer.active # None
          /\ hurt[pointer.active.release] # "none"
          /\ pointer.active.release \in Releases
      BY <1>1, <1>3 DEF WorkerInOrder, SeenInOrder, Pointer, Entry
    <2>3. pointer.active.release # pointer.fallback.release
      BY <2>1, <2>2 DEF RInv, TwoReleases
    <2>4. x \in Worker /\ x.phase = "quarantine" /\ x.seen = pointer
      BY <1>1, <2>2 DEF Worker, WorkerPhase
    <2>5. WorkerInOrder(x, pointer', hurt)
      <3>1. Protected(pointer') = {pointer.fallback.release, None}
        BY <1>3, <2>1 DEF Protected, IdOf
      <3>2. pointer.active.release \notin Protected(pointer')
        BY <2>2, <2>3, <3>1, ReleaseAssumption
      <3> HIDE DEF x
      <3> QED BY <2>2, <2>4, <3>2 DEF WorkerInOrder, SeenInOrder, EntryKept
    <2>6. worker' = [worker EXCEPT ![w] = x]
      BY <1>3 DEF WorkerGoes
    <2> HIDE DEF x
    <2>7. ReleaseTypeOK'
      BY <1>1, <1>3, <2>1, <2>4, <2>6 DEF RInv, ReleaseTypeOK, filesVars
    <2>8. /\ \A q \in Publishers : job[q].phase \notin {"switch", "clean"}
          /\ \A v \in Workers : worker[v].phase # "quarantine"
      BY <1>1, ReleaseAssumption DEF RInv, LockHeld, Publishers
    <2>9. LockHeld'
      BY <1>1, <1>3, <2>6, <2>8 DEF LockHeld
    <2>10. \A q \in Publishers : JobInOrder(job'[q], pointer')
      BY <1>1, <2>8 DEF RInv, JobInOrder
    <2>11. \A v \in Workers : \/ worker'[v] = worker[v] /\ worker[v].phase # "quarantine"
                              \/ WorkerInOrder(worker'[v], pointer', hurt)
      BY <1>1, <2>5, <2>6, <2>8
    <2> QED BY <1>1, <1>3, <2>1, <2>2, <2>7, <2>9, <2>10, <2>11, OneSwitch DEF filesVars
  <1> QED BY <1>1, <1>2, <1>3 DEF RollbackActive

-----------------------------------------------------------------------------
(* RInv is inductive *)

(* The first state satisfies RInv.                                         *)
LEMMA InitRInv == Init => RInv
  <1> SUFFICES ASSUME Init PROVE RInv
    OBVIOUS
  <1>1. ReleaseTypeOK
    <2>1. staged \in [Releases -> Candidate]
      BY DEF Init, Candidate
    <2> QED BY <2>1, Constants, ReleaseAssumption DEF Init, ReleaseTypeOK, Harm
  <1>2. Named /\ BrokenAreHurt /\ TwoReleases /\ LockHeld
    BY DEF Init, Named, BrokenAreHurt, TwoReleases, LockHeld, NoPointer, NoDirectory, IdleJob, DownWorker
  <1>3. \A p \in Publishers : JobInOrder(job[p], pointer)
    BY DEF Init, JobInOrder, IdleJob
  <1>4. \A w \in Workers : WorkerInOrder(worker[w], pointer, hurt)
    BY DEF Init, WorkerInOrder, SeenInOrder, EntryKept, DownWorker
  <1> QED BY <1>1, <1>2, <1>3, <1>4 DEF RInv

(* Every step preserves RInv.                                              *)
LEMMA NextRInv == RInv /\ [Next]_vars => RInv'
  <1> SUFFICES ASSUME RInv, [Next]_vars PROVE RInv'
    OBVIOUS
  <1>1. CASE UNCHANGED vars
    BY <1>1 DEF vars, RInv, ReleaseTypeOK, Named, BrokenAreHurt, TwoReleases, LockHeld, Present
  <1>2. ASSUME NEW p \in Publishers, NEW r \in Releases,
               \/ \E b \in Bindings : CheckRelease(p, r, b)
               \/ BuildCandidate(p, r) \/ PublishCandidate(p, r)
        PROVE  RInv'
    BY <1>2, BeforeTheLock, RootSteps
  <1>3. ASSUME NEW p \in Publishers,
               AskRollback(p) \/ PublisherStep(p) \/ SwitchFails(p) \/ CliDies(p)
        PROVE  RInv'
    <2>1. CASE \/ AskRollback(p) \/ SealReads(p) \/ SealWrites(p) \/ Verify(p) \/ Materialize(p)
      <3>1. job[p].phase # "idle" => job[p].release \in Releases
        BY DEF RInv, JobInOrder
      <3>2. \E r \in Releases : TRUE
        BY <2>1, <3>1 DEF AskRollback, SealReads, SealWrites, Verify, Materialize,
                          RInv, ReleaseTypeOK, Pointer, Entry
      <3> QED BY <2>1, <3>2, BeforeTheLock
    <2>2. CASE CliDies(p)
      BY <2>2, Dying DEF CliDies
    <2> QED BY <1>3, <2>1, <2>2, Enters, Switches, RollsBack, UnderTheLock DEF PublisherStep
  <1>4. ASSUME NEW w \in Workers, WorkerStep(w) \/ Restart(w) \/ WorkerDies(w)
        PROVE  RInv'
    BY <1>4, WorkerAlone, WorkerRollsBack, QuarantineEnds DEF WorkerStep
  <1>5. ASSUME NEW r \in Releases, Damage(r) PROVE RInv'
    BY <1>5, RootSteps
  <1>6. CASE WebDies
    BY <1>6, Dying DEF WebDies, Publishers
  <1> QED BY <1>1, <1>2, <1>3, <1>4, <1>5, <1>6 DEF Next

(* RInv holds in every reachable state.                                    *)
LEMMA AlwaysRInv == Spec => []RInv
  BY InitRInv, NextRInv, PTL DEF Spec

(* Types are kept.                                                         *)
THEOREM ReleaseTypes == Spec => []ReleaseTypeOK
  <1>1. RInv => ReleaseTypeOK
    BY DEF RInv
  <1> QED BY <1>1, AlwaysRInv, PTL

(* Whoever publishes, rolls back, cleans up, breaks or dies: the active    *)
(* release and the fallback are complete directories with the manifests    *)
(* the pointer names, unless they themselves were damaged.                 *)
THEOREM PointerAlwaysResolves == Spec => []PointerResolves
  <1>1. RInv => PointerResolves
    BY NamedIsValid DEF PointerResolves
  <1> QED BY <1>1, AlwaysRInv, PTL

(* The release a worker serves is whole until the pointer has been         *)
(* switched twice, unless it was damaged.                                  *)
THEOREM ServedReleasesStay == Spec => []ServedReleaseStays
  <1>1. ASSUME RInv, NEW w \in Workers, worker[w].phase = "serving",
               pointer.generation <= worker[w].since + 1,
               hurt[worker[w].entry.release] = "none"
        PROVE  Valid(worker[w].entry)
    <2>1. worker[w] \in Worker /\ pointer.generation \in Nat
          /\ EntryKept(worker[w], pointer, hurt)
      BY <1>1 DEF RInv, ReleaseTypeOK, Pointer, WorkerInOrder
    <2>2. worker[w].since \in Nat
      BY <2>1 DEF Worker
    <2>3. worker[w].entry \in {pointer.active, pointer.fallback} \ {None}
      BY <1>1, <2>1, <2>2 DEF EntryKept
    <2> QED BY <1>1, <2>3, NamedIsValid
  <1>2. RInv => ServedReleaseStays
    BY <1>1 DEF ServedReleaseStays
  <1> QED BY <1>2, AlwaysRInv, PTL

-----------------------------------------------------------------------------
(* Gated is preserved *)

(* A job that has ended has nothing to keep.                               *)
LEMMA IdleGated == \A p, st, d : GatedJob(p, IdleJob, st, d)
  BY DEF GatedJob, IdleJob

(* Steps that write no candidate: what is new in the root is what the      *)
(* candidate says, and what is there stays, as long as somebody switches   *)
(* or cleans up.                                                           *)
LEMMA GatedRoot ==
    ASSUME RInv, Gated, RInv', UNCHANGED staged,
           \A r \in Releases \ Built :
              \/ Present(r)' => Present(r) /\ dir'[r].binding = dir[r].binding
              \/ GatedRelease(r)',
           \A p \in Publishers :
              \/ GatedJob(p, job'[p], staged', dir')
              \/ /\ job'[p] = job[p]
                 /\ job[p].phase \in {"switch", "clean"} =>
                       \A r \in Releases : dir[r].state # "absent" =>
                          dir'[r].state # "absent" /\ dir'[r].binding = dir[r].binding
    PROVE  Gated'
  <1>1. \A r \in Releases : staged'[r].writes = 0 <=> staged'[r].binding = None
    BY DEF Gated
  <1>2. \A r \in Releases \ Built : GatedRelease(r)'
    BY DEF Gated, GatedRelease
  <1>3. ASSUME NEW p \in Publishers PROVE GatedJob(p, job'[p], staged', dir')
    <2>1. CASE /\ job'[p] = job[p]
               /\ job[p].phase \in {"switch", "clean"} =>
                     \A r \in Releases : dir[r].state # "absent" =>
                        dir'[r].state # "absent" /\ dir'[r].binding = dir[r].binding
      <3>1. /\ job[p] \in Job /\ JobInOrder(job[p], pointer)
            /\ GatedJob(p, job[p], staged, dir)
        BY DEF RInv, ReleaseTypeOK, Gated
      <3>2. job[p].phase \in {"switch", "clean"} \/ job[p].drop = {}
        BY <3>1 DEF JobInOrder
      <3>3. job[p].phase = "switch" => job[p].release \in Releases
        BY <3>1 DEF JobInOrder
      <3>4. job[p].drop \subseteq Releases
        BY <3>1 DEF Job
      <3> QED BY <2>1, <3>1, <3>2, <3>3, <3>4 DEF GatedJob
    <2> QED BY <2>1
  <1> QED BY <1>1, <1>2, <1>3 DEF Gated

(* Before the lock: candidates are sealed, compared and copied.            *)
LEMMA BeforeTheLockGated ==
    ASSUME RInv, Gated, RInv', NEW p \in Publishers, NEW r \in Releases,
           \/ \E b \in Bindings : CheckRelease(p, r, b)
           \/ PublishCandidate(p, r) \/ AskRollback(p)
           \/ SealReads(p) \/ Verify(p) \/ Materialize(p)
    PROVE  Gated'
  <1>1. /\ job \in [Publishers -> Job] /\ job[p] \in Job /\ JobInOrder(job[p], pointer)
        /\ GatedJob(p, job[p], staged, dir) /\ staged \in [Releases -> Candidate]
        /\ Web \cap Cli = {}
        /\ \A x \in Releases : staged[x].writes = 0 <=> staged[x].binding = None
        /\ None \notin Bindings
    BY ReleaseAssumption DEF RInv, ReleaseTypeOK, Gated
  <1>2. UNCHANGED <<staged, dir>> /\ \A q \in Publishers \ {p} : job'[q] = job[q]
    BY <1>1 DEF CheckRelease, PublishCandidate, AskRollback, SealReads, Verify, Materialize,
                filesVars, JobGoes, JobEnds
  <1>3. GatedJob(p, job'[p], staged, dir)
    <2>1. CASE \E b \in Bindings : CheckRelease(p, r, b)
      <3>1. PICK b \in Bindings, g \in {None, pointer.generation} :
               /\ p \in Web
               /\ job'[p] = [IdleJob EXCEPT !.phase = "seal", !.release = r, !.binding = b,
                                            !.expected = g]
        BY <1>1, <2>1 DEF CheckRelease
      <3> DEFINE x == [IdleJob EXCEPT !.phase = "seal", !.release = r, !.binding = b,
                                      !.expected = g]
      <3>2. x.phase = "seal" /\ x.binding = b /\ x.copied = None /\ x.drop = {} /\ ~x.incoming
        BY DEF IdleJob
      <3> HIDE DEF x
      <3>3. GatedJob(p, x, staged, dir)
        BY <3>1, <3>2 DEF GatedJob
      <3> QED BY <3>1, <3>3 DEF x
    <2>2. CASE PublishCandidate(p, r)
      <3> DEFINE x == [IdleJob EXCEPT !.phase = "wait", !.release = r]
      <3>1. job'[p] = x /\ p \notin Web
        BY <1>1, <2>2 DEF PublishCandidate
      <3>2. x.phase = "wait" /\ x.copied = None /\ x.drop = {} /\ ~x.incoming
        BY DEF IdleJob
      <3> HIDE DEF x
      <3> QED BY <3>1, <3>2 DEF GatedJob
    <2>3. CASE AskRollback(p)
      <3>1. PICK g \in {None, pointer.generation} :
               job'[p] = [IdleJob EXCEPT !.phase = "rollback", !.expected = g,
                                         !.release = pointer.fallback.release]
        BY <1>1, <2>3 DEF AskRollback
      <3> DEFINE x == [IdleJob EXCEPT !.phase = "rollback", !.expected = g,
                                      !.release = pointer.fallback.release]
      <3>2. x.phase = "rollback" /\ x.copied = None /\ x.drop = {} /\ ~x.incoming
        BY DEF IdleJob
      <3> HIDE DEF x
      <3>3. GatedJob(p, x, staged, dir)
        BY <3>2 DEF GatedJob
      <3> QED BY <3>1, <3>3 DEF x
    <2>4. CASE JobEnds(p)
      BY <1>1, <2>4, IdleGated DEF JobEnds
    <2>5. CASE SealReads(p) /\ ~JobEnds(p)
      BY <1>1, <2>5 DEF SealReads, JobGoes, GatedJob, Job
    <2>6. CASE Verify(p) /\ ~JobEnds(p)
      <3>1. /\ job[p].release \in Releases
            /\ staged[job[p].release].binding = job[p].binding /\ job[p].binding \in Bindings
            /\ staged[job[p].release] \in Candidate
        BY <1>1, <2>6 DEF Verify, JobInOrder, GatedJob
      <3>2. staged[job[p].release].writes > 0
        BY <1>1, <3>1 DEF Candidate
      <3> QED BY <1>1, <2>6, <3>1, <3>2 DEF Verify, JobGoes, GatedJob, Job
    <2>7. CASE Materialize(p) /\ JobGoes(p, "wait")
      BY <1>1, <2>7 DEF Materialize, JobGoes, GatedJob, Job
    <2>8. CASE Materialize(p) /\ ~JobGoes(p, "wait") /\ ~JobEnds(p)
      <3> DEFINE x == [job[p] EXCEPT !.phase = "wait", !.incoming = TRUE,
                                     !.copied = staged[job[p].release].binding]
      <3>1. job'[p] = x
        BY <1>1, <2>8 DEF Materialize
      <3>2. /\ job[p].release \in Releases /\ job[p].phase = "copy" /\ p \in Web
            /\ staged[job[p].release].writes > 0
            /\ job[p].drop = {} /\ job[p].binding \in Bindings
        BY <1>1, <2>8 DEF Materialize, JobInOrder, GatedJob
      <3>3. staged[job[p].release].binding # None
        BY <1>1, <3>2 DEF Candidate
      <3>4. GatedJob(p, x, staged, dir)
        BY <1>1, <3>2, <3>3 DEF Job, GatedJob
      <3> QED BY <3>1, <3>4
    <2> QED BY <2>1, <2>2, <2>3, <2>4, <2>5, <2>6, <2>7, <2>8
  <1> QED BY <1>2, <1>3, GatedRoot DEF Present

(* Sealing a candidate spoils the promise of nobody who verified it        *)
(* before, unless it is written a second time.                             *)
LEMMA SealsGated ==
    ASSUME RInv, Gated, RInv', NEW p \in Publishers, SealWrites(p)
    PROVE  Gated'
  <1> DEFINE c == job[p].release
  <1>1. /\ job \in [Publishers -> Job] /\ staged \in [Releases -> Candidate]
        /\ c \in Releases /\ p \in Web /\ job[p].binding \in Bindings /\ None \notin Bindings
        /\ staged' = [staged EXCEPT ![c] = [binding |-> job[p].binding, writes |-> staged[c].writes + 1]]
        /\ JobGoes(p, "verify") /\ UNCHANGED dir /\ job[p].phase = "write"
    BY ReleaseAssumption DEF RInv, ReleaseTypeOK, Gated, GatedJob, JobInOrder, SealWrites
  <1>2. /\ staged[c].writes \in Nat
        /\ staged'[c].binding = job[p].binding /\ staged'[c].writes = staged[c].writes + 1
        /\ \A x \in Releases \ {c} : staged'[x] = staged[x]
        /\ staged[c].writes = 0 <=> staged[c].binding = None
    BY <1>1 DEF Candidate, Gated
  <1>3. \A x \in Releases : staged'[x].writes = 0 <=> staged'[x].binding = None
    BY <1>1, <1>2 DEF Gated
  <1>4. ASSUME NEW x \in Releases \ Built PROVE GatedRelease(x)'
    <2>1. GatedRelease(x)
      BY DEF Gated
    <2> QED BY <1>1, <1>2, <2>1 DEF GatedRelease, Present
  <1>5. ASSUME NEW q \in Publishers \ {p} PROVE GatedJob(q, job'[q], staged', dir')
    <2>1. job'[q] = job[q] /\ job[q] \in Job /\ GatedJob(q, job[q], staged, dir)
          /\ JobInOrder(job[q], pointer)
      BY <1>1 DEF JobGoes, Gated, RInv
    <2>2. CASE job[q].release # c
      <3>1. job[q].phase \in {"copy", "wait", "switch"} => staged'[job[q].release] = staged[job[q].release]
        BY <1>2, <2>1, <2>2 DEF JobInOrder
      <3> QED BY <1>1, <2>1, <3>1 DEF GatedJob
    <2>3. CASE job[q].release = c
      <3>1. q \in Web /\ job[q].phase \in {"copy", "wait", "switch"} => ~(staged'[c].writes <= 1)
        BY <1>1, <1>2, <2>1, <2>3 DEF GatedJob
      <3> QED BY <1>1, <1>2, <2>1, <2>3, <3>1 DEF GatedJob
    <2> QED BY <2>2, <2>3
  <1>6. GatedJob(p, job'[p], staged', dir')
    <2> DEFINE x == [job[p] EXCEPT !.phase = "verify"]
    <2>1. job'[p] = x /\ job[p] \in Job /\ GatedJob(p, job[p], staged, dir)
      BY <1>1 DEF JobGoes, Gated
    <2>2. /\ x.phase = "verify" /\ x.binding = job[p].binding /\ x.drop = job[p].drop
          /\ x.copied = None /\ x.incoming = FALSE
      BY <1>1, <2>1 DEF Job, GatedJob
    <2> HIDE DEF x
    <2> QED BY <1>1, <2>1, <2>2 DEF GatedJob
  <1> QED BY <1>3, <1>4, <1>5, <1>6 DEF Gated

(* Entering, a copy is the release, or the same as it.                     *)
LEMMA EntersGated ==
    ASSUME RInv, Gated, RInv', NEW p \in Publishers, Enter(p)
    PROVE  Gated'
  <1> DEFINE r == job[p].release
  <1>1. /\ job \in [Publishers -> Job] /\ job[p] \in Job /\ JobInOrder(job[p], pointer)
        /\ GatedJob(p, job[p], staged, dir) /\ staged \in [Releases -> Candidate]
        /\ dir \in [Releases -> Directory]
        /\ job[p].phase = "wait" /\ r \in Releases /\ job[p].drop = {}
        /\ UNCHANGED staged /\ None \notin Bindings
        /\ \A q \in Publishers \ {p} : job'[q] = job[q]
    BY ReleaseAssumption DEF RInv, ReleaseTypeOK, Gated, JobInOrder, Enter, JobEnds
  <1>2. \A q \in Publishers : job[q].phase \notin {"switch", "clean"}
    BY ReleaseAssumption DEF RInv, LockHeld, Enter, Publishers
  <1>3. CASE JobEnds(p) /\ UNCHANGED dir
    BY <1>1, <1>3, IdleGated, GatedRoot DEF JobEnds, Present
  <1>4. CASE /\ job[p].incoming => Present(r) /\ SameAsCandidate(r)
             /\ job' = [job EXCEPT ![p].phase = "switch", ![p].incoming = FALSE]
             /\ UNCHANGED dir
    <2> DEFINE x == [job[p] EXCEPT !.phase = "switch", !.incoming = FALSE]
    <2>1. /\ x.phase = "switch" /\ x.release = r /\ x.copied = job[p].copied /\ x.drop = {}
          /\ ~x.incoming /\ x.binding = job[p].binding
      BY <1>1 DEF Job
    <2>2. job'[p] = x
      BY <1>1, <1>4
    <2>3. job[p].copied # None => Present(r) /\ dir[r].binding = staged[r].binding
      BY <1>1, <1>4 DEF GatedJob, SameAsCandidate
    <2> HIDE DEF x
    <2>4. GatedJob(p, x, staged, dir)
      BY <1>1, <2>1, <2>3 DEF GatedJob, Present
    <2> QED BY <1>1, <1>4, <2>2, <2>4, GatedRoot DEF Present
  <1>5. CASE /\ job[p].incoming /\ ~Present(r)
             /\ dir' = [dir EXCEPT ![r] = [state |-> "whole", binding |-> job[p].copied]]
             /\ job' = [job EXCEPT ![p].phase = "switch", ![p].incoming = FALSE, ![p].made = TRUE]
    <2> DEFINE x == [job[p] EXCEPT !.phase = "switch", !.incoming = FALSE, !.made = TRUE]
    <2>1. /\ x.phase = "switch" /\ x.release = r /\ x.copied = job[p].copied /\ x.drop = {}
          /\ ~x.incoming /\ x.binding = job[p].binding
      BY <1>1 DEF Job
    <2>2. job'[p] = x
      BY <1>1, <1>5
    <2>3. /\ dir'[r] = [state |-> "whole", binding |-> job[p].copied]
          /\ \A y \in Releases \ {r} : dir'[y] = dir[y]
      BY <1>1, <1>5
    <2>4. /\ p \in Web /\ job[p].copied # None
          /\ staged[r].writes > 0
          /\ staged[r].writes <= 1 => /\ job[p].copied = job[p].binding
                                      /\ staged[r].binding = job[p].binding
      BY <1>1, <1>5 DEF GatedJob
    <2> HIDE DEF x
    <2>5. GatedJob(p, x, staged, dir')
      BY <1>1, <2>1, <2>3, <2>4 DEF GatedJob
    <2>6. \A y \in {r} : GatedRelease(y)'
      BY <1>1, <2>3, <2>4 DEF GatedRelease, Present
    <2>7. \A y \in Releases \ Built :
             \/ Present(y)' => Present(y) /\ dir'[y].binding = dir[y].binding
             \/ GatedRelease(y)'
      BY <2>3, <2>6 DEF Present
    <2> QED BY <1>1, <1>2, <2>2, <2>5, <2>7, GatedRoot
  <1> QED BY <1>3, <1>4, <1>5 DEF Enter

(* Under the lock nothing is made; what is removed has no other user.      *)
LEMMA UnderTheLockGated ==
    ASSUME RInv, Gated, RInv', NEW p \in Publishers,
           \/ Switch(p) \/ SwitchFails(p) \/ Leave(p) \/ Rollback(p)
           \/ \E r \in Releases : CleanUp(p, r)
    PROVE  Gated'
  <1>1. /\ job \in [Publishers -> Job] /\ job[p] \in Job /\ JobInOrder(job[p], pointer)
        /\ GatedJob(p, job[p], staged, dir) /\ dir \in [Releases -> Directory]
        /\ UNCHANGED staged
        /\ \A q \in Publishers \ {p} : job'[q] = job[q]
    BY DEF RInv, ReleaseTypeOK, Gated, Switch, SwitchFails, Leave, Rollback, CleanUp,
           JobEnds, filesVars
  <1>2. CASE JobEnds(p) /\ UNCHANGED dir
    BY <1>1, <1>2, IdleGated, GatedRoot DEF JobEnds, Present
  <1>3. CASE Switch(p) /\ ~JobEnds(p)
    <2> DEFINE new == [generation |-> pointer.generation + 1,
                       active |-> [release |-> job[p].release, binding |-> dir[job[p].release].binding],
                       fallback |-> NextFallback(job[p].release)]
               x == [job[p] EXCEPT !.phase = "clean", !.drop = Unreferenced(pointer, new)]
    <2>1. job'[p] = x /\ UNCHANGED dir
      BY <1>1, <1>3 DEF Switch, filesVars
    <2>2. /\ x.phase = "clean" /\ x.drop = Unreferenced(pointer, new)
          /\ x.incoming = job[p].incoming /\ x.copied = job[p].copied
          /\ job[p].phase = "switch"
      BY <1>1, <1>3 DEF Job, Switch
    <2>3. \A r \in x.drop : dir[r].state # "absent"
      BY <2>2 DEF Unreferenced, Present
    <2> HIDE DEF x, new
    <2>4. GatedJob(p, x, staged, dir)
      BY <1>1, <2>2, <2>3 DEF GatedJob
    <2> QED BY <1>1, <2>1, <2>4, GatedRoot DEF Present
  <1>4. \A q \in Publishers \ {p} :
           SwitchFails(p) \/ (\E r \in Releases : CleanUp(p, r)) => job[q].phase \notin {"switch", "clean"}
    BY DEF RInv, LockHeld, SwitchFails, CleanUp
  <1>5. CASE SwitchFails(p)
    <2>1. JobEnds(p) /\ \A y \in Releases : dir'[y] = dir[y] \/ dir'[y] = NoDirectory
      BY <1>1, <1>5 DEF SwitchFails
    <2>2. \A y \in Releases \ Built : Present(y)' => Present(y) /\ dir'[y].binding = dir[y].binding
      BY <2>1 DEF Present, NoDirectory
    <2> QED BY <1>1, <1>4, <1>5, <2>1, <2>2, IdleGated, GatedRoot DEF JobEnds
  <1>6. ASSUME NEW r \in Releases, CleanUp(p, r) PROVE Gated'
    <2> DEFINE x == [job[p] EXCEPT !.drop = job[p].drop \ {r}]
    <2>1. /\ job'[p] = x /\ x.phase = "clean" /\ x.drop = job[p].drop \ {r}
          /\ x.incoming = job[p].incoming /\ x.copied = job[p].copied
      BY <1>1, <1>6 DEF CleanUp, Job
    <2>2. Present(r) /\ \A y \in Releases \ {r} : dir'[y] = dir[y]
      BY <1>1, <1>6 DEF GatedJob, CleanUp, Present
    <2>3. \A y \in Releases \ Built : Present(y)' => Present(y) /\ dir'[y].binding = dir[y].binding
      <3>1. Present(r)' => dir'[r].binding = dir[r].binding
        BY <1>1, <1>6 DEF CleanUp, Present, NoDirectory, Directory
      <3> QED BY <2>2, <3>1 DEF Present
    <2> HIDE DEF x
    <2>4. x.drop \subseteq Releases
      BY <1>1, <2>1 DEF Job
    <2>5. GatedJob(p, x, staged, dir')
      BY <1>1, <1>6, <2>1, <2>2, <2>4 DEF GatedJob, CleanUp
    <2>6. \A q \in Publishers \ {p} : job[q].phase \notin {"switch", "clean"}
      BY <1>4, <1>6
    <2> QED BY <1>1, <2>1, <2>3, <2>5, <2>6, GatedRoot
  <1>7. CASE (Switch(p) /\ JobEnds(p)) \/ Leave(p) \/ Rollback(p)
    BY <1>2, <1>7 DEF Switch, Leave, Rollback, filesVars
  <1> QED BY <1>3, <1>5, <1>6, <1>7

(* Building, damage, the workers and deaths.                               *)
LEMMA OthersGated ==
    ASSUME RInv, Gated, RInv',
           \/ \E p \in Publishers, r \in Releases : BuildCandidate(p, r)
           \/ \E r \in Releases : Damage(r)
           \/ \E w \in Workers : WorkerStep(w) \/ Restart(w) \/ WorkerDies(w)
           \/ \E ps \in SUBSET Publishers : PublishersDie(ps)
    PROVE  Gated'
  <1>1. dir \in [Releases -> Directory] /\ job \in [Publishers -> Job]
    BY DEF RInv, ReleaseTypeOK
  <1>2. CASE \E p \in Publishers, r \in Releases : BuildCandidate(p, r)
    <2>1. PICK r \in Built \cap Releases : ~Present(r) /\ \A x \in Releases \ {r} : dir'[x] = dir[x]
      BY <1>1, <1>2 DEF BuildCandidate
    <2>2. UNCHANGED <<staged, job>>
      BY <1>2 DEF BuildCandidate
    <2> QED BY <2>1, <2>2, GatedRoot DEF Present
  <1>3. CASE \E r \in Releases : Damage(r)
    <2>1. UNCHANGED <<staged, job>>
      BY <1>3 DEF Damage
    <2>2. \A x \in Releases : /\ dir'[x].binding = dir[x].binding
                              /\ dir[x].state # "absent" <=> dir'[x].state # "absent"
      BY <1>1, <1>3 DEF Damage, Directory
    <2> QED BY <2>1, <2>2, GatedRoot DEF Present
  <1>4. ASSUME NEW w \in Workers, WorkerStep(w) \/ Restart(w) \/ WorkerDies(w) PROVE Gated'
    <2>1. UNCHANGED <<staged, job>>
      BY <1>4 DEF WorkerStep, Restart, WorkerDies, Start, Inspect, Recover, ValidateActive,
                  RollbackActive, Quarantine, Open, Serve, filesVars
    <2>2. CASE UNCHANGED dir
      BY <2>1, <2>2, GatedRoot DEF Present
    <2>3. CASE Quarantine(w)
      <3>1. \A q \in Publishers : job[q].phase \notin {"switch", "clean"}
        BY <2>3, ReleaseAssumption DEF RInv, LockHeld, Quarantine, Publishers
      <3>2. \A x \in Releases : dir'[x] = dir[x] \/ dir'[x] = NoDirectory
        BY <1>1, <2>3 DEF Quarantine
      <3> QED BY <2>1, <3>1, <3>2, GatedRoot DEF Present, NoDirectory
    <2> QED BY <1>4, <2>2, <2>3
         DEF WorkerStep, Restart, WorkerDies, Start, Inspect, Recover, ValidateActive,
             RollbackActive, Open, Serve, filesVars
  <1>5. ASSUME NEW ps \in SUBSET Publishers, PublishersDie(ps) PROVE Gated'
    <2>1. /\ UNCHANGED staged
          /\ \A p \in Publishers : job'[p] = job[p] \/ job'[p] = IdleJob
      BY <1>5 DEF PublishersDie
    <2>2. \A x \in Releases : /\ dir'[x].binding = dir[x].binding
                              /\ dir[x].state # "absent" <=> dir'[x].state # "absent"
      <3>1. CASE UNCHANGED dir
        BY <3>1
      <3>2. ASSUME NEW p \in ps, NEW r \in job[p].drop, dir' = [dir EXCEPT ![r].state = "broken"]
            PROVE  \A x \in Releases : /\ dir'[x].binding = dir[x].binding
                                       /\ dir[x].state # "absent" <=> dir'[x].state # "absent"
        <4>1. dir[r].state # "absent" /\ r \in Releases
          BY <1>1, <3>2 DEF Gated, GatedJob, Job
        <4> QED BY <1>1, <3>2, <4>1 DEF Directory
      <3> QED BY <1>5, <3>1, <3>2 DEF PublishersDie
    <2> QED BY <2>1, <2>2, IdleGated, GatedRoot DEF Present
  <1> QED BY <1>2, <1>3, <1>4, <1>5

(* At first no candidate is sealed and the root is empty.                  *)
LEMMA InitGated == Init => Gated
  BY IdleGated DEF Init, Gated, GatedRelease, Present, NoDirectory

(* Every step preserves Gated.                                             *)
LEMMA NextGated == RInv /\ RInv' /\ Gated /\ [Next]_vars => Gated'
  <1> SUFFICES ASSUME RInv, RInv', Gated, [Next]_vars PROVE Gated'
    OBVIOUS
  <1>1. CASE UNCHANGED vars
    BY <1>1, GatedRoot DEF vars, Present
  <1>2. ASSUME NEW p \in Publishers, NEW r \in Releases,
               \/ \E b \in Bindings : CheckRelease(p, r, b)
               \/ BuildCandidate(p, r) \/ PublishCandidate(p, r)
        PROVE  Gated'
    BY <1>2, BeforeTheLockGated, OthersGated
  <1>3. ASSUME NEW p \in Publishers,
               AskRollback(p) \/ PublisherStep(p) \/ SwitchFails(p) \/ CliDies(p)
        PROVE  Gated'
    <2>1. CASE AskRollback(p) \/ SealReads(p) \/ Verify(p) \/ Materialize(p)
      <3>1. job[p].phase # "idle" => job[p].release \in Releases
        BY DEF RInv, JobInOrder
      <3>2. \E r \in Releases : TRUE
        BY <2>1, <3>1 DEF AskRollback, SealReads, Verify, Materialize,
                          RInv, ReleaseTypeOK, Pointer, Entry
      <3> QED BY <2>1, <3>2, BeforeTheLockGated
    <2>2. CASE CliDies(p)
      BY <2>2, OthersGated DEF CliDies
    <2> QED BY <1>3, <2>1, <2>2, SealsGated, EntersGated, UnderTheLockGated DEF PublisherStep
  <1>4. CASE WebDies
    BY <1>4, OthersGated DEF WebDies, Publishers
  <1> QED BY <1>1, <1>2, <1>3, <1>4, OthersGated DEF Next

(* Only its switch takes a publication from the switch to the clean-up.    *)
LEMMA OnlySwitch ==
    ASSUME RInv, [Next]_vars, NEW p \in Publishers,
           job[p].phase = "switch", job'[p].phase = "clean"
    PROVE  Switch(p) /\ ~JobEnds(p)
  <1>1. job \in [Publishers -> Job] /\ job'[p] # job[p] /\ job'[p] # IdleJob
    BY DEF RInv, ReleaseTypeOK, IdleJob
  <1>2. ~JobEnds(p)
    BY <1>1 DEF JobEnds
  <1>3. job' # job
    BY <1>1
  <1>4. \A ps : ~PublishersDie(ps)
    BY <1>1 DEF PublishersDie
  <1>5. ASSUME NEW q \in Publishers, job'[q] = job[q] PROVE q # p
    BY <1>1, <1>5
  <1>6. ASSUME NEW q \in Publishers,
               \/ AskRollback(q) \/ SealReads(q) \/ SealWrites(q) \/ Verify(q) \/ Materialize(q)
               \/ \E r \in Releases :
                     PublishCandidate(q, r) \/ \E b \in Bindings : CheckRelease(q, r, b)
               \/ Enter(q) \/ Switch(q) \/ SwitchFails(q) \/ Leave(q) \/ Rollback(q)
               \/ \E r \in Releases : CleanUp(q, r)
        PROVE  Switch(p)
    <2>1. q = p
      BY <1>1, <1>6 DEF AskRollback, SealReads, SealWrites, Verify, Materialize, PublishCandidate,
                        CheckRelease, Enter, Switch, SwitchFails, Leave, Rollback, CleanUp,
                        JobGoes, JobEnds
    <2> QED BY <1>1, <1>2, <1>6, <2>1
            DEF AskRollback, SealReads, SealWrites, Verify, Materialize, PublishCandidate,
                CheckRelease, Enter, SwitchFails, Leave, Rollback, CleanUp
  <1>7. ASSUME NEW w \in Workers, WorkerStep(w) \/ Restart(w) \/ WorkerDies(w) PROVE FALSE
    BY <1>3, <1>7 DEF WorkerStep, Restart, WorkerDies, Start, Inspect, Recover, ValidateActive,
                      RollbackActive, Quarantine, Open, Serve
  <1>8. \A q, r : ~BuildCandidate(q, r) /\ ~Damage(r)
    BY <1>3 DEF BuildCandidate, Damage
  <1>9. Next
    BY <1>3 DEF vars
  <1> QED BY <1>2, <1>4, <1>6, <1>7, <1>8, <1>9 DEF Next, PublisherStep, CliDies, WebDies

(* What a Web publication activates carries the evaluation that passed its *)
(* gates, if its candidate was sealed once: when it brought a copy, or     *)
(* when the CLI does not build that release.                               *)
THEOREM PublicationsAreGated == Spec => PublishedAsGated
  <1> DEFINE Step ==
        \A p \in Web :
          /\ job[p].phase = "switch" /\ job'[p].phase = "clean"
          /\ staged[job[p].release].writes <= 1
          /\ job[p].copied # None \/ job[p].release \notin Built
          => pointer'.active.binding = job[p].binding
  <1>1. ASSUME RInv, Gated, [Next]_vars PROVE Step
    <2> SUFFICES ASSUME NEW p \in Web, job[p].phase = "switch", job'[p].phase = "clean",
                        staged[job[p].release].writes <= 1,
                        job[p].copied # None \/ job[p].release \notin Built
                 PROVE  pointer'.active.binding = job[p].binding
      OBVIOUS
    <2>1. /\ job \in [Publishers -> Job] /\ p \in Publishers /\ job[p] \in Job
          /\ GatedJob(p, job[p], staged, dir) /\ job[p].release \in Releases
          /\ staged[job[p].release].writes > 0
      <3>1. job \in [Publishers -> Job] /\ p \in Publishers
        BY <1>1 DEF RInv, ReleaseTypeOK, Publishers
      <3>2. GatedJob(p, job[p], staged, dir) /\ JobInOrder(job[p], pointer)
        BY <1>1, <3>1 DEF RInv, Gated
      <3>3. job[p].release \in Releases
        BY <3>2 DEF JobInOrder
      <3>4. staged[job[p].release].writes > 0
        BY <3>2 DEF GatedJob
      <3> QED BY <3>1, <3>2, <3>3, <3>4
    <2>2. Switch(p) /\ ~JobEnds(p)
      BY <1>1, <2>1, OnlySwitch
    <2>3. Present(job[p].release) /\ pointer'.active.binding = dir[job[p].release].binding
      BY <2>2 DEF Switch
    <2>4. CASE job[p].copied # None
      BY <2>1, <2>3, <2>4 DEF GatedJob
    <2>5. CASE job[p].release \notin Built
      <3>1. GatedRelease(job[p].release)
        BY <1>1, <2>1, <2>5 DEF Gated
      <3>2. dir[job[p].release].binding = staged[job[p].release].binding
        BY <2>3, <3>1 DEF GatedRelease
      <3> QED BY <2>1, <2>3, <3>2 DEF GatedJob
    <2> QED BY <2>4, <2>5
  <1>2. RInv /\ Gated /\ [Next]_vars => [Step]_vars
    BY <1>1
  <1>3. Spec => [](RInv /\ Gated)
    BY InitRInv, NextRInv, InitGated, NextGated, PTL DEF Spec
  <1>4. Spec => [][Step]_vars
    BY <1>2, <1>3, PTL DEF Spec
  <1> QED BY <1>4 DEF PublishedAsGated

=============================================================================

--------------------------- MODULE ReleasePointer ---------------------------
(***************************************************************************)
(* The releases of the production knowledge base                           *)
(* (Agent/knowledge_base/multimodal/release.py).  One directory mm_<id>    *)
(* per release under the formal root, and one pointer file that names the  *)
(* active release, its only fallback and a generation.  Web requests       *)
(* publish staged candidates and roll back (isolated_runs.py, pipeline.py),*)
(* the maintenance CLI does so for candidates it builds in the root, and   *)
(* every agent worker resolves the pointer when it starts and again at its *)
(* first query (rag_runtime.py), and rolls back from a release that is     *)
(* broken.  The pointer is switched under a file lock; what is copied,     *)
(* validated and read is not.                                              *)
(*                                                                         *)
(* The production policy (validate_production_manifest) compares fields of *)
(* a manifest that no step changes with the deployed configuration.  Every *)
(* publication demands it, so that a worker or a rollback that demands it  *)
(* again (enforce_production_policy) is refused only after the deployment  *)
(* was reconfigured, which no action here does.                            *)
(***************************************************************************)
EXTENDS Naturals

CONSTANTS
    Releases,       \* release ids
    Built,          \* bound: the releases the CLI builds
    Bindings,       \* evaluation runs a candidate may be bound to
    Web,            \* request threads of the Web process
    Cli,            \* maintenance processes
    Workers,        \* agent worker processes
    None,
    MaxGeneration,  \* bound: switches of the pointer
    MaxFaults       \* bound: crashes, damage, failed removals and writes

ASSUME ReleaseAssumption ==
    /\ None \notin Releases \cup Bindings \cup Web \cup Cli \cup Workers \cup Nat
    /\ Web \cap Cli = {} /\ (Web \cup Cli) \cap Workers = {}
    /\ Built \subseteq Releases
    /\ MaxGeneration \in Nat /\ MaxFaults \in Nat

VARIABLES
    pointer,   \* active_index.json
    dir,       \* [Releases -> Directory]: mm_<id> in the formal root
    staged,    \* [Releases -> Candidate]: the run-local manifests
    lock,      \* the holder of .release.lock
    job,       \* [Web \cup Cli -> Job]: publications and rollbacks
    worker,    \* [Workers -> Worker]
    hurt,      \* [Releases -> Harm]: which were damaged, or removed by halves
    faults     \* faults so far

filesVars == <<dir, staged, hurt>>
vars == <<pointer, dir, staged, lock, job, worker, hurt, faults>>

Publishers == Web \cup Cli

(* A manifest is known by its release and its evaluation_binding.          *)
Entry == [release : Releases, binding : Bindings \cup {None}]
ASSUME EntryAssumption == None \notin Entry

Pointer == [generation : Nat, active : Entry \cup {None}, fallback : Entry \cup {None}]
Directory == [state : {"absent", "whole", "broken"}, binding : Bindings \cup {None}]
Harm == {"none", "hurt", "mended"}
Candidate == [binding : Bindings \cup {None}, writes : Nat]

JobPhase == {"idle", "seal", "write", "verify", "copy", "wait", "switch", "clean", "rollback"}
Job == [phase    : JobPhase,
        release  : Releases \cup {None},
        binding  : Bindings \cup {None},   \* the evaluation that passed the gates
        expected : Nat \cup {None},        \* expected_generation
        incoming : BOOLEAN,                \* .incoming-<id>-<uuid> exists ...
        copied   : Bindings \cup {None},   \* ... with this manifest
        made     : BOOLEAN,                \* target_created
        drop     : SUBSET Releases]        \* still to be removed

WorkerPhase == {"down", "check", "recover", "validate", "rollback", "quarantine",
                "unavailable", "ready", "open", "serving"}
Worker == [phase : WorkerPhase,
           entry : Entry \cup {None},      \* the release it resolves or serves
           seen  : Pointer,                \* the pointer validate_active has read
           since : Nat]                    \* the generation entry was read at

NoPointer == [generation |-> 0, active |-> None, fallback |-> None]
NoDirectory == [state |-> "absent", binding |-> None]
IdleJob == [phase |-> "idle", release |-> None, binding |-> None, expected |-> None,
            incoming |-> FALSE, copied |-> None, made |-> FALSE, drop |-> {}]
DownWorker == [phase |-> "down", entry |-> None, seen |-> NoPointer, since |-> 0]

Init ==
    /\ pointer = NoPointer
    /\ dir = [r \in Releases |-> NoDirectory]
    /\ staged = [r \in Releases |-> [binding |-> None, writes |-> 0]]
    /\ lock = None
    /\ job = [p \in Publishers |-> IdleJob]
    /\ worker = [w \in Workers |-> DownWorker]
    /\ hurt = [r \in Releases |-> "none"]
    /\ faults = 0

-----------------------------------------------------------------------------
(* Directories and the pointer *)

Present(r) == dir[r].state # "absent"

(* _validate_release_dir with an entry of the pointer: the directory is    *)
(* complete and its manifest is the one the entry names.                   *)
Valid(e) == e # None /\ dir[e.release] = [state |-> "whole", binding |-> e.binding]

(* Mutant: it is enough that the directory is complete.                    *)
CompleteOnly(r) == dir[r].state = "whole"

(* ... with the manifest of the candidate.                                 *)
SameAsCandidate(r) == dir[r] = [state |-> "whole", binding |-> staged[r].binding]

IdOf(e) == IF e = None THEN None ELSE e.release
Protected(ptr) == {IdOf(ptr.active), IdOf(ptr.fallback)}

JobGoes(p, ph) == job' = [job EXCEPT ![p].phase = ph]
JobEnds(p) == job' = [job EXCEPT ![p] = IdleJob]
WorkerGoes(w, ph) == worker' = [worker EXCEPT ![w].phase = ph]
RunsWithoutRag(w) == worker' = [worker EXCEPT ![w] = [DownWorker EXCEPT !.phase = "unavailable"]]

(* What is put in the place of a damaged release may be another one.       *)
Hurts(r) == hurt' = [hurt EXCEPT ![r] = "hurt"]
Mends(r) == hurt' = [hurt EXCEPT ![r] = IF @ = "none" THEN "none" ELSE "mended"]

Fault == faults < MaxFaults /\ faults' = faults + 1

-----------------------------------------------------------------------------
(* Publishing: the gates, the sealed binding, the copy *)

(* check_release: the gates pass for evaluation b and the pointer is still *)
(* the one the user expects, if the request names one.                     *)
CheckRelease(p, r, b) ==
    /\ p \in Web /\ job[p].phase = "idle"
    /\ pointer.generation < MaxGeneration
    /\ \E g \in {None, pointer.generation} :
          job' = [job EXCEPT ![p] = [IdleJob EXCEPT !.phase = "seal", !.release = r,
                                                    !.binding = b, !.expected = g]]
    /\ UNCHANGED <<pointer, filesVars, lock, worker, faults>>

(* seal_evaluation_binding reads the manifest: it is unbound, bound to     *)
(* this evaluation, or sealed already.                                     *)
SealReads(p) ==
    /\ job[p].phase = "seal"
    /\ LET b == staged[job[p].release].binding
       IN  \/ b = None /\ JobGoes(p, "write")
           \/ b = job[p].binding /\ JobGoes(p, "verify")
           \/ b \notin {None, job[p].binding} /\ JobEnds(p)
    /\ UNCHANGED <<pointer, filesVars, lock, worker, faults>>

SealWrites(p) ==
    /\ job[p].phase = "write"
    /\ staged' = [staged EXCEPT ![job[p].release] =
                     [binding |-> job[p].binding, writes |-> @.writes + 1]]
    /\ JobGoes(p, "verify")
    /\ UNCHANGED <<pointer, dir, lock, worker, hurt, faults>>

(* publish_staged: the binding and the hash of the manifest are compared.  *)
Verify(p) ==
    /\ job[p].phase = "verify"
    /\ IF staged[job[p].release].binding = job[p].binding THEN JobGoes(p, "copy") ELSE JobEnds(p)
    /\ UNCHANGED <<pointer, filesVars, lock, worker, faults>>

(* A release that is in the root already has to be the same; another one   *)
(* is copied beside it.                                                    *)
Materialize(p) ==
    /\ job[p].phase = "copy"
    /\ LET r == job[p].release
       IN  \/ Present(r) /\ SameAsCandidate(r) /\ JobGoes(p, "wait")
           \/ Present(r) /\ ~SameAsCandidate(r) /\ JobEnds(p)
           \/ /\ ~Present(r)
              /\ job' = [job EXCEPT ![p].phase = "wait", ![p].incoming = TRUE,
                                    ![p].copied = staged[r].binding]
    /\ UNCHANGED <<pointer, filesVars, lock, worker, faults>>

(* The CLI builds its candidates in the formal root itself.                *)
BuildCandidate(p, r) ==
    /\ p \in Cli /\ job[p].phase = "idle"
    /\ r \in Built /\ ~Present(r)
    /\ dir' = [dir EXCEPT ![r] = [state |-> "whole", binding |-> None]]
    /\ Mends(r)
    /\ UNCHANGED <<pointer, staged, lock, job, worker, faults>>

(* ... and publishes them in place, with no expectation.                   *)
PublishCandidate(p, r) ==
    /\ p \in Cli /\ job[p].phase = "idle"
    /\ pointer.generation < MaxGeneration
    /\ dir[r].state = "whole"
    /\ job' = [job EXCEPT ![p] = [IdleJob EXCEPT !.phase = "wait", !.release = r]]
    /\ UNCHANGED <<pointer, filesVars, lock, worker, faults>>

-----------------------------------------------------------------------------
(* Publishing: under the lock *)

Expects(p) == job[p].expected \in {None, pointer.generation}

(* The lock is taken and the pointer read; the copy becomes the release.   *)
Enter(p) ==
    /\ job[p].phase = "wait" /\ lock = None
    /\ LET r == job[p].release
       IN  \/ /\ Expects(p)
              /\ job[p].incoming => Present(r) /\ SameAsCandidate(r)
              /\ lock' = p
              /\ job' = [job EXCEPT ![p].phase = "switch", ![p].incoming = FALSE]
              /\ UNCHANGED <<dir, hurt>>
           \/ /\ Expects(p)
              /\ job[p].incoming /\ ~Present(r)
              /\ dir' = [dir EXCEPT ![r] = [state |-> "whole", binding |-> job[p].copied]]
              /\ Mends(r)
              /\ lock' = p
              /\ job' = [job EXCEPT ![p].phase = "switch", ![p].incoming = FALSE,
                                    ![p].made = TRUE]
           \/ /\ ~Expects(p) \/ (job[p].incoming /\ Present(r) /\ ~SameAsCandidate(r))
              /\ JobEnds(p)
              /\ UNCHANGED <<dir, hurt, lock>>
    /\ UNCHANGED <<pointer, staged, worker, faults>>

(* Mutant: what the pointer named before is protected.                     *)
UnreferencedBefore(old, new) == {x \in Releases : Present(x)} \ Protected(old)

(* The releases the clean-up after a switch removes.                       *)
Unreferenced(old, new) == {x \in Releases : Present(x)} \ Protected(new)

(* Mutant: the previous active release is forgotten.                       *)
NextFallbackKept(r) == pointer.fallback

(* The fallback is the release that was active before; a release that is   *)
(* published once more keeps its fallback.                                 *)
NextFallback(r) == IF IdOf(pointer.active) = r THEN pointer.fallback ELSE pointer.active

(* One replace of the pointer file.  A target that has gone is noticed.    *)
Switch(p) ==
    /\ job[p].phase = "switch"
    /\ LET r == job[p].release
           switched == [generation |-> pointer.generation + 1,
                        active |-> [release |-> r, binding |-> dir[r].binding],
                        fallback |-> NextFallback(r)]
       IN  \/ /\ Present(r)
              /\ pointer' = switched
              /\ job' = [job EXCEPT ![p].phase = "clean",
                                       ![p].drop = Unreferenced(pointer, switched)]
              /\ UNCHANGED lock
           \/ /\ ~Present(r)
              /\ JobEnds(p)
              /\ lock' = None
              /\ UNCHANGED pointer
    /\ UNCHANGED <<filesVars, worker, faults>>

(* The pointer cannot be written: a target made for it is removed again.   *)
SwitchFails(p) ==
    /\ job[p].phase = "switch"
    /\ Fault
    /\ dir' = IF job[p].made THEN [dir EXCEPT ![job[p].release] = NoDirectory] ELSE dir
    /\ JobEnds(p)
    /\ lock' = None
    /\ UNCHANGED <<pointer, staged, worker, hurt>>

(* _cleanup_unreferenced_releases, one directory at a time; rmtree may     *)
(* fail in the middle of one.                                              *)
CleanUp(p, r) ==
    /\ job[p].phase = "clean" /\ r \in job[p].drop
    /\ job' = [job EXCEPT ![p].drop = @ \ {r}]
    /\ \/ /\ dir' = [dir EXCEPT ![r] = NoDirectory]
          /\ UNCHANGED <<hurt, faults>>
       \/ /\ Fault
          /\ dir' = [dir EXCEPT ![r].state = "broken"]
          /\ Hurts(r)
    /\ UNCHANGED <<pointer, staged, lock, worker>>

Leave(p) ==
    /\ job[p].phase = "clean" /\ job[p].drop = {}
    /\ JobEnds(p)
    /\ lock' = None
    /\ UNCHANGED <<pointer, filesVars, worker, faults>>

-----------------------------------------------------------------------------
(* Rolling back on request: the validated fallback and the active release  *)
(* change places                                                           *)

AskRollback(p) ==
    /\ job[p].phase = "idle"
    /\ pointer.fallback # None /\ pointer.generation < MaxGeneration
    /\ \E g \in IF p \in Web THEN {None, pointer.generation} ELSE {None} :
          job' = [job EXCEPT ![p] = [IdleJob EXCEPT !.phase = "rollback", !.expected = g,
                                                    !.release = pointer.fallback.release]]
    /\ UNCHANGED <<pointer, filesVars, lock, worker, faults>>

Rollback(p) ==
    /\ job[p].phase = "rollback" /\ lock = None
    /\ IF Expects(p) /\ IdOf(pointer.fallback) = job[p].release /\ Valid(pointer.fallback)
       THEN pointer' = [generation |-> pointer.generation + 1,
                        active |-> pointer.fallback, fallback |-> pointer.active]
       ELSE UNCHANGED pointer
    /\ JobEnds(p)
    /\ UNCHANGED <<filesVars, lock, worker, faults>>

-----------------------------------------------------------------------------
(* An agent worker: readiness at the start, recovery, the first query *)

Start(w) ==
    /\ worker[w].phase = "down"
    /\ worker' = [worker EXCEPT ![w] = [DownWorker EXCEPT !.phase = "check",
                                                          !.entry = pointer.active]]
    /\ UNCHANGED <<pointer, filesVars, lock, job, faults>>

(* _resolve_multimodal_release: what the pointer named is looked at.       *)
Inspect(w) ==
    /\ worker[w].phase = "check"
    /\ worker' = [worker EXCEPT ![w] =
                     [DownWorker EXCEPT !.phase = IF Valid(worker[w].entry) THEN "ready"
                                                  ELSE "recover"]]
    /\ UNCHANGED <<pointer, filesVars, lock, job, faults>>

(* validate_active reads the pointer again, without the lock ...           *)
Recover(w) ==
    /\ worker[w].phase = "recover"
    /\ worker' = [worker EXCEPT ![w].phase = "validate", ![w].seen = pointer]
    /\ UNCHANGED <<pointer, filesVars, lock, job, faults>>

(* ... and looks at the active release.  Without a fallback, or when the   *)
(* release is found well after all, the worker runs without RAG.  (A sound *)
(* release that fails the policy of a new configuration is not modelled.)  *)
ValidateActive(w) ==
    /\ worker[w].phase = "validate"
    /\ LET s == worker[w].seen
       IN  IF s.active = None \/ s.fallback = None \/ Valid(s.active)
           THEN RunsWithoutRag(w) ELSE WorkerGoes(w, "rollback")
    /\ UNCHANGED <<pointer, filesVars, lock, job, faults>>

RollbackActive(w) ==
    /\ worker[w].phase = "rollback" /\ lock = None
    /\ IF pointer.generation = worker[w].seen.generation /\ Valid(pointer.fallback)
       THEN /\ pointer' = [generation |-> pointer.generation + 1,
                           active |-> pointer.fallback, fallback |-> None]
            /\ WorkerGoes(w, "quarantine")
            /\ lock' = w
       ELSE /\ RunsWithoutRag(w)
            /\ UNCHANGED <<pointer, lock>>
    /\ UNCHANGED <<filesVars, job, faults>>

(* The old release is moved away, if it is there and can be moved.         *)
Quarantine(w) ==
    /\ worker[w].phase = "quarantine"
    /\ \/ dir' = [dir EXCEPT ![worker[w].seen.active.release] = NoDirectory]
       \/ UNCHANGED dir
    /\ RunsWithoutRag(w)
    /\ lock' = None
    /\ UNCHANGED <<pointer, staged, hurt, job, faults>>

(* The first query resolves the pointer anew; what it opens is kept.       *)
Open(w) ==
    /\ worker[w].phase = "ready"
    /\ worker' = [worker EXCEPT ![w].phase = "open", ![w].entry = pointer.active,
                                ![w].since = pointer.generation]
    /\ UNCHANGED <<pointer, filesVars, lock, job, faults>>

Serve(w) ==
    /\ worker[w].phase = "open"
    /\ worker' = IF Valid(worker[w].entry) THEN [worker EXCEPT ![w].phase = "serving"]
                 ELSE [worker EXCEPT ![w] = [DownWorker EXCEPT !.phase = "ready"]]
    /\ UNCHANGED <<pointer, filesVars, lock, job, faults>>

(* A worker is restarted between two jobs, at any point of its start.      *)
Restart(w) ==
    /\ worker[w].phase \in {"unavailable", "ready", "serving"}
    /\ worker' = [worker EXCEPT ![w] = DownWorker]
    /\ UNCHANGED <<pointer, filesVars, lock, job, faults>>

-----------------------------------------------------------------------------
(* Faults *)

Frees(procs) == lock' = IF lock \in procs THEN None ELSE lock

(* A process that dies frees the lock, leaves its copy behind and, in the  *)
(* middle of a clean-up, a directory that is half removed.                 *)
PublishersDie(ps) ==
    /\ \E p \in ps : job[p].phase # "idle"
    /\ Fault
    /\ Frees(ps)
    /\ job' = [p \in Publishers |-> IF p \in ps THEN IdleJob ELSE job[p]]
    /\ \/ UNCHANGED <<dir, hurt>>
       \/ \E p \in ps : \E r \in job[p].drop :
             /\ dir' = [dir EXCEPT ![r].state = "broken"]
             /\ Hurts(r)
    /\ UNCHANGED <<pointer, staged, worker>>

WebDies == PublishersDie(Web)
CliDies(p) == p \in Cli /\ PublishersDie({p})

WorkerDies(w) ==
    /\ worker[w].phase = "quarantine"
    /\ Frees({w})
    /\ worker' = [worker EXCEPT ![w] = DownWorker]
    /\ UNCHANGED <<pointer, filesVars, job, faults>>

(* A file of a release is lost or changed.                                 *)
Damage(r) ==
    /\ dir[r].state = "whole"
    /\ Fault
    /\ dir' = [dir EXCEPT ![r].state = "broken"]
    /\ Hurts(r)
    /\ UNCHANGED <<pointer, staged, lock, job, worker>>

-----------------------------------------------------------------------------
PublisherStep(p) ==
    \/ SealReads(p) \/ SealWrites(p) \/ Verify(p) \/ Materialize(p)
    \/ Enter(p) \/ Switch(p) \/ Leave(p) \/ Rollback(p)
    \/ \E r \in Releases : CleanUp(p, r)

WorkerStep(w) ==
    \/ Start(w) \/ Inspect(w) \/ Recover(w) \/ ValidateActive(w) \/ RollbackActive(w)
    \/ Quarantine(w) \/ Open(w) \/ Serve(w)

Next ==
    \/ \E p \in Publishers, r \in Releases :
          \/ \E b \in Bindings : CheckRelease(p, r, b)
          \/ BuildCandidate(p, r) \/ PublishCandidate(p, r)
    \/ \E p \in Publishers :
          AskRollback(p) \/ PublisherStep(p) \/ SwitchFails(p) \/ CliDies(p)
    \/ \E w \in Workers : WorkerStep(w) \/ Restart(w) \/ WorkerDies(w)
    \/ \E r \in Releases : Damage(r)
    \/ WebDies

Spec == Init /\ [][Next]_vars

-----------------------------------------------------------------------------
(* Properties *)

(* The pointer, the directories, the jobs and the workers keep their types.*)
ReleaseTypeOK ==
    /\ pointer \in Pointer
    /\ dir \in [Releases -> Directory]
    /\ staged \in [Releases -> Candidate]
    /\ lock \in Publishers \cup Workers \cup {None}
    /\ job \in [Publishers -> Job]
    /\ worker \in [Workers -> Worker]
    /\ hurt \in [Releases -> Harm]
    /\ faults \in Nat

(* Whoever publishes, rolls back, cleans up or dies: the active release    *)
(* and the fallback are complete directories with the manifests the        *)
(* pointer names, unless they themselves were damaged.                     *)
PointerResolves ==
    \A e \in {pointer.active, pointer.fallback} \ {None} :
        hurt[e.release] # "hurt" => Valid(e)

(* A worker's release outlives the next switch: it is the fallback then.   *)
(* It has to be restarted before the one after.  (A release found broken   *)
(* by another worker is moved away, and may be replaced by another one.)   *)
ServedReleaseStays ==
    \A w \in Workers :
        /\ worker[w].phase = "serving"
        /\ pointer.generation <= worker[w].since + 1
        /\ hurt[worker[w].entry.release] = "none"
        => Valid(worker[w].entry)

(* What a Web publication activates carries the evaluation that passed its *)
(* gates, if its candidate was sealed once: always when it brought a copy, *)
(* which is compared with the root under the lock.  A release it found in  *)
(* the root before is not looked at again, so that one must not have been  *)
(* built anew by the CLI in the meantime.                                  *)
PublishedAsGated ==
    [][\A p \in Web :
          /\ job[p].phase = "switch" /\ job'[p].phase = "clean"
          /\ staged[job[p].release].writes <= 1
          /\ job[p].copied # None \/ job[p].release \notin Built
          => pointer'.active.binding = job[p].binding]_vars

=============================================================================

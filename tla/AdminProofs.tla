----------------------------- MODULE AdminProofs -----------------------------
(***************************************************************************)
(* Theorems about AdminWrites, for any users, files, requests, keys and    *)
(* bodies.  The argument is that of two-phase locking: a request keeps     *)
(* every row that it locks until it commits, and whoever writes a row      *)
(* holds it.  So what a request has read of a row it holds stays true.     *)
(***************************************************************************)
EXTENDS AdminWrites, FiniteSetTheorems, TLAPS

-----------------------------------------------------------------------------
(* The inductive invariant *)

OnAccounts == Batch \cup {"delete_user"}
DeletesFile == {"delete_file", "own_delete"}

(* The phases that follow one, in the kinds of requests that have it.      *)
AfterActor(x)   == x.at \notin {"idle", "look", "prove", "actor", "over"}
                   /\ x.body.kind \in AdminKinds
AfterTargets(x) == x.at \in {"safety", "jobs", "object", "files", "session", "write"}
                   /\ x.body.kind \in OnAccounts
AfterSafety(x)  == AfterTargets(x) /\ x.at # "safety"
AfterFiles(x)   == x.at \in {"session", "write"} /\ x.body.kind = "delete_user"
AfterOwner(x)   == x.at \in {"file", "object", "jobs", "count", "write"}
                   /\ x.body.kind \in NamesFile
AfterFile(x)    == x.at \in {"object", "jobs", "count", "write"}
                   /\ x.body.kind \in DeletesFile \cup {"create_job"}
AfterJobs(x)    == \/ x.at \in {"count", "write"} /\ x.body.kind = "delete_file"
                   \/ x.at \in {"count", "object", "write"} /\ x.body.kind = "own_delete"
AfterVictim(x)  == x.at \in {"object", "files", "session", "write"} /\ x.body.kind = "delete_user"
AfterCount(x)   == \/ x.at = "write" /\ x.body.kind = "delete_file"
                   \/ x.at \in {"object", "write"} /\ x.body.kind = "own_delete"

Elements(path) == {path[i] : i \in DOMAIN path}

(* A call that has begun knows who asks for what.                          *)
WellFormed(x) ==
    /\ x.at \in {"idle", "over"} => x.pos = 0 /\ x.admins = {}
    /\ x.at # "idle" => /\ x.actor \in Users /\ x.body \in Bodies /\ x.key \in KeysOf(x.body)
                        /\ x.at \in Elements(Path(x.body.kind)) \cup {"over"}
                        /\ x.body.kind \notin AdminKinds /\ x.body.file # None
                              => OwnerOf[x.body.file] = x.actor
    /\ x.answer # "none" => x.at = "over"

TypeInv == AdminTypeOK /\ \A r \in Requests : WellFormed(req[r])

Victims(x) == {u \in Users : x.body.kind = "delete_user" /\ x.body.targets = {u}}
Owners(x)  == {u \in Users : u = IF x.body.file = None THEN x.actor ELSE OwnerOf[x.body.file]}

(* The rows that request r holds, as far as it has come.                   *)
Holds(r, x) ==
    /\ AfterActor(x) => lock[x.actor] = r
    /\ \A a \in x.admins : lock[a] = r
    /\ x.at = "targets" => \A u \in x.body.targets : u <= x.pos => lock[u] = r
    /\ AfterTargets(x) => \A u \in x.body.targets : lock[u] = r
    /\ x.at = "owner" => \A u \in Owners(x) : u <= x.pos => lock[u] = r
    /\ AfterOwner(x) => \A u \in Owners(x) : lock[u] = r
    /\ x.at = "file" /\ x.body.file # None /\ x.body.file <= x.pos => lock[x.body.file] = r
    /\ AfterFile(x) /\ x.body.file # None => lock[x.body.file] = r
    /\ x.at = "files" => \A f \in files : OwnerOf[f] \in Victims(x) /\ f <= x.pos => lock[f] = r
    /\ AfterFiles(x) => \A f \in files : OwnerOf[f] \in Victims(x) => lock[f] = r

Unknown(x) == \A o \in ops : ~(o.actor = x.actor /\ o.key = x.key)

(* Some job is frozen on the file.                                         *)
InJobs(jobs, f) == \E u \in Users : \E j \in jobs[u] : j.file = f

(* What it has read of them is still true.                                 *)
Sees(x) ==
    /\ AfterActor(x) => /\ EnabledAdmin(x.actor) /\ users[x.actor].password = x.password
                        /\ Unknown(x)
    /\ \A a \in x.admins : EnabledAdmin(a)
    /\ AfterSafety(x) /\ Removes(x.body) =>
          \/ \E a \in x.admins : a \notin x.body.targets
          \/ \A u \in x.body.targets : ~EnabledAdmin(u)
    /\ x.at = "owner" => \A u \in Owners(x) : u <= x.pos => users[u].exists
    /\ AfterOwner(x) => \A u \in Owners(x) : users[u].exists
    /\ x.at = "file" /\ x.body.file # None /\ x.body.file <= x.pos => x.body.file \in files
    /\ AfterFile(x) /\ x.body.file # None => x.body.file \in files
    /\ AfterJobs(x) => ~InJobs(job, x.body.file)
    /\ AfterVictim(x) => \A u \in Victims(x) : job[u] = {}
    /\ AfterCount(x) => (x.last <=> \A f \in files \ {x.body.file} : OwnerOf[f] \notin Owners(x))

Grounded(r) == Holds(r, req[r]) /\ Sees(req[r])
Locks == \A r \in Requests : Grounded(r)

(* Nothing that was ever proved of a password is newer than its change.    *)
ProvedAt(u, c) == /\ c.version <= users[u].version
                  /\ c.version = users[u].version => c.password = users[u].password
Proved ==
    \A u \in Users : users[u].exists => /\ ProvedAt(u, cookie[u])
                                        /\ login[u] # None => ProvedAt(u, login[u])

(* The audit and the registered operations of those who still exist agree. *)
Registers ==
    \A u \in Users, k \in Keys :
        /\ audit[<<u, k>>] <= 1
        /\ (\E o \in ops : o.actor = u /\ o.key = k) => audit[<<u, k>>] = 1
        /\ users[u].exists /\ audit[<<u, k>>] = 1 => \E o \in ops : o.actor = u /\ o.key = k
Told ==
    \A r \in Requests : req[r].answer \in {"done", "replayed"} /\ req[r].body.kind \in AdminKinds
                            => audit[<<req[r].actor, req[r].key>>] = 1

(* A job's file is its user's own.                                         *)
JobsOwn == \A u \in Users : \A j \in job[u] : j.file # None => OwnerOf[j.file] = u

AInv == /\ TypeInv /\ Locks /\ AdminRemains /\ Proved /\ Registers /\ Told
        /\ LibraryIsWhole /\ JobsOwn

-----------------------------------------------------------------------------
(* The paths of the transactions *)

NextOf(kind, at) ==
    CASE at = "look"    -> IF kind = "create_job" THEN "session" ELSE "prove"
      [] at = "prove"   -> "actor"
      [] at = "actor"   -> IF kind = "delete_file" THEN "find" ELSE "admins"
      [] at = "admins"  -> "targets"
      [] at = "targets" -> "safety"
      [] at = "safety"  -> IF kind = "delete_user" THEN "jobs" ELSE "write"
      [] at = "find"    -> "owner"
      [] at = "owner"   -> IF kind = "upload" THEN "object" ELSE "file"
      [] at = "file"    -> IF kind = "own_delete" THEN "jobs" ELSE "object"
      [] at = "object"  -> IF kind = "delete_user" THEN "files"
                           ELSE IF kind = "delete_file" THEN "jobs" ELSE "write"
      [] at = "jobs"    -> IF kind = "delete_user" THEN "object" ELSE "count"
      [] at = "files"   -> "session"
      [] at = "session" -> IF kind = "create_job" THEN "file" ELSE "write"
      [] at = "count"   -> IF kind = "own_delete" THEN "object" ELSE "write"

(* In a path without repetitions that ends with write, each phase but that *)
(* one has a successor.                                                    *)
LEMMA OnAPath ==
    ASSUME NEW path, NEW n \in Nat \ {0}, DOMAIN path = 1 .. n,
           \A i \in 1 .. n : \A j \in 1 .. n : path[i] = path[j] => i = j,
           path[n] = "write", NEW at \in Elements(path), at # "write",
           NEW kind, \A i \in 1 .. n : i # n => NextOf(kind, path[i]) = path[i + 1]
    PROVE  /\ path[(CHOOSE i \in DOMAIN path : path[i] = at) + 1] = NextOf(kind, at)
           /\ NextOf(kind, at) \in Elements(path)
  <1>1. PICK i \in 1 .. n : at = path[i] /\ i # n
    BY DEF Elements
  <1>2. (CHOOSE j \in DOMAIN path : path[j] = at) = i
    BY <1>1
  <1>3. i + 1 \in 1 .. n
    BY <1>1
  <1> QED BY <1>1, <1>2, <1>3 DEF Elements

(* The path of each kind: its phases, its first one, and what follows.     *)
LEMMA Paths ==
    ASSUME NEW kind \in Kinds
    PROVE  LET path == Path(kind)
           IN  /\ Elements(path) \subseteq Phases \ {"idle", "over"}
               /\ kind \in Batch => Elements(path) \subseteq
                     {"look", "prove", "actor", "admins", "targets", "safety", "write"}
               /\ kind = "delete_user" => Elements(path) \subseteq
                     {"look", "prove", "actor", "admins", "targets", "safety", "jobs", "object",
                      "files", "session", "write"}
               /\ kind = "delete_file" => Elements(path) \subseteq
                     {"look", "prove", "actor", "find", "owner", "file", "object", "jobs",
                      "count", "write"}
               /\ kind = "own_delete" => Elements(path) \subseteq
                     {"owner", "file", "jobs", "count", "object", "write"}
               /\ kind = "upload" => Elements(path) \subseteq {"owner", "object", "write"}
               /\ kind = "create_job" => Elements(path) \subseteq
                     {"look", "session", "file", "object", "write"}
               /\ Head(path) \in Elements(path)
               /\ Head(path) = IF kind \in {"own_delete", "upload"} THEN "owner" ELSE "look"
               /\ \A at \in Elements(path) \ {"write"} :
                     /\ path[(CHOOSE i \in DOMAIN path : path[i] = at) + 1] = NextOf(kind, at)
                     /\ NextOf(kind, at) \in Elements(path)
  <1>1. CASE kind \in Batch
    <2> DEFINE path == <<"look", "prove", "actor", "admins", "targets", "safety", "write">>
    <2>1. Path(kind) = path
      BY <1>1 DEF Path, Batch
    <2>2. DOMAIN path = 1 .. 7 /\ Head(path) = "look" /\ path[1] = "look" /\ path[7] = "write"
      OBVIOUS
    <2>3. \A i \in 1 .. 7 : \A j \in 1 .. 7 : path[i] = path[j] => i = j
      OBVIOUS
    <2>4. \A i \in 1 .. 7 : i # 7 => NextOf(kind, path[i]) = path[i + 1]
      BY <1>1 DEF NextOf, Batch
    <2>5. Elements(path) \subseteq
             {"look", "prove", "actor", "admins", "targets", "safety", "write"}
      BY <2>2 DEF Elements
    <2>6. Head(path) \in Elements(path)
      BY <2>2 DEF Elements
    <2> HIDE DEF path
    <2>7. \A at \in Elements(path) \ {"write"} :
             /\ path[(CHOOSE i \in DOMAIN path : path[i] = at) + 1] = NextOf(kind, at)
             /\ NextOf(kind, at) \in Elements(path)
      <3>1. 7 \in Nat \ {0}
        OBVIOUS
      <3> QED BY <2>2, <2>3, <2>4, <3>1, OnAPath, Zenon
    <2> QED BY <1>1, <2>1, <2>2, <2>5, <2>6, <2>7 DEF Phases, Batch
  <1>2. CASE kind = "delete_user"
    <2> DEFINE path == <<"look", "prove", "actor", "admins", "targets", "safety", "jobs", "object", "files", "session", "write">>
    <2>1. Path(kind) = path
      BY <1>2 DEF Path, Batch
    <2>2. DOMAIN path = 1 .. 11 /\ Head(path) = "look" /\ path[1] = "look" /\ path[11] = "write"
      OBVIOUS
    <2>3. \A i \in 1 .. 11 : \A j \in 1 .. 11 : path[i] = path[j] => i = j
      OBVIOUS
    <2>4. \A i \in 1 .. 11 : i # 11 => NextOf(kind, path[i]) = path[i + 1]
      BY <1>2 DEF NextOf, Batch
    <2>5. Elements(path) \subseteq
             {"look", "prove", "actor", "admins", "targets", "safety", "jobs", "object", "files", "session", "write"}
      BY <2>2 DEF Elements
    <2>6. Head(path) \in Elements(path)
      BY <2>2 DEF Elements
    <2> HIDE DEF path
    <2>7. \A at \in Elements(path) \ {"write"} :
             /\ path[(CHOOSE i \in DOMAIN path : path[i] = at) + 1] = NextOf(kind, at)
             /\ NextOf(kind, at) \in Elements(path)
      <3>1. 11 \in Nat \ {0}
        OBVIOUS
      <3> QED BY <2>2, <2>3, <2>4, <3>1, OnAPath, Zenon
    <2> QED BY <1>2, <2>1, <2>2, <2>5, <2>6, <2>7 DEF Phases, Batch
  <1>3. CASE kind = "delete_file"
    <2> DEFINE path == <<"look", "prove", "actor", "find", "owner", "file", "object", "jobs", "count", "write">>
    <2>1. Path(kind) = path
      BY <1>3 DEF Path, Batch
    <2>2. DOMAIN path = 1 .. 10 /\ Head(path) = "look" /\ path[1] = "look" /\ path[10] = "write"
      OBVIOUS
    <2>3. \A i \in 1 .. 10 : \A j \in 1 .. 10 : path[i] = path[j] => i = j
      OBVIOUS
    <2>4. \A i \in 1 .. 10 : i # 10 => NextOf(kind, path[i]) = path[i + 1]
      BY <1>3 DEF NextOf, Batch
    <2>5. Elements(path) \subseteq
             {"look", "prove", "actor", "find", "owner", "file", "object", "jobs", "count", "write"}
      BY <2>2 DEF Elements
    <2>6. Head(path) \in Elements(path)
      BY <2>2 DEF Elements
    <2> HIDE DEF path
    <2>7. \A at \in Elements(path) \ {"write"} :
             /\ path[(CHOOSE i \in DOMAIN path : path[i] = at) + 1] = NextOf(kind, at)
             /\ NextOf(kind, at) \in Elements(path)
      <3>1. 10 \in Nat \ {0}
        OBVIOUS
      <3> QED BY <2>2, <2>3, <2>4, <3>1, OnAPath, Zenon
    <2> QED BY <1>3, <2>1, <2>2, <2>5, <2>6, <2>7 DEF Phases, Batch
  <1>4. CASE kind = "own_delete"
    <2> DEFINE path == <<"owner", "file", "jobs", "count", "object", "write">>
    <2>1. Path(kind) = path
      BY <1>4 DEF Path, Batch, OwnDeletePath
    <2>2. DOMAIN path = 1 .. 6 /\ Head(path) = "owner" /\ path[1] = "owner" /\ path[6] = "write"
      OBVIOUS
    <2>3. \A i \in 1 .. 6 : \A j \in 1 .. 6 : path[i] = path[j] => i = j
      OBVIOUS
    <2>4. \A i \in 1 .. 6 : i # 6 => NextOf(kind, path[i]) = path[i + 1]
      BY <1>4 DEF NextOf, Batch
    <2>5. Elements(path) \subseteq
             {"owner", "file", "jobs", "count", "object", "write"}
      BY <2>2 DEF Elements
    <2>6. Head(path) \in Elements(path)
      BY <2>2 DEF Elements
    <2> HIDE DEF path
    <2>7. \A at \in Elements(path) \ {"write"} :
             /\ path[(CHOOSE i \in DOMAIN path : path[i] = at) + 1] = NextOf(kind, at)
             /\ NextOf(kind, at) \in Elements(path)
      <3>1. 6 \in Nat \ {0}
        OBVIOUS
      <3> QED BY <2>2, <2>3, <2>4, <3>1, OnAPath, Zenon
    <2> QED BY <1>4, <2>1, <2>2, <2>5, <2>6, <2>7 DEF Phases, Batch
  <1>5. CASE kind = "upload"
    <2> DEFINE path == <<"owner", "object", "write">>
    <2>1. Path(kind) = path
      BY <1>5 DEF Path, Batch
    <2>2. DOMAIN path = 1 .. 3 /\ Head(path) = "owner" /\ path[1] = "owner" /\ path[3] = "write"
      OBVIOUS
    <2>3. \A i \in 1 .. 3 : \A j \in 1 .. 3 : path[i] = path[j] => i = j
      OBVIOUS
    <2>4. \A i \in 1 .. 3 : i # 3 => NextOf(kind, path[i]) = path[i + 1]
      BY <1>5 DEF NextOf, Batch
    <2>5. Elements(path) \subseteq
             {"owner", "object", "write"}
      BY <2>2 DEF Elements
    <2>6. Head(path) \in Elements(path)
      BY <2>2 DEF Elements
    <2> HIDE DEF path
    <2>7. \A at \in Elements(path) \ {"write"} :
             /\ path[(CHOOSE i \in DOMAIN path : path[i] = at) + 1] = NextOf(kind, at)
             /\ NextOf(kind, at) \in Elements(path)
      <3>1. 3 \in Nat \ {0}
        OBVIOUS
      <3> QED BY <2>2, <2>3, <2>4, <3>1, OnAPath, Zenon
    <2> QED BY <1>5, <2>1, <2>2, <2>5, <2>6, <2>7 DEF Phases, Batch
  <1>6. CASE kind = "create_job"
    <2> DEFINE path == <<"look", "session", "file", "object", "write">>
    <2>1. Path(kind) = path
      BY <1>6 DEF Path, Batch
    <2>2. DOMAIN path = 1 .. 5 /\ Head(path) = "look" /\ path[1] = "look" /\ path[5] = "write"
      OBVIOUS
    <2>3. \A i \in 1 .. 5 : \A j \in 1 .. 5 : path[i] = path[j] => i = j
      OBVIOUS
    <2>4. \A i \in 1 .. 5 : i # 5 => NextOf(kind, path[i]) = path[i + 1]
      BY <1>6 DEF NextOf, Batch
    <2>5. Elements(path) \subseteq
             {"look", "session", "file", "object", "write"}
      BY <2>2 DEF Elements
    <2>6. Head(path) \in Elements(path)
      BY <2>2 DEF Elements
    <2> HIDE DEF path
    <2>7. \A at \in Elements(path) \ {"write"} :
             /\ path[(CHOOSE i \in DOMAIN path : path[i] = at) + 1] = NextOf(kind, at)
             /\ NextOf(kind, at) \in Elements(path)
      <3>1. 5 \in Nat \ {0}
        OBVIOUS
      <3> QED BY <2>2, <2>3, <2>4, <3>1, OnAPath, Zenon
    <2> QED BY <1>6, <2>1, <2>2, <2>5, <2>6, <2>7 DEF Phases, Batch
  <1> QED BY <1>1, <1>2, <1>3, <1>4, <1>5, <1>6 DEF Kinds

-----------------------------------------------------------------------------
(* Types *)

(* The rows are numbered.                                                  *)
LEMMA Numbers ==
    /\ Users \subseteq Nat \ {0} /\ Files \subseteq Nat \ {0} /\ Rows \subseteq Nat \ {0}
    /\ \A f \in Files : OwnerOf[f] \in Users
    /\ \A u \in Users : ObjectOf[u] \in Nat \ {0} /\ SessionOf[u] \in Nat \ {0}
    /\ None \notin Users /\ None \notin Files /\ None \notin Requests /\ None \notin Keys
    /\ 0 \notin Rows
  <1>1. /\ Users \subseteq Nat \ {0} /\ Files \subseteq Nat \ {0}
        /\ OwnerOf \in [Files -> Users]
        /\ ObjectOf \in [Users -> Nat \ {0}] /\ SessionOf \in [Users -> Nat \ {0}]
        /\ None \notin Nat \cup Requests \cup Keys
    BY AdminAssumption
  <1>2. Objects \subseteq Nat \ {0} /\ Sessions \subseteq Nat \ {0}
    BY <1>1 DEF Objects, Sessions
  <1> QED BY <1>1, <1>2 DEF Rows

(* What a call that has begun asks for.                                    *)
LEMMA Asked ==
    ASSUME TypeInv, NEW r \in Requests, req[r].at # "idle"
    PROVE  /\ req[r] \in Request /\ WellFormed(req[r])
           /\ req[r].actor \in Users
           /\ req[r].body \in Bodies /\ req[r].body \in Body /\ req[r].body.kind \in Kinds
           /\ req[r].key \in KeysOf(req[r].body)
           /\ req[r].body.kind \in AdminKinds => req[r].key \in Keys
           /\ req[r].body.kind = "delete_user" =>
                 /\ Victim(r) \in Users /\ req[r].body.targets = {Victim(r)}
                 /\ Victims(req[r]) = {Victim(r)}
           /\ req[r].body.kind \in NamesFile => req[r].body.file \in Files
           /\ OwnerId(r) \in Users /\ Owners(req[r]) = {OwnerId(r)}
           /\ Library(r) \in Users
           /\ RowsOf(r) \subseteq Rows /\ Rows \subseteq Nat \ {0}
  <1>1. req[r] \in Request /\ WellFormed(req[r])
    BY DEF TypeInv, AdminTypeOK
  <1>2. /\ req[r].actor \in Users /\ req[r].body \in Bodies /\ req[r].key \in KeysOf(req[r].body)
    BY <1>1 DEF WellFormed
  <1>3. /\ req[r].body \in Body
        /\ req[r].body.kind = "delete_user" => \E u \in Users : req[r].body.targets = {u}
        /\ req[r].body.kind \in NamesFile => req[r].body.file \in Files
    BY <1>2, AdminAssumption
  <1>4. req[r].body.kind \in Kinds /\ req[r].body.targets \subseteq Users
        /\ req[r].body.file \in Files \cup {None}
    BY <1>3 DEF Body
  <1>5. req[r].body.kind = "delete_user" =>
           Victim(r) \in Users /\ req[r].body.targets = {Victim(r)} /\ Victims(req[r]) = {Victim(r)}
    BY <1>3 DEF Victim, Victims
  <1>6. OwnerId(r) \in Users /\ Owners(req[r]) = {OwnerId(r)}
    BY <1>2, <1>4, Numbers DEF OwnerId, Owners
  <1>7. Library(r) \in Users
    BY <1>5, <1>6 DEF Library
  <1>8. RowsOf(r) \subseteq Rows
    <2>1. objects \subseteq Objects /\ files \subseteq Files
      BY DEF TypeInv, AdminTypeOK
    <2> QED BY <1>4, <1>6, <1>7, <2>1 DEF RowsOf, Rows, Sessions
  <1>9. Rows \subseteq Nat \ {0}
    BY Numbers
  <1>10. req[r].body.kind \in AdminKinds => req[r].key \in Keys
    BY <1>2 DEF KeysOf
  <1> QED BY <1>1, <1>2, <1>3, <1>4, <1>5, <1>6, <1>7, <1>8, <1>9, <1>10

(* A request that goes on.                                                 *)
LEMMA GoesOn ==
    ASSUME TypeInv, NEW r \in Requests, req[r].at \notin {"idle", "over", "write"}
    PROVE  /\ After(r) = NextOf(req[r].body.kind, req[r].at)
           /\ After(r) \in Elements(Path(req[r].body.kind))
           /\ After(r) \in Phases \ {"idle", "over"}
           /\ req[r].answer = "none"
           /\ \A b \in BOOLEAN : LET x == [req[r] EXCEPT !.at = After(r), !.pos = 0, !.last = b]
                                 IN  x \in Request /\ WellFormed(x)
           /\ LET x == [req[r] EXCEPT !.at = After(r), !.pos = 0]
              IN  x \in Request /\ WellFormed(x)
  <1>1. /\ req[r] \in Request /\ WellFormed(req[r]) /\ req[r].body.kind \in Kinds
        /\ req[r].at \in Elements(Path(req[r].body.kind)) \ {"write"}
    BY Asked DEF WellFormed
  <1>2. /\ After(r) = NextOf(req[r].body.kind, req[r].at)
        /\ After(r) \in Elements(Path(req[r].body.kind))
        /\ After(r) \in Phases \ {"idle", "over"}
    BY <1>1, Paths DEF After
  <1>3. req[r].answer = "none"
    BY <1>1 DEF WellFormed, Request
  <1>4. \A b \in BOOLEAN : LET x == [req[r] EXCEPT !.at = After(r), !.pos = 0, !.last = b]
                           IN  x \in Request /\ WellFormed(x)
    BY <1>1, <1>2, <1>3 DEF Request, WellFormed
  <1>5. LET x == [req[r] EXCEPT !.at = After(r), !.pos = 0] IN x \in Request /\ WellFormed(x)
    BY <1>1, <1>2, <1>3 DEF Request, WellFormed
  <1> QED BY <1>2, <1>3, <1>4, <1>5

(* A request that is over, and the locks it leaves.                        *)
LEMMA Ends ==
    ASSUME TypeInv, NEW r \in Requests, NEW answer \in Answers, End(r, answer), req[r].at # "idle"
    PROVE  /\ req'[r] \in Request /\ WellFormed(req'[r])
           /\ req'[r].at = "over" /\ req'[r].admins = {} /\ req'[r].answer = answer
           /\ req'[r].body = req[r].body /\ req'[r].actor = req[r].actor /\ req'[r].key = req[r].key
           /\ req' \in [Requests -> Request] /\ lock' \in [Rows -> Requests \cup {None}]
           /\ \A q \in Requests \ {r} : req'[q] = req[q]
           /\ \A x \in Rows : lock[x] # r => lock'[x] = lock[x]
  <1> DEFINE x == [req[r] EXCEPT !.at = "over", !.pos = 0, !.admins = {}, !.last = FALSE,
                                 !.answer = answer]
  <1>1. req \in [Requests -> Request] /\ lock \in [Rows -> Requests \cup {None}]
        /\ req[r] \in Request /\ WellFormed(req[r])
    BY DEF TypeInv, AdminTypeOK
  <1>2. x \in Request /\ x.at = "over" /\ x.pos = 0 /\ x.admins = {} /\ x.answer = answer
        /\ x.body = req[r].body /\ x.actor = req[r].actor /\ x.key = req[r].key
    BY <1>1 DEF Request, Phases
  <1>3. WellFormed(x)
    BY <1>1, <1>2 DEF WellFormed
  <1>4. req' = [req EXCEPT ![r] = x] /\ lock' = Freed(r)
    BY DEF End
  <1> HIDE DEF x
  <1>5. lock' \in [Rows -> Requests \cup {None}] /\ \A y \in Rows : lock[y] # r => lock'[y] = lock[y]
    BY <1>1, <1>4 DEF Freed
  <1> QED BY <1>1, <1>2, <1>3, <1>4, <1>5

(* What a request writes, whoever else is at work: r goes on, and takes at *)
(* most a row that was free ...                                            *)
OthersStay(r) ==
    /\ req' \in [Requests -> Request] /\ lock' \in [Rows -> Requests \cup {None}]
    /\ WellFormed(req'[r]) /\ \A q \in Requests \ {r} : req'[q] = req[q]
    /\ \A x \in Rows : lock[x] \notin {None, r} => lock'[x] = lock[x]

Moves(r) == OthersStay(r) /\ req'[r].answer = "none" /\ UNCHANGED <<rowVars, sessionVars, faults>>

(* ... or it is over, with nothing written.                                *)
Fails(r) ==
    /\ OthersStay(r) /\ UNCHANGED <<rowVars, sessionVars>> /\ faults' \in Nat
    /\ req[r].at # "idle" /\ req'[r].at = "over" /\ req'[r].admins = {}
    /\ req'[r].body = req[r].body /\ req'[r].actor = req[r].actor /\ req'[r].key = req[r].key
    /\ \/ req'[r].answer \notin {"done", "replayed"}
       \/ req'[r].answer = "replayed" /\ req[r].body \in Bodies /\ Known(r) # {}

(* A request that is rolled back.                                          *)
LEMMA RolledBack ==
    ASSUME TypeInv, NEW r \in Requests, req[r].at # "idle",
           NEW answer \in {"refused", "retry", "replayed"}, RollBack(r, answer),
           answer = "replayed" => Known(r) # {}
    PROVE  Fails(r)
  <1>1. End(r, answer) /\ UNCHANGED <<rowVars, sessionVars, faults>> /\ answer \in Answers
    BY DEF RollBack, Answers
  <1>2. /\ req'[r] \in Request /\ WellFormed(req'[r])
        /\ req'[r].at = "over" /\ req'[r].admins = {} /\ req'[r].answer = answer
        /\ req'[r].body = req[r].body /\ req'[r].actor = req[r].actor /\ req'[r].key = req[r].key
        /\ req' \in [Requests -> Request] /\ lock' \in [Rows -> Requests \cup {None}]
        /\ \A q \in Requests \ {r} : req'[q] = req[q]
        /\ \A x \in Rows : lock[x] # r => lock'[x] = lock[x]
    BY <1>1, Ends
  <1>3. req[r].body \in Bodies /\ faults \in Nat
    BY Asked DEF TypeInv, AdminTypeOK
  <1> QED BY <1>1, <1>2, <1>3 DEF Fails, OthersStay

(* A request that goes on and locks nothing.                               *)
LEMMA WentOn ==
    ASSUME TypeInv, NEW r \in Requests, req[r].at \notin {"idle", "over", "write"}, Going(r)
    PROVE  /\ Moves(r) /\ lock' = lock
           /\ req'[r] = [req[r] EXCEPT !.at = After(r), !.pos = 0]
  <1> DEFINE x == [req[r] EXCEPT !.at = After(r), !.pos = 0]
  <1>1. x \in Request /\ WellFormed(x) /\ x.answer = "none"
    <2>1. req[r].answer = "none" /\ req[r] \in Request
      BY GoesOn DEF TypeInv, AdminTypeOK
    <2> QED BY <2>1, GoesOn DEF Request
  <1>2. req' = [req EXCEPT ![r] = x]
    BY DEF Going, Advance, TypeInv, AdminTypeOK, Request
  <1>3. UNCHANGED <<rowVars, lock, sessionVars, faults>>
    BY DEF Going
  <1>4. req \in [Requests -> Request] /\ lock \in [Rows -> Requests \cup {None}]
    BY DEF TypeInv, AdminTypeOK
  <1> HIDE DEF x
  <1>5. req' \in [Requests -> Request] /\ req'[r] = x /\ \A q \in Requests \ {r} : req'[q] = req[q]
    BY <1>1, <1>2, <1>4
  <1>6. Moves(r) /\ lock' = lock
    BY <1>1, <1>3, <1>4, <1>5 DEF Moves, OthersStay
  <1> QED BY <1>5, <1>6 DEF x

-----------------------------------------------------------------------------
(* What a request that goes on holds and sees *)

(* The condition under which a phase is over.                              *)
Passed(r) ==
    /\ req[r].at \notin {"idle", "over", "write", "actor"}
    /\ req[r].at \in {"admins", "targets", "owner", "file", "files"} => Rest(r) = {}
    /\ req[r].at = "jobs" => ~InUse(r)
    /\ req[r].at = "safety" => ~Unsafe(r)

(* Rules for removal: an administrator is left among those that were seen, *)
(* or those removed are no longer enabled ones.                            *)
LEMMA SafetyMeans ==
    ASSUME TypeInv, NEW r \in Requests, req[r].at # "idle", ~Unsafe(r), Removes(req[r].body),
           \A a \in req[r].admins : EnabledAdmin(a), req[r].body.kind \in OnAccounts
    PROVE  \/ \E a \in req[r].admins : a \notin req[r].body.targets
           \/ \A u \in req[r].body.targets : ~EnabledAdmin(u)
  <1> DEFINE lost == {u \in req[r].body.targets : EnabledAdmin(u)}
  <1>1. \/ req[r].body.kind \in Batch /\ ~(req[r].admins \subseteq lost)
        \/ req[r].body.kind = "delete_user" /\ (lost = {} \/ ~(Cardinality(req[r].admins) <= 1))
    BY DEF Unsafe, OnAccounts
  <1>2. CASE ~(req[r].admins \subseteq lost)
    BY <1>2
  <1>3. CASE lost = {}
    BY <1>3
  <1>4. CASE req[r].body.kind = "delete_user" /\ ~(Cardinality(req[r].admins) <= 1)
    <2>1. req[r].body.targets = {Victim(r)}
      BY <1>4, Asked
    <2>2. SUFFICES ASSUME req[r].admins \subseteq {Victim(r)} PROVE FALSE
      BY <2>1
    <2>3. req[r].admins = {} \/ req[r].admins = {Victim(r)}
      BY <2>2
    <2>4. Cardinality(req[r].admins) \in {0, 1}
      BY <2>3, FS_EmptySet, FS_Singleton
    <2> QED BY <1>4, <2>4
  <1> QED BY <1>1, <1>2, <1>3, <1>4

(* A phase that is over leaves what the next ones rely on.                 *)
LEMMA PhasePassed ==
    ASSUME TypeInv, Locks, NEW r \in Requests, Passed(r), NEW y,
           y.at = After(r), y.pos = 0, y.actor = req[r].actor, y.body = req[r].body,
           y.password = req[r].password, y.key = req[r].key, y.admins = req[r].admins,
           IF req[r].at = "count"
           THEN y.last <=> ~\E f \in files \ {req[r].body.file} : OwnerOf[f] = OwnerId(r)
           ELSE y.last = req[r].last
    PROVE  Holds(r, y) /\ Sees(y)
  <1> DEFINE x == req[r]
  <1>1. /\ x \in Request /\ x.body \in Body /\ x.body.kind \in Kinds /\ x.actor \in Users
        /\ x.body.targets \subseteq Users /\ x.body.file \in Files \cup {None}
        /\ x.pos \in Nat /\ x.admins \subseteq Users
        /\ x.at \in Elements(Path(x.body.kind)) /\ x.at # "write"
        /\ x.body.kind \in NamesFile => x.body.file \in Files
        /\ x.body.kind = "delete_user" => x.body.targets = {Victim(r)} /\ Victim(r) \in Users
                                           /\ Victims(x) = {Victim(r)}
        /\ OwnerId(r) \in Users /\ Owners(x) = {OwnerId(r)}
    BY Asked DEF Passed, WellFormed, Body, Request
  <1>2. y.at = NextOf(x.body.kind, x.at)
    BY GoesOn DEF Passed
  <1>3. Holds(r, x) /\ Sees(x)
    BY DEF Locks, Grounded
  <1>4. /\ Victims(y) = Victims(x) /\ Owners(y) = Owners(x)
    BY DEF Victims, Owners
  <1>5. /\ files \subseteq Files /\ Rows \subseteq Nat \ {0} /\ Users \subseteq Nat \ {0}
        /\ Files \subseteq Nat \ {0} /\ None \notin Files
        /\ \A f \in Files : OwnerOf[f] \in Users
    BY Numbers DEF TypeInv, AdminTypeOK
  <1>6. /\ AfterActor(y) => AfterActor(x)
        /\ AfterTargets(y) => AfterTargets(x) \/ x.at = "targets"
        /\ AfterSafety(y) => AfterSafety(x) \/ x.at = "safety"
        /\ AfterFiles(y) => AfterFiles(x) \/ x.at = "files"
        /\ AfterOwner(y) => AfterOwner(x) \/ x.at = "owner"
        /\ AfterFile(y) => AfterFile(x) \/ x.at = "file"
        /\ AfterJobs(y) => AfterJobs(x) \/ (x.at = "jobs" /\ x.body.kind \in DeletesFile)
        /\ AfterVictim(y) => AfterVictim(x) \/ (x.at = "jobs" /\ x.body.kind = "delete_user")
        /\ AfterCount(y) => \/ AfterCount(x) /\ x.at # "count"
                            \/ x.at = "count" /\ x.body.kind \in DeletesFile
        /\ x.at = "safety" => x.body.kind \in OnAccounts
        /\ x.at = "files" => x.body.kind = "delete_user"
        /\ x.at = "jobs" => x.body.kind \in DeletesFile \cup {"delete_user"}
    <2> DEFINE kind == x.body.kind
    <2>1. CASE kind \in Batch
      <3>1. x.at \in {"look", "prove", "actor", "admins", "targets", "safety"}
        BY <1>1, <2>1, Paths
      <3> QED BY <1>2, <2>1, <3>1 DEF NextOf, Passed, Batch, AdminKinds, OnAccounts, DeletesFile, NamesFile,
              AfterActor, AfterTargets, AfterSafety, AfterFiles, AfterOwner, AfterFile, AfterJobs,
              AfterVictim, AfterCount
    <2>2. CASE kind = "delete_user"
      <3>1. x.at \in {"look", "prove", "actor", "admins", "targets", "safety", "jobs", "object",
                      "files", "session"}
        BY <1>1, <2>2, Paths
      <3> QED BY <1>2, <2>2, <3>1 DEF NextOf, Passed, Batch, AdminKinds, OnAccounts, DeletesFile, NamesFile,
              AfterActor, AfterTargets, AfterSafety, AfterFiles, AfterOwner, AfterFile, AfterJobs,
              AfterVictim, AfterCount
    <2>3. CASE kind = "delete_file"
      <3>1. x.at \in {"look", "prove", "actor", "find", "owner", "file", "object", "jobs", "count"}
        BY <1>1, <2>3, Paths
      <3> QED BY <1>2, <2>3, <3>1 DEF NextOf, Passed, Batch, AdminKinds, OnAccounts, DeletesFile, NamesFile,
              AfterActor, AfterTargets, AfterSafety, AfterFiles, AfterOwner, AfterFile, AfterJobs,
              AfterVictim, AfterCount
    <2>4. CASE kind = "own_delete"
      <3>1. x.at \in {"owner", "file", "jobs", "count", "object"}
        BY <1>1, <2>4, Paths
      <3> QED BY <1>2, <2>4, <3>1 DEF NextOf, Passed, Batch, AdminKinds, OnAccounts, DeletesFile, NamesFile,
              AfterActor, AfterTargets, AfterSafety, AfterFiles, AfterOwner, AfterFile, AfterJobs,
              AfterVictim, AfterCount
    <2>5. CASE kind = "upload"
      <3>1. x.at \in {"owner", "object"}
        BY <1>1, <2>5, Paths
      <3> QED BY <1>2, <2>5, <3>1 DEF NextOf, Passed, Batch, AdminKinds, OnAccounts, DeletesFile, NamesFile,
              AfterActor, AfterTargets, AfterSafety, AfterFiles, AfterOwner, AfterFile, AfterJobs,
              AfterVictim, AfterCount
    <2>6. CASE kind = "create_job"
      <3>1. x.at \in {"look", "session", "file", "object"}
        BY <1>1, <2>6, Paths
      <3> QED BY <1>2, <2>6, <3>1 DEF NextOf, Passed, Batch, AdminKinds, OnAccounts, DeletesFile, NamesFile,
              AfterActor, AfterTargets, AfterSafety, AfterFiles, AfterOwner, AfterFile, AfterJobs,
              AfterVictim, AfterCount
    <2> QED BY <1>1, <2>1, <2>2, <2>3, <2>4, <2>5, <2>6 DEF Kinds
  <1>7. /\ x.at = "targets" => \A u \in x.body.targets : u <= x.pos
        /\ x.at = "owner" => OwnerId(r) <= x.pos
        /\ x.at = "file" /\ x.body.file # None => x.body.file <= x.pos
        /\ x.at = "files" => \A f \in files : OwnerOf[f] = Victim(r) => f <= x.pos
    BY <1>1, <1>5 DEF Passed, Rest, RowsOf
  <1>8. /\ x.at = "jobs" /\ x.body.kind \in DeletesFile => ~InJobs(job, x.body.file)
        /\ x.at = "jobs" /\ x.body.kind = "delete_user" => \A u \in Victims(x) : job[u] = {}
    BY <1>1 DEF Passed, InUse, InJobs, DeletesFile
  <1>9. x.at = "safety" /\ Removes(x.body) =>
           \/ \E a \in x.admins : a \notin x.body.targets
           \/ \A u \in x.body.targets : ~EnabledAdmin(u)
    BY <1>3, <1>6, SafetyMeans DEF Passed, Sees
  <1>10. /\ y.actor = x.actor /\ y.body = x.body /\ y.password = x.password /\ y.key = x.key
         /\ y.admins = x.admins /\ y.pos = 0
    OBVIOUS
  <1>11. y.last = x.last \/ x.at = "count"
    OBVIOUS
  <1>12. x.at = "count" => (y.last <=> \A f \in files \ {x.body.file} : OwnerOf[f] \notin Owners(x))
    BY <1>1
  <1> HIDE DEF x
  <1>13. Holds(r, y)
    <2>1. /\ AfterActor(y) => lock[y.actor] = r
          /\ \A a \in y.admins : lock[a] = r
      BY <1>3, <1>6, <1>10 DEF Holds
    <2>2. /\ y.at = "targets" => \A u \in y.body.targets : u <= y.pos => lock[u] = r
          /\ AfterTargets(y) => \A u \in y.body.targets : lock[u] = r
      <3>1. \A u \in x.body.targets : ~(u <= 0)
        <4>1. x.body.targets \subseteq Users
          BY <1>1
        <4>2. \A u \in Users : ~(u <= 0)
          BY <1>5
        <4> QED BY <4>1, <4>2
      <3> QED BY <1>3, <1>6, <1>7, <1>10, <3>1 DEF Holds
    <2>3. /\ y.at = "owner" => \A u \in Owners(y) : u <= y.pos => lock[u] = r
          /\ AfterOwner(y) => \A u \in Owners(y) : lock[u] = r
      <3>1. \A u \in Owners(x) : ~(u <= 0)
        <4>1. Owners(x) \subseteq Users
          BY DEF Owners
        <4>2. \A u \in Users : ~(u <= 0)
          BY <1>5
        <4> QED BY <4>1, <4>2
      <3> QED BY <1>1, <1>3, <1>4, <1>6, <1>7, <1>10, <3>1 DEF Holds
    <2>4. /\ y.at = "file" /\ y.body.file # None /\ y.body.file <= y.pos => lock[y.body.file] = r
          /\ AfterFile(y) /\ y.body.file # None => lock[y.body.file] = r
      <3>1. x.body.file # None => ~(x.body.file <= 0)
        BY <1>1, <1>5
      <3> QED BY <1>1, <1>3, <1>6, <1>7, <1>10, <3>1 DEF Holds
    <2>5. /\ y.at = "files" => \A f \in files : OwnerOf[f] \in Victims(y) /\ f <= y.pos => lock[f] = r
          /\ AfterFiles(y) => \A f \in files : OwnerOf[f] \in Victims(y) => lock[f] = r
      <3>1. \A f \in files : ~(f <= 0)
        BY <1>5
      <3> QED BY <1>1, <1>3, <1>4, <1>6, <1>7, <1>10, <3>1 DEF Holds
    <2> QED BY <2>1, <2>2, <2>3, <2>4, <2>5 DEF Holds
  <1>14. Sees(y)
    <2>1. /\ AfterActor(y) => EnabledAdmin(y.actor) /\ users[y.actor].password = y.password
                              /\ Unknown(y)
          /\ \A a \in y.admins : EnabledAdmin(a)
      BY <1>3, <1>6, <1>10 DEF Sees, Unknown
    <2>2. AfterSafety(y) /\ Removes(y.body) =>
             \/ \E a \in y.admins : a \notin y.body.targets
             \/ \A u \in y.body.targets : ~EnabledAdmin(u)
      BY <1>3, <1>6, <1>9, <1>10 DEF Sees
    <2>3. /\ y.at = "owner" => \A u \in Owners(y) : u <= y.pos => users[u].exists
          /\ AfterOwner(y) => \A u \in Owners(y) : users[u].exists
      <3>1. \A u \in Owners(x) : ~(u <= 0)
        <4>1. Owners(x) \subseteq Users
          BY DEF Owners
        <4>2. \A u \in Users : ~(u <= 0)
          BY <1>5
        <4> QED BY <4>1, <4>2
      <3> QED BY <1>1, <1>3, <1>4, <1>6, <1>7, <1>10, <3>1 DEF Sees
    <2>4. /\ y.at = "file" /\ y.body.file # None /\ y.body.file <= y.pos => y.body.file \in files
          /\ AfterFile(y) /\ y.body.file # None => y.body.file \in files
      <3>1. x.body.file # None => ~(x.body.file <= 0)
        BY <1>1, <1>5
      <3> QED BY <1>1, <1>3, <1>6, <1>7, <1>10, <3>1 DEF Sees
    <2>5. /\ AfterJobs(y) => ~InJobs(job, y.body.file)
          /\ AfterVictim(y) => \A u \in Victims(y) : job[u] = {}
      BY <1>3, <1>4, <1>6, <1>8, <1>10 DEF Sees
    <2>6. AfterCount(y) => (y.last <=> \A f \in files \ {y.body.file} : OwnerOf[f] \notin Owners(y))
      BY <1>3, <1>4, <1>6, <1>10, <1>11, <1>12 DEF Sees
    <2> QED BY <2>1, <2>2, <2>3, <2>4, <2>5, <2>6 DEF Sees
  <1> QED BY <1>13, <1>14

(* What a request holds and sees depends on no other row.                  *)
LEMMA SameRows ==
    ASSUME NEW r \in Requests, NEW y, Holds(r, y), Sees(y), req'[r] = y,
           UNCHANGED <<rowVars, lock>>
    PROVE  Grounded(r)'
  <1>1. /\ users' = users /\ files' = files /\ job' = job /\ ops' = ops /\ lock' = lock
    BY DEF rowVars
  <1>2. Holds(r, req[r])'
    BY <1>1 DEF Holds, AfterActor, AfterTargets, AfterSafety, AfterFiles, AfterOwner, AfterFile,
                AfterJobs, AfterVictim, AfterCount, Victims, Owners
  <1>3. Sees(req[r])'
    BY <1>1 DEF Sees, InJobs, Unknown, EnabledAdmin, AfterActor, AfterTargets, AfterSafety, AfterFiles,
                AfterOwner, AfterFile, AfterJobs, AfterVictim, AfterCount, Victims, Owners
  <1> QED BY <1>2, <1>3 DEF Grounded

(* A phase that is over and locks nothing.                                 *)
LEMMA PassingOn ==
    ASSUME TypeInv, Locks, NEW r \in Requests, Passed(r), req[r].at # "count", Going(r)
    PROVE  Moves(r) /\ Grounded(r)'
  <1> DEFINE y == [req[r] EXCEPT !.at = After(r), !.pos = 0]
  <1>1. Moves(r) /\ lock' = lock /\ req'[r] = y
    BY WentOn DEF Passed
  <1>2. req[r] \in Request
    BY Asked DEF Passed
  <1>3. /\ y.at = After(r) /\ y.pos = 0 /\ y.actor = req[r].actor /\ y.body = req[r].body
        /\ y.password = req[r].password /\ y.key = req[r].key /\ y.admins = req[r].admins
        /\ y.last = req[r].last
    BY <1>2 DEF Request
  <1> HIDE DEF y
  <1>4. Holds(r, y) /\ Sees(y)
    BY <1>3, PhasePassed
  <1> QED BY <1>1, <1>4, SameRows DEF Moves

(* Each phase that locks nothing passes on or fails.                       *)
LEMMA PlainPhases ==
    ASSUME TypeInv, Locks, NEW r \in Requests,
           Look(r) \/ Prove(r) \/ Find(r) \/ CheckJobs(r) \/ Safety(r) \/ Locked(r)
    PROVE  Fails(r) \/ (Moves(r) /\ Grounded(r)')
  <1>1. CASE Look(r)
    <2>1. req[r].at = "look"
      BY <1>1 DEF Look
    <2>2. CASE Known(r) # {}
      <3>1. Replay(r)
        BY <1>1, <2>2 DEF Look
      <3> QED BY <2>1, <2>2, <3>1, RolledBack DEF Replay
    <2>3. CASE Known(r) = {}
      <3>1. RollBack(r, "refused") \/ Going(r)
        BY <1>1, <2>3 DEF Look
      <3> QED BY <2>1, <3>1, RolledBack, PassingOn DEF Passed
    <2> QED BY <2>2, <2>3
  <1>2. CASE Prove(r)
    BY <1>2, RolledBack, PassingOn DEF Prove, Passed
  <1>3. CASE Find(r)
    BY <1>3, RolledBack, PassingOn DEF Find, Passed
  <1>4. CASE CheckJobs(r)
    BY <1>4, RolledBack, PassingOn DEF CheckJobs, Passed
  <1>5. CASE Safety(r)
    BY <1>5, RolledBack, PassingOn DEF Safety, Passed
  <1>6. CASE Locked(r)
    BY <1>6, PassingOn DEF Locked, Passed, Locking, Skipped
  <1> QED BY <1>1, <1>2, <1>3, <1>4, <1>5, <1>6

(* Count reads what is left of the library.                                *)
LEMMA CountPhase ==
    ASSUME TypeInv, Locks, NEW r \in Requests, Count(r)
    PROVE  Moves(r) /\ Grounded(r)'
  <1> DEFINE b == ~\E f \in files \ {req[r].body.file} : OwnerOf[f] = OwnerId(r)
             y == [req[r] EXCEPT !.at = After(r), !.pos = 0, !.last = b]
  <1>1. req[r].at = "count" /\ UNCHANGED <<rowVars, lock, sessionVars, faults>> /\ b \in BOOLEAN
    BY DEF Count
  <1>2. req \in [Requests -> Request] /\ lock \in [Rows -> Requests \cup {None}]
    BY DEF TypeInv, AdminTypeOK
  <1>3. /\ y.at = After(r) /\ y.pos = 0 /\ y.actor = req[r].actor /\ y.body = req[r].body
        /\ y.password = req[r].password /\ y.key = req[r].key /\ y.admins = req[r].admins
        /\ y.last = b /\ y.answer = req[r].answer
    BY <1>2 DEF Request
  <1>4. y \in Request /\ WellFormed(y) /\ req[r].answer = "none"
    <2> HIDE DEF b
    <2> QED BY <1>1, GoesOn
  <1>5. req' = [req EXCEPT ![r] = y]
    BY <1>2 DEF Count, Request
  <1>6. y.last <=> ~\E f \in files \ {req[r].body.file} : OwnerOf[f] = OwnerId(r)
    BY <1>3
  <1> HIDE DEF y, b
  <1>7. Holds(r, y) /\ Sees(y)
    BY <1>1, <1>3, <1>6, PhasePassed DEF Passed
  <1>8. req' \in [Requests -> Request] /\ req'[r] = y /\ \A q \in Requests \ {r} : req'[q] = req[q]
    BY <1>2, <1>4, <1>5
  <1> QED BY <1>1, <1>2, <1>3, <1>4, <1>7, <1>8, SameRows DEF Moves, OthersStay

(* The actor's row is locked once he has proved himself again.             *)
LEMMA ActorPhase ==
    ASSUME TypeInv, Locks, NEW r \in Requests, LockActor(r)
    PROVE  Fails(r) \/ (Moves(r) /\ Grounded(r)')
  <1>1. req[r].at = "actor" /\ MayLock(r, req[r].actor)
    BY DEF LockActor
  <1>2. CASE ~StillProves(r)
    BY <1>1, <1>2, RolledBack DEF LockActor
  <1>3. CASE StillProves(r) /\ Known(r) # {}
    BY <1>1, <1>3, RolledBack DEF LockActor, Replay
  <1>4. CASE StillProves(r) /\ Known(r) = {}
    <2> DEFINE x == req[r]
               y == [x EXCEPT !.at = After(r), !.pos = 0]
    <2>1. Advance(r) /\ lock' = [lock EXCEPT ![x.actor] = r] /\ UNCHANGED <<rowVars, sessionVars, faults>>
      BY <1>4 DEF LockActor
    <2>2. /\ req \in [Requests -> Request] /\ lock \in [Rows -> Requests \cup {None}]
          /\ x \in Request /\ x.actor \in Rows /\ x.body.kind \in Kinds
          /\ x.at \in Elements(Path(x.body.kind)) /\ x.admins \subseteq Rows
      BY <1>1, Asked DEF TypeInv, AdminTypeOK, Rows, WellFormed, Request
    <2>3. /\ y.at = After(r) /\ y.pos = 0 /\ y.actor = x.actor /\ y.body = x.body
          /\ y.password = x.password /\ y.key = x.key /\ y.admins = x.admins /\ y.answer = x.answer
      BY <2>2 DEF Request
    <2>4. y \in Request /\ WellFormed(y) /\ x.answer = "none"
      BY <1>1, GoesOn
    <2>5. req' = [req EXCEPT ![r] = y]
      BY <2>1, <2>2 DEF Advance, Request
    <2>6. x.body.kind \in AdminKinds /\ y.at \in {"find", "admins"}
      <3>1. y.at = NextOf(x.body.kind, "actor")
        BY <1>1, <2>3, GoesOn
      <3>2. x.body.kind \in AdminKinds
        BY <1>1, <2>2, Paths DEF Kinds, AdminKinds
      <3> QED BY <3>1, <3>2 DEF NextOf
    <2> HIDE DEF y
    <2>7. /\ req' \in [Requests -> Request] /\ req'[r] = y
          /\ \A q \in Requests \ {r} : req'[q] = req[q]
          /\ lock' \in [Rows -> Requests \cup {None}] /\ lock'[x.actor] = r
          /\ \A z \in Rows : lock[z] = r => lock'[z] = r
          /\ \A z \in Rows : lock[z] \notin {None, r} => lock'[z] = lock[z]
      BY <1>1, <2>1, <2>2, <2>4, <2>5 DEF MayLock
    <2>8. Moves(r)
      BY <2>1, <2>3, <2>4, <2>7 DEF Moves, OthersStay
    <2>9. users' = users /\ ops' = ops
      BY <2>1 DEF rowVars
    <2>10. Holds(r, x) /\ Sees(x)
      BY DEF Locks, Grounded
    <2> HIDE DEF x
    <2>11. Holds(r, req[r])'
      BY <2>2, <2>3, <2>6, <2>7, <2>10 DEF Holds, AfterActor, AfterTargets, AfterOwner, AfterFile,
                                           AfterFiles
    <2>12. Proves(r) /\ Known(r) = {}
      BY <1>4 DEF StillProves
    <2>13. EnabledAdmin(x.actor) /\ users[x.actor].password = x.password /\ Unknown(x)
      BY <2>12 DEF Proves, Known, Unknown, x
    <2>14. Sees(req[r])'
      BY <2>3, <2>6, <2>7, <2>9, <2>10, <2>13
         DEF Sees, InJobs, EnabledAdmin, Unknown, AfterActor, AfterSafety, AfterTargets, AfterOwner,
             AfterFile, AfterJobs, AfterVictim, AfterCount
    <2> QED BY <2>8, <2>11, <2>14 DEF Grounded
  <1> QED BY <1>2, <1>3, <1>4

(* The next row in the order of the ids is locked, and read.               *)
LEMMA RowPhase ==
    ASSUME TypeInv, Locks, NEW r \in Requests, LockRow(r)
    PROVE  Fails(r) \/ (Moves(r) /\ Grounded(r)')
  <1>1. req[r].at \in Locking /\ ~Skipped(r)
    BY DEF LockRow
  <1>2. PICK z \in Wanted(r) :
           /\ MayLock(r, z)
           /\ IF req[r].at # "admins" /\ Missing(r, z) THEN RollBack(r, "refused")
              ELSE /\ req' = [req EXCEPT ![r].pos = z,
                                         ![r].admins = IF req[r].at = "admins" /\ EnabledAdmin(z)
                                                       THEN @ \cup {z} ELSE @]
                   /\ lock' = IF Kept(r, z) THEN [lock EXCEPT ![z] = r] ELSE lock
                   /\ UNCHANGED <<rowVars, sessionVars, faults>>
    BY DEF LockRow
  <1>3. CASE req[r].at # "admins" /\ Missing(r, z)
    BY <1>1, <1>2, <1>3, RolledBack DEF Locking
  <1>4. CASE ~(req[r].at # "admins" /\ Missing(r, z))
    <2> DEFINE x == req[r]
               seen == IF x.at = "admins" /\ EnabledAdmin(z) THEN x.admins \cup {z} ELSE x.admins
               y == [x EXCEPT !.pos = z, !.admins = seen]
    <2>1. /\ lock' = IF Kept(r, z) THEN [lock EXCEPT ![z] = r] ELSE lock
          /\ UNCHANGED <<rowVars, sessionVars, faults>>
      BY <1>2, <1>4
    <2>2. /\ req \in [Requests -> Request] /\ lock \in [Rows -> Requests \cup {None}]
          /\ x \in Request /\ WellFormed(x) /\ x.body.kind \in Kinds /\ x.actor \in Users
          /\ x.admins \subseteq Users /\ x.pos \in Nat
          /\ x.body.targets \subseteq Users /\ x.body.file \in Files \cup {None}
          /\ x.body.kind = "delete_user" => Victims(x) = {Victim(r)}
          /\ OwnerId(r) \in Users /\ Owners(x) = {OwnerId(r)}
      BY <1>1, Asked DEF TypeInv, AdminTypeOK, Request, Locking, Body
    <2>3. /\ z \in Rows /\ z \in Nat /\ z \in RowsOf(r) /\ z > x.pos
          /\ \A w \in RowsOf(r) : w > x.pos => z <= w
      BY <1>1, Asked DEF Wanted, Rest, Locking
    <2>4. x.at = "admins" => z \in Users
      BY <2>3 DEF RowsOf
    <2>5. seen \subseteq Users /\ seen \in SUBSET Users
      BY <2>2, <2>4
    <2>6. y \in Request /\ WellFormed(y) /\ x.answer = "none"
      BY <1>1, <2>2, <2>3, <2>5 DEF Request, WellFormed, Locking
    <2>7. /\ y.at = x.at /\ y.pos = z /\ y.actor = x.actor /\ y.body = x.body /\ y.last = x.last
          /\ y.password = x.password /\ y.key = x.key /\ y.admins = seen /\ y.answer = x.answer
      BY <2>2 DEF Request
    <2>8. req' = [req EXCEPT ![r] = y]
      <3>1. req' = [req EXCEPT ![r].pos = z,
                               ![r].admins = IF req[r].at = "admins" /\ EnabledAdmin(z)
                                             THEN @ \cup {z} ELSE @]
        BY <1>2, <1>4
      <3> QED BY <2>2, <3>1 DEF Request
    <2> HIDE DEF y
    <2>9. /\ req' \in [Requests -> Request] /\ req'[r] = y
          /\ \A q \in Requests \ {r} : req'[q] = req[q]
      BY <2>2, <2>6, <2>8
    <2>10. /\ lock' \in [Rows -> Requests \cup {None}]
           /\ \A w \in Rows : lock[w] = r => lock'[w] = r
           /\ \A w \in Rows : lock[w] \notin {None, r} => lock'[w] = lock[w]
           /\ Kept(r, z) => lock'[z] = r
      BY <1>2, <2>1, <2>2, <2>3 DEF MayLock
    <2>11. Moves(r)
      BY <2>1, <2>6, <2>7, <2>9, <2>10 DEF Moves, OthersStay
    <2>12. users' = users /\ files' = files /\ job' = job /\ ops' = ops
      BY <2>1 DEF rowVars
    <2>13. Holds(r, x) /\ Sees(x)
      BY DEF Locks, Grounded
    <2>14. /\ seen \subseteq x.admins \cup {z}
           /\ z \in seen => z \in x.admins \/ (Kept(r, z) /\ EnabledAdmin(z))
           /\ x.at # "admins" => Kept(r, z) /\ ~Missing(r, z)
      BY <1>4 DEF Kept
    <2>15. /\ Users \subseteq Rows /\ Files \subseteq Rows /\ Rows \subseteq Nat \ {0} /\ files \subseteq Files
      BY Numbers DEF Rows, TypeInv, AdminTypeOK
    <2>16. /\ x.at = "targets" => \A u \in x.body.targets : u <= z => u <= x.pos \/ u = z
           /\ x.at = "owner" => z = OwnerId(r)
           /\ x.at = "file" => z = x.body.file
           /\ x.at = "files" => \A f \in files : OwnerOf[f] = Victim(r) /\ f <= z => f <= x.pos \/ f = z
      BY <2>2, <2>3, <2>15 DEF RowsOf
    <2>17. /\ x.at = "files" => x.body.kind = "delete_user"
           /\ x.at = "owner" => users[z].exists
           /\ x.at = "file" /\ x.body.file # None => z \in files
      <3>1. x.at = "files" => x.body.kind = "delete_user"
        BY <1>1, <2>2, Paths DEF WellFormed, Locking, Kinds
      <3> QED BY <2>2, <2>14, <2>16, <3>1 DEF Missing
    <2>18. /\ AfterActor(y) <=> AfterActor(x)
           /\ AfterTargets(y) <=> AfterTargets(x)
           /\ AfterSafety(y) <=> AfterSafety(x)
           /\ AfterFiles(y) <=> AfterFiles(x)
           /\ AfterOwner(y) <=> AfterOwner(x)
           /\ AfterFile(y) <=> AfterFile(x)
           /\ AfterJobs(y) <=> AfterJobs(x)
           /\ AfterVictim(y) <=> AfterVictim(x)
           /\ AfterCount(y) <=> AfterCount(x)
           /\ Victims(y) = Victims(x) /\ Owners(y) = Owners(x)
      BY <2>7 DEF AfterActor, AfterTargets, AfterSafety, AfterFiles, AfterOwner, AfterFile, AfterJobs,
                  AfterVictim,
                  AfterCount, Victims, Owners
    <2> HIDE DEF x, seen
    <2>19. Holds(r, req[r])'
      <3>1. /\ AfterActor(y) => lock'[y.actor] = r
            /\ \A a \in y.admins : lock'[a] = r
        BY <2>2, <2>7, <2>10, <2>13, <2>14, <2>15, <2>18 DEF Holds
      <3>2. /\ y.at = "targets" => \A u \in y.body.targets : u <= y.pos => lock'[u] = r
            /\ AfterTargets(y) => \A u \in y.body.targets : lock'[u] = r
        BY <2>2, <2>7, <2>10, <2>13, <2>14, <2>15, <2>16, <2>18 DEF Holds
      <3>3. /\ y.at = "owner" => \A u \in Owners(y) : u <= y.pos => lock'[u] = r
            /\ AfterOwner(y) => \A u \in Owners(y) : lock'[u] = r
        BY <2>2, <2>7, <2>10, <2>13, <2>14, <2>15, <2>16, <2>18 DEF Holds
      <3>4. /\ y.at = "file" /\ y.body.file # None /\ y.body.file <= y.pos => lock'[y.body.file] = r
            /\ AfterFile(y) /\ y.body.file # None => lock'[y.body.file] = r
        BY <2>2, <2>7, <2>10, <2>13, <2>14, <2>15, <2>16, <2>18 DEF Holds
      <3>5. /\ y.at = "files" => \A f \in files : OwnerOf[f] \in Victims(y) /\ f <= y.pos => lock'[f] = r
            /\ AfterFiles(y) => \A f \in files : OwnerOf[f] \in Victims(y) => lock'[f] = r
        BY <2>2, <2>7, <2>10, <2>13, <2>14, <2>15, <2>16, <2>17, <2>18 DEF Holds
      <3> QED BY <2>9, <2>12, <3>1, <3>2, <3>3, <3>4, <3>5
              DEF Holds, AfterActor, AfterTargets, AfterFiles, AfterOwner, AfterFile, Victims, Owners
    <2>20. Sees(y)
      <3>1. /\ AfterActor(y) => /\ EnabledAdmin(y.actor) /\ users[y.actor].password = y.password
                                /\ Unknown(y)
            /\ \A a \in y.admins : EnabledAdmin(a)
        BY <2>7, <2>13, <2>14, <2>18 DEF Sees, Unknown
      <3>2. AfterSafety(y) /\ Removes(y.body) =>
               \/ \E a \in y.admins : a \notin y.body.targets
               \/ \A u \in y.body.targets : ~EnabledAdmin(u)
        <4>1. x.at # "admins" => y.admins = x.admins
          BY <2>7 DEF seen, x
        <4>2. AfterSafety(x) => x.at # "admins"
          BY DEF AfterSafety, AfterTargets
        <4> QED BY <2>7, <2>13, <2>18, <4>1, <4>2 DEF Sees
      <3>3. /\ y.at = "owner" => \A u \in Owners(y) : u <= y.pos => users[u].exists
            /\ AfterOwner(y) => \A u \in Owners(y) : users[u].exists
        BY <2>2, <2>7, <2>13, <2>16, <2>17, <2>18 DEF Sees
      <3>4. /\ y.at = "file" /\ y.body.file # None /\ y.body.file <= y.pos => y.body.file \in files
            /\ AfterFile(y) /\ y.body.file # None => y.body.file \in files
        BY <2>7, <2>13, <2>16, <2>17, <2>18 DEF Sees
      <3>5. /\ AfterJobs(y) => ~InJobs(job, y.body.file)
            /\ AfterVictim(y) => \A u \in Victims(y) : job[u] = {}
            /\ AfterCount(y) => (y.last <=> \A f \in files \ {y.body.file} : OwnerOf[f] \notin Owners(y))
        BY <2>7, <2>13, <2>18 DEF Sees
      <3> QED BY <3>1, <3>2, <3>3, <3>4, <3>5 DEF Sees
    <2>21. Sees(req[r])'
      BY <2>9, <2>12, <2>20 DEF Sees, InJobs, Unknown, EnabledAdmin, AfterActor, AfterTargets,
                                AfterSafety, AfterFiles,
                  AfterOwner, AfterFile, AfterJobs, AfterVictim, AfterCount, Victims, Owners
    <2> QED BY <2>11, <2>19, <2>21 DEF Grounded
  <1> QED BY <1>3, <1>4

(* A call that begins, or begins again, holds nothing and has seen nothing.*)
LEMMA Beginning ==
    ASSUME TypeInv, NEW r \in Requests, NEW y \in Request, y.at \in {"look", "owner"}, y.pos = 0,
           y.at = "owner" => y.body.kind \notin AdminKinds, y.admins = {}, req' = [req EXCEPT ![r] = y], WellFormed(y), y.answer = "none",
           UNCHANGED <<rowVars, lock, sessionVars, faults>>
    PROVE  Moves(r) /\ Grounded(r)'
  <1>1. req \in [Requests -> Request] /\ lock \in [Rows -> Requests \cup {None}]
    BY DEF TypeInv, AdminTypeOK
  <1>2. req' \in [Requests -> Request] /\ req'[r] = y /\ \A q \in Requests \ {r} : req'[q] = req[q]
    BY <1>1
  <1>3. \A u \in Owners(y) : ~(u <= 0)
    BY Numbers DEF Owners
  <1>4. Holds(r, y) /\ Sees(y)
    BY <1>3 DEF Holds, Sees, AfterActor, AfterTargets, AfterSafety, AfterFiles, AfterOwner,
                AfterFile, AfterJobs, AfterVictim, AfterCount
  <1> QED BY <1>1, <1>2, <1>4, SameRows DEF Moves, OthersStay

(* A call opens.                                                           *)
LEMMA Opening ==
    ASSUME TypeInv, NEW r \in Requests, NEW u \in Users, NEW b \in Bodies, NEW k \in KeysOf(b),
           Open(r, u, k, b)
    PROVE  Moves(r) /\ Grounded(r)'
  <1> DEFINE y == [Idle EXCEPT !.at = Head(Path(b.kind)), !.actor = u, !.key = k, !.body = b,
                               !.password = users[u].password, !.tries = 1]
  <1>1. /\ req' = [req EXCEPT ![r] = y] /\ UNCHANGED <<rowVars, lock, sessionVars, faults>>
        /\ b.kind \notin AdminKinds => (b.file # None => OwnerOf[b.file] = u)
    BY DEF Open
  <1>2. b.kind \in Kinds
    BY AdminAssumption DEF Body
  <1>3. /\ Head(Path(b.kind)) \in {"look", "owner"}
        /\ Head(Path(b.kind)) = "owner" => b.kind \notin AdminKinds
        /\ Head(Path(b.kind)) \in Elements(Path(b.kind))
    BY <1>2, Paths DEF AdminKinds, Batch
  <1>4. users[u].password \in Nat
    BY DEF TypeInv, AdminTypeOK, User
  <1>5. k \in Keys \cup {None}
    BY DEF KeysOf
  <1>6. /\ y.at = Head(Path(b.kind)) /\ y.actor = u /\ y.key = k /\ y.body = b /\ y.pos = 0
        /\ y.admins = {} /\ y.answer = "none" /\ y \in Request
    BY <1>3, <1>4, <1>5 DEF Idle, Request, Phases, Answers
  <1>7. WellFormed(y)
    BY <1>1, <1>3, <1>6 DEF WellFormed
  <1> HIDE DEF y
  <1> QED BY <1>1, <1>3, <1>6, <1>7, Beginning

(* A call is tried again.                                                  *)
LEMMA Retrying ==
    ASSUME TypeInv, NEW r \in Requests, Retry(r)
    PROVE  Moves(r) /\ Grounded(r)'
  <1> DEFINE x == req[r]
             y == [x EXCEPT !.at = Head(Path(x.body.kind)), !.answer = "none", !.tries = x.tries + 1]
  <1>1. x.at = "over" /\ UNCHANGED <<rowVars, lock, sessionVars, faults>>
    BY DEF Retry
  <1>2. /\ req \in [Requests -> Request] /\ x \in Request /\ WellFormed(x) /\ x.body.kind \in Kinds
    BY <1>1, Asked DEF TypeInv, AdminTypeOK
  <1>3. req' = [req EXCEPT ![r] = y]
    BY <1>2 DEF Retry, Request
  <1>4. /\ Head(Path(x.body.kind)) \in {"look", "owner"}
        /\ Head(Path(x.body.kind)) = "owner" => x.body.kind \notin AdminKinds
        /\ Head(Path(x.body.kind)) \in Elements(Path(x.body.kind))
    BY <1>2, Paths DEF AdminKinds, Batch
  <1>5. /\ y.at = Head(Path(x.body.kind)) /\ y.actor = x.actor /\ y.key = x.key /\ y.body = x.body
        /\ y.pos = x.pos /\ y.admins = x.admins /\ y.answer = "none" /\ y \in Request
    <2>1. x.tries + 1 \in Nat
      BY <1>2 DEF Request
    <2>2. Head(Path(x.body.kind)) \in Phases /\ "none" \in Answers
      BY <1>4 DEF Phases, Answers
    <2> DEFINE h == Head(Path(x.body.kind))
               n == x.tries + 1
    <2> HIDE DEF h, n, x
    <2> QED BY <1>2, <2>1, <2>2 DEF Request, h, n
  <1>6. WellFormed(y) /\ y.pos = 0 /\ y.admins = {}
    BY <1>1, <1>2, <1>4, <1>5 DEF WellFormed
  <1> HIDE DEF y, x
  <1> QED BY <1>1, <1>3, <1>4, <1>5, <1>6, Beginning

(* A call may break off.                                                   *)
LEMMA BreakingOff ==
    ASSUME TypeInv, NEW r \in Requests, GiveUp(r) \/ Broken(r) \/ JobRefused(r)
    PROVE  Fails(r)
  <1>1. CASE GiveUp(r)
    <2>1. req[r].at # "idle"
      BY <1>1 DEF GiveUp, WaitsFor, Locking
    <2> QED BY <1>1, <2>1, RolledBack DEF GiveUp
  <1>2. CASE Broken(r)
    <2>1. /\ req[r].at # "idle" /\ End(r, "unsure") /\ UNCHANGED <<rowVars, sessionVars>>
          /\ faults' = faults + 1 /\ faults \in Nat /\ "unsure" \in Answers
      BY <1>2 DEF Broken, InTransaction, TypeInv, AdminTypeOK, Answers
    <2>2. /\ req'[r] \in Request /\ WellFormed(req'[r])
          /\ req'[r].at = "over" /\ req'[r].admins = {} /\ req'[r].answer = "unsure"
          /\ req'[r].body = req[r].body /\ req'[r].actor = req[r].actor /\ req'[r].key = req[r].key
          /\ req' \in [Requests -> Request] /\ lock' \in [Rows -> Requests \cup {None}]
          /\ \A q \in Requests \ {r} : req'[q] = req[q]
          /\ \A x \in Rows : lock[x] # r => lock'[x] = lock[x]
      BY <2>1, Ends
    <2> QED BY <2>1, <2>2 DEF Fails, OthersStay
  <1>3. CASE JobRefused(r)
    BY <1>3, RolledBack DEF JobRefused
  <1> QED BY <1>1, <1>2, <1>3

-----------------------------------------------------------------------------
(* What a transaction writes, it holds *)

(* The rows that r does not hold stay as they are.                         *)
OwnRowsOnly(r) ==
    /\ \A u \in Users : lock[u] # r => users'[u] = users[u]
    /\ \A f \in Files : lock[OwnerOf[f]] # r => (f \in files' <=> f \in files)
    /\ \A f \in files : lock[f] # r => f \in files'
    /\ \A f \in Files : InJobs(job', f) => InJobs(job, f) \/ lock[f] = r
    /\ \A u \in Users : job[u] = {} => job'[u] = {} \/ lock[u] \in {None, r}
    /\ \A o \in ops' : o.actor \in Users /\ lock[o.actor] # r => o \in ops

RowTypes ==
    /\ users \in [Users -> User] /\ files \subseteq Files /\ objects \subseteq Objects
    /\ job \in [Users -> SUBSET Job] /\ ops \subseteq Operation /\ audit \in [Users \X Keys -> Nat]

(* What a request knows and holds when it comes to write.                  *)
LEMMA AtWrite ==
    ASSUME TypeInv, Locks, NEW r \in Requests, req[r].at = "write"
    PROVE  /\ req[r].body.kind \in OnAccounts =>
                  /\ \A u \in req[r].body.targets : lock[u] = r
                  /\ Removes(req[r].body) =>
                        \/ \E a \in req[r].admins : a \notin req[r].body.targets
                        \/ \A u \in req[r].body.targets : ~EnabledAdmin(u)
           /\ req[r].body.kind \in AdminKinds =>
                  /\ lock[req[r].actor] = r /\ EnabledAdmin(req[r].actor) /\ Unknown(req[r])
                  /\ users[req[r].actor].password = req[r].password
           /\ req[r].body.kind = "delete_user" =>
                  job[Victim(r)] = {} /\ \A f \in files : OwnerOf[f] = Victim(r) => lock[f] = r
           /\ req[r].body.kind \in NamesFile => lock[OwnerId(r)] = r /\ users[OwnerId(r)].exists
           /\ req[r].body.kind \in DeletesFile =>
                  /\ lock[req[r].body.file] = r
                  /\ ~InJobs(job, req[r].body.file)
                  /\ req[r].last <=> \A f \in files \ {req[r].body.file} : OwnerOf[f] # OwnerId(r)
           /\ req[r].body.kind = "create_job" /\ req[r].body.file # None =>
                  lock[req[r].body.file] = r /\ req[r].body.file \in files
           /\ \A a \in req[r].admins : EnabledAdmin(a)
  <1> DEFINE x == req[r]
  <1>1. Holds(r, x) /\ Sees(x)
    BY DEF Locks, Grounded
  <1>2. /\ x.body.kind = "delete_user" => Victims(x) = {Victim(r)}
        /\ Owners(x) = {OwnerId(r)}
        /\ x.body.kind \in NamesFile => x.body.file \in Files /\ x.body.file # None
    BY Asked, Numbers
  <1>3. /\ x.body.kind \in OnAccounts => AfterTargets(x) /\ AfterSafety(x)
        /\ x.body.kind \in AdminKinds => AfterActor(x)
        /\ x.body.kind = "delete_user" => AfterFiles(x) /\ AfterVictim(x)
        /\ x.body.kind \in NamesFile => AfterOwner(x)
        /\ x.body.kind \in DeletesFile => AfterFile(x) /\ AfterJobs(x) /\ AfterCount(x)
                                          /\ x.body.kind \in NamesFile
        /\ x.body.kind = "create_job" => AfterFile(x)
    BY DEF AfterTargets, AfterSafety, AfterActor, AfterFiles, AfterOwner, AfterFile, AfterJobs,
           AfterVictim, AfterCount,
           DeletesFile, NamesFile
  <1> HIDE DEF x
  <1>4. /\ x.body.kind \in OnAccounts =>
               /\ \A u \in x.body.targets : lock[u] = r
               /\ Removes(x.body) =>
                     \/ \E a \in x.admins : a \notin x.body.targets
                     \/ \A u \in x.body.targets : ~EnabledAdmin(u)
        /\ x.body.kind \in AdminKinds =>
               /\ lock[x.actor] = r /\ EnabledAdmin(x.actor) /\ Unknown(x)
               /\ users[x.actor].password = x.password
        /\ \A a \in x.admins : EnabledAdmin(a)
    BY <1>1, <1>3 DEF Holds, Sees
  <1>5. /\ x.body.kind = "delete_user" =>
               job[Victim(r)] = {} /\ \A f \in files : OwnerOf[f] = Victim(r) => lock[f] = r
        /\ x.body.kind \in NamesFile => lock[OwnerId(r)] = r /\ users[OwnerId(r)].exists
    BY <1>1, <1>2, <1>3 DEF Holds, Sees
  <1>6. /\ x.body.kind \in DeletesFile =>
               /\ lock[x.body.file] = r
               /\ ~InJobs(job, x.body.file)
               /\ x.last <=> \A f \in files \ {x.body.file} : OwnerOf[f] # OwnerId(r)
        /\ x.body.kind = "create_job" /\ x.body.file # None =>
               lock[x.body.file] = r /\ x.body.file \in files
    BY <1>1, <1>2, <1>3 DEF Holds, Sees
  <1> QED BY <1>4, <1>5, <1>6 DEF x

(* An account that is changed.                                             *)
LEMMA ChangedUser ==
    ASSUME NEW row \in User, NEW b \in Body, b.kind \in Batch
    PROVE  /\ Changed(row, b) \in User /\ Changed(row, b).exists = row.exists
           /\ \/ /\ Changed(row, b).version = row.version
                 /\ Changed(row, b).password = row.password
              \/ Changed(row, b).version = row.version + 1
           /\ ~Removes(b) /\ row.exists /\ row.admin /\ row.active =>
                 Changed(row, b).admin /\ Changed(row, b).active
  <1> DEFINE v == row.version + 1
             a == [row EXCEPT !.active = b.to, !.version = v]
             m == [row EXCEPT !.admin = b.to, !.version = v]
             p == [row EXCEPT !.password = @ + 1, !.version = v]
  <1>1. v \in Nat /\ row.password + 1 \in Nat /\ b.to \in BOOLEAN
    BY DEF User, Body
  <1>2. Changed(row, b) \in {row, a, m, p}
    BY DEF Changed, Batch
  <1>3. /\ b.kind = "set_active" => Changed(row, b) \in {row, a}
        /\ b.kind = "set_role" => Changed(row, b) \in {row, m}
        /\ b.kind = "set_password" => Changed(row, b) = p
    BY DEF Changed
  <1> HIDE DEF v
  <1>4. a \in User /\ a.exists = row.exists /\ a.version = v /\ a.active = b.to /\ a.admin = row.admin
    BY <1>1 DEF User
  <1>5. m \in User /\ m.exists = row.exists /\ m.version = v /\ m.active = row.active /\ m.admin = b.to
    BY <1>1 DEF User
  <1>6. p \in User /\ p.exists = row.exists /\ p.version = v /\ p.active = row.active
        /\ p.admin = row.admin
    BY <1>1 DEF User
  <1>7. b.kind \in {"set_active", "set_role"} /\ ~Removes(b) => b.to
    BY <1>1 DEF Removes
  <1> HIDE DEF a, m, p
  <1>8. CASE b.kind = "set_active"
    BY <1>3, <1>4, <1>7, <1>8 DEF v
  <1>9. CASE b.kind = "set_role"
    BY <1>3, <1>5, <1>7, <1>9 DEF v
  <1>10. CASE b.kind = "set_password"
    BY <1>3, <1>6, <1>10 DEF v
  <1> QED BY <1>8, <1>9, <1>10 DEF Batch

(* What is registered and audited.                                         *)
LEMMA Registering ==
    ASSUME TypeInv, NEW r \in Requests, req[r].at = "write", req[r].body.kind \in AdminKinds
    PROVE  /\ Registered(r) \subseteq Operation
           /\ \A o \in Registered(r) : o \in ops \/ (o.actor = req[r].actor /\ o.key = req[r].key)
           /\ \E o \in Registered(r) : o.actor = req[r].actor /\ o.key = req[r].key
           /\ ops \subseteq Registered(r)
           /\ Audited(r) => /\ audit' \in [Users \X Keys -> Nat]
                            /\ audit'[<<req[r].actor, req[r].key>>] = audit[<<req[r].actor, req[r].key>>] + 1
                            /\ \A u \in Users, k \in Keys : u # req[r].actor \/ k # req[r].key
                                  => audit'[<<u, k>>] = audit[<<u, k>>]
  <1> DEFINE o1 == [actor |-> req[r].actor, key |-> req[r].key, body |-> req[r].body]
             at == <<req[r].actor, req[r].key>>
  <1>1. /\ req[r].actor \in Users /\ req[r].key \in Keys /\ req[r].body \in Bodies
        /\ ops \subseteq Operation /\ audit \in [Users \X Keys -> Nat]
    BY Asked DEF TypeInv, AdminTypeOK
  <1>2. o1 \in Operation /\ o1.actor = req[r].actor /\ o1.key = req[r].key
    BY <1>1 DEF Operation
  <1>3. Registered(r) = ops \cup {o1}
    BY DEF Registered
  <1>4. Audited(r) => /\ audit' \in [Users \X Keys -> Nat] /\ audit'[at] = audit[at] + 1
                      /\ \A u \in Users, k \in Keys : u # req[r].actor \/ k # req[r].key
                            => audit'[<<u, k>>] = audit[<<u, k>>]
    BY <1>1 DEF Audited
  <1> HIDE DEF o1
  <1>5. Registered(r) \subseteq Operation
    BY <1>1, <1>2, <1>3
  <1> QED BY <1>2, <1>3, <1>4, <1>5

(* The operations of a deleted user lose him, and those of others stay.    *)
LEMMA Orphans ==
    ASSUME NEW set \in SUBSET Operation, NEW u \in Users
    PROVE  /\ Orphaned(set, u) \subseteq Operation
           /\ \A o \in Orphaned(set, u) : o.actor # u /\ (o.actor = None \/ o \in set)
           /\ \A o \in set : o.actor # u => o \in Orphaned(set, u)
  <1>1. \A o \in Operation : /\ [o EXCEPT !.actor = None] \in Operation
                             /\ [o EXCEPT !.actor = None].actor = None
    BY DEF Operation
  <1>2. \A o \in set : o.actor # u => o \in Orphaned(set, u)
    BY DEF Orphaned
  <1>3. ASSUME NEW o \in Orphaned(set, u)
        PROVE  o \in Operation /\ o.actor # u /\ (o.actor = None \/ o \in set)
    <2>1. PICK p \in set : o = IF p.actor = u THEN [p EXCEPT !.actor = None] ELSE p
      BY DEF Orphaned
    <2>2. u # None
      BY Numbers
    <2> QED BY <1>1, <2>1, <2>2
  <1> QED BY <1>2, <1>3

(* A batch writes the rows of its targets.                                 *)
LEMMA BatchWrites ==
    ASSUME TypeInv, Locks, NEW r \in Requests, req[r].at = "write", WriteBatch(r)
    PROVE  RowTypes' /\ OwnRowsOnly(r)
  <1>1. /\ req[r].body.kind \in Batch /\ req[r].body.kind \in AdminKinds /\ req[r].body.kind \in OnAccounts
        /\ users' = [u \in Users |-> IF u \in req[r].body.targets THEN Changed(users[u], req[r].body)
                                     ELSE users[u]]
        /\ ops' = Registered(r) /\ Audited(r) /\ files' = files /\ objects' = objects /\ job' = job
    BY DEF WriteBatch, AdminKinds, OnAccounts
  <1>2. /\ users \in [Users -> User] /\ files \subseteq Files /\ objects \subseteq Objects
        /\ job \in [Users -> SUBSET Job] /\ req[r].body \in Body
    BY Asked DEF TypeInv, AdminTypeOK
  <1>3. \A u \in Users : Changed(users[u], req[r].body) \in User
    BY <1>1, <1>2, ChangedUser
  <1>4. users' \in [Users -> User]
    BY <1>1, <1>2, <1>3
  <1>5. RowTypes'
    BY <1>1, <1>2, <1>4, Registering DEF RowTypes
  <1>6. \A u \in Users : lock[u] # r => users'[u] = users[u]
    BY <1>1, AtWrite
  <1>7. \A o \in ops' : lock[o.actor] # r => o \in ops
    <2>1. lock[req[r].actor] = r
      BY <1>1, AtWrite
    <2>2. \A o \in Registered(r) : o \in ops \/ o.actor = req[r].actor
      BY <1>1, Registering
    <2> QED BY <1>1, <2>1, <2>2
  <1> QED BY <1>1, <1>2, <1>5, <1>6, <1>7 DEF OwnRowsOnly

(* A user goes with all that is his.                                       *)
LEMMA UserDeletionWrites ==
    ASSUME TypeInv, Locks, NEW r \in Requests, req[r].at = "write", WriteDeletedUser(r)
    PROVE  RowTypes' /\ OwnRowsOnly(r)
  <1> DEFINE u == Victim(r)
  <1>1. /\ req[r].body.kind = "delete_user" /\ req[r].body.kind \in AdminKinds /\ req[r].body.kind \in OnAccounts
        /\ users' = [users EXCEPT ![u] = Gone]
        /\ files' = {f \in files : OwnerOf[f] # u} /\ objects' = objects \ {ObjectOf[u]}
        /\ job' = job
        /\ ops' = Orphaned(Registered(r), u) /\ Audited(r)
    BY DEF WriteDeletedUser, AdminKinds, OnAccounts
  <1>2. /\ users \in [Users -> User] /\ files \subseteq Files /\ objects \subseteq Objects
        /\ job \in [Users -> SUBSET Job] /\ u \in Users /\ req[r].body.targets = {u}
    BY <1>1, Asked DEF TypeInv, AdminTypeOK
  <1>3. Gone \in User
    BY DEF Gone, User
  <1>4. lock[u] = r /\ lock[req[r].actor] = r /\ \A f \in files : OwnerOf[f] = u => lock[f] = r
    BY <1>1, <1>2, AtWrite
  <1> HIDE DEF u
  <1>5. ops' \subseteq Operation /\ audit' \in [Users \X Keys -> Nat]
    BY <1>1, <1>2, Registering, Orphans
  <1>6. RowTypes'
    BY <1>1, <1>2, <1>3, <1>5 DEF RowTypes
  <1>7. \A o \in ops' : o.actor \in Users /\ lock[o.actor] # r => o \in ops
    <2>1. Registered(r) \subseteq Operation /\ \A o \in Registered(r) : o \in ops \/ o.actor = req[r].actor
      BY <1>1, Registering
    <2>2. \A o \in ops' : o.actor = None \/ o \in Registered(r)
      BY <1>1, <1>2, <2>1, Orphans
    <2> QED BY <1>4, <2>1, <2>2, Numbers
  <1> QED BY <1>1, <1>2, <1>4, <1>6, <1>7 DEF OwnRowsOnly

(* A file goes, and its content with the last one.                         *)
LEMMA FileDeletionWrites ==
    ASSUME TypeInv, Locks, NEW r \in Requests, req[r].at = "write", WriteDeletedFile(r)
    PROVE  RowTypes' /\ OwnRowsOnly(r)
  <1>1. /\ req[r].body.kind \in DeletesFile /\ req[r].body.kind \in NamesFile
        /\ files' = files \ {req[r].body.file} /\ objects' \subseteq objects
        /\ users' = users /\ job' = job
        /\ \/ req[r].body.kind = "delete_file" /\ ops' = Registered(r) /\ Audited(r)
           \/ ops' = ops /\ audit' = audit
    BY DEF WriteDeletedFile, DeletesFile, NamesFile, WithoutObject
  <1>2. RowTypes
    BY DEF TypeInv, AdminTypeOK, RowTypes
  <1>3. /\ ops' \subseteq Operation /\ audit' \in [Users \X Keys -> Nat]
        /\ \A o \in ops' : lock[o.actor] # r => o \in ops
    <2>1. CASE req[r].body.kind = "delete_file" /\ ops' = Registered(r) /\ Audited(r)
      <3>1. req[r].body.kind \in AdminKinds
        BY <2>1 DEF AdminKinds
      <3>2. lock[req[r].actor] = r
        BY <3>1, AtWrite
      <3>3. /\ Registered(r) \subseteq Operation /\ audit' \in [Users \X Keys -> Nat]
            /\ \A o \in Registered(r) : o \in ops \/ o.actor = req[r].actor
        BY <2>1, <3>1, Registering
      <3> QED BY <2>1, <3>2, <3>3
    <2>2. CASE ops' = ops /\ audit' = audit
      BY <1>2, <2>2 DEF RowTypes
    <2> QED BY <1>1, <2>1, <2>2
  <1>4. RowTypes'
    BY <1>1, <1>2, <1>3 DEF RowTypes
  <1>5. lock[OwnerId(r)] = r /\ lock[req[r].body.file] = r /\ OwnerId(r) = OwnerOf[req[r].body.file]
    BY <1>1, AtWrite, Asked, Numbers DEF OwnerId
  <1> QED BY <1>1, <1>3, <1>4, <1>5 DEF OwnRowsOnly

(* A file comes, and its content with the first one.                       *)
LEMMA UploadWrites ==
    ASSUME TypeInv, Locks, NEW r \in Requests, req[r].at = "write", WriteUpload(r)
    PROVE  RowTypes' /\ OwnRowsOnly(r)
  <1>1. /\ req[r].body.kind \in NamesFile
        /\ objects' = objects \cup {ObjectOf[OwnerId(r)]}
        /\ files' = files \cup {req[r].body.file}
        /\ users' = users /\ job' = job /\ ops' = ops /\ audit' = audit
    BY DEF WriteUpload, NamesFile
  <1>2. RowTypes
    BY DEF TypeInv, AdminTypeOK, RowTypes
  <1>3. req[r].body.file \in Files /\ OwnerId(r) \in Users /\ OwnerId(r) = OwnerOf[req[r].body.file]
    BY <1>1, Asked, Numbers DEF OwnerId
  <1>4. lock[OwnerId(r)] = r
    BY <1>1, AtWrite
  <1>5. RowTypes'
    BY <1>1, <1>2, <1>3 DEF RowTypes, Objects
  <1> QED BY <1>1, <1>3, <1>4, <1>5 DEF OwnRowsOnly

(* A job freezes its file.                                                 *)
LEMMA JobWrites ==
    ASSUME TypeInv, Locks, NEW r \in Requests, req[r].at = "write", WriteJob(r)
    PROVE  RowTypes' /\ OwnRowsOnly(r)
  <1> DEFINE j == [open |-> TRUE, file |-> req[r].body.file]
             a == req[r].actor
  <1>1. /\ req[r].body.kind = "create_job" /\ job' = [job EXCEPT ![a] = @ \cup {j}]
        /\ users' = users /\ files' = files /\ objects' = objects /\ ops' = ops /\ audit' = audit
        /\ lock[a] \in {None, r}
    BY DEF WriteJob, MayReference, MayLock
  <1>2. RowTypes
    BY DEF TypeInv, AdminTypeOK, RowTypes
  <1>3. req[r].body.file \in Files \cup {None} /\ a \in Users /\ None \notin Files
    BY Asked, Numbers DEF Body
  <1>4. j \in Job /\ j.file = req[r].body.file
    BY <1>3 DEF Job
  <1> HIDE DEF j, a
  <1>5. /\ job'[a] = job[a] \cup {j} /\ \A u \in Users : u # a => job'[u] = job[u]
        /\ job' \in [Users -> SUBSET Job]
    BY <1>1, <1>2, <1>3, <1>4 DEF RowTypes
  <1>6. RowTypes'
    BY <1>1, <1>2, <1>5 DEF RowTypes
  <1>7. req[r].body.file # None => lock[req[r].body.file] = r
    BY <1>1, AtWrite
  <1>8. \A f \in Files : InJobs(job', f) => InJobs(job, f) \/ lock[f] = r
    BY <1>3, <1>4, <1>5, <1>7 DEF InJobs
  <1>9. \A u \in Users : job[u] = {} => job'[u] = {} \/ lock[u] \in {None, r}
    BY <1>1, <1>5
  <1> QED BY <1>1, <1>6, <1>8, <1>9 DEF OwnRowsOnly

-----------------------------------------------------------------------------
(* Every step of a request *)

Commits(r) ==
    /\ OthersStay(r) /\ UNCHANGED sessionVars /\ faults' \in Nat
    /\ req[r].at = "write" /\ req'[r].at = "over" /\ req'[r].admins = {}
    /\ req'[r].body = req[r].body /\ req'[r].actor = req[r].actor /\ req'[r].key = req[r].key
    /\ req'[r].answer \in {"done", "unsure"}
    /\ WriteBatch(r) \/ WriteDeletedUser(r) \/ WriteDeletedFile(r) \/ WriteUpload(r) \/ WriteJob(r)

(* A commit ends the request.                                              *)
LEMMA Committing ==
    ASSUME TypeInv, NEW r \in Requests, Write(r)
    PROVE  Commits(r)
  <1>1. /\ req[r].at = "write" /\ UNCHANGED sessionVars
        /\ WriteBatch(r) \/ WriteDeletedUser(r) \/ WriteDeletedFile(r) \/ WriteUpload(r) \/ WriteJob(r)
    BY DEF Write
  <1>2. PICK answer \in {"done", "unsure"} : End(r, answer) /\ faults' \in {faults, faults + 1}
    BY DEF Write
  <1>3. answer \in Answers /\ faults' \in Nat
    BY <1>2 DEF Answers, TypeInv, AdminTypeOK
  <1>4. /\ req'[r] \in Request /\ WellFormed(req'[r])
        /\ req'[r].at = "over" /\ req'[r].admins = {} /\ req'[r].answer = answer
        /\ req'[r].body = req[r].body /\ req'[r].actor = req[r].actor /\ req'[r].key = req[r].key
        /\ req' \in [Requests -> Request] /\ lock' \in [Rows -> Requests \cup {None}]
        /\ \A q \in Requests \ {r} : req'[q] = req[q]
        /\ \A x \in Rows : lock[x] # r => lock'[x] = lock[x]
    BY <1>1, <1>2, <1>3, Ends
  <1> QED BY <1>1, <1>2, <1>3, <1>4 DEF Commits, OthersStay

(* It writes rows of the right type, and only those that it holds.         *)
LEMMA CommitWrites ==
    ASSUME TypeInv, Locks, NEW r \in Requests, Commits(r)
    PROVE  RowTypes' /\ OwnRowsOnly(r)
  BY BatchWrites, UserDeletionWrites, FileDeletionWrites, UploadWrites, JobWrites DEF Commits

Acts(r) ==
    \/ \E u \in Users, b \in Bodies : \E k \in KeysOf(b) : Open(r, u, k, b)
    \/ Work(r) \/ Retry(r) \/ GiveUp(r) \/ Broken(r)

Outside(u) == \/ LoginRead(u) \/ LoginDone(u) \/ Promote(u) \/ JobEnds(u) \/ JobDrains(u)
              \/ \E f \in Files : Refreeze(u, f)

(* A step of a request goes on, fails or commits.                          *)
LEMMA ActsAre ==
    ASSUME TypeInv, Locks, NEW r \in Requests, Acts(r)
    PROVE  Fails(r) \/ (Moves(r) /\ Grounded(r)') \/ Commits(r)
  <1>1. CASE \E u \in Users, b \in Bodies : \E k \in KeysOf(b) : Open(r, u, k, b)
    BY <1>1, Opening
  <1>2. CASE Look(r) \/ Prove(r) \/ Find(r) \/ CheckJobs(r) \/ Safety(r) \/ Locked(r)
    BY <1>2, PlainPhases
  <1>3. CASE LockActor(r)
    BY <1>3, ActorPhase
  <1>4. CASE LockRow(r)
    BY <1>4, RowPhase
  <1>5. CASE Count(r)
    BY <1>5, CountPhase
  <1>6. CASE Write(r)
    BY <1>6, Committing
  <1>7. CASE GiveUp(r) \/ Broken(r) \/ JobRefused(r)
    BY <1>7, BreakingOff
  <1>8. CASE Retry(r)
    BY <1>8, Retrying
  <1> QED BY <1>1, <1>2, <1>3, <1>4, <1>5, <1>6, <1>7, <1>8 DEF Acts, Work

(* The rows that q holds are not touched.                                  *)
Spares(q) ==
    /\ req'[q] = req[q] /\ ops' \subseteq Operation /\ files' \subseteq Files
    /\ \A x \in Rows : lock[x] = q => lock'[x] = q
    /\ \A u \in Users : lock[u] = q => users'[u] = users[u]
    /\ \A f \in Files : lock[OwnerOf[f]] = q => (f \in files' <=> f \in files)
    /\ \A f \in files : lock[f] = q => f \in files'
    /\ \A f \in Files : InJobs(job', f) => InJobs(job, f) \/ lock[f] # q
    /\ \A u \in Users : job[u] = {} /\ lock[u] = q => job'[u] = {}
    /\ \A o \in ops' : o.actor \in Users /\ lock[o.actor] = q => o \in ops

(* What others do leaves a request all that it holds and sees.             *)
LEMMA Undisturbed ==
    ASSUME TypeInv, NEW q \in Requests, Grounded(q), Spares(q)
    PROVE  Grounded(q)'
  <1> DEFINE x == req[q]
  <1> USE DEF Spares
  <1>1. CASE x.at = "idle" \/ x.at = "over"
    <2>1. x.admins = {}
      BY <1>1 DEF TypeInv, WellFormed
    <2>2. Holds(q, req[q])'
      BY <1>1, <2>1 DEF Holds, AfterActor, AfterTargets, AfterFiles, AfterOwner, AfterFile
    <2>3. Sees(req[q])'
      BY <1>1, <2>1 DEF Sees, AfterActor, AfterTargets, AfterSafety, AfterOwner, AfterFile, AfterJobs,
                        AfterVictim, AfterCount
    <2> QED BY <2>2, <2>3 DEF Grounded
  <1>2. CASE x.at # "idle" /\ x.at # "over"
    <2>1. /\ x \in Request /\ x.actor \in Users /\ x.body.targets \subseteq Users
          /\ x.body.file \in Files \cup {None} /\ x.admins \subseteq Users
          /\ x.body.kind \in NamesFile => x.body.file \in Files
          /\ x.body.kind = "delete_user" => Victims(x) = x.body.targets
          /\ Owners(x) \subseteq Users
      <3>1. /\ x \in Request /\ x.actor \in Users /\ x.body \in Body
            /\ x.body.kind \in NamesFile => x.body.file \in Files
            /\ x.body.kind = "delete_user" => Victims(x) = {Victim(q)} /\ x.body.targets = {Victim(q)}
        BY <1>2, Asked
      <3>2. Owners(x) \subseteq Users
        BY DEF Owners
      <3> HIDE DEF x
      <3> QED BY <3>1, <3>2 DEF Body, Request
    <2>2. /\ Users \subseteq Rows /\ Files \subseteq Rows /\ files \subseteq Files
          /\ \A f \in Files : OwnerOf[f] \in Users /\ None \notin Files
      BY Numbers DEF Rows, TypeInv, AdminTypeOK
    <2>3. Holds(q, x) /\ Sees(x)
      BY DEF Grounded
    <2>4. /\ x.at = "files" => x.body.kind = "delete_user" /\ AfterTargets(x)
          /\ AfterFiles(x) => AfterTargets(x) /\ x.body.kind = "delete_user"
          /\ AfterCount(x) => AfterOwner(x) /\ AfterFile(x)
          /\ AfterJobs(x) => AfterFile(x) /\ x.body.file # None
          /\ AfterVictim(x) => AfterTargets(x) /\ x.body.kind = "delete_user"
          /\ AfterSafety(x) => AfterTargets(x)
      <3>1. x.at = "files" => x.body.kind = "delete_user"
        <4>1. x.at \in Elements(Path(x.body.kind)) /\ x.body.kind \in Kinds
          BY <1>2, Asked DEF WellFormed
        <4> QED BY <4>1, Paths DEF Kinds
      <3> QED BY <2>1, <2>2, <3>1 DEF AfterFiles, AfterTargets, AfterCount, AfterOwner, AfterFile,
                                      AfterJobs, AfterVictim,
                                      AfterSafety, OnAccounts, DeletesFile, NamesFile
    <2> HIDE DEF x
    <2>5. req'[q] = x
      BY DEF x
    <2>6. \A u \in Users : lock[u] = q => users'[u] = users[u] /\ lock'[u] = q
      BY <2>2
    <2>7. Holds(q, req[q])'
      <3>1. /\ AfterActor(x) => lock'[x.actor] = q
            /\ \A a \in x.admins : lock'[a] = q
            /\ x.at = "targets" => \A u \in x.body.targets : u <= x.pos => lock'[u] = q
            /\ AfterTargets(x) => \A u \in x.body.targets : lock'[u] = q
            /\ x.at = "owner" => \A u \in Owners(x) : u <= x.pos => lock'[u] = q
            /\ AfterOwner(x) => \A u \in Owners(x) : lock'[u] = q
        BY <2>1, <2>3, <2>6 DEF Holds
      <3>2. /\ x.at = "file" /\ x.body.file # None /\ x.body.file <= x.pos => lock'[x.body.file] = q
            /\ AfterFile(x) /\ x.body.file # None => lock'[x.body.file] = q
        BY <2>1, <2>2, <2>3 DEF Holds
      <3>3. /\ x.at = "files" => \A f \in files' : OwnerOf[f] \in Victims(x) /\ f <= x.pos => lock'[f] = q
            /\ AfterFiles(x) => \A f \in files' : OwnerOf[f] \in Victims(x) => lock'[f] = q
        <4>1. x.at = "files" \/ AfterFiles(x) => \A u \in Victims(x) : lock[u] = q
          BY <2>1, <2>3, <2>4 DEF Holds
        <4>2. x.at = "files" \/ AfterFiles(x) =>
                 \A f \in files' : OwnerOf[f] \in Victims(x) => f \in files
          BY <4>1
        <4> QED BY <2>2, <2>3, <4>2 DEF Holds
      <3> QED BY <2>5, <3>1, <3>2, <3>3
              DEF Holds, AfterActor, AfterTargets, AfterFiles, AfterOwner, AfterFile, Victims, Owners
    <2>8. Sees(req[q])'
      <3>1. AfterActor(x) => /\ users'[x.actor].exists /\ users'[x.actor].admin /\ users'[x.actor].active
                             /\ users'[x.actor].password = x.password
                             /\ \A o \in ops' : ~(o.actor = x.actor /\ o.key = x.key)
        BY <2>1, <2>3, <2>6 DEF Holds, Sees, EnabledAdmin, Unknown
      <3>2. \A a \in x.admins : users'[a].exists /\ users'[a].admin /\ users'[a].active
        BY <2>1, <2>3, <2>6 DEF Holds, Sees, EnabledAdmin
      <3>3. AfterSafety(x) /\ Removes(x.body) =>
               \/ \E a \in x.admins : a \notin x.body.targets
               \/ \A u \in x.body.targets : ~(users'[u].exists /\ users'[u].admin /\ users'[u].active)
        BY <2>1, <2>3, <2>4, <2>6 DEF Holds, Sees, EnabledAdmin
      <3>4. /\ x.at = "owner" => \A u \in Owners(x) : u <= x.pos => users'[u].exists
            /\ AfterOwner(x) => \A u \in Owners(x) : users'[u].exists
        BY <2>1, <2>3, <2>6 DEF Holds, Sees
      <3>5. /\ x.at = "file" /\ x.body.file # None /\ x.body.file <= x.pos => x.body.file \in files'
            /\ AfterFile(x) /\ x.body.file # None => x.body.file \in files'
        BY <2>1, <2>3 DEF Holds, Sees
      <3>6. /\ AfterJobs(x) => ~InJobs(job', x.body.file)
            /\ AfterVictim(x) => \A u \in Victims(x) : job'[u] = {}
        BY <2>1, <2>2, <2>3, <2>4 DEF Holds, Sees
      <3>7. AfterCount(x) => (x.last <=> \A f \in files' \ {x.body.file} : OwnerOf[f] \notin Owners(x))
        <4>1. AfterCount(x) => \A f \in Files : OwnerOf[f] \in Owners(x) => (f \in files' <=> f \in files)
          BY <2>3, <2>4 DEF Holds
        <4> QED BY <2>2, <2>3, <4>1 DEF Sees
      <3> QED BY <2>5, <3>1, <3>2, <3>3, <3>4, <3>5, <3>6, <3>7
              DEF Sees, InJobs, Unknown, EnabledAdmin, AfterActor, AfterTargets, AfterSafety, AfterOwner,
                  AfterFile, AfterJobs, AfterVictim, AfterCount, Owners, Victims
    <2> QED BY <2>7, <2>8 DEF Grounded
  <1> QED BY <1>1, <1>2

(* A request that holds nothing and is over.                               *)
LEMMA OverIsGrounded ==
    ASSUME NEW r \in Requests, req'[r].at = "over", req'[r].admins = {}
    PROVE  Grounded(r)'
  BY DEF Grounded, Holds, Sees, AfterActor, AfterTargets, AfterSafety, AfterFiles, AfterOwner,
         AfterFile, AfterJobs, AfterVictim, AfterCount

(* Types, and what requests rely on, in every step of a request ...        *)
LEMMA ActsKeepLocks ==
    ASSUME TypeInv, Locks, NEW r \in Requests, Acts(r)
    PROVE  TypeInv' /\ Locks'
  <1>1. RowTypes /\ lock \in [Rows -> Requests \cup {None}] /\ Users \subseteq Rows /\ Files \subseteq Rows
        /\ None \notin Requests
    BY Numbers DEF TypeInv, AdminTypeOK, RowTypes, Rows
  <1>2. OthersStay(r) /\ faults' \in Nat /\ UNCHANGED sessionVars
    BY ActsAre DEF Fails, Moves, Commits, TypeInv, AdminTypeOK
  <1>3. RowTypes' /\ OwnRowsOnly(r)
    <2>1. CASE UNCHANGED rowVars
      BY <1>1, <2>1 DEF RowTypes, rowVars, OwnRowsOnly, InJobs
    <2>2. CASE Commits(r)
      BY <2>2, CommitWrites
    <2> QED BY <2>1, <2>2, ActsAre DEF Fails, Moves
  <1>4. TypeInv'
    <2>1. AdminTypeOK'
      BY <1>2, <1>3 DEF TypeInv, AdminTypeOK, RowTypes, OthersStay, sessionVars
    <2>2. \A q \in Requests : WellFormed(req'[q])
      BY <1>2 DEF OthersStay, TypeInv
    <2> QED BY <2>1, <2>2 DEF TypeInv, WellFormed, Elements
  <1>5. ASSUME NEW q \in Requests, q # r
        PROVE  Grounded(q)'
    <2>1. Grounded(q) /\ req'[q] = req[q]
      BY <1>2, <1>5 DEF Locks, OthersStay
    <2>2. ops' \subseteq Operation /\ files' \subseteq Files /\ files \subseteq Files
      BY <1>1, <1>3 DEF RowTypes
    <2>3. \A x \in Rows : lock[x] = q => lock'[x] = q
      BY <1>1, <1>2, <1>5 DEF OthersStay
    <2>4. /\ \A u \in Users : lock[u] = q => users'[u] = users[u]
          /\ \A f \in Files : lock[OwnerOf[f]] = q => (f \in files' <=> f \in files)
          /\ \A f \in files : lock[f] = q => f \in files'
          /\ \A f \in Files : InJobs(job', f) => InJobs(job, f) \/ lock[f] # q
          /\ \A u \in Users : job[u] = {} /\ lock[u] = q => job'[u] = {}
          /\ \A o \in ops' : o.actor \in Users /\ lock[o.actor] = q => o \in ops
      BY <1>1, <1>3, <1>5 DEF OwnRowsOnly
    <2>5. Spares(q)
      BY <2>1, <2>2, <2>3, <2>4 DEF Spares
    <2> QED BY <2>1, <2>5, Undisturbed
  <1>6. Grounded(r)'
    <2>1. CASE Fails(r) \/ Commits(r)
      BY <2>1, OverIsGrounded DEF Fails, Commits
    <2> QED BY <2>1, ActsAre
  <1>7. \A q \in Requests : Grounded(q)'
    BY <1>5, <1>6
  <1> QED BY <1>4, <1>7 DEF Locks

(* What the ends, the cancellations and the switches of jobs do to them.   *)
LEMMA OutsideJobs ==
    ASSUME TypeInv, NEW u \in Users, Outside(u)
    PROVE  /\ job' \in [Users -> SUBSET Job]
           /\ \A v \in Users : job[v] = {} => job'[v] = {}
           /\ \A v \in Users : \A j \in job'[v] :
                 \/ \E i \in job[v] : i.file = j.file
                 \/ j.file \in files /\ OwnerOf[j.file] = v /\ lock[j.file] = None
  <1>1. job \in [Users -> SUBSET Job]
    BY DEF TypeInv, AdminTypeOK
  <1>2. CASE JobEnds(u)
    BY <1>1, <1>2 DEF JobEnds
  <1>3. CASE JobDrains(u)
    <2>1. PICK i \in job[u] : job' = [job EXCEPT ![u] = (@ \ {i}) \cup {[i EXCEPT !.open = FALSE]}]
      BY <1>3 DEF JobDrains
    <2> DEFINE k == [i EXCEPT !.open = FALSE]
    <2>2. i \in Job /\ k \in Job /\ k.file = i.file
      <3>1. i \in Job
        BY <1>1, <2>1
      <3>2. k.file = i.file
        BY <3>1 DEF Job
      <3>3. k \in Job
        BY <3>1 DEF Job
      <3> QED BY <3>1, <3>2, <3>3
    <2> HIDE DEF k
    <2>3. /\ job'[u] = (job[u] \ {i}) \cup {k} /\ \A v \in Users : v # u => job'[v] = job[v]
          /\ job' \in [Users -> SUBSET Job]
      BY <1>1, <2>1, <2>2 DEF k
    <2> QED BY <2>2, <2>3
  <1>4. ASSUME NEW f \in Files, Refreeze(u, f)
        PROVE  /\ job' \in [Users -> SUBSET Job]
               /\ \A v \in Users : job[v] = {} => job'[v] = {}
               /\ \A v \in Users : \A j \in job'[v] :
                     \/ \E i \in job[v] : i.file = j.file
                     \/ j.file \in files /\ OwnerOf[j.file] = v /\ lock[j.file] = None
    <2>1. PICK i \in job[u] : job' = [job EXCEPT ![u] = (@ \ {i}) \cup {[i EXCEPT !.file = f]}]
      BY <1>4 DEF Refreeze
    <2> DEFINE k == [i EXCEPT !.file = f]
    <2>2. i \in Job /\ k \in Job /\ k.file = f
      BY <1>1 DEF Job
    <2> HIDE DEF k
    <2>3. /\ job'[u] = (job[u] \ {i}) \cup {k} /\ \A v \in Users : v # u => job'[v] = job[v]
          /\ job' \in [Users -> SUBSET Job]
      BY <1>1, <2>1, <2>2 DEF k
    <2>4. f \in files /\ OwnerOf[f] = u /\ lock[f] = None
      BY <1>4 DEF Refreeze
    <2> QED BY <2>2, <2>3, <2>4
  <1>5. CASE job' = job
    BY <1>1, <1>5
  <1> QED BY <1>2, <1>3, <1>4, <1>5 DEF Outside, LoginRead, LoginDone, Promote, rowVars

(* ... and in every other step.                                            *)
LEMMA OutsideKeepsLocks ==
    ASSUME TypeInv, Locks, NEW u \in Users, Outside(u)
    PROVE  TypeInv' /\ Locks'
  <1>1. AdminTypeOK /\ \A q \in Requests : WellFormed(req[q])
    BY DEF TypeInv
  <1>2. req' = req /\ lock' = lock /\ files' = files /\ ops' = ops /\ objects' = objects /\ audit' = audit
        /\ faults' = faults
    BY DEF Outside, LoginRead, LoginDone, Promote, JobEnds, JobDrains, Refreeze, rowVars, sessionVars
  <1>3. users' \in [Users -> User] /\ \A v \in Users : lock[v] # None => users'[v] = users[v]
    <2>1. CASE Promote(u)
      BY <1>1, <2>1 DEF Promote, AdminTypeOK, User
    <2>2. CASE users' = users
      BY <1>1, <2>2 DEF AdminTypeOK
    <2> QED BY <2>1, <2>2 DEF Outside, LoginRead, LoginDone, JobEnds, JobDrains, Refreeze, rowVars
  <1>4. /\ job' \in [Users -> SUBSET Job]
        /\ \A v \in Users : job[v] = {} => job'[v] = {}
        /\ \A f \in Files : InJobs(job', f) => InJobs(job, f) \/ lock[f] = None
    BY OutsideJobs DEF InJobs
  <1>5. cookie' \in [Users -> Cookie] /\ login' \in [Users -> Cookie \cup {None}] /\ logins' \in Nat
    <2>1. CASE LoginRead(u)
      <3> DEFINE c == [version |-> users[u].version, password |-> users[u].password]
      <3>1. c \in Cookie
        BY <1>1 DEF AdminTypeOK, User, Cookie
      <3>2. login' = [login EXCEPT ![u] = c] /\ cookie' = cookie /\ logins' = logins + 1
        BY <2>1 DEF LoginRead
      <3> HIDE DEF c
      <3> QED BY <1>1, <3>1, <3>2 DEF AdminTypeOK
    <2>2. CASE LoginDone(u)
      BY <1>1, <2>2 DEF LoginDone, LoggedIn, AdminTypeOK
    <2>3. CASE cookie' = cookie /\ login' = login /\ logins' \in {logins, logins + 1}
      BY <1>1, <2>3 DEF AdminTypeOK
    <2> QED BY <2>1, <2>2, <2>3 DEF Outside, Promote, JobEnds, JobDrains, Refreeze, sessionVars
  <1>6. TypeInv'
    <2>1. AdminTypeOK'
      BY <1>1, <1>2, <1>3, <1>4, <1>5 DEF AdminTypeOK
    <2> QED BY <1>1, <1>2, <2>1 DEF TypeInv, WellFormed, Elements
  <1>7. ASSUME NEW q \in Requests
        PROVE  Grounded(q)'
    <2>1. /\ Grounded(q) /\ req'[q] = req[q] /\ ops' \subseteq Operation /\ files' \subseteq Files
          /\ q # None
      BY <1>1, <1>2, Numbers DEF Locks, AdminTypeOK
    <2>2. \A v \in Users : lock[v] = q => users'[v] = users[v]
      BY <1>3, <2>1
    <2>3. /\ \A x \in Rows : lock[x] = q => lock'[x] = q
          /\ \A f \in Files : lock[OwnerOf[f]] = q => (f \in files' <=> f \in files)
          /\ \A f \in files : lock[f] = q => f \in files'
          /\ \A f \in Files : InJobs(job', f) => InJobs(job, f) \/ lock[f] # q
          /\ \A v \in Users : job[v] = {} /\ lock[v] = q => job'[v] = {}
          /\ \A o \in ops' : o.actor \in Users /\ lock[o.actor] = q => o \in ops
      BY <1>2, <1>4, <2>1
    <2>4. Spares(q)
      BY <2>1, <2>2, <2>3 DEF Spares
    <2> QED BY <2>1, <2>4, Undisturbed
  <1> QED BY <1>6, <1>7 DEF Locks

-----------------------------------------------------------------------------
(* What a commit leaves true *)

(* An administrator remains: one that the transaction has seen and holds,  *)
(* or any other one when it removes none.                                  *)
LEMMA CommitRemains ==
    ASSUME TypeInv, Locks, AdminRemains, NEW r \in Requests, Commits(r)
    PROVE  AdminRemains'
  <1>1. PICK w \in Users : users[w].exists /\ users[w].admin /\ users[w].active
    BY DEF AdminRemains, EnabledAdmin
  <1>2. req[r].at = "write" /\ users \in [Users -> User]
    BY DEF Commits, TypeInv, AdminTypeOK
  <1>3. /\ req[r].body \in Body /\ req[r].body.targets \subseteq Users /\ req[r].admins \subseteq Users
        /\ \A a \in req[r].admins : users[a].exists /\ users[a].admin /\ users[a].active
    BY <1>2, Asked, AtWrite DEF EnabledAdmin, Request, Body
  <1>4. req[r].body.kind \in OnAccounts /\ Removes(req[r].body) =>
           \E v \in Users \ req[r].body.targets : users[v].exists /\ users[v].admin /\ users[v].active
    <2>1. SUFFICES ASSUME req[r].body.kind \in OnAccounts, Removes(req[r].body)
                   PROVE  \E v \in Users \ req[r].body.targets :
                             users[v].exists /\ users[v].admin /\ users[v].active
      OBVIOUS
    <2>2. \/ \E a \in req[r].admins : a \notin req[r].body.targets
          \/ \A u \in req[r].body.targets : ~(users[u].exists /\ users[u].admin /\ users[u].active)
      BY <1>2, <2>1, AtWrite DEF EnabledAdmin
    <2> QED BY <1>1, <1>3, <2>2
  <1>5. CASE WriteBatch(r)
    <2>1. /\ users' = [u \in Users |-> IF u \in req[r].body.targets THEN Changed(users[u], req[r].body)
                                       ELSE users[u]]
          /\ req[r].body.kind \in Batch /\ req[r].body.kind \in OnAccounts
      BY <1>5 DEF WriteBatch, OnAccounts
    <2>2. CASE Removes(req[r].body)
      BY <1>4, <2>1, <2>2 DEF AdminRemains, EnabledAdmin
    <2>3. CASE ~Removes(req[r].body)
      <3>1. w \in req[r].body.targets =>
               /\ Changed(users[w], req[r].body).exists /\ Changed(users[w], req[r].body).admin
               /\ Changed(users[w], req[r].body).active
        BY <1>1, <1>2, <1>3, <2>1, <2>3, ChangedUser
      <3> QED BY <1>1, <2>1, <3>1 DEF AdminRemains, EnabledAdmin
    <2> QED BY <2>2, <2>3
  <1>6. CASE WriteDeletedUser(r)
    <2>1. /\ users' = [users EXCEPT ![Victim(r)] = Gone] /\ req[r].body.targets = {Victim(r)}
          /\ req[r].body.kind \in OnAccounts /\ Removes(req[r].body)
      BY <1>2, <1>6, Asked DEF WriteDeletedUser, OnAccounts, Removes
    <2> QED BY <1>2, <1>4, <2>1 DEF AdminRemains, EnabledAdmin
  <1>7. CASE users' = users
    BY <1>1, <1>7 DEF AdminRemains, EnabledAdmin
  <1> QED BY <1>5, <1>6, <1>7 DEF Commits, WriteDeletedFile, WriteUpload, WriteJob

(* What a login has read is out of date as soon as the row is changed.     *)
LEMMA CommitProved ==
    ASSUME TypeInv, Proved, NEW r \in Requests, Commits(r)
    PROVE  Proved'
  <1>1. /\ cookie' = cookie /\ login' = login /\ req[r].at = "write" /\ users \in [Users -> User]
        /\ cookie \in [Users -> Cookie] /\ login \in [Users -> Cookie \cup {None}]
    BY DEF Commits, sessionVars, TypeInv, AdminTypeOK
  <1>2. req[r].body \in Body
    BY <1>1, Asked
  <1>3. \A u \in Users :
           \/ ~users'[u].exists
           \/ /\ users'[u].exists = users[u].exists
              /\ \/ users'[u].version = users[u].version /\ users'[u].password = users[u].password
                 \/ users'[u].version = users[u].version + 1
    <2>1. CASE WriteBatch(r)
      <3>1. /\ users' = [u \in Users |-> IF u \in req[r].body.targets THEN Changed(users[u], req[r].body)
                                         ELSE users[u]]
            /\ req[r].body.kind \in Batch
        BY <2>1 DEF WriteBatch
      <3> QED BY <1>1, <1>2, <3>1, ChangedUser
    <2>2. CASE WriteDeletedUser(r)
      BY <1>1, <2>2 DEF WriteDeletedUser, Gone
    <2>3. CASE users' = users
      BY <2>3
    <2> QED BY <2>1, <2>2, <2>3 DEF Commits, WriteDeletedFile, WriteUpload, WriteJob
  <1>4. ASSUME NEW u \in Users, NEW c \in Cookie, ProvedAt(u, c), users'[u].exists
        PROVE  /\ c.version <= users'[u].version
               /\ c.version = users'[u].version => c.password = users'[u].password
    <2>1. /\ c.version <= users[u].version
          /\ c.version = users[u].version => c.password = users[u].password
          /\ c.version \in Nat /\ users[u].version \in Nat
      BY <1>1, <1>4 DEF ProvedAt, Cookie, User
    <2>2. CASE users'[u].version = users[u].version /\ users'[u].password = users[u].password
      BY <2>1, <2>2
    <2>3. CASE users'[u].version = users[u].version + 1
      <3> DEFINE v == users[u].version
                 w == users'[u].version
                 n == c.version
      <3>1. n <= v /\ n \in Nat /\ v \in Nat /\ w = v + 1
        BY <2>1, <2>3
      <3> HIDE DEF v, w, n
      <3>2. n <= w /\ n # w
        BY <3>1
      <3> QED BY <3>2 DEF w, n
    <2> QED BY <1>3, <1>4, <2>2, <2>3
  <1>5. \A u \in Users : users'[u].exists => users[u].exists
    BY <1>3
  <1>6. ASSUME NEW u \in Users, users'[u].exists
        PROVE  /\ cookie[u].version <= users'[u].version
               /\ cookie[u].version = users'[u].version => cookie[u].password = users'[u].password
    <2>1. ProvedAt(u, cookie[u]) /\ cookie[u] \in Cookie
      BY <1>1, <1>5, <1>6 DEF Proved
    <2> QED BY <1>4, <1>6, <2>1
  <1>7. ASSUME NEW u \in Users, users'[u].exists, login[u] # None
        PROVE  /\ login[u].version <= users'[u].version
               /\ login[u].version = users'[u].version => login[u].password = users'[u].password
    <2>1. ProvedAt(u, login[u]) /\ login[u] \in Cookie
      BY <1>1, <1>5, <1>7 DEF Proved
    <2> QED BY <1>4, <1>7, <2>1
  <1> QED BY <1>1, <1>6, <1>7 DEF Proved, ProvedAt

(* The audit grows with the register, and only for an operation that was   *)
(* not there.                                                              *)
LEMMA CommitRegisters ==
    ASSUME TypeInv, Locks, Registers, NEW r \in Requests, Commits(r)
    PROVE  /\ Registers'
           /\ \A u \in Users, k \in Keys : audit'[<<u, k>>] >= audit[<<u, k>>]
           /\ req[r].body.kind \in AdminKinds => audit'[<<req[r].actor, req[r].key>>] = 1
  <1> DEFINE a == req[r].actor
             k0 == req[r].key
  <1>1. req[r].at = "write" /\ users \in [Users -> User] /\ audit \in [Users \X Keys -> Nat]
        /\ a \in Users
    BY Asked DEF Commits, TypeInv, AdminTypeOK
  <1>2. \A u \in Users, k \in Keys : audit[<<u, k>>] \in Nat
    BY <1>1
  <1>3. CASE req[r].body.kind \in AdminKinds
    <2>1. /\ k0 \in Keys /\ users[a].exists
          /\ \A o \in ops : ~(o.actor = a /\ o.key = k0)
      BY <1>1, <1>3, Asked, AtWrite DEF EnabledAdmin, Unknown
    <2>2. audit[<<a, k0>>] = 0
      <3>1. audit[<<a, k0>>] <= 1 /\ audit[<<a, k0>>] # 1 /\ audit[<<a, k0>>] \in Nat
        BY <1>1, <1>2, <2>1 DEF Registers
      <3> QED BY <3>1
    <2>3. /\ Audited(r)
          /\ \/ ops' = Registered(r) /\ \A u \in Users : users'[u].exists => users[u].exists
             \/ \E v \in Users : /\ ops' = Orphaned(Registered(r), v) /\ ~users'[v].exists
                                 /\ \A u \in Users \ {v} : users'[u] = users[u]
      <3>1. CASE WriteBatch(r)
        <4>1. \A u \in Users : users'[u].exists => users[u].exists
          <5>1. req[r].body \in Body
            BY <1>1, Asked
          <5> QED BY <1>1, <3>1, <5>1, ChangedUser DEF WriteBatch
        <4> QED BY <3>1, <4>1 DEF WriteBatch
      <3>2. CASE WriteDeletedUser(r)
        <4>1. Victim(r) \in Users
          BY <1>1, <3>2, Asked DEF WriteDeletedUser
        <4> QED BY <1>1, <3>2, <4>1 DEF WriteDeletedUser, Gone
      <3>3. CASE WriteDeletedFile(r)
        BY <1>3, <3>3 DEF WriteDeletedFile, AdminKinds, Batch
      <3> QED BY <1>3, <3>1, <3>2, <3>3 DEF Commits, WriteUpload, WriteJob, AdminKinds, Batch
    <2>4. /\ audit'[<<a, k0>>] = 1
          /\ \A u \in Users, k \in Keys : u # a \/ k # k0 => audit'[<<u, k>>] = audit[<<u, k>>]
          /\ Registered(r) \subseteq Operation
          /\ \A o \in Registered(r) : o \in ops \/ (o.actor = a /\ o.key = k0)
          /\ \E o \in Registered(r) : o.actor = a /\ o.key = k0
          /\ ops \subseteq Registered(r)
      BY <1>1, <1>3, <2>2, <2>3, Registering
    <2> HIDE DEF a, k0
    <2>5. CASE ops' = Registered(r) /\ \A u \in Users : users'[u].exists => users[u].exists
      <3>1. ASSUME NEW u \in Users, NEW k \in Keys
            PROVE  /\ audit'[<<u, k>>] <= 1
                   /\ (\E o \in ops' : o.actor = u /\ o.key = k) => audit'[<<u, k>>] = 1
                   /\ users'[u].exists /\ audit'[<<u, k>>] = 1 => \E o \in ops' : o.actor = u /\ o.key = k
        <4>1. CASE u = a /\ k = k0
          BY <2>4, <2>5, <4>1
        <4>2. CASE ~(u = a /\ k = k0)
          BY <2>4, <2>5, <4>2 DEF Registers
        <4> QED BY <4>1, <4>2
      <3> QED BY <1>2, <2>2, <2>4, <3>1 DEF Registers, a, k0
    <2>6. CASE \E v \in Users : /\ ops' = Orphaned(Registered(r), v) /\ ~users'[v].exists
                                /\ \A u \in Users \ {v} : users'[u] = users[u]
      <3>1. PICK v \in Users : /\ ops' = Orphaned(Registered(r), v) /\ ~users'[v].exists
                               /\ \A u \in Users \ {v} : users'[u] = users[u]
        BY <2>6
      <3>2. /\ \A o \in ops' : o.actor # v /\ (o.actor = None \/ o \in Registered(r))
            /\ \A o \in Registered(r) : o.actor # v => o \in ops'
        BY <2>4, <3>1, Orphans
      <3>3. ASSUME NEW u \in Users, NEW k \in Keys
            PROVE  /\ audit'[<<u, k>>] <= 1
                   /\ (\E o \in ops' : o.actor = u /\ o.key = k) => audit'[<<u, k>>] = 1
                   /\ users'[u].exists /\ audit'[<<u, k>>] = 1 => \E o \in ops' : o.actor = u /\ o.key = k
        <4>1. u # None
          BY Numbers
        <4>2. CASE u = a /\ k = k0
          BY <2>4, <3>1, <3>2, <4>1, <4>2
        <4>3. CASE ~(u = a /\ k = k0)
          BY <2>4, <3>1, <3>2, <4>1, <4>3 DEF Registers
        <4> QED BY <4>2, <4>3
      <3> QED BY <1>2, <2>2, <2>4, <3>3 DEF Registers, a, k0
    <2> QED BY <2>3, <2>5, <2>6
  <1>4. CASE req[r].body.kind \notin AdminKinds
    <2>1. users' = users /\ ops' = ops /\ audit' = audit
      BY <1>4 DEF Commits, WriteBatch, WriteDeletedUser, WriteDeletedFile, WriteUpload, WriteJob, AdminKinds
    <2> QED BY <1>2, <1>4, <2>1 DEF Registers
  <1> QED BY <1>3, <1>4

(* The library stays whole: a content goes with the last file of its       *)
(* owner, and a file that a job needs does not go.                         *)
LEMMA CommitLibrary ==
    ASSUME TypeInv, Locks, LibraryIsWhole, JobsOwn, NEW r \in Requests, Commits(r)
    PROVE  LibraryIsWhole' /\ JobsOwn'
  <1> DEFINE b == req[r].body
             Names(F) == {ObjectOf[OwnerOf[f]] : f \in F}
  <1>1. /\ req[r].at = "write" /\ users \in [Users -> User] /\ files \subseteq Files
        /\ job \in [Users -> SUBSET Job] /\ req[r].actor \in Users
    BY Asked DEF Commits, TypeInv, AdminTypeOK
  <1>2. /\ objects = Names(files)
        /\ \A f \in files : users[OwnerOf[f]].exists
        /\ \A u \in Users : \A j \in job[u] :
              /\ users[u].exists
              /\ j.file # None => j.file \in files /\ OwnerOf[j.file] = u
    BY DEF LibraryIsWhole, JobsOwn
  <1>3. /\ \A f \in Files : OwnerOf[f] \in Users
        /\ \A u, v \in Users : ObjectOf[u] = ObjectOf[v] => u = v
    BY Numbers, AdminAssumption
  <1>4. SUFFICES
           /\ objects' = Names(files')
           /\ \A f \in files' : users'[OwnerOf[f]].exists
           /\ \A u \in Users : \A j \in job'[u] :
                 /\ users'[u].exists
                 /\ j.file # None => j.file \in files' /\ OwnerOf[j.file] = u
    BY DEF LibraryIsWhole, JobsOwn
  <1>5. CASE WriteBatch(r)
    <2>1. /\ users' = [u \in Users |-> IF u \in b.targets THEN Changed(users[u], b) ELSE users[u]]
          /\ b.kind \in Batch /\ files' = files /\ objects' = objects /\ job' = job /\ b \in Body
      BY <1>1, <1>5, Asked DEF WriteBatch
    <2>2. \A u \in Users : users'[u].exists = users[u].exists
      BY <1>1, <2>1, ChangedUser
    <2> QED BY <1>1, <1>2, <1>3, <2>1, <2>2
  <1>6. CASE WriteDeletedUser(r)
    <2> DEFINE v == Victim(r)
    <2>1. /\ users' = [users EXCEPT ![v] = Gone] /\ v \in Users
          /\ files' = {f \in files : OwnerOf[f] # v} /\ objects' = objects \ {ObjectOf[v]}
          /\ job' = job /\ job[v] = {}
      BY <1>1, <1>6, Asked, AtWrite DEF WriteDeletedUser
    <2> HIDE DEF v
    <2>2. objects' = Names(files')
      BY <1>1, <1>2, <1>3, <2>1
    <2>3. \A u \in Users : u # v => users'[u] = users[u]
      BY <1>1, <2>1
    <2> QED BY <1>1, <1>2, <1>3, <2>1, <2>2, <2>3
  <1>7. CASE WriteDeletedFile(r)
    <2> DEFINE o == OwnerId(r)
    <2>1. /\ b.kind \in DeletesFile /\ b.kind \in NamesFile /\ files' = files \ {b.file}
          /\ objects' = IF req[r].last THEN objects \ {ObjectOf[o]} ELSE objects
          /\ users' = users /\ job' = job
      BY <1>7 DEF WriteDeletedFile, WithoutObject, DeletesFile, NamesFile
    <2>2. /\ \A u \in Users : \A j \in job[u] : j.file # b.file
          /\ req[r].last <=> \A f \in files \ {b.file} : OwnerOf[f] # o
          /\ b.file \in Files /\ o \in Users /\ o = OwnerOf[b.file]
      BY <1>1, <2>1, AtWrite, Asked, Numbers DEF OwnerId, InJobs
    <2> HIDE DEF o, b
    <2>3. CASE req[r].last
      <3>1. objects' = Names(files')
        BY <1>1, <1>2, <1>3, <2>1, <2>2, <2>3
      <3> QED BY <1>1, <1>2, <2>1, <2>2, <3>1
    <2>4. CASE ~req[r].last
      <3>1. PICK f \in files \ {b.file} : OwnerOf[f] = o
        BY <2>2, <2>4
      <3>2. objects' = Names(files')
        BY <1>1, <1>2, <2>1, <2>2, <2>4, <3>1
      <3> QED BY <1>1, <1>2, <2>1, <2>2, <3>2
    <2> QED BY <2>3, <2>4
  <1>8. CASE WriteUpload(r)
    <2>1. /\ b.kind \in NamesFile /\ files' = files \cup {b.file}
          /\ objects' = objects \cup {ObjectOf[OwnerId(r)]} /\ users' = users /\ job' = job
      BY <1>8 DEF WriteUpload, NamesFile
    <2>2. OwnerId(r) = OwnerOf[b.file] /\ users[OwnerId(r)].exists
      BY <1>1, <2>1, AtWrite, Asked, Numbers DEF OwnerId
    <2> HIDE DEF b
    <2> QED BY <1>1, <1>2, <2>1, <2>2
  <1>9. CASE WriteJob(r)
    <2> DEFINE a == req[r].actor
               j == [open |-> TRUE, file |-> b.file]
    <2>1. /\ b.kind = "create_job" /\ b.kind \notin AdminKinds /\ users[a].exists
          /\ job' = [job EXCEPT ![a] = @ \cup {j}]
          /\ users' = users /\ files' = files /\ objects' = objects
      BY <1>9 DEF WriteJob, MayReference, AdminKinds, Batch
    <2>2. b.file # None => b.file \in files /\ OwnerOf[b.file] = a
      BY <1>1, <2>1, AtWrite, Asked DEF WellFormed
    <2>3. j.file = b.file
      OBVIOUS
    <2> HIDE DEF a, b, j
    <2>4. job'[a] = job[a] \cup {j} /\ \A u \in Users : u # a => job'[u] = job[u]
      BY <1>1, <2>1 DEF a
    <2> QED BY <1>1, <1>2, <2>1, <2>2, <2>3, <2>4
  <1> QED BY <1>5, <1>6, <1>7, <1>8, <1>9 DEF Commits

(* Whoever is told that it is done is told the truth.                      *)
LEMMA ActsTell ==
    ASSUME TypeInv, Locks, Registers, Told, NEW r \in Requests, Acts(r)
    PROVE  Told' /\ Registers'
  <1>1. OthersStay(r)
    BY ActsAre DEF Fails, Moves, Commits
  <1>2. audit \in [Users \X Keys -> Nat]
    BY DEF TypeInv, AdminTypeOK
  <1>3. /\ Registers'
        /\ \A u \in Users, k \in Keys : audit'[<<u, k>>] >= audit[<<u, k>>]
    <2>1. CASE UNCHANGED rowVars
      BY <1>2, <2>1 DEF Registers, rowVars
    <2>2. CASE Commits(r)
      BY <2>2, CommitRegisters
    <2> QED BY <2>1, <2>2, ActsAre DEF Fails, Moves
  <1>4. \A u \in Users, k \in Keys : audit[<<u, k>>] = 1 => audit'[<<u, k>>] = 1
    <2>1. ASSUME NEW u \in Users, NEW k \in Keys, audit[<<u, k>>] = 1
          PROVE  audit'[<<u, k>>] = 1
      <3>1. audit'[<<u, k>>] >= 1 /\ audit'[<<u, k>>] <= 1
        BY <1>3, <2>1 DEF Registers
      <3>2. audit'[<<u, k>>] \in Nat
        <4>1. audit' \in [Users \X Keys -> Nat]
          BY ActsKeepLocks DEF TypeInv, AdminTypeOK
        <4> QED BY <4>1
      <3> QED BY <3>1, <3>2
    <2> QED BY <2>1
  <1>5. ASSUME NEW q \in Requests, req'[q].answer \in {"done", "replayed"},
               req'[q].body.kind \in AdminKinds
        PROVE  audit'[<<req'[q].actor, req'[q].key>>] = 1
    <2>1. CASE q # r
      <3>1. /\ req'[q] = req[q] /\ req[q] \in Request /\ WellFormed(req[q])
        BY <1>1, <2>1 DEF OthersStay, TypeInv, AdminTypeOK
      <3>2. req[q].at # "idle"
        BY <1>5, <3>1 DEF WellFormed
      <3>3. req[q].actor \in Users /\ req[q].key \in Keys
        BY <1>5, <3>1, <3>2, Asked
      <3> QED BY <1>4, <1>5, <3>1, <3>3 DEF Told
    <2>2. CASE q = r /\ Commits(r)
      <3>1. /\ req'[r].body = req[r].body /\ req'[r].actor = req[r].actor /\ req'[r].key = req[r].key
        BY <2>2 DEF Commits
      <3> QED BY <1>5, <2>2, <3>1, CommitRegisters
    <2>3. CASE q = r /\ Fails(r)
      <3>1. /\ req'[r].body = req[r].body /\ req'[r].actor = req[r].actor /\ req'[r].key = req[r].key
            /\ Known(r) # {} /\ audit' = audit /\ req[r].at # "idle"
        BY <1>5, <2>3 DEF Fails, rowVars
      <3>2. req[r].actor \in Users /\ req[r].key \in Keys
        BY <1>5, <2>3, <3>1, Asked
      <3>3. \E o \in ops : o.actor = req[r].actor /\ o.key = req[r].key
        BY <3>1 DEF Known
      <3>4. audit[<<req[r].actor, req[r].key>>] = 1
        BY <3>2, <3>3 DEF Registers
      <3> QED BY <2>3, <3>1, <3>4
    <2>4. CASE q = r /\ Moves(r)
      BY <1>5, <2>4 DEF Moves
    <2> QED BY <2>1, <2>2, <2>3, <2>4, ActsAre
  <1> QED BY <1>3, <1>5 DEF Told

(* The invariant in every step of a request ...                            *)
LEMMA ActsKeep ==
    ASSUME AInv, NEW r \in Requests, Acts(r)
    PROVE  AInv'
  <1> USE DEF AInv
  <1>1. TypeInv' /\ Locks'
    BY ActsKeepLocks
  <1>2. Told' /\ Registers'
    BY ActsTell
  <1>3. AdminRemains' /\ Proved' /\ LibraryIsWhole' /\ JobsOwn'
    <2>1. CASE UNCHANGED <<rowVars, sessionVars>>
      BY <2>1 DEF rowVars, sessionVars, AdminRemains, EnabledAdmin, Proved, ProvedAt, LibraryIsWhole,
                  JobsOwn
    <2>2. CASE Commits(r)
      BY <2>2, CommitRemains, CommitProved, CommitLibrary
    <2> QED BY <2>1, <2>2, ActsAre DEF Fails, Moves
  <1> QED BY <1>1, <1>2, <1>3

(* ... and in every other one.                                             *)
LEMMA OutsideKeeps ==
    ASSUME AInv, NEW u \in Users, Outside(u)
    PROVE  AInv'
  <1> USE DEF AInv
  <1>1. TypeInv' /\ Locks'
    BY OutsideKeepsLocks
  <1>2. /\ users \in [Users -> User] /\ job \in [Users -> SUBSET Job]
        /\ cookie \in [Users -> Cookie] /\ login \in [Users -> Cookie \cup {None}]
        /\ None \notin Nat /\ Files \subseteq Nat
    BY AdminAssumption DEF TypeInv, AdminTypeOK
  <1>3. req' = req /\ files' = files /\ objects' = objects /\ ops' = ops /\ audit' = audit
    BY DEF Outside, LoginRead, LoginDone, Promote, JobEnds, JobDrains, Refreeze, rowVars
  <1>4. \A v \in Users : /\ users'[v].exists = users[v].exists /\ users'[v].active = users[v].active
                         /\ users'[v].version = users[v].version /\ users'[v].password = users[v].password
                         /\ users[v].admin => users'[v].admin
    <2>1. CASE Promote(u)
      BY <1>2, <2>1 DEF Promote, User
    <2>2. CASE users' = users
      BY <2>2
    <2> QED BY <2>1, <2>2 DEF Outside, LoginRead, LoginDone, JobEnds, JobDrains, Refreeze, rowVars
  <1>5. AdminRemains'
    BY <1>4 DEF AdminRemains, EnabledAdmin
  <1>6. Told' /\ Registers'
    BY <1>3, <1>4 DEF Told, Registers
  <1>7. LibraryIsWhole' /\ JobsOwn'
    <2>1. \A v \in Users : \A j \in job'[v] :
             /\ job[v] # {}
             /\ \/ \E i \in job[v] : i.file = j.file
                \/ j.file \in files /\ OwnerOf[j.file] = v
      BY OutsideJobs
    <2>2. objects' = {ObjectOf[OwnerOf[f]] : f \in files'}
      BY <1>3 DEF LibraryIsWhole
    <2>3. \A f \in files' : users'[OwnerOf[f]].exists
      <3>1. \A f \in files : OwnerOf[f] \in Users
        BY Numbers DEF TypeInv, AdminTypeOK
      <3> QED BY <1>3, <1>4, <3>1 DEF LibraryIsWhole
    <2>4. \A v \in Users : \A j \in job'[v] :
             /\ users'[v].exists
             /\ j.file # None => j.file \in files' /\ OwnerOf[j.file] = v
      BY <1>3, <1>4, <2>1 DEF LibraryIsWhole, JobsOwn
    <2>5. LibraryIsWhole'
      BY <2>2, <2>3, <2>4 DEF LibraryIsWhole
    <2>6. JobsOwn'
      BY <2>4 DEF JobsOwn
    <2> QED BY <2>5, <2>6
  <1>8. Proved'
    <2>1. CASE LoginRead(u)
      <3> DEFINE c == [version |-> users[u].version, password |-> users[u].password]
      <3>1. login' = [login EXCEPT ![u] = c] /\ cookie' = cookie /\ users' = users
        BY <2>1 DEF LoginRead, rowVars
      <3>2. c.version = users[u].version /\ c.password = users[u].password
            /\ users[u].version \in Nat
        BY <1>2 DEF User
      <3> HIDE DEF c
      <3>3. \A v \in Users : (v = u /\ login'[v] = c) \/ login'[v] = login[v]
        BY <1>2, <3>1
      <3> QED BY <3>1, <3>2, <3>3 DEF Proved, ProvedAt
    <2>2. CASE LoginDone(u)
      <3>1. /\ login[u] # None /\ cookie' = [cookie EXCEPT ![u] = login[u]] /\ users' = users
            /\ login' = [login EXCEPT ![u] = None]
        BY <2>2 DEF LoginDone, LoggedIn, rowVars
      <3> QED BY <1>2, <3>1 DEF Proved, ProvedAt
    <2>3. CASE cookie' = cookie /\ login' = login
      BY <1>4, <2>3 DEF Proved, ProvedAt
    <2> QED BY <2>1, <2>2, <2>3 DEF Outside, Promote, JobEnds, JobDrains, Refreeze, sessionVars
  <1> QED BY <1>1, <1>5, <1>6, <1>7, <1>8

(* The invariant at first.                                                 *)
LEMMA AInvInit == Init => AInv
  <1> SUFFICES ASSUME Init PROVE AInv
    OBVIOUS
  <1> USE DEF Init
  <1>1. FirstAdmins \subseteq Users /\ FirstAdmins # {}
    BY AdminAssumption
  <1>2. Idle \in Request /\ Idle.at = "idle" /\ Idle.pos = 0 /\ Idle.admins = {} /\ Idle.answer = "none"
    BY DEF Idle, Request, Phases, Answers
  <1>3. job \in [Users -> SUBSET Job] /\ \A u \in Users : job[u] = {}
    OBVIOUS
  <1>4. TypeInv
    <2>1. users \in [Users -> User] /\ cookie \in [Users -> Cookie]
      BY DEF User, Cookie
    <2>2. objects \subseteq Objects
      BY Numbers DEF Objects
    <2>3. AdminTypeOK
      BY <1>2, <1>3, <2>1, <2>2 DEF AdminTypeOK
    <2> QED BY <1>2, <2>3 DEF TypeInv, WellFormed
  <1>5. Locks
    BY <1>2 DEF Locks, Grounded, Holds, Sees, AfterActor, AfterTargets, AfterSafety, AfterFiles, AfterOwner,
                AfterFile, AfterJobs, AfterVictim, AfterCount
  <1>6. AdminRemains /\ Proved
    <2>1. AdminRemains
      BY <1>1 DEF AdminRemains, EnabledAdmin
    <2>2. \A u \in Users : /\ users[u].version = 1 /\ users[u].password = 0 /\ login[u] = None
                           /\ cookie[u].version = 1 /\ cookie[u].password = 0
      OBVIOUS
    <2>3. Proved
      BY <2>2 DEF Proved, ProvedAt
    <2> QED BY <2>1, <2>3
  <1>7. Registers /\ Told
    BY <1>2 DEF Registers, Told
  <1>8. LibraryIsWhole /\ JobsOwn
    BY <1>3, Numbers DEF LibraryIsWhole, JobsOwn
  <1> QED BY <1>4, <1>5, <1>6, <1>7, <1>8 DEF AInv

(* The invariant in every step.                                            *)
LEMMA AInvStep == AInv /\ [Next]_vars => AInv'
  <1> SUFFICES ASSUME AInv, [Next]_vars PROVE AInv'
    OBVIOUS
  <1>1. CASE \E r \in Requests : Acts(r)
    BY <1>1, ActsKeep
  <1>2. CASE \E u \in Users : Outside(u)
    BY <1>2, OutsideKeeps
  <1>3. CASE UNCHANGED vars
    <2>1. /\ users' = users /\ files' = files /\ objects' = objects /\ job' = job /\ ops' = ops
          /\ audit' = audit /\ lock' = lock /\ req' = req /\ cookie' = cookie /\ login' = login
          /\ logins' = logins /\ faults' = faults
      BY <1>3 DEF vars, rowVars, sessionVars
    <2>2. TypeInv'
      BY <2>1 DEF AInv, TypeInv, AdminTypeOK, WellFormed, Elements
    <2>3. Locks'
      BY <2>1 DEF AInv, Locks, Grounded, Holds, Sees, Unknown, AfterActor, AfterTargets,
                  AfterSafety, AfterFiles, AfterOwner, AfterFile, AfterJobs, AfterVictim, AfterCount,
                  Victims, Owners, EnabledAdmin
    <2>4. AdminRemains' /\ Proved'
      BY <2>1 DEF AInv, AdminRemains, EnabledAdmin, Proved, ProvedAt
    <2>5. Registers' /\ Told'
      BY <2>1 DEF AInv, Registers, Told
    <2>6. LibraryIsWhole' /\ JobsOwn'
      BY <2>1 DEF AInv, LibraryIsWhole, JobsOwn
    <2> QED
      BY <2>2, <2>3, <2>4, <2>5, <2>6 DEF AInv
  <1> QED BY <1>1, <1>2, <1>3 DEF Next, Acts, Outside

(* The invariant always.                                                   *)
LEMMA AInvHolds == Spec => []AInv
  BY AInvInit, AInvStep, PTL DEF Spec

-----------------------------------------------------------------------------
(* Theorems *)

(* Every variable keeps its type.                                          *)
THEOREM AdminTypes == Spec => []AdminTypeOK
  <1>1. AInv => AdminTypeOK
    BY DEF AInv, TypeInv
  <1> QED BY <1>1, AInvHolds, PTL

(* However many administrators disable, demote or delete one another at    *)
(* the same time, one that is enabled remains.                             *)
THEOREM AnAdminRemains == Spec => []AdminRemains
  <1>1. AInv => AdminRemains
    BY DEF AInv
  <1> QED BY <1>1, AInvHolds, PTL

(* A cookie that the guard accepts was got with the password of today.     *)
THEOREM SessionsAreProved == Spec => []LiveSessionsAreProved
  <1>1. AInv => LiveSessionsAreProved
    BY DEF AInv, Proved, ProvedAt, LiveSessionsAreProved, Valid
  <1> QED BY <1>1, AInvHolds, PTL

(* An operation is done once for its key, and nobody is told otherwise.    *)
THEOREM OperationsApplyOnce == Spec => []AppliedOnce
  <1>1. AInv => AppliedOnce
    BY DEF AInv, Registers, Told, AppliedOnce
  <1> QED BY <1>1, AInvHolds, PTL

(* The library is whole after every commit, whoever deletes and uploads.   *)
THEOREM TheLibraryStaysWhole == Spec => []LibraryIsWhole
  <1>1. AInv => LibraryIsWhole
    BY DEF AInv
  <1> QED BY <1>1, AInvHolds, PTL

(* Who writes is an enabled administrator at that moment, with the         *)
(* password of that moment.                                                *)
THEOREM WritersAreAuthorised == Spec => ChangesAreAuthorised
  <1>1. ASSUME AInv, NEW r \in Requests, req[r].at = "write", req[r].body.kind \in AdminKinds
        PROVE  Proves(r)
    BY <1>1, AtWrite DEF AInv, Proves
  <1>2. AInv /\ [Next]_vars =>
           [\A r \in Requests :
               req[r].at = "write" /\ req[r].body.kind \in AdminKinds /\ audit' # audit
                  /\ req'[r].at = "over" => Proves(r)]_vars
    BY <1>1
  <1> QED BY <1>2, AInvHolds, PTL DEF Spec, ChangesAreAuthorised

=============================================================================

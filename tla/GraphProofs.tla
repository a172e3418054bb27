---------------------------- MODULE GraphProofs ----------------------------
(***************************************************************************)
(* Theorems about AnalysisGraph: types, StateFollowsRow,                   *)
(* RecordedWhereComputed and AcceptedIsRecorded, for any files and         *)
(* parameters, and contexts, leases, visits, results and timeouts without  *)
(* bound.                                                                  *)
(***************************************************************************)
EXTENDS AnalysisGraph, FiniteSetTheorems, TLAPS

-----------------------------------------------------------------------------
(* The inductive invariant.  Its first part holds whatever happens.        *)

(* A transaction to a context has one to go to, and one to a file a file.  *)
TxInOrder(tx) ==
    /\ tx.kind = "switch" => tx.ctx \in DOMAIN contexts
    /\ tx.kind = "file" => tx.file \in Files

(* A node with a transaction is one that opens them, of a running job; one *)
(* that has committed is at a context.                                     *)
RunInOrder ==
    /\ run.phase # "start" =>
          /\ job.status = "running" /\ run.tx \in Tx /\ TxInOrder(run.tx)
          /\ \/ graph.node = "fold" /\ run.tx.kind = "fold"
             \/ graph.node = "switch" /\ run.tx.kind \in {"switch", "file"}
    /\ run.phase = "bound" => run.ctx \in DOMAIN contexts
    /\ pending # None => TxInOrder(pending)

(* The results of a thread are numbered as they come.                      *)
Numbered ==
    /\ IsFiniteSet(child)
    /\ \A r \in child : r.id <= Cardinality(child)
    /\ \A r, s \in child : r.id = s.id => r = s
    /\ graph.results \subseteq child

(* Only the deep agent gives results; only the gate passes on a conclusion.*)
Deep ==
    \/ graph.node \in {"deep_agent", "gate"}
    \/ graph.node \in {"report", "end"} /\ graph.fin # "none"

NodesInOrder ==
    /\ graph.fin # "none" => graph.node \in {"report", "end"}
    /\ child # {} => Deep
    /\ job.status = "ended" => graph.node = "agent" /\ job.bound = 0 /\ job.file = None
    /\ job.status = "waiting" => graph.node = "fold"
    /\ graph.fin = "valid" /\ graph.decision.outcome = "algorithm_supported" =>
          \E r \in graph.results : r.id = graph.decision.primary /\ r.ok

(* The second part holds until a transaction is committed late.  A row     *)
(* with a file is bound to a context of that file.                         *)
RowIsBound ==
    /\ job.file # None <=> job.bound # 0
    /\ job.bound # 0 => active = job.bound /\ contexts[job.bound].file = job.file

(* A fold works on the row's file, and has bound its parameters to it.     *)
FoldFollowsRow ==
    graph.node = "fold" /\ run.phase # "start" =>
        /\ graph.file # None /\ graph.file = job.file
        /\ run.phase = "bound" =>
              run.ctx = job.bound /\ contexts[job.bound].params = run.tx.params

Follows ==
    /\ job.bound # 0 /\ graph.ctx = job.bound
    /\ graph.file = job.file /\ contexts[job.bound].params = graph.params

DeepFollowsRow ==
    /\ graph.node = "preprocess" \/ Deep => Follows
    /\ \A r \in child : r.file = job.file

InStep ==
    RowIsBound /\ FoldFollowsRow /\ DeepFollowsRow /\ RecordedWhereComputed

GraphInv ==
    /\ AgentTypeOK /\ RunInOrder /\ Numbered /\ NodesInOrder
    /\ ~late => InStep

-----------------------------------------------------------------------------
(* The transactions *)

(* What a transaction may make of the contexts: none is lost, a result     *)
(* stays where it is, and only parameters nobody has named are filled in.  *)
Extends(cs, c) ==
    /\ cs \in Seq(Context) /\ Len(contexts) <= Len(cs) /\ Len(cs) <= MaxContexts
    /\ c \in 1..Len(cs)
    /\ \A i \in DOMAIN contexts :
          /\ cs[i].file = contexts[i].file /\ cs[i].summary = contexts[i].summary
          /\ cs[i].params = contexts[i].params \/ contexts[i].params = None
    /\ \A i \in 1..Len(cs) : i \notin DOMAIN contexts => cs[i].summary = None

(* A context that is made is the last one, and has no result yet.          *)
LEMMA CreatedIs ==
  ASSUME AgentTypeOK, NEW f \in Files \cup {None}, NEW p \in Params \cup {None},
         NEW o \in Created(f, p)
  PROVE  Extends(o[1], o[2]) /\ o[1][o[2]].file = f /\ o[1][o[2]].params = p
PROOF
  <1>1. /\ contexts \in Seq(Context) /\ Len(contexts) \in Nat
        /\ Len(contexts) < MaxContexts
        /\ o = <<Append(contexts, New(f, p)), Len(contexts) + 1>>
    BY DEF AgentTypeOK, Created
  <1>2. New(f, p) \in Context
    BY DEF New, Context
  <1>3. PICK cs : cs = Append(contexts, New(f, p))
    OBVIOUS
  <1>4. /\ cs \in Seq(Context) /\ Len(cs) = Len(contexts) + 1
        /\ DOMAIN contexts = 1..Len(contexts)
        /\ \A i \in 1..Len(contexts) : cs[i] = contexts[i]
        /\ cs[Len(contexts) + 1] = New(f, p)
    BY <1>1, <1>2, <1>3
  <1>5. Extends(cs, Len(contexts) + 1)
    <2>1. New(f, p).summary = None
      BY DEF New
    <2>2. MaxContexts \in Nat
      BY GraphAssumption
    <2> QED
      BY <1>1, <1>4, <2>1, <2>2 DEF Extends
  <1>6. o[1] = cs /\ o[2] = Len(contexts) + 1
    BY <1>1, <1>3
  <1> QED
    BY <1>4, <1>5, <1>6 DEF New

(* A context that is found is one there is.                                *)
LEMMA FoundIs ==
  ASSUME AgentTypeOK, NEW S, S \subseteq DOMAIN contexts, NEW o \in Found(S)
  PROVE  Extends(o[1], o[2]) /\ o[1] = contexts /\ o[2] \in S
PROOF
  <1>1. o[1] = contexts /\ o[2] \in S
    BY DEF Found
  <1>2. /\ contexts \in Seq(Context) /\ Len(contexts) \in Nat
        /\ Len(contexts) <= MaxContexts /\ DOMAIN contexts = 1..Len(contexts)
    BY DEF AgentTypeOK
  <1> QED
    BY <1>1, <1>2 DEF Extends

(* A file that a job or a switch starts from gets a context of its own.    *)
LEMMA FrozenFileIs ==
  ASSUME AgentTypeOK, NEW f \in Files, NEW o \in ForFrozenFile(f)
  PROVE  Extends(o[1], o[2]) /\ o[1][o[2]].file = f
PROOF
  <1>1. CASE active \in Where(LAMBDA x : x.file = f)
    <2>1. o \in Found({active})
      BY <1>1 DEF ForFrozenFile
    <2>2. active \in DOMAIN contexts /\ contexts[active].file = f
      BY <1>1 DEF Where
    <2> QED
      BY <2>1, <2>2, FoundIs
  <1>2. CASE active \notin Where(LAMBDA x : x.file = f)
    <2>1. o \in Created(f, None)
      BY <1>2 DEF ForFrozenFile
    <2> QED
      BY <2>1, CreatedIs
  <1> QED
    BY <1>1, <1>2

(* A context of the file is used, or made.                                 *)
LEMMA FileContextIs ==
  ASSUME AgentTypeOK, NEW f \in Files, NEW o \in FileContext(f)
  PROVE  Extends(o[1], o[2]) /\ o[1][o[2]].file = f
PROOF
  <1> DEFINE same == Where(LAMBDA x : x.file = f)
  <1>1. CASE o \in Found(same)
    <2>1. \A c \in same : c \in DOMAIN contexts /\ contexts[c].file = f
      BY DEF Where
    <2> QED
      BY <1>1, <2>1, FoundIs
  <1>2. CASE o \in Created(f, None)
    BY <1>2, CreatedIs
  <1> QED
    BY <1>1, <1>2 DEF FileContext

(* A fold leads to a context with its parameters; it is of the row's file  *)
(* if the row's context is.                                                *)
LEMMA FoldContextIs ==
  ASSUME AgentTypeOK, NEW p \in Params \cup {None}, NEW o \in FoldContext(p)
  PROVE  /\ Extends(o[1], o[2]) /\ o[1][o[2]].params = p
         /\ (job.bound # 0 => contexts[job.bound].file = job.file)
               => o[1][o[2]].file = job.file
PROOF
  <1> DEFINE same == Where(LAMBDA x : x.file = job.file /\ x.params = p)
  <1>0. /\ contexts \in Seq(Context) /\ Len(contexts) \in Nat
        /\ Len(contexts) <= MaxContexts /\ DOMAIN contexts = 1..Len(contexts)
        /\ job.bound \in 0..Len(contexts) /\ job.file \in Files \cup {None}
    BY DEF AgentTypeOK, Job
  <1>1. CASE job.bound # 0 /\ contexts[job.bound].params \in {None, p}
    <2>1. PICK cs : cs = [contexts EXCEPT ![job.bound].params = p]
      OBVIOUS
    <2>2. o[1] = cs /\ o[2] = job.bound
      BY <1>1, <2>1 DEF FoldContext
    <2>3. /\ job.bound \in DOMAIN contexts
          /\ cs = [contexts EXCEPT ![job.bound] = [contexts[job.bound] EXCEPT !.params = p]]
          /\ contexts[job.bound] \in Context
      BY <1>0, <1>1, <2>1
    <2>4. /\ cs \in Seq(Context) /\ Len(cs) = Len(contexts)
          /\ \A i \in DOMAIN contexts : i # job.bound => cs[i] = contexts[i]
          /\ cs[job.bound] = [contexts[job.bound] EXCEPT !.params = p]
      <3>1. PICK x \in Context : x = [contexts[job.bound] EXCEPT !.params = p]
        BY <2>3 DEF Context
      <3>2. cs = [contexts EXCEPT ![job.bound] = x]
        BY <2>3, <3>1
      <3>3. cs \in Seq(Context) /\ Len(cs) = Len(contexts)
        BY <1>0, <2>3, <3>2
      <3> QED
        BY <1>0, <2>3, <3>1, <3>2, <3>3
    <2>5. /\ cs[job.bound].file = contexts[job.bound].file
          /\ cs[job.bound].summary = contexts[job.bound].summary
          /\ cs[job.bound].params = p
      BY <2>3, <2>4 DEF Context
    <2>6. Extends(cs, job.bound)
      BY <1>0, <1>1, <2>3, <2>4, <2>5 DEF Extends
    <2> QED
      BY <1>1, <2>2, <2>5, <2>6
  <1>2. CASE o \in Found(same)
    <2>1. \A c \in same : /\ c \in DOMAIN contexts
                          /\ contexts[c].file = job.file /\ contexts[c].params = p
      BY DEF Where
    <2> QED
      BY <1>2, <2>1, FoundIs
  <1>3. CASE o \in Created(job.file, p)
    <2>1. \A f \in Files \cup {None} : o \in Created(f, p) =>
             Extends(o[1], o[2]) /\ o[1][o[2]].file = f /\ o[1][o[2]].params = p
      BY CreatedIs
    <2> QED
      BY <1>0, <1>3, <2>1
  <1> QED
    BY <1>1, <1>2, <1>3 DEF FoldContext

(* Every transaction extends the contexts and leads to one of them.        *)
LEMMA OutcomeIs ==
  ASSUME AgentTypeOK, NEW tx \in Tx, TxInOrder(tx), NEW o \in Outcomes(tx)
  PROVE  /\ Extends(o[1], o[2])
         /\ tx.kind = "fold" => /\ o[1][o[2]].params = tx.params
                                /\ (job.bound # 0 => contexts[job.bound].file = job.file)
                                      => o[1][o[2]].file = job.file
         /\ tx.kind = "switch" => o[1] = contexts /\ o[2] = tx.ctx
         /\ tx.kind = "file" => o[1][o[2]].file = tx.file
PROOF
  <1>1. CASE tx.kind = "fold"
    <2>1. o \in FoldContext(tx.params) /\ tx.params \in Params \cup {None}
      BY <1>1 DEF Outcomes, Tx
    <2> QED
      BY <1>1, <2>1, FoldContextIs
  <1>2. CASE tx.kind = "switch"
    <2>1. o \in Found({tx.ctx}) /\ tx.ctx \in DOMAIN contexts
      BY <1>2 DEF Outcomes, TxInOrder
    <2> QED
      BY <1>2, <2>1, FoundIs
  <1>3. CASE tx.kind = "file"
    <2>1. o \in FileContext(tx.file) /\ tx.file \in Files
      BY <1>3 DEF Outcomes, TxInOrder
    <2> QED
      BY <1>3, <2>1, FileContextIs
  <1> QED
    BY <1>1, <1>2, <1>3 DEF Tx

-----------------------------------------------------------------------------
(* The steps of the nodes *)

(* A node saves an update and the node to go to, and the next one starts.  *)
LEMMA SavesIs ==
  ASSUME run \in Run, NEW g \in Graph, NEW n \in Nodes, Saves(g, n)
  PROVE  /\ graph' \in Graph /\ run' \in Run
         /\ graph'.node = n /\ graph'.fin = g.fin /\ graph'.results = g.results
         /\ graph'.decision = g.decision /\ graph'.ctx = g.ctx /\ graph'.file = g.file
         /\ graph'.params = g.params /\ graph'.retries = g.retries
         /\ run'.phase = "start" /\ run'.visits = run.visits
PROOF
  <1>1. Entered \in Run
    BY DEF Entered, Run
  <1>2. run' \in Run /\ run'.phase = "start" /\ run'.visits = run.visits
    BY <1>1 DEF Saves, Run, Entered
  <1>3. graph' = [g EXCEPT !.node = n]
    BY DEF Saves
  <1>4. graph' \in Graph
    BY <1>3 DEF Graph
  <1>5. graph'.node = n /\ graph'.fin = g.fin /\ graph'.results = g.results
        /\ graph'.decision = g.decision /\ graph'.ctx = g.ctx /\ graph'.file = g.file
        /\ graph'.params = g.params /\ graph'.retries = g.retries
    BY <1>3 DEF Graph
  <1> QED
    BY <1>2, <1>4, <1>5

(* What the next node is not told of the deep agent: nothing is concluded. *)
Shallow ==
    /\ run'.phase = "start" /\ child = {}
    /\ graph'.fin = "none" /\ graph'.results = {}
    /\ graph'.node \in {"agent", "switch", "fold", "report", "answer", "end"}

(* The fold binds the parameters.                                          *)
Binds ==
    /\ graph.node = "fold" /\ run.phase = "bound" /\ child = {}
    /\ run'.phase = "start"
    /\ graph'.node = "preprocess" /\ graph'.fin = "none" /\ graph'.results = {}
    /\ graph'.ctx = run.ctx /\ graph'.params = run.tx.params
    /\ graph'.file = graph.file

(* The analysis goes on with the same file and parameters.                 *)
Deepens ==
    /\ run'.phase = "start"
    /\ graph.node = "preprocess" \/ Deep
    /\ \/ graph'.node \in {"deep_agent", "gate"}
       \/ graph'.node \in {"report", "end"} /\ graph'.fin # "none"
    /\ graph'.fin # "none" => graph'.node \in {"report", "end"}
    /\ graph'.ctx = graph.ctx /\ graph'.file = graph.file /\ graph'.params = graph.params
    /\ graph'.results \subseteq child
    /\ graph'.fin = "valid" /\ graph'.decision.outcome = "algorithm_supported" =>
          \E r \in graph'.results : r.id = graph'.decision.primary /\ r.ok

(* The node has opened its transaction.                                    *)
Opened ==
    /\ graph' = graph /\ job.status = "running" /\ run'.phase = "bind"
    /\ run'.tx \in Tx
    /\ run'.tx.kind = "switch" => run'.tx.ctx \in DOMAIN contexts
    /\ run'.tx.kind = "file" => run'.tx.file \in Files
    /\ \/ /\ graph.node = "fold" /\ run'.tx.kind = "fold"
          /\ graph.file # None /\ graph.file = job.file
       \/ graph.node = "switch" /\ run'.tx.kind \in {"switch", "file"}

(* The steps of the nodes before the fold has bound.                       *)
LEMMA EarlyNodes ==
  ASSUME AgentTypeOK, RunInOrder, Numbered, NodesInOrder,
         Agent \/ Clarify \/ Switched \/ FoldWithoutFile \/ FoldTakesAnswer \/ Answer
  PROVE  Shallow /\ graph' \in Graph /\ run' \in Run
         /\ graph'.ctx \in 0..Len(contexts) /\ graph'.retries \in 0..1
         /\ run'.visits \in 0..MaxVisits /\ Keeps
PROOF
  <1>0. /\ graph \in Graph /\ run \in Run /\ graph.ctx \in 0..Len(contexts)
        /\ graph.retries \in 0..1 /\ run.visits \in 0..MaxVisits
        /\ MaxVisits \in Nat /\ contexts \in Seq(Context) /\ Len(contexts) \in Nat
    BY GraphAssumption DEF AgentTypeOK
  <1>1. graph.node \in {"agent", "switch", "fold", "answer"} =>
           graph.fin = "none" /\ child = {} /\ graph.results = {}
    BY DEF NodesInOrder, Numbered, Deep
  <1>2. CASE Agent
    <2>1. /\ graph.node = "agent" /\ run.visits < MaxVisits
          /\ run' = [Entered EXCEPT !.visits = run.visits + 1]
      BY <1>2 DEF Agent, At
    <2>2. run' \in Run /\ run'.phase = "start" /\ run'.visits = run.visits + 1
      BY <1>0, <2>1 DEF Run, Entered
    <2>3. PICK n \in {"fold", "answer", "report", "switch"}, b \in BOOLEAN :
             graph' = [graph EXCEPT !.node = n, !.rerun = b]
      <3>1. graph.rerun \in BOOLEAN /\ [graph EXCEPT !.rerun = graph.rerun] = graph
        BY <1>0 DEF Graph
      <3>2. \A n : [graph EXCEPT !.node = n, !.rerun = graph.rerun]
                     = [graph EXCEPT !.node = n]
        BY <1>0 DEF Graph
      <3> QED
        BY <1>2, <3>1, <3>2 DEF Agent
    <2>4. /\ graph' \in Graph /\ graph'.node = n /\ graph'.fin = graph.fin
          /\ graph'.results = graph.results /\ graph'.ctx = graph.ctx
          /\ graph'.retries = graph.retries
      BY <1>0, <2>3 DEF Graph, Nodes
    <2>5. Keeps
      BY <1>2 DEF Agent
    <2>6. run'.visits \in 0..MaxVisits
      BY <1>0, <2>1, <2>2
    <2>7. Shallow
      BY <1>1, <2>1, <2>2, <2>4 DEF Shallow
    <2> QED
      BY <1>0, <2>2, <2>4, <2>5, <2>6, <2>7
  <1>3. ASSUME NEW g \in Graph, NEW n \in {"agent", "answer", "fold", "end"}, Saves(g, n),
               g.fin = "none", g.results = {}, child = {},
               g.ctx \in 0..Len(contexts), g.retries \in 0..1, Keeps
        PROVE  Shallow /\ graph' \in Graph /\ run' \in Run
               /\ graph'.ctx \in 0..Len(contexts) /\ graph'.retries \in 0..1
               /\ run'.visits \in 0..MaxVisits /\ Keeps
    <2>1. n \in Nodes
      BY DEF Nodes
    <2> QED
      BY <1>0, <1>3, <2>1, SavesIs DEF Shallow
  <1>4. CASE Clarify
    <2>1. PICK g : g = [graph EXCEPT !.rerun = FALSE]
      OBVIOUS
    <2>2. /\ g \in Graph /\ g.fin = graph.fin /\ g.results = graph.results
          /\ g.ctx = graph.ctx /\ g.retries = graph.retries
      BY <1>0, <2>1 DEF Graph
    <2>3. Saves(g, "answer") /\ graph.node = "switch" /\ Keeps
      BY <1>4, <2>1 DEF Clarify, At
    <2> QED
      BY <1>0, <1>1, <1>3, <2>2, <2>3
  <1>5. CASE Switched
    <2>0. run.ctx \in DOMAIN contexts /\ graph.node = "switch"
      BY <1>5 DEF Switched, At, RunInOrder
    <2>1. PICK g : g = [Started(contexts[run.ctx].file, run.ctx) EXCEPT !.answer = graph.answer]
      OBVIOUS
    <2>2. contexts[run.ctx].file \in Files \cup {None} /\ run.ctx \in 1..Len(contexts)
      <3>1. DOMAIN contexts = 1..Len(contexts) /\ contexts[run.ctx] \in Context
        BY <1>0, <2>0
      <3> QED
        BY <2>0, <3>1 DEF Context
    <2>3. /\ g \in Graph /\ g.fin = "none" /\ g.results = {} /\ g.ctx = run.ctx
          /\ g.retries = 0
      <3>1. NoDecision \in Decision
        BY GraphAssumption DEF NoDecision, Decision
      <3>2. Started(contexts[run.ctx].file, run.ctx) \in Graph
        BY <1>0, <2>2, <3>1 DEF Started, Graph, Nodes
      <3>3. graph.answer \in BOOLEAN
        BY <1>0 DEF Graph
      <3>4. g \in Graph
        BY <2>1, <3>2, <3>3 DEF Graph
      <3> QED
        BY <2>1, <3>4 DEF Started
    <2>4. Saves(g, AfterSwitch(run.ctx)) /\ Keeps
      BY <1>5, <2>1 DEF Switched
    <2>5. AfterSwitch(run.ctx) \in {"fold", "answer"}
      BY DEF AfterSwitch
    <2> QED
      BY <1>0, <1>1, <1>3, <2>0, <2>2, <2>3, <2>4, <2>5
  <1>6. CASE FoldTakesAnswer
    <2>1. PICK g : g = [graph EXCEPT !.answer = FALSE]
      OBVIOUS
    <2>2. /\ g \in Graph /\ g.fin = graph.fin /\ g.results = graph.results
          /\ g.ctx = graph.ctx /\ g.retries = graph.retries
      BY <1>0, <2>1 DEF Graph
    <2>3. Saves(g, "agent") /\ graph.node = "fold" /\ Keeps
      BY <1>6, <2>1 DEF FoldTakesAnswer, At
    <2> QED
      BY <1>0, <1>1, <1>3, <2>2, <2>3
  <1>7. CASE FoldWithoutFile \/ Answer
    <2>1. Saves(graph, "answer") \/ Saves(graph, "end")
      BY <1>7 DEF FoldWithoutFile, Answer, GoesTo
    <2>2. graph.node \in {"fold", "answer"} /\ Keeps
      BY <1>7 DEF FoldWithoutFile, Answer, At
    <2> QED
      BY <1>0, <1>1, <1>3, <2>1, <2>2
  <1> QED
    BY <1>2, <1>4, <1>5, <1>6, <1>7

(* The nodes that open a transaction.                                      *)
LEMMA OpeningNodes ==
  ASSUME AgentTypeOK, SwitchTo \/ FoldIsReady
  PROVE  Opened /\ run' \in Run /\ run'.visits \in 0..MaxVisits /\ Keeps
PROOF
  <1>0. /\ run \in Run /\ run.visits \in 0..MaxVisits /\ library \subseteq Files
        /\ contexts \in Seq(Context) /\ job.lease \in Nat
        /\ DOMAIN contexts \subseteq Nat
    BY DEF AgentTypeOK, Job
  <1>2. ASSUME NEW tx \in Tx, Opens(tx)
        PROVE  /\ run' \in Run /\ run'.visits \in 0..MaxVisits
               /\ run'.phase = "bind" /\ run'.tx = tx
    BY <1>0, <1>2 DEF Opens, Run
  <1>3. ASSUME NEW c \in DOMAIN contexts
        PROVE  /\ [EmptyTx("switch") EXCEPT !.ctx = c] \in Tx
               /\ [EmptyTx("switch") EXCEPT !.ctx = c].kind = "switch"
               /\ [EmptyTx("switch") EXCEPT !.ctx = c].ctx = c
    BY <1>0 DEF EmptyTx, Tx
  <1>4. ASSUME NEW f \in library
        PROVE  /\ [EmptyTx("file") EXCEPT !.file = f] \in Tx
               /\ [EmptyTx("file") EXCEPT !.file = f].kind = "file"
               /\ [EmptyTx("file") EXCEPT !.file = f].file = f
    BY <1>0 DEF EmptyTx, Tx
  <1>5. ASSUME NEW p \in Params \cup {None}
        PROVE  /\ [EmptyTx("fold") EXCEPT !.params = p] \in Tx
               /\ [EmptyTx("fold") EXCEPT !.params = p].kind = "fold"
    BY <1>0 DEF EmptyTx, Tx
  <1>6. CASE SwitchTo
    <2>1. /\ graph.node = "switch" /\ job.status = "running" /\ graph' = graph /\ Keeps
      BY <1>6 DEF SwitchTo, At
    <2>2. CASE \E c \in DOMAIN contexts : Opens([EmptyTx("switch") EXCEPT !.ctx = c])
      <3>1. PICK tx \in Tx : /\ tx.kind = "switch" /\ tx.ctx \in DOMAIN contexts
                             /\ Opens(tx)
        BY <1>3, <2>2
      <3> QED
        BY <1>2, <2>1, <3>1 DEF Opened
    <2>3. CASE \E f \in library : Opens([EmptyTx("file") EXCEPT !.file = f])
      <3>1. PICK tx \in Tx : tx.kind = "file" /\ tx.file \in Files /\ Opens(tx)
        BY <1>0, <1>4, <2>3
      <3> QED
        BY <1>2, <2>1, <3>1 DEF Opened
    <2> QED
      BY <1>6, <2>2, <2>3 DEF SwitchTo
  <1>7. CASE FoldIsReady
    <2>1. /\ graph.node = "fold" /\ job.status = "running" /\ graph' = graph /\ Keeps
          /\ graph.file # None /\ graph.file = job.file
      BY <1>7 DEF FoldIsReady, At, Readable
    <2>2. PICK p \in Params \cup {None} : Opens([EmptyTx("fold") EXCEPT !.params = p])
      BY <1>7 DEF FoldIsReady
    <2> QED
      <3>1. PICK tx \in Tx : tx.kind = "fold" /\ Opens(tx)
        BY <1>5, <2>2
      <3> QED
        BY <1>2, <2>1, <3>1 DEF Opened
  <1> QED
    BY <1>6, <1>7

(* The fold takes what its transaction has bound.                          *)
LEMMA BindingNode ==
  ASSUME AgentTypeOK, RunInOrder, Numbered, NodesInOrder, FoldIsBound
  PROVE  Binds /\ graph' \in Graph /\ run' \in Run
         /\ graph'.ctx \in 0..Len(contexts) /\ graph'.retries \in 0..1
         /\ run'.visits \in 0..MaxVisits /\ Keeps
PROOF
  <1>0. /\ graph \in Graph /\ run \in Run /\ graph.retries \in 0..1
        /\ run.visits \in 0..MaxVisits
        /\ contexts \in Seq(Context) /\ Len(contexts) \in Nat
    BY DEF AgentTypeOK
  <1>1. /\ graph.node = "fold" /\ run.phase = "bound" /\ Keeps
        /\ run.tx \in Tx /\ run.ctx \in 1..Len(contexts)
    BY <1>0 DEF FoldIsBound, At, RunInOrder
  <1>2. graph.fin = "none" /\ child = {} /\ graph.results = {}
    BY <1>1 DEF NodesInOrder, Numbered, Deep
  <1>3. run.tx.params \in Params \cup {None}
    BY <1>1 DEF Tx
  <1>4. PICK g : g = [graph EXCEPT !.ctx = run.ctx, !.params = run.tx.params,
                                   !.answer = FALSE]
    OBVIOUS
  <1>5. /\ g \in Graph /\ g.fin = "none" /\ g.results = {} /\ g.ctx = run.ctx
        /\ g.params = run.tx.params /\ g.file = graph.file /\ g.retries = graph.retries
    <2>1. g \in Graph
      <3>1. [graph EXCEPT !.ctx = run.ctx] \in Graph
        BY <1>0, <1>1 DEF Graph
      <3>2. [[graph EXCEPT !.ctx = run.ctx] EXCEPT !.params = run.tx.params] \in Graph
        BY <1>3, <3>1 DEF Graph
      <3>3. g = [[[graph EXCEPT !.ctx = run.ctx] EXCEPT !.params = run.tx.params]
                   EXCEPT !.answer = FALSE]
        BY <1>4
      <3> QED
        BY <3>2, <3>3 DEF Graph
    <2> QED
      BY <1>0, <1>2, <1>4, <2>1 DEF Graph
  <1>6. Saves(g, "preprocess") /\ "preprocess" \in Nodes
    BY <1>4 DEF FoldIsBound, Nodes
  <1> QED
    BY <1>0, <1>1, <1>2, <1>5, <1>6, SavesIs DEF Binds

(* An update g of the graph that goes on with the analysis at node n.      *)
GoesDeep(g, n) ==
    /\ \/ n \in {"deep_agent", "gate"}
       \/ n = "report" /\ g.fin # "none"
    /\ g.fin # "none" => n = "report"
    /\ g.ctx = graph.ctx /\ g.file = graph.file /\ g.params = graph.params
    /\ g.retries \in 0..1 /\ g.results \subseteq child
    /\ g.fin = "valid" /\ g.decision.outcome = "algorithm_supported" =>
          \E r \in g.results : r.id = g.decision.primary /\ r.ok

(* The preprocessing, the deep agent, the gate and its report.             *)
LEMMA DeepNodes ==
  ASSUME AgentTypeOK, RunInOrder, Numbered, NodesInOrder,
         Preprocess \/ LeaveChild \/ GateAccepts \/ GateRefuses
  PROVE  Deepens /\ graph' \in Graph /\ run' \in Run
         /\ graph'.ctx \in 0..Len(contexts) /\ graph'.retries \in 0..1
         /\ run'.visits \in 0..MaxVisits /\ Keeps
PROOF
  <1>0. /\ graph \in Graph /\ run \in Run /\ graph.ctx \in 0..Len(contexts)
        /\ graph.retries \in 0..1 /\ run.visits \in 0..MaxVisits
        /\ child \subseteq Result /\ graph.results \subseteq child
    BY DEF AgentTypeOK, Numbered
  <1>1. ASSUME NEW g \in Graph, NEW n \in Nodes, Saves(g, n), Keeps,
               graph.node = "preprocess" \/ Deep, GoesDeep(g, n)
        PROVE  Deepens /\ graph' \in Graph /\ run' \in Run
               /\ graph'.ctx \in 0..Len(contexts) /\ graph'.retries \in 0..1
               /\ run'.visits \in 0..MaxVisits /\ Keeps
    <2>1. /\ graph' \in Graph /\ run' \in Run
          /\ graph'.node = n /\ graph'.fin = g.fin /\ graph'.results = g.results
          /\ graph'.decision = g.decision /\ graph'.ctx = g.ctx /\ graph'.file = g.file
          /\ graph'.params = g.params /\ graph'.retries = g.retries
          /\ run'.phase = "start" /\ run'.visits = run.visits
      BY <1>0, <1>1, SavesIs
    <2> QED
      BY <1>0, <1>1, <2>1 DEF Deepens, GoesDeep
  <1>2. {"deep_agent", "gate", "report"} \subseteq Nodes
    BY DEF Nodes
  <1>3. graph.node \in {"preprocess", "deep_agent", "gate"} => graph.fin = "none"
    BY DEF NodesInOrder
  <1>4. CASE Preprocess
    <2>1. Saves(graph, "deep_agent") /\ Keeps /\ graph.node = "preprocess"
      BY <1>4 DEF Preprocess, GoesTo, At
    <2> QED
      <3>1. GoesDeep(graph, "deep_agent")
        BY <1>0, <1>3, <2>1 DEF GoesDeep
      <3> QED
        BY <1>0, <1>1, <1>2, <2>1, <3>1
  <1>5. CASE LeaveChild
    <2>1. /\ graph.node = "deep_agent" /\ Keeps
      BY <1>5 DEF LeaveChild, At
    <2>2. PICK d \in Decisions(child) :
             Saves([graph EXCEPT !.results = child, !.decision = d], "gate")
      BY <1>5 DEF LeaveChild
    <2>3. PICK g : g = [graph EXCEPT !.results = child, !.decision = d]
      OBVIOUS
    <2>4. g \in Graph
      <3>1. d \in Decision
        BY DEF Decisions
      <3> QED
        BY <1>0, <2>3, <3>1 DEF Graph
    <2>5. /\ g.results = child /\ g.fin = graph.fin /\ g.ctx = graph.ctx
          /\ g.file = graph.file /\ g.params = graph.params /\ g.retries = graph.retries
      BY <1>0, <2>3 DEF Graph
    <2> QED
      <3>1. Saves(g, "gate")
        BY <2>2, <2>3
      <3>2. GoesDeep(g, "gate")
        <4>1. g.fin = "none" /\ g.retries \in 0..1
          BY <1>0, <1>3, <2>1, <2>5
        <4>2. g.results \subseteq child
          BY <2>5
        <4> QED
          BY <2>5, <4>1, <4>2 DEF GoesDeep
      <3> QED
        BY <1>1, <1>2, <2>1, <2>4, <3>1, <3>2 DEF Deep
  <1>6. CASE GateAccepts
    <2>1. /\ graph.node = "gate" /\ Keeps /\ Acceptable(graph.decision)
      BY <1>6 DEF GateAccepts, At
    <2>2. PICK g : g = [graph EXCEPT !.fin = "valid"]
      OBVIOUS
    <2>3. g \in Graph
      BY <1>0, <2>2 DEF Graph
    <2>4. /\ g.results = graph.results /\ g.fin = "valid" /\ g.ctx = graph.ctx
          /\ g.file = graph.file /\ g.params = graph.params /\ g.retries = graph.retries
          /\ g.decision = graph.decision
      BY <1>0, <2>2 DEF Graph
    <2>5. graph.decision.outcome = "algorithm_supported" =>
             \E r \in graph.results : r.id = graph.decision.primary /\ r.ok
      BY <2>1 DEF Acceptable
    <2>6. Saves(g, "report")
      BY <1>6, <2>2 DEF GateAccepts
    <2> QED
      <3>1. GoesDeep(g, "report")
        BY <1>0, <2>4, <2>5 DEF GoesDeep
      <3> QED
        BY <1>1, <1>2, <2>1, <2>3, <2>6, <3>1 DEF Deep
  <1>7. CASE GateRefuses
    <2>1. /\ graph.node = "gate" /\ Keeps
      BY <1>7 DEF GateRefuses, At
    <2>2. CASE graph.retries < 1 /\ Saves([graph EXCEPT !.retries = @ + 1], "deep_agent")
      <3>1. PICK g : g = [graph EXCEPT !.retries = graph.retries + 1]
        OBVIOUS
      <3>2. g \in Graph /\ g.retries = graph.retries + 1
        BY <1>0, <3>1 DEF Graph
      <3>3. /\ g.results = graph.results /\ g.fin = graph.fin /\ g.ctx = graph.ctx
            /\ g.file = graph.file /\ g.params = graph.params
        BY <1>0, <3>1 DEF Graph
      <3>4. Saves(g, "deep_agent") /\ g.retries \in 0..1
        BY <1>0, <2>2, <3>1, <3>2
      <3> QED
        <4>1. GoesDeep(g, "deep_agent")
          <5>1. g.fin = "none" /\ g.retries \in 0..1 /\ g.results \subseteq child
            BY <1>0, <1>3, <2>1, <3>3, <3>4
          <5> QED
            BY <3>3, <5>1 DEF GoesDeep
        <4> QED
          BY <1>1, <1>2, <2>1, <3>2, <3>4, <4>1 DEF Deep
    <2>3. CASE Saves([graph EXCEPT !.fin = "degraded"], "report")
      <3>1. PICK g : g = [graph EXCEPT !.fin = "degraded"]
        OBVIOUS
      <3>2. g \in Graph /\ g.fin = "degraded"
        BY <1>0, <3>1 DEF Graph
      <3>3. /\ g.results = graph.results /\ g.ctx = graph.ctx /\ g.retries = graph.retries
            /\ g.file = graph.file /\ g.params = graph.params
        BY <1>0, <3>1 DEF Graph
      <3> QED
        <4>1. GoesDeep(g, "report") /\ Saves(g, "report")
          BY <1>0, <2>3, <3>1, <3>2, <3>3 DEF GoesDeep
        <4> QED
          BY <1>1, <1>2, <2>1, <3>2, <4>1 DEF Deep
    <2> QED
      BY <1>7, <2>2, <2>3 DEF GateRefuses
  <1> QED
    BY <1>4, <1>5, <1>6, <1>7

(* The report ends what was concluded, or what there was to show before.   *)
LEMMA ReportNode ==
  ASSUME AgentTypeOK, RunInOrder, Numbered, NodesInOrder, graph.node = "report",
         Saves([graph EXCEPT !.report = TRUE], "end")
  PROVE  (Shallow \/ Deepens) /\ graph' \in Graph /\ run' \in Run
         /\ graph'.ctx \in 0..Len(contexts) /\ graph'.retries \in 0..1
         /\ run'.visits \in 0..MaxVisits
PROOF
  <1>0. /\ graph \in Graph /\ run \in Run /\ graph.ctx \in 0..Len(contexts)
        /\ graph.retries \in 0..1 /\ run.visits \in 0..MaxVisits
        /\ graph.results \subseteq child
    BY DEF AgentTypeOK, Numbered
  <1>1. PICK g : g = [graph EXCEPT !.report = TRUE]
    OBVIOUS
  <1>2. /\ g \in Graph /\ g.fin = graph.fin /\ g.results = graph.results
        /\ g.ctx = graph.ctx /\ g.file = graph.file /\ g.params = graph.params
        /\ g.retries = graph.retries /\ g.decision = graph.decision
    BY <1>0, <1>1 DEF Graph
  <1>3. Saves(g, "end") /\ "end" \in Nodes
    BY <1>1 DEF Nodes
  <1>4. /\ graph' \in Graph /\ run' \in Run
        /\ graph'.node = "end" /\ graph'.fin = graph.fin /\ graph'.results = graph.results
        /\ graph'.decision = graph.decision /\ graph'.ctx = graph.ctx
        /\ graph'.file = graph.file /\ graph'.params = graph.params
        /\ graph'.retries = graph.retries
        /\ run'.phase = "start" /\ run'.visits = run.visits
    BY <1>0, <1>2, <1>3, SavesIs
  <1>5. CASE graph.fin = "none"
    <2>1. child = {} /\ graph.results = {}
      BY <1>5 DEF NodesInOrder, Deep, Numbered
    <2>2. Shallow
      BY <1>4, <1>5, <2>1 DEF Shallow
    <2> QED
      BY <1>0, <1>4, <2>2
  <1>6. CASE graph.fin # "none"
    <2>1. Deep
      BY <1>6 DEF Deep
    <2>2. graph'.fin = "valid" /\ graph'.decision.outcome = "algorithm_supported" =>
             \E r \in graph'.results : r.id = graph'.decision.primary /\ r.ok
      BY <1>4 DEF NodesInOrder
    <2>3. Deepens
      BY <1>0, <1>4, <1>6, <2>1, <2>2 DEF Deepens
    <2> QED
      BY <1>0, <1>4, <2>3
  <1> QED
    BY <1>5, <1>6

(* The same node is run again from its beginning.                          *)
Restarts == graph' = graph /\ run'.phase = "start"

(* A node that fails is tried again, or its handler leads on.              *)
LEMMA FailingNodes ==
  ASSUME AgentTypeOK, RunInOrder, Numbered, NodesInOrder, NodeFails
  PROVE  (Restarts \/ Shallow \/ Deepens) /\ graph' \in Graph /\ run' \in Run
         /\ graph'.ctx \in 0..Len(contexts) /\ graph'.retries \in 0..1
         /\ run'.visits \in 0..MaxVisits
         /\ UNCHANGED <<contexts, active, library, job, child>>
PROOF
  <1>0. /\ graph \in Graph /\ run \in Run /\ graph.ctx \in 0..Len(contexts)
        /\ graph.retries \in 0..1 /\ run.visits \in 0..MaxVisits
    BY DEF AgentTypeOK
  <1>1. UNCHANGED <<contexts, active, library, job, child>>
    BY DEF NodeFails, mysql
  <1>2. CASE /\ run' = [Entered EXCEPT !.tries = 1, !.visits = run.visits]
             /\ UNCHANGED graph
    <2>1. run' \in Run /\ run'.phase = "start" /\ run'.visits = run.visits
      <3>1. Entered \in Run /\ run.visits \in Nat
        BY <1>0 DEF Entered, Run
      <3>2. [Entered EXCEPT !.tries = 1] \in Run
        BY <3>1 DEF Run
      <3>3. run' = [[Entered EXCEPT !.tries = 1] EXCEPT !.visits = run.visits]
        BY <1>2 DEF Entered
      <3> QED
        BY <3>1, <3>2, <3>3 DEF Run, Entered
    <2> QED
      BY <1>0, <1>1, <1>2, <2>1 DEF Restarts
  <1>3. CASE Handled
    <2>1. graph.node \in {"agent", "switch", "fold", "preprocess", "report", "answer"}
      BY DEF NodeFails
    <2>2. CASE graph.node = "report"
      <3>1. Saves([graph EXCEPT !.report = TRUE], "end")
        BY <1>3, <2>2 DEF Handled
      <3> QED
        BY <1>1, <2>2, <3>1, ReportNode
    <2>3. CASE graph.node # "report"
      <3>1. graph.fin = "none" /\ child = {} /\ graph.results = {}
        BY <2>1, <2>3 DEF NodesInOrder, Numbered, Deep
      <3>2. PICK n \in {"answer", "agent", "end"} : Saves(graph, n)
        BY <1>3, <2>1, <2>3 DEF Handled, GoesTo
      <3>3. n \in Nodes
        BY DEF Nodes
      <3>4. /\ graph' \in Graph /\ run' \in Run
            /\ graph'.node = n /\ graph'.fin = graph.fin
            /\ graph'.results = graph.results /\ graph'.ctx = graph.ctx
            /\ graph'.retries = graph.retries
            /\ run'.phase = "start" /\ run'.visits = run.visits
        BY <1>0, <3>2, <3>3, SavesIs
      <3>5. Shallow
        BY <3>1, <3>4 DEF Shallow
      <3> QED
        BY <1>0, <1>1, <3>4, <3>5
    <2> QED
      BY <2>2, <2>3
  <1> QED
    BY <1>2, <1>3 DEF NodeFails

(* The steps of a node that stay in memory.                                *)
InMemory ==
    \/ Agent \/ SwitchTo \/ Clarify \/ Switched
    \/ FoldWithoutFile \/ FoldIsReady \/ FoldTakesAnswer \/ FoldIsBound
    \/ Preprocess \/ LeaveChild \/ GateAccepts \/ GateRefuses \/ Report \/ Answer
    \/ NodeFails

(* What a step of a node may be.                                           *)
LEMMA NodeMoves ==
  ASSUME AgentTypeOK, RunInOrder, Numbered, NodesInOrder, InMemory
  PROVE  /\ Opened \/ Shallow \/ Binds \/ Deepens \/ Restarts
         /\ UNCHANGED <<contexts, active, library, job, child>>
         /\ graph' \in Graph /\ graph'.ctx \in 0..Len(contexts)
         /\ graph'.retries \in 0..1
         /\ run' \in Run /\ run'.visits \in 0..MaxVisits
         /\ job.status = "running"
         /\ UNCHANGED fault \/ NodeFails
PROOF
  <1>1. job.status = "running"
    BY DEF InMemory, Agent, SwitchTo, Clarify, Switched, FoldWithoutFile, FoldIsReady,
           FoldTakesAnswer, FoldIsBound, Preprocess, LeaveChild, GateAccepts, GateRefuses,
           Report, Answer, NodeFails, At
  <1>2. CASE Agent \/ Clarify \/ Switched \/ FoldWithoutFile \/ FoldTakesAnswer \/ Answer
    BY <1>1, <1>2, EarlyNodes DEF Keeps
  <1>3. CASE SwitchTo \/ FoldIsReady
    <2>1. graph' = graph
      BY <1>3 DEF SwitchTo, FoldIsReady
    <2> QED
      BY <1>1, <1>3, <2>1, OpeningNodes DEF Keeps, AgentTypeOK
  <1>4. CASE FoldIsBound
    BY <1>1, <1>4, BindingNode DEF Keeps
  <1>5. CASE Preprocess \/ LeaveChild \/ GateAccepts \/ GateRefuses
    BY <1>1, <1>5, DeepNodes DEF Keeps
  <1>6. CASE Report
    BY <1>1, <1>6, ReportNode DEF Report, At, Keeps
  <1>7. CASE NodeFails
    BY <1>1, <1>7, FailingNodes
  <1> QED
    BY <1>2, <1>3, <1>4, <1>5, <1>6, <1>7 DEF InMemory

-----------------------------------------------------------------------------
(* Types and order, whatever happens *)

(* A sequence made entry by entry.                                         *)
LEMMA EntryByEntry ==
  ASSUME AgentTypeOK, NEW cs, DOMAIN cs = DOMAIN contexts,
         cs = [c \in DOMAIN contexts |-> cs[c]],
         \A c \in DOMAIN contexts : cs[c] \in Context
  PROVE  cs \in Seq(Context) /\ Len(cs) = Len(contexts)
PROOF
  <1>1. DOMAIN contexts = 1..Len(contexts) /\ Len(contexts) \in Nat
    BY DEF AgentTypeOK
  <1>2. cs = [c \in 1..Len(contexts) |-> cs[c]]
    BY <1>1
  <1> QED
    BY <1>1, <1>2

(* The results are written to the context of the row, and only there.      *)
LEMMA RecordIs ==
  ASSUME AgentTypeOK, Numbered
  PROVE  /\ Record \in Seq(Context) /\ Len(Record) = Len(contexts)
         /\ \A c \in DOMAIN contexts :
               /\ Record[c].file = contexts[c].file
               /\ Record[c].params = contexts[c].params
               /\ \/ Record[c].summary = contexts[c].summary
                  \/ /\ c = job.bound
                     /\ \E r \in Primary(graph.results, graph.decision) :
                           Record[c].summary = [file |-> r.file, params |-> graph.params,
                                                ok |-> r.ok]
PROOF
  <1> DEFINE found == Primary(graph.results, graph.decision)
  <1>0. /\ contexts \in Seq(Context) /\ \A c \in DOMAIN contexts : contexts[c] \in Context
        /\ graph \in Graph /\ graph.results \subseteq Result
    BY DEF AgentTypeOK, Numbered
  <1>1. found \subseteq graph.results
    BY DEF Primary
  <1> HIDE DEF found
  <1>2. PICK s : s = (CHOOSE r \in found : TRUE)
    OBVIOUS
  <1>3. found # {} => s \in found
    BY <1>2
  <1>4. PICK sum : sum = [file |-> s.file, params |-> graph.params, ok |-> s.ok]
    OBVIOUS
  <1>5. found # {} => sum \in Analysis
    <2>1. found # {} => s.file \in Files /\ s.ok \in BOOLEAN
      BY <1>0, <1>1, <1>3 DEF Result
    <2>2. graph.params \in Params \cup {None}
      BY <1>0 DEF Graph
    <2> QED
      BY <1>4, <2>1, <2>2 DEF Analysis
  <1>6. PICK rep \in BOOLEAN : rep = graph.report
    BY <1>0 DEF Graph
  <1>7. Record = [c \in DOMAIN contexts |->
                    IF ~RecordedIn(c) THEN contexts[c]
                    ELSE [contexts[c] EXCEPT
                            !.report = contexts[c].report \/ rep,
                            !.summary = IF found = {} THEN contexts[c].summary ELSE sum]]
    BY <1>2, <1>4, <1>6 DEF Record, found
  <1>8. ASSUME NEW c \in DOMAIN contexts
        PROVE  /\ Record[c] \in Context
               /\ Record[c].file = contexts[c].file
               /\ Record[c].params = contexts[c].params
               /\ \/ Record[c].summary = contexts[c].summary
                  \/ c = job.bound /\ found # {} /\ Record[c].summary = sum
    <2>1. CASE ~RecordedIn(c)
      BY <1>0, <1>7, <2>1
    <2>2. CASE RecordedIn(c)
      <3>1. PICK x \in Analysis \cup {None} :
               /\ x = IF found = {} THEN contexts[c].summary ELSE sum
               /\ \/ x = contexts[c].summary
                  \/ found # {} /\ x = sum
        BY <1>0, <1>5 DEF Context
      <3>2. contexts[c].report \/ rep \in BOOLEAN
        BY <1>0, <1>6 DEF Context
      <3>3. Record[c] = [contexts[c] EXCEPT !.report = contexts[c].report \/ rep,
                                            !.summary = x]
        BY <1>7, <2>2, <3>1
      <3>4. contexts[c] \in Context
        BY <1>0
      <3>5. Record[c] \in Context
        BY <3>1, <3>2, <3>3, <3>4 DEF Context
      <3>6. /\ Record[c].file = contexts[c].file /\ Record[c].params = contexts[c].params
            /\ Record[c].summary = x
        BY <3>3, <3>4 DEF Context
      <3> QED
        BY <2>2, <3>1, <3>5, <3>6 DEF RecordedIn
    <2> QED
      BY <2>1, <2>2
  <1>9. Record \in Seq(Context) /\ Len(Record) = Len(contexts)
    <2>1. DOMAIN Record = DOMAIN contexts /\ Record = [c \in DOMAIN contexts |-> Record[c]]
      BY <1>7
    <2> QED
      BY <1>8, <2>1, EntryByEntry
  <1> QED
    BY <1>3, <1>4, <1>8, <1>9 DEF found

(* The state a job starts from.                                            *)
LEMMA StartedIs ==
  ASSUME NEW f \in Files \cup {None}, NEW c \in Nat
  PROVE  /\ Started(f, c) \in Graph /\ Started(f, c).ctx = c /\ Started(f, c).retries = 0
         /\ Started(f, c).node = "agent" /\ Started(f, c).fin = "none"
         /\ Started(f, c).results = {}
         /\ Entered \in Run /\ Entered.phase = "start" /\ Entered.visits = 0
PROOF
  <1>1. NoDecision \in Decision
    BY GraphAssumption DEF NoDecision, Decision
  <1>2. Started(f, c) \in Graph
    BY <1>1 DEF Started, Graph, Nodes
  <1>3. Entered \in Run
    BY DEF Entered, Run
  <1> QED
    BY <1>2, <1>3 DEF Started, Entered

(* The end of a job leaves nothing of its graph.                           *)
LEMMA EndsIs ==
  ASSUME AgentTypeOK, NEW cs, Ends(cs)
  PROVE  /\ contexts' = cs /\ active' = active /\ library' = library /\ child' = {}
         /\ job' \in Job /\ job'.status = "ended" /\ job'.bound = 0 /\ job'.file = None
         /\ job'.lease = job.lease
         /\ graph' \in Graph /\ graph'.ctx = 0 /\ graph'.retries = 0
         /\ graph'.node = "agent" /\ graph'.fin = "none" /\ graph'.results = {}
         /\ run' \in Run /\ run'.phase = "start" /\ run'.visits = 0
PROOF
  <1>1. job' \in Job /\ job'.status = "ended" /\ job'.bound = 0 /\ job'.file = None
        /\ job'.lease = job.lease
    BY DEF Ends, AgentTypeOK, Job
  <1>2. graph' = Started(None, 0) /\ run' = Entered
    BY DEF Ends
  <1> QED
    BY <1>1, <1>2, StartedIs DEF Ends

(* A node that is given up leaves at most its own transaction behind.      *)
LEMMA GivesUpIs ==
  ASSUME AgentTypeOK, RunInOrder, GivesUp
  PROVE  /\ pending' \in Tx \cup {None} /\ late' = late /\ timeouts' \in 0..MaxLate
         /\ \/ pending' = pending
            \/ pending' = run.tx /\ TxInOrder(run.tx)
PROOF
  <1>0. MaxLate \in Nat /\ timeouts \in 0..MaxLate
    BY GraphAssumption DEF AgentTypeOK
  <1>1. CASE UNCHANGED fault
    BY <1>1 DEF fault, AgentTypeOK
  <1>2. CASE ~UNCHANGED fault
    <2>1. /\ run.phase = "bind" /\ timeouts < MaxLate
          /\ pending' = run.tx /\ timeouts' = timeouts + 1 /\ late' = late
      BY <1>2 DEF GivesUp
    <2>2. run.tx \in Tx /\ TxInOrder(run.tx)
      BY <2>1 DEF RunInOrder
    <2> QED
      BY <1>0, <2>1, <2>2
  <1> QED
    BY <1>1, <1>2

(* The session, the row and its input follow a transaction.                *)
LEMMA ActivateIs ==
  ASSUME AgentTypeOK, NEW tx \in Tx, TxInOrder(tx), NEW o \in Outcomes(tx),
         Activate(tx, o[1], o[2])
  PROVE  /\ Extends(contexts', active') /\ contexts' = o[1] /\ active' = o[2]
         /\ job' \in Job /\ job'.bound = active' /\ job'.status = job.status
         /\ job'.lease = job.lease
         /\ job'.file = IF tx.kind = "fold" THEN job.file ELSE contexts'[active'].file
PROOF
  <1>1. Extends(o[1], o[2]) /\ contexts' = o[1] /\ active' = o[2]
    BY OutcomeIs DEF Activate
  <1>2. o[2] \in Nat /\ o[1][o[2]].file \in Files \cup {None}
    <2>1. o[1] \in Seq(Context) /\ o[2] \in 1..Len(o[1])
      BY <1>1 DEF Extends
    <2>2. o[1][o[2]] \in Context /\ o[2] \in Nat
      BY <2>1
    <2> QED
      BY <2>2 DEF Context
  <1>3. job.file \in Files \cup {None}
    BY DEF AgentTypeOK, Job
  <1>4. PICK f \in Files \cup {None} :
           f = IF tx.kind = "fold" THEN job.file ELSE contexts'[active'].file
    BY <1>1, <1>2, <1>3
  <1>5. job' = [job EXCEPT !.bound = o[2], !.file = f]
    BY <1>1, <1>4 DEF Activate, Frozen
  <1>6. job \in Job
    BY DEF AgentTypeOK
  <1>7. job' \in Job
    BY <1>2, <1>5, <1>6 DEF Job
  <1>8. job'.bound = o[2] /\ job'.file = f /\ job'.status = job.status
        /\ job'.lease = job.lease
    BY <1>5, <1>6 DEF Job
  <1> QED
    BY <1>1, <1>4, <1>7, <1>8

(* What a new job starts from.                                             *)
LEMMA CreateJobIs ==
  ASSUME AgentTypeOK, CreateJob
  PROVE  /\ \/ /\ job'.file = None /\ job'.bound = 0
               /\ contexts' = contexts /\ active' = active
            \/ /\ job'.file # None /\ job'.bound = active' /\ job'.bound # 0
               /\ Extends(contexts', active') /\ contexts'[active'].file = job'.file
         /\ job' \in Job /\ job'.status = "running"
         /\ job'.lease = job.lease + 1 /\ job'.lease <= MaxLeases
         /\ graph' \in Graph /\ graph'.ctx = active' /\ graph'.retries = 0
         /\ graph'.node = "agent" /\ graph'.fin = "none" /\ graph'.results = {}
         /\ UNCHANGED <<library, child, run, fault>>
PROOF
  <1>0. /\ job \in Job /\ job.lease \in Nat /\ job.lease < MaxLeases /\ MaxLeases \in Nat
        /\ active \in Nat /\ library \subseteq Files /\ None \notin Files
    BY GraphAssumption DEF AgentTypeOK, CreateJob, Job
  <1>1. CASE /\ job' = [status |-> "running", file |-> None, bound |-> 0,
                        lease |-> job.lease + 1]
             /\ graph' = Started(None, active)
             /\ UNCHANGED <<contexts, active>>
    <2>1. job' \in Job
      BY <1>0, <1>1 DEF Job
    <2> QED
      BY <1>0, <1>1, <2>1, StartedIs DEF CreateJob
  <1>2. CASE \E f \in library : \E o \in ForFrozenFile(f) :
                /\ contexts' = o[1] /\ active' = o[2]
                /\ job' = [status |-> "running", file |-> f, bound |-> o[2],
                           lease |-> job.lease + 1]
                /\ graph' = Started(f, o[2])
    <2>0. PICK f \in Files : \E o \in ForFrozenFile(f) :
             /\ contexts' = o[1] /\ active' = o[2]
             /\ job' = [status |-> "running", file |-> f, bound |-> o[2],
                        lease |-> job.lease + 1]
             /\ graph' = Started(f, o[2])
      BY <1>0, <1>2
    <2>1. PICK o \in ForFrozenFile(f) :
             /\ contexts' = o[1] /\ active' = o[2]
             /\ job' = [status |-> "running", file |-> f, bound |-> o[2],
                        lease |-> job.lease + 1]
             /\ graph' = Started(f, o[2])
      BY <2>0
    <2>2. Extends(o[1], o[2]) /\ o[1][o[2]].file = f
      BY FrozenFileIs
    <2>3. o[2] \in Nat /\ o[2] # 0
      BY <2>2 DEF Extends
    <2>4. job' \in Job
      BY <1>0, <2>1, <2>3 DEF Job
    <2> QED
      BY <1>0, <2>1, <2>2, <2>3, <2>4, StartedIs DEF CreateJob
  <1> QED
    BY <1>1, <1>2 DEF CreateJob

(* A file is deleted: contexts lose it, and nothing else.                  *)
LEMMA DeleteFileIs ==
  ASSUME AgentTypeOK, NEW f \in Files, DeleteFile(f)
  PROVE  /\ contexts' \in Seq(Context) /\ Len(contexts') = Len(contexts)
         /\ \A c \in DOMAIN contexts :
               /\ contexts'[c].file = IF contexts[c].file = f THEN None
                                      ELSE contexts[c].file
               /\ contexts'[c].params = contexts[c].params
               /\ contexts'[c].summary = contexts[c].summary
         /\ library' \subseteq Files /\ ~(job.status # "ended" /\ job.file = f)
         /\ UNCHANGED <<active, job, saved, run, fault>>
PROOF
  <1>1. PICK cs : cs = contexts'
    OBVIOUS
  <1>2. cs = [c \in DOMAIN contexts |->
                [contexts[c] EXCEPT !.file = IF contexts[c].file = f THEN None
                                             ELSE contexts[c].file]]
    BY <1>1 DEF DeleteFile
  <1>3. ASSUME NEW c \in DOMAIN contexts
        PROVE  /\ cs[c] \in Context
               /\ cs[c].file = IF contexts[c].file = f THEN None ELSE contexts[c].file
               /\ cs[c].params = contexts[c].params /\ cs[c].summary = contexts[c].summary
    <2>1. contexts[c] \in Context
      BY DEF AgentTypeOK
    <2>2. PICK g \in Files \cup {None} :
             g = IF contexts[c].file = f THEN None ELSE contexts[c].file
      BY <2>1 DEF Context
    <2>3. cs[c] = [contexts[c] EXCEPT !.file = g]
      BY <1>2, <2>2
    <2> QED
      BY <2>1, <2>2, <2>3 DEF Context
  <1>4. cs \in Seq(Context) /\ Len(cs) = Len(contexts)
    <2>1. DOMAIN cs = DOMAIN contexts /\ cs = [c \in DOMAIN contexts |-> cs[c]]
      BY <1>2
    <2> QED
      BY <1>3, <2>1, EntryByEntry
  <1>5. /\ library' \subseteq Files /\ ~(job.status # "ended" /\ job.file = f)
        /\ UNCHANGED <<active, job, saved, run, fault>>
    BY DEF DeleteFile, AgentTypeOK
  <1> QED
    BY <1>1, <1>3, <1>4, <1>5

(* The steps a running graph takes outside of a node's memory.             *)
Outside ==
    \/ CreateJob \/ JobIsLost \/ TakeOver \/ Resume
    \/ \E f \in Files : DeleteFile(f)
    \/ RecursionLimit \/ Commit \/ FoldAsks \/ RunAlgorithm \/ Finish \/ LateCommit

(* A step is one of a node in memory, or one of these.                     *)
LEMMA InsideOrOutside ==
  ASSUME [Next]_vars
  PROVE  InMemory \/ Outside \/ UNCHANGED vars
PROOF
  BY DEF Next, NodeStep, InMemory, Outside

(* A transaction that commits, of a running node or late.                  *)
LEMMA CommitIs ==
  ASSUME AgentTypeOK, RunInOrder, Commit
  PROVE  /\ run.phase = "bind" /\ job.status = "running" /\ run.tx \in Tx
         /\ TxInOrder(run.tx) /\ FileIsThere(run.tx)
         /\ \E o \in Outcomes(run.tx) : Activate(run.tx, o[1], o[2])
         /\ run' \in Run /\ run'.phase = "bound" /\ run'.ctx = active'
         /\ run'.tx = run.tx /\ run'.visits = run.visits
         /\ UNCHANGED <<library, saved, fault>>
PROOF
  <1>1. /\ run.phase = "bind" /\ job.status = "running" /\ FileIsThere(run.tx)
        /\ UNCHANGED <<library, saved, fault>>
    BY DEF Commit
  <1>2. run.tx \in Tx /\ TxInOrder(run.tx)
    BY <1>1 DEF RunInOrder
  <1>3. PICK o \in Outcomes(run.tx) :
           /\ Activate(run.tx, o[1], o[2])
           /\ run' = [run EXCEPT !.phase = "bound", !.ctx = o[2]]
    BY DEF Commit
  <1>4. Extends(contexts', active') /\ active' = o[2]
    BY <1>2, <1>3, ActivateIs
  <1>5. o[2] \in Nat /\ run \in Run
    BY <1>4 DEF Extends, AgentTypeOK
  <1>6. /\ run' \in Run /\ run'.phase = "bound" /\ run'.ctx = o[2]
        /\ run'.tx = run.tx /\ run'.visits = run.visits
    <2>1. [run EXCEPT !.phase = "bound"] \in Run
      BY <1>5 DEF Run
    <2>2. run' = [[run EXCEPT !.phase = "bound"] EXCEPT !.ctx = o[2]]
      BY <1>3
    <2> QED
      BY <1>5, <2>1, <2>2 DEF Run
  <1> QED
    BY <1>1, <1>2, <1>3, <1>4, <1>6

(* A late commit is recorded as such, or writes nothing.                   *)
LEMMA LateCommitIs ==
  ASSUME AgentTypeOK, RunInOrder, LateCommit
  PROVE  /\ pending' = None /\ UNCHANGED <<library, saved, run, timeouts>>
         /\ \/ UNCHANGED <<contexts, active, job, late>>
            \/ /\ pending \in Tx /\ TxInOrder(pending) /\ late' = TRUE
               /\ job.status = "running"
               /\ \E o \in Outcomes(pending) : Activate(pending, o[1], o[2])
PROOF
  <1>1. /\ pending' = None /\ pending # None
        /\ UNCHANGED <<library, saved, run, timeouts>>
    BY DEF LateCommit
  <1>2. pending \in Tx /\ TxInOrder(pending)
    BY <1>1 DEF AgentTypeOK, RunInOrder
  <1>3. CASE Holds(pending) /\ FileIsThere(pending)
    <2>1. PICK o \in Outcomes(pending) :
             /\ Activate(pending, o[1], o[2])
             /\ late' = (late \/ pending.lease = job.lease)
      BY <1>3 DEF LateCommit
    <2>2. job.status = "running" /\ pending.lease = job.lease
      BY <1>3 DEF Holds
    <2> QED
      BY <1>1, <1>2, <2>1, <2>2
  <1>4. CASE ~(Holds(pending) /\ FileIsThere(pending))
    BY <1>1, <1>4 DEF LateCommit
  <1> QED
    BY <1>3, <1>4

(* The deep agent's thread keeps what an algorithm returns.                *)
LEMMA RunAlgorithmIs ==
  ASSUME AgentTypeOK, Numbered, RunAlgorithm
  PROVE  /\ graph.node = "deep_agent" /\ run.phase = "start" /\ job.status = "running"
         /\ \E s \in Result : /\ child' = child \cup {s} /\ s \notin child
                              /\ s.id = Cardinality(child) + 1 /\ s.file = job.file
         /\ Cardinality(child) \in Nat
         /\ UNCHANGED <<mysql, graph, run, fault>>
PROOF
  <1>1. /\ graph.node = "deep_agent" /\ run.phase = "start" /\ job.status = "running"
        /\ job.file # None /\ Cardinality(child) < MaxResults
        /\ UNCHANGED <<mysql, graph, run, fault>>
    BY DEF RunAlgorithm, At
  <1>2. Cardinality(child) \in Nat
    BY FS_CardinalityType DEF Numbered
  <1>3. PICK ok \in BOOLEAN :
           child' = child \cup {[id |-> Cardinality(child) + 1, lease |-> job.lease,
                                 file |-> job.file, ok |-> ok]}
    BY DEF RunAlgorithm
  <1>4. PICK s : s = [id |-> Cardinality(child) + 1, lease |-> job.lease,
                      file |-> job.file, ok |-> ok]
    OBVIOUS
  <1>5. job.lease \in Nat /\ job.file \in Files /\ MaxResults \in Nat
    BY <1>1, GraphAssumption DEF AgentTypeOK, Job
  <1>6. s \in Result /\ s.id = Cardinality(child) + 1 /\ s.file = job.file
    BY <1>1, <1>2, <1>4, <1>5 DEF Result
  <1>7. s \notin child
    <2>1. \A r \in child : r.id <= Cardinality(child) /\ r.id \in Nat
      BY DEF Numbered, AgentTypeOK, Result
    <2> QED
      BY <1>2, <1>6, <2>1
  <1> QED
    BY <1>1, <1>2, <1>3, <1>4, <1>6, <1>7

(* The contexts there are stay, whatever is written to them.               *)
LEMMA ContextsStay ==
  ASSUME AgentTypeOK, RunInOrder, Numbered, NodesInOrder, [Next]_vars
  PROVE  /\ contexts' \in Seq(Context) /\ Len(contexts') <= MaxContexts
         /\ Len(contexts) <= Len(contexts')
         /\ DOMAIN contexts = 1..Len(contexts) /\ DOMAIN contexts' = 1..Len(contexts')
         /\ DOMAIN contexts \subseteq DOMAIN contexts'
PROOF
  <1>0. /\ contexts \in Seq(Context) /\ Len(contexts) \in Nat
        /\ Len(contexts) <= MaxContexts /\ MaxContexts \in Nat
    BY GraphAssumption DEF AgentTypeOK
  <1>1. SUFFICES /\ contexts' \in Seq(Context) /\ Len(contexts') <= MaxContexts
                 /\ Len(contexts) <= Len(contexts')
    BY <1>0
  <1>2. CASE InMemory
    BY <1>0, <1>2, NodeMoves
  <1>3. CASE CreateJob
    BY <1>0, <1>3, CreateJobIs DEF Extends
  <1>4. CASE JobIsLost \/ RecursionLimit
    BY <1>0, <1>4, EndsIs DEF JobIsLost, RecursionLimit
  <1>5. CASE Finish
    BY <1>0, <1>5, EndsIs, RecordIs DEF Finish
  <1>6. CASE TakeOver \/ Resume \/ FoldAsks \/ RunAlgorithm \/ UNCHANGED vars
    BY <1>0, <1>6 DEF TakeOver, Resume, FoldAsks, RunAlgorithm, vars, mysql
  <1>7. ASSUME NEW f \in Files, DeleteFile(f)
        PROVE  /\ contexts' \in Seq(Context) /\ Len(contexts') <= MaxContexts
               /\ Len(contexts) <= Len(contexts')
    BY <1>0, <1>7, DeleteFileIs
  <1>8. ASSUME NEW tx \in Tx, TxInOrder(tx),
               \E o \in Outcomes(tx) : Activate(tx, o[1], o[2])
        PROVE  /\ contexts' \in Seq(Context) /\ Len(contexts') <= MaxContexts
               /\ Len(contexts) <= Len(contexts')
    <2>1. PICK o \in Outcomes(tx) : Activate(tx, o[1], o[2])
      BY <1>8
    <2>2. Extends(contexts', active')
      BY <1>8, <2>1, ActivateIs
    <2> QED
      BY <2>2 DEF Extends
  <1>9. CASE Commit
    <2>1. run.tx \in Tx /\ TxInOrder(run.tx)
          /\ \E o \in Outcomes(run.tx) : Activate(run.tx, o[1], o[2])
      BY <1>9, CommitIs
    <2> QED
      BY <1>8, <2>1
  <1>10. CASE LateCommit
    <2>1. \/ contexts' = contexts
          \/ /\ pending \in Tx /\ TxInOrder(pending)
             /\ \E o \in Outcomes(pending) : Activate(pending, o[1], o[2])
      BY <1>10, LateCommitIs
    <2> QED
      BY <1>0, <1>8, <2>1
  <1> QED
    BY <1>2, <1>3, <1>4, <1>5, <1>6, <1>7, <1>9, <1>10, InsideOrOutside DEF Outside

(* Every step keeps the types.                                             *)
LEMMA TypesStep ==
  ASSUME AgentTypeOK, RunInOrder, Numbered, NodesInOrder, [Next]_vars
  PROVE  AgentTypeOK'
PROOF
  <1>0. /\ contexts' \in Seq(Context) /\ Len(contexts') <= MaxContexts
        /\ Len(contexts) <= Len(contexts')
        /\ Len(contexts) \in Nat /\ Len(contexts') \in Nat
        /\ active \in 0..Len(contexts) /\ library \subseteq Files
        /\ job \in Job /\ job.bound \in 0..Len(contexts) /\ job.lease \in 0..MaxLeases
        /\ graph \in Graph /\ graph.ctx \in 0..Len(contexts) /\ graph.retries \in 0..1
        /\ child \subseteq Result
        /\ run \in Run /\ run.visits \in 0..MaxVisits
        /\ pending \in Tx \cup {None} /\ late \in BOOLEAN /\ timeouts \in 0..MaxLate
        /\ MaxLeases \in Nat /\ MaxVisits \in Nat
    BY ContextsStay, GraphAssumption DEF AgentTypeOK
  <1>1. ASSUME active' \in 0..Len(contexts'), library' \subseteq Files,
               job' \in Job, job'.bound \in 0..Len(contexts'), job'.lease \in 0..MaxLeases,
               graph' \in Graph, graph'.ctx \in 0..Len(contexts'), graph'.retries \in 0..1,
               child' \subseteq Result,
               run' \in Run, run'.visits \in 0..MaxVisits,
               pending' \in Tx \cup {None}, late' \in BOOLEAN, timeouts' \in 0..MaxLate
        PROVE  AgentTypeOK'
    BY <1>0, <1>1 DEF AgentTypeOK
  <1>2. CASE InMemory
    <2>1. /\ UNCHANGED <<contexts, active, library, job, child>>
          /\ graph' \in Graph /\ graph'.ctx \in 0..Len(contexts)
          /\ graph'.retries \in 0..1
          /\ run' \in Run /\ run'.visits \in 0..MaxVisits
          /\ UNCHANGED fault \/ NodeFails
      BY <1>2, NodeMoves
    <2>2. pending' \in Tx \cup {None} /\ late' \in BOOLEAN /\ timeouts' \in 0..MaxLate
      BY <1>0, <2>1, GivesUpIs DEF fault, NodeFails
    <2> QED
      BY <1>0, <1>1, <2>1, <2>2
  <1>3. CASE CreateJob
    <2>1. active' \in 0..Len(contexts') /\ job'.bound \in 0..Len(contexts')
      BY <1>0, <1>3, CreateJobIs DEF Extends
    <2>2. /\ job' \in Job /\ job'.lease \in 0..MaxLeases
          /\ graph' \in Graph /\ graph'.ctx = active' /\ graph'.retries = 0
          /\ UNCHANGED <<library, child, run, pending, late, timeouts>>
      BY <1>0, <1>3, CreateJobIs DEF fault
    <2> QED
      BY <1>0, <1>1, <2>1, <2>2
  <1>4. ASSUME NEW cs, Ends(cs), UNCHANGED fault \/ GivesUp
        PROVE  AgentTypeOK'
    <2>1. /\ active' = active /\ library' = library /\ child' = {}
          /\ job' \in Job /\ job'.bound = 0 /\ job'.lease = job.lease
          /\ graph' \in Graph /\ graph'.ctx = 0 /\ graph'.retries = 0
          /\ run' \in Run /\ run'.visits = 0
      BY <1>4, EndsIs
    <2>2. pending' \in Tx \cup {None} /\ late' \in BOOLEAN /\ timeouts' \in 0..MaxLate
      BY <1>0, <1>4, GivesUpIs DEF fault
    <2> QED
      BY <1>0, <1>1, <2>1, <2>2
  <1>5. CASE JobIsLost \/ RecursionLimit \/ Finish
    BY <1>4, <1>5 DEF JobIsLost, RecursionLimit, Finish
  <1>6. CASE TakeOver
    <2>1. job' \in Job /\ job'.bound = job.bound /\ job'.lease = job.lease + 1
      BY <1>0, <1>6 DEF TakeOver, Job
    <2>2. job'.lease \in 0..MaxLeases
      BY <1>0, <1>6, <2>1 DEF TakeOver
    <2>3. run' \in Run /\ run'.visits = 0
      BY <1>6, StartedIs DEF TakeOver
    <2>4. UNCHANGED <<contexts, active, library, graph, child>>
      BY <1>6 DEF TakeOver, saved
    <2>5. pending' \in Tx \cup {None} /\ late' \in BOOLEAN /\ timeouts' \in 0..MaxLate
      BY <1>0, <1>6, GivesUpIs DEF TakeOver
    <2> QED
      BY <1>0, <1>1, <2>1, <2>2, <2>3, <2>4, <2>5
  <1>7. CASE Resume
    <2>1. job' \in Job /\ job'.bound = job.bound /\ job'.lease = job.lease + 1
      <3>1. job' = [[job EXCEPT !.status = "running"] EXCEPT !.lease = job.lease + 1]
        BY <1>7 DEF Resume
      <3>2. [job EXCEPT !.status = "running"] \in Job /\ job.lease + 1 \in Nat
        BY <1>0 DEF Job
      <3> QED
        BY <1>0, <3>1, <3>2 DEF Job
    <2>2. job'.lease \in 0..MaxLeases
      BY <1>0, <1>7, <2>1 DEF Resume
    <2>3. graph' \in Graph /\ graph'.ctx = graph.ctx /\ graph'.retries = graph.retries
      BY <1>0, <1>7 DEF Resume, Graph
    <2>4. run' \in Run /\ run'.visits = 0
      BY <1>7, StartedIs DEF Resume
    <2>5. UNCHANGED <<contexts, active, library, child, pending, late, timeouts>>
      BY <1>7 DEF Resume, fault
    <2> QED
      BY <1>0, <1>1, <2>1, <2>2, <2>3, <2>4, <2>5
  <1>8. ASSUME NEW f \in Files, DeleteFile(f)
        PROVE  AgentTypeOK'
    <2>1. /\ library' \subseteq Files
          /\ UNCHANGED <<active, job, graph, child, run, pending, late, timeouts>>
      BY <1>8, DeleteFileIs DEF saved, fault
    <2> QED
      BY <1>0, <1>1, <2>1
  <1>9. ASSUME NEW tx \in Tx, TxInOrder(tx),
               \E o \in Outcomes(tx) : Activate(tx, o[1], o[2])
        PROVE  active' \in 0..Len(contexts') /\ job'.bound \in 0..Len(contexts')
               /\ job' \in Job /\ job'.lease = job.lease
    <2>1. /\ Extends(contexts', active') /\ job' \in Job /\ job'.bound = active'
          /\ job'.lease = job.lease
      BY <1>9, ActivateIs
    <2> QED
      BY <1>0, <2>1 DEF Extends
  <1>10. CASE Commit
    <2>1. /\ run' \in Run /\ run'.visits = run.visits
          /\ UNCHANGED <<library, graph, child, pending, late, timeouts>>
          /\ active' \in 0..Len(contexts') /\ job'.bound \in 0..Len(contexts')
          /\ job' \in Job /\ job'.lease = job.lease
      BY <1>9, <1>10, CommitIs DEF saved, fault
    <2> QED
      BY <1>0, <1>1, <2>1
  <1>11. CASE LateCommit
    <2>1. /\ UNCHANGED <<library, graph, child, run, timeouts>>
          /\ pending' = None /\ late' \in BOOLEAN
          /\ active' \in 0..Len(contexts') /\ job'.bound \in 0..Len(contexts')
          /\ job' \in Job /\ job'.lease = job.lease
      BY <1>0, <1>9, <1>11, LateCommitIs DEF saved
    <2> QED
      BY <1>0, <1>1, <2>1
  <1>12. CASE FoldAsks
    <2>1. job' \in Job /\ job'.bound = job.bound /\ job'.lease = job.lease
      BY <1>0, <1>12 DEF FoldAsks, Job
    <2>2. run' \in Run /\ run'.visits = 0
      BY <1>12, StartedIs DEF FoldAsks
    <2>3. UNCHANGED <<contexts, active, library, graph, child, pending, late, timeouts>>
      BY <1>12 DEF FoldAsks, saved, fault
    <2> QED
      BY <1>0, <1>1, <2>1, <2>2, <2>3
  <1>13. CASE RunAlgorithm
    <2>1. child' \subseteq Result
      BY <1>0, <1>13, RunAlgorithmIs
    <2>2. UNCHANGED <<contexts, active, library, job, graph, run, pending, late, timeouts>>
      BY <1>13 DEF RunAlgorithm, mysql, fault
    <2> QED
      BY <1>0, <1>1, <2>1, <2>2
  <1>14. CASE UNCHANGED vars
    BY <1>0, <1>1, <1>14 DEF vars, mysql, saved, fault
  <1> QED
    BY <1>2, <1>3, <1>5, <1>6, <1>7, <1>8, <1>10, <1>11, <1>12, <1>13, <1>14,
       InsideOrOutside DEF Outside

(* A transaction stays in order while the contexts there are stay.         *)
LEMMA OrderStays ==
  ASSUME AgentTypeOK, RunInOrder, Numbered, NodesInOrder, [Next]_vars,
         NEW tx, TxInOrder(tx)
  PROVE  tx.kind = "switch" => tx.ctx \in DOMAIN contexts'
PROOF
  BY ContextsStay DEF TxInOrder

(* A transaction that goes on by itself is the one of the node.            *)
Abandons ==
    \/ pending' = pending
    \/ pending' = run.tx /\ TxInOrder(run.tx)

(* A node has a transaction only while it is one that opens them.          *)
LEMMA RunOrderStep ==
  ASSUME AgentTypeOK, RunInOrder, Numbered, NodesInOrder, [Next]_vars
  PROVE  RunInOrder'
PROOF
  <1>0. DOMAIN contexts \subseteq DOMAIN contexts'
    BY ContextsStay
  <1>1. ASSUME Abandons
        PROVE  pending' # None =>
                  /\ pending'.kind = "switch" => pending'.ctx \in DOMAIN contexts'
                  /\ pending'.kind = "file" => pending'.file \in Files
    BY <1>0, <1>1 DEF RunInOrder, TxInOrder, Abandons
  <1>2. ASSUME run'.phase = "start",
               Abandons
        PROVE  RunInOrder'
    BY <1>1, <1>2 DEF RunInOrder, TxInOrder
  <1>3. ASSUME run' = run, graph' = graph, job'.status = job.status,
               pending' = pending \/ pending' = None
        PROVE  RunInOrder'
    BY <1>0, <1>3 DEF RunInOrder, TxInOrder
  <1>4. CASE InMemory
    <2>1. /\ Opened \/ run'.phase = "start"
          /\ UNCHANGED fault \/ NodeFails
          /\ contexts' = contexts /\ job' = job
      BY <1>4, NodeMoves DEF Shallow, Binds, Deepens, Restarts
    <2>2. Abandons
      BY <2>1, GivesUpIs DEF fault, NodeFails, Abandons
    <2>3. CASE Opened
      BY <1>1, <2>1, <2>2, <2>3 DEF Opened, RunInOrder, TxInOrder
    <2> QED
      BY <1>2, <2>1, <2>2, <2>3
  <1>5. CASE CreateJob
    <2>1. job.status = "ended"
      BY <1>5 DEF CreateJob
    <2>2. run.phase = "start"
      BY <2>1 DEF RunInOrder
    <2>3. run' = run /\ pending' = pending
      BY <1>5, CreateJobIs DEF fault
    <2> QED
      BY <1>2, <2>2, <2>3 DEF Abandons
  <1>6. CASE JobIsLost \/ RecursionLimit \/ Finish
    <2>1. PICK cs : Ends(cs)
      BY <1>6 DEF JobIsLost, RecursionLimit, Finish
    <2>2. Abandons
      BY <1>6, GivesUpIs DEF JobIsLost, RecursionLimit, Finish, fault, Abandons
    <2> QED
      BY <1>2, <2>1, <2>2, EndsIs
  <1>7. CASE TakeOver \/ Resume \/ FoldAsks
    <2>1. run'.phase = "start"
      BY <1>7, StartedIs DEF TakeOver, Resume, FoldAsks
    <2>2. Abandons
      BY <1>7, GivesUpIs DEF TakeOver, Resume, FoldAsks, fault, Abandons
    <2> QED
      BY <1>2, <2>1, <2>2
  <1>8. CASE (\E f \in Files : DeleteFile(f)) \/ RunAlgorithm \/ UNCHANGED vars
    BY <1>3, <1>8 DEF DeleteFile, RunAlgorithm, vars, mysql, saved, fault
  <1>9. CASE Commit
    <2>1. /\ run.phase = "bind" /\ job.status = "running" /\ run.tx \in Tx
          /\ TxInOrder(run.tx) /\ run'.tx = run.tx /\ run'.ctx = active'
          /\ UNCHANGED <<saved, fault>>
      BY <1>9, CommitIs
    <2>2. PICK o \in Outcomes(run.tx) : Activate(run.tx, o[1], o[2])
      BY <1>9, CommitIs
    <2>3. active' \in DOMAIN contexts' /\ job'.status = "running"
      BY <2>1, <2>2, ActivateIs, ContextsStay DEF Extends
    <2>4. /\ run'.tx.kind = "switch" => run'.tx.ctx \in DOMAIN contexts'
          /\ run'.tx.kind = "file" => run'.tx.file \in Files
      BY <1>0, <2>1 DEF TxInOrder
    <2>5. graph' = graph /\ pending' = pending
      BY <2>1 DEF saved, fault
    <2>6. \/ graph.node = "fold" /\ run.tx.kind = "fold"
          \/ graph.node = "switch" /\ run.tx.kind \in {"switch", "file"}
      BY <2>1 DEF RunInOrder
    <2> QED
      BY <1>1, <2>1, <2>3, <2>4, <2>5, <2>6 DEF RunInOrder, TxInOrder, Abandons
  <1>10. CASE LateCommit
    <2>1. pending' = None /\ run' = run /\ graph' = graph
      BY <1>10, LateCommitIs DEF saved
    <2>2. job'.status = job.status
      <3>1. CASE job' = job
        BY <3>1
      <3>2. CASE /\ pending \in Tx /\ TxInOrder(pending)
                 /\ \E o \in Outcomes(pending) : Activate(pending, o[1], o[2])
        BY <3>2, ActivateIs
      <3> QED
        BY <1>10, <3>1, <3>2, LateCommitIs
    <2> QED
      BY <1>3, <2>1, <2>2
  <1> QED
    BY <1>4, <1>5, <1>6, <1>7, <1>8, <1>9, <1>10, InsideOrOutside DEF Outside

(* The results stay numbered as they came.                                 *)
LEMMA NumberedStep ==
  ASSUME AgentTypeOK, RunInOrder, Numbered, NodesInOrder, [Next]_vars
  PROVE  Numbered'
PROOF
  <1>1. ASSUME child' = child, graph'.results \subseteq child
        PROVE  Numbered'
    BY <1>1 DEF Numbered
  <1>2. ASSUME child' = {}, graph'.results = {}
        PROVE  Numbered'
    <2>1. IsFiniteSet({})
      BY FS_EmptySet
    <2> QED
      BY <1>2, <2>1 DEF Numbered
  <1>3. graph.results \subseteq child
    BY DEF Numbered
  <1>4. CASE InMemory
    <2>1. child' = child
      BY <1>4, NodeMoves
    <2>2. graph'.results \subseteq child
      BY <1>3, <1>4, NodeMoves DEF Opened, Shallow, Binds, Deepens, Restarts
    <2> QED
      BY <1>1, <2>1, <2>2
  <1>5. CASE CreateJob
    BY <1>1, <1>5, CreateJobIs
  <1>6. CASE JobIsLost \/ RecursionLimit \/ Finish
    <2>1. PICK cs : Ends(cs)
      BY <1>6 DEF JobIsLost, RecursionLimit, Finish
    <2> QED
      BY <1>2, <2>1, EndsIs
  <1>7. CASE Resume
    <2>1. graph'.results = graph.results
      BY <1>7 DEF Resume, AgentTypeOK, Graph
    <2> QED
      BY <1>1, <1>3, <1>7, <2>1 DEF Resume
  <1>8. CASE \/ TakeOver \/ FoldAsks \/ (\E f \in Files : DeleteFile(f)) \/ UNCHANGED vars
             \/ Commit \/ LateCommit
    BY <1>1, <1>3, <1>8 DEF TakeOver, FoldAsks, DeleteFile, Commit, LateCommit, vars, saved
  <1>9. CASE RunAlgorithm
    <2>1. /\ Cardinality(child) \in Nat /\ graph' = graph
          /\ IsFiniteSet(child) /\ \A r \in child : r.id <= Cardinality(child)
          /\ \A r \in child : r.id \in Nat
      BY <1>9, RunAlgorithmIs DEF Numbered, AgentTypeOK, Result
    <2>2. PICK s : /\ child' = child \cup {s} /\ s \notin child
                   /\ s.id = Cardinality(child) + 1
      BY <1>9, RunAlgorithmIs
    <2>3. IsFiniteSet(child') /\ Cardinality(child') = Cardinality(child) + 1
      BY <2>1, <2>2, FS_AddElement
    <2>4. \A r \in child' : r.id <= Cardinality(child')
      BY <2>1, <2>2, <2>3
    <2>5. \A r \in child : r.id # s.id
      BY <2>1, <2>2
    <2>6. \A r, q \in child' : r.id = q.id => r = q
      BY <2>2, <2>5 DEF Numbered
    <2> QED
      BY <1>3, <2>1, <2>2, <2>3, <2>4, <2>6 DEF Numbered
  <1> QED
    BY <1>4, <1>5, <1>6, <1>7, <1>8, <1>9, InsideOrOutside DEF Outside

(* The nodes stay in order.                                                *)
LEMMA NodesStep ==
  ASSUME AgentTypeOK, RunInOrder, Numbered, NodesInOrder, [Next]_vars
  PROVE  NodesInOrder'
PROOF
  <1>1. ASSUME graph'.node = graph.node, graph'.fin = graph.fin,
               graph'.decision = graph.decision, graph'.results = graph.results,
               child' = child, job'.status # "ended",
               job'.status = "waiting" => graph.node = "fold"
        PROVE  NodesInOrder'
    BY <1>1 DEF NodesInOrder, Deep
  <1>2. ASSUME graph' = graph, child' = child, job' = job
        PROVE  NodesInOrder'
    BY <1>2 DEF NodesInOrder, Deep
  <1>3. CASE InMemory
    <2>1. /\ Opened \/ Shallow \/ Binds \/ Deepens \/ Restarts
          /\ child' = child /\ job' = job /\ job.status = "running"
      BY <1>3, NodeMoves
    <2>2. CASE Opened \/ Restarts
      BY <1>2, <2>1, <2>2 DEF Opened, Restarts
    <2>3. CASE Shallow
      BY <2>1, <2>3 DEF Shallow, NodesInOrder
    <2>4. CASE Binds
      BY <2>1, <2>4 DEF Binds, NodesInOrder
    <2>5. CASE Deepens
      BY <2>1, <2>5 DEF Deepens, NodesInOrder, Deep
    <2> QED
      BY <2>1, <2>2, <2>3, <2>4, <2>5
  <1>4. CASE CreateJob
    <2>1. job.status = "ended"
      BY <1>4 DEF CreateJob
    <2>2. child = {}
      BY <2>1 DEF NodesInOrder, Deep
    <2>3. /\ child' = child /\ job'.status = "running" /\ graph'.node = "agent"
          /\ graph'.fin = "none"
      BY <1>4, CreateJobIs
    <2> QED
      BY <2>2, <2>3 DEF NodesInOrder
  <1>5. CASE JobIsLost \/ RecursionLimit \/ Finish
    <2>1. PICK cs : Ends(cs)
      BY <1>5 DEF JobIsLost, RecursionLimit, Finish
    <2>2. /\ child' = {} /\ job'.status = "ended" /\ job'.bound = 0 /\ job'.file = None
          /\ graph'.node = "agent" /\ graph'.fin = "none"
      BY <2>1, EndsIs
    <2> QED
      BY <2>2 DEF NodesInOrder
  <1>6. CASE TakeOver \/ Resume
    <2>1. job'.status = "running" /\ child' = child
      BY <1>6 DEF TakeOver, Resume, saved, AgentTypeOK, Job
    <2>2. /\ graph'.node = graph.node /\ graph'.fin = graph.fin
          /\ graph'.decision = graph.decision /\ graph'.results = graph.results
      BY <1>6 DEF TakeOver, Resume, saved, AgentTypeOK, Graph
    <2> QED
      BY <1>1, <2>1, <2>2
  <1>7. CASE FoldAsks
    <2>1. /\ job'.status = "waiting" /\ graph.node = "fold"
          /\ graph' = graph /\ child' = child
      BY <1>7 DEF FoldAsks, At, saved, AgentTypeOK, Job
    <2> QED
      BY <1>1, <2>1
  <1>8. CASE (\E f \in Files : DeleteFile(f)) \/ UNCHANGED vars
    BY <1>2, <1>8 DEF DeleteFile, vars, mysql, saved
  <1>9. CASE Commit
    <2>1. /\ job.status = "running" /\ graph' = graph /\ child' = child
          /\ run.tx \in Tx /\ TxInOrder(run.tx)
      BY <1>9, CommitIs DEF saved
    <2>2. PICK o \in Outcomes(run.tx) : Activate(run.tx, o[1], o[2])
      BY <1>9, CommitIs
    <2>3. job'.status = "running"
      BY <2>1, <2>2, ActivateIs
    <2> QED
      BY <1>1, <2>1, <2>3
  <1>10. CASE LateCommit
    <2>1. graph' = graph /\ child' = child
      BY <1>10, LateCommitIs DEF saved
    <2>2. CASE job' = job
      BY <1>2, <2>1, <2>2
    <2>3. CASE /\ pending \in Tx /\ TxInOrder(pending) /\ job.status = "running"
               /\ \E o \in Outcomes(pending) : Activate(pending, o[1], o[2])
      <3>1. job'.status = "running"
        BY <2>3, ActivateIs
      <3> QED
        BY <1>1, <2>1, <3>1
    <2> QED
      BY <1>10, <2>2, <2>3, LateCommitIs
  <1>11. CASE RunAlgorithm
    <2>1. graph' = graph /\ job' = job /\ graph.node = "deep_agent"
      BY <1>11, RunAlgorithmIs DEF mysql
    <2> QED
      BY <2>1 DEF NodesInOrder, Deep
  <1> QED
    BY <1>3, <1>4, <1>5, <1>6, <1>7, <1>8, <1>9, <1>10, <1>11, InsideOrOutside DEF Outside

-----------------------------------------------------------------------------
(* In step, until a transaction is committed late *)

(* A transaction that commits late, commits nothing, or is remembered.     *)
LEMMA LateStays ==
  ASSUME AgentTypeOK, RunInOrder, Numbered, NodesInOrder, [Next]_vars, ~late'
  PROVE  /\ ~late
         /\ LateCommit => UNCHANGED <<contexts, active, library, job, graph, child, run>>
PROOF
  <1>1. LateCommit => /\ late' = late
                      /\ UNCHANGED <<contexts, active, library, job, graph, child, run>>
    <2>1. SUFFICES ASSUME LateCommit
                   PROVE  /\ late' = late
                          /\ UNCHANGED <<contexts, active, library, job, graph, child, run>>
      OBVIOUS
    <2>2. UNCHANGED <<library, graph, child, run>>
      BY <2>1 DEF LateCommit, saved
    <2>3. UNCHANGED <<contexts, active, job, late>> \/ late' = TRUE
      BY <2>1, LateCommitIs
    <2> QED
      BY <2>2, <2>3
  <1>2. ASSUME UNCHANGED fault \/ GivesUp
        PROVE  late' = late
    BY <1>2, GivesUpIs DEF fault
  <1>3. CASE InMemory
    <2>1. UNCHANGED fault \/ GivesUp
      BY <1>3, NodeMoves DEF NodeFails
    <2> QED
      BY <1>1, <1>2, <2>1
  <1>4. CASE (Outside /\ ~LateCommit) \/ UNCHANGED vars
    <2>1. UNCHANGED fault \/ GivesUp
      BY <1>4 DEF Outside, CreateJob, JobIsLost, TakeOver, Resume, DeleteFile,
                  RecursionLimit, Commit, FoldAsks, RunAlgorithm, Finish, vars
    <2> QED
      BY <1>1, <1>2, <2>1
  <1> QED
    BY <1>1, <1>3, <1>4, InsideOrOutside

(* Contexts that are only extended keep their results where they belong.   *)
LEMMA RecordedExtends ==
  ASSUME AgentTypeOK, ~late, RecordedWhereComputed, Extends(contexts', active')
  PROVE  RecordedWhereComputed'
PROOF
  <1>1. /\ contexts' \in Seq(Context) /\ DOMAIN contexts' = 1..Len(contexts')
        /\ \A i \in DOMAIN contexts :
              /\ contexts'[i].file = contexts[i].file
              /\ contexts'[i].summary = contexts[i].summary
              /\ contexts'[i].params = contexts[i].params \/ contexts[i].params = None
        /\ \A i \in DOMAIN contexts' : i \notin DOMAIN contexts
                                          => contexts'[i].summary = None
    BY DEF Extends
  <1>2. ASSUME NEW c \in DOMAIN contexts', contexts'[c].summary # None
        PROVE  /\ contexts'[c].file \in {None, contexts'[c].summary.file}
               /\ contexts'[c].summary.params \in {None, contexts'[c].params}
    <2>1. c \in DOMAIN contexts
      BY <1>1, <1>2
    <2>2. /\ contexts[c].summary = contexts'[c].summary
          /\ contexts[c].file = contexts'[c].file
      BY <1>1, <2>1
    <2>3. /\ contexts[c].file \in {None, contexts[c].summary.file}
          /\ contexts[c].summary.params \in {None, contexts[c].params}
      BY <1>2, <2>1, <2>2 DEF RecordedWhereComputed
    <2> QED
      BY <1>1, <2>1, <2>2, <2>3
  <1> QED
    BY <1>2 DEF RecordedWhereComputed

(* The steps in memory stay in step: what the fold has bound is what the   *)
(* analysis goes on with.                                                  *)
LEMMA NodesInStep ==
  ASSUME GraphInv, ~late, InMemory
  PROVE  InStep'
PROOF
  <1>0. /\ AgentTypeOK /\ RunInOrder /\ Numbered /\ NodesInOrder
        /\ RowIsBound /\ FoldFollowsRow /\ DeepFollowsRow /\ RecordedWhereComputed
    BY DEF GraphInv, InStep
  <1>1. /\ Opened \/ Shallow \/ Binds \/ Deepens \/ Restarts
        /\ contexts' = contexts /\ active' = active /\ job' = job /\ child' = child
    BY <1>0, NodeMoves
  <1>2. RowIsBound'
    BY <1>0, <1>1 DEF RowIsBound
  <1>3. RecordedWhereComputed'
    BY <1>0, <1>1 DEF RecordedWhereComputed
  <1>4. \A r \in child' : r.file = job'.file
    BY <1>0, <1>1 DEF DeepFollowsRow
  <1>5. CASE Opened
    <2>1. /\ graph' = graph /\ run'.phase = "bind"
          /\ \/ graph.node = "fold" /\ graph.file # None /\ graph.file = job.file
             \/ graph.node = "switch"
      BY <1>5 DEF Opened
    <2>2. FoldFollowsRow'
      BY <1>1, <2>1 DEF FoldFollowsRow
    <2>3. DeepFollowsRow'
      BY <1>4, <2>1 DEF DeepFollowsRow, Deep
    <2> QED
      BY <1>2, <1>3, <2>2, <2>3 DEF InStep
  <1>6. CASE ~Opened
    <2>1. run'.phase = "start"
      BY <1>1, <1>6 DEF Shallow, Binds, Deepens, Restarts
    <2>2. FoldFollowsRow'
      BY <2>1 DEF FoldFollowsRow
    <2>3. graph'.node = "preprocess" \/ Deep' => Follows'
      <3>1. CASE Shallow
        BY <3>1 DEF Shallow, Deep
      <3>2. CASE Binds
        <4>1. /\ run.ctx = job.bound /\ contexts[job.bound].params = run.tx.params
              /\ graph.file # None /\ graph.file = job.file
          BY <1>0, <3>2 DEF Binds, FoldFollowsRow
        <4>2. job.bound # 0
          BY <1>0, <4>1 DEF RowIsBound
        <4> QED
          BY <1>1, <3>2, <4>1, <4>2 DEF Binds, Follows
      <3>3. CASE Deepens
        <4>1. Follows
          BY <1>0, <3>3 DEF Deepens, DeepFollowsRow
        <4> QED
          BY <1>1, <3>3, <4>1 DEF Deepens, Follows
      <3>4. CASE Restarts
        BY <1>0, <1>1, <3>4 DEF Restarts, DeepFollowsRow, Deep, Follows
      <3> QED
        BY <1>1, <1>6, <3>1, <3>2, <3>3, <3>4
    <2> QED
      BY <1>2, <1>3, <1>4, <2>2, <2>3 DEF InStep, DeepFollowsRow
  <1> QED
    BY <1>5, <1>6

(* A job starts in step with the context its file leads it to.             *)
LEMMA CreateInStep ==
  ASSUME GraphInv, ~late, CreateJob
  PROVE  InStep'
PROOF
  <1>0. /\ AgentTypeOK /\ RunInOrder /\ NodesInOrder /\ RecordedWhereComputed
    BY DEF GraphInv, InStep
  <1>1. job.status = "ended"
    BY DEF CreateJob
  <1>2. child = {} /\ run.phase = "start"
    BY <1>0, <1>1 DEF NodesInOrder, Deep, RunInOrder
  <1>3. /\ \/ /\ job'.file = None /\ job'.bound = 0
              /\ contexts' = contexts
           \/ /\ job'.file # None /\ job'.bound = active' /\ job'.bound # 0
              /\ Extends(contexts', active') /\ contexts'[active'].file = job'.file
        /\ graph'.node = "agent" /\ child' = child
    BY <1>0, CreateJobIs
  <1>4. RowIsBound'
    BY <1>3 DEF RowIsBound
  <1>5. FoldFollowsRow' /\ DeepFollowsRow'
    BY <1>2, <1>3 DEF FoldFollowsRow, DeepFollowsRow, Deep
  <1>6. RecordedWhereComputed'
    <2>1. CASE contexts' = contexts
      BY <1>0, <2>1 DEF RecordedWhereComputed
    <2>2. CASE Extends(contexts', active')
      BY <1>0, <2>2, RecordedExtends
    <2> QED
      BY <1>3, <2>1, <2>2
  <1> QED
    BY <1>4, <1>5, <1>6 DEF InStep

(* The end of a job records its result in the context it was computed on.  *)
LEMMA EndInStep ==
  ASSUME GraphInv, ~late, JobIsLost \/ RecursionLimit \/ Finish
  PROVE  InStep'
PROOF
  <1>0. /\ AgentTypeOK /\ RunInOrder /\ Numbered /\ NodesInOrder
        /\ RowIsBound /\ DeepFollowsRow /\ RecordedWhereComputed
    BY DEF GraphInv, InStep
  <1>1. ASSUME NEW cs, Ends(cs)
        PROVE  RowIsBound' /\ FoldFollowsRow' /\ DeepFollowsRow' /\ contexts' = cs
    <2>1. /\ contexts' = cs /\ child' = {} /\ job'.bound = 0 /\ job'.file = None
          /\ graph'.node = "agent"
      BY <1>0, <1>1, EndsIs
    <2> QED
      BY <2>1 DEF RowIsBound, FoldFollowsRow, DeepFollowsRow, Deep
  <1>2. CASE JobIsLost \/ RecursionLimit
    <2>1. Ends(contexts)
      BY <1>2 DEF JobIsLost, RecursionLimit
    <2>2. RecordedWhereComputed'
      BY <1>0, <1>1, <2>1 DEF RecordedWhereComputed
    <2> QED
      BY <1>1, <2>1, <2>2 DEF InStep
  <1>3. CASE Finish
    <2>1. Ends(Record)
      BY <1>3 DEF Finish
    <2>2. /\ contexts' = Record /\ contexts \in Seq(Context)
          /\ Record \in Seq(Context) /\ Len(Record) = Len(contexts)
      BY <1>0, <1>1, <2>1, RecordIs DEF AgentTypeOK
    <2>3. ASSUME NEW c \in DOMAIN contexts', contexts'[c].summary # None
          PROVE  /\ contexts'[c].file \in {None, contexts'[c].summary.file}
                 /\ contexts'[c].summary.params \in {None, contexts'[c].params}
      <3>1. c \in DOMAIN contexts
        BY <2>2
      <3>2. /\ contexts'[c].file = contexts[c].file
            /\ contexts'[c].params = contexts[c].params
            /\ \/ contexts'[c].summary = contexts[c].summary
               \/ /\ c = job.bound
                  /\ \E r \in Primary(graph.results, graph.decision) :
                        contexts'[c].summary = [file |-> r.file, params |-> graph.params,
                                                ok |-> r.ok]
        BY <1>0, <2>2, <3>1, RecordIs
      <3>3. CASE contexts'[c].summary = contexts[c].summary
        BY <1>0, <2>3, <3>1, <3>2, <3>3 DEF RecordedWhereComputed
      <3>4. CASE contexts'[c].summary # contexts[c].summary
        <4>1. PICK r \in Primary(graph.results, graph.decision) :
                 contexts'[c].summary = [file |-> r.file, params |-> graph.params,
                                         ok |-> r.ok]
          BY <3>2, <3>4
        <4>2. r \in child
          BY <1>0, <4>1 DEF Primary, Numbered
        <4>3. Follows
          BY <1>0, <4>2 DEF NodesInOrder, DeepFollowsRow
        <4>4. /\ c = job.bound /\ contexts[c].file = job.file
              /\ contexts[c].params = graph.params /\ r.file = job.file
          BY <1>0, <3>2, <3>4, <4>2, <4>3 DEF Follows, RowIsBound, DeepFollowsRow
        <4>5. /\ contexts'[c].summary.file = r.file
              /\ contexts'[c].summary.params = graph.params
          BY <4>1
        <4> QED
          BY <3>2, <4>4, <4>5
      <3> QED
        BY <3>3, <3>4
    <2>4. RecordedWhereComputed'
      BY <2>3 DEF RecordedWhereComputed
    <2> QED
      BY <1>1, <2>1, <2>4 DEF InStep
  <1> QED
    BY <1>2, <1>3

(* A lease that is taken over, given up for an answer or resumed starts    *)
(* the node that is saved; the row and the contexts stay as they are.      *)
LEMMA LeaseInStep ==
  ASSUME GraphInv, ~late, TakeOver \/ Resume \/ FoldAsks
  PROVE  InStep'
PROOF
  <1>0. /\ job \in Job /\ graph \in Graph
        /\ RowIsBound /\ DeepFollowsRow /\ RecordedWhereComputed
    BY DEF GraphInv, InStep, AgentTypeOK
  <1>1. /\ contexts' = contexts /\ active' = active /\ child' = child
        /\ run' = Entered
    BY DEF TakeOver, Resume, FoldAsks, saved
  <1>2. job'.file = job.file /\ job'.bound = job.bound
    BY <1>0 DEF TakeOver, Resume, FoldAsks, Job
  <1>3. /\ graph'.node = graph.node /\ graph'.fin = graph.fin /\ graph'.ctx = graph.ctx
        /\ graph'.file = graph.file /\ graph'.params = graph.params
    BY <1>0 DEF TakeOver, Resume, FoldAsks, saved, Graph
  <1>4. RowIsBound' /\ RecordedWhereComputed'
    BY <1>0, <1>1, <1>2 DEF RowIsBound, RecordedWhereComputed
  <1>5. FoldFollowsRow'
    BY <1>1 DEF FoldFollowsRow, Entered
  <1>6. DeepFollowsRow'
    BY <1>0, <1>1, <1>2, <1>3 DEF DeepFollowsRow, Deep, Follows
  <1> QED
    BY <1>4, <1>5, <1>6 DEF InStep

(* The file of an active job is not deleted; other contexts lose theirs.   *)
LEMMA DeleteInStep ==
  ASSUME GraphInv, ~late, NEW f \in Files, DeleteFile(f)
  PROVE  InStep'
PROOF
  <1>0. /\ AgentTypeOK /\ NodesInOrder
        /\ RowIsBound /\ FoldFollowsRow /\ DeepFollowsRow /\ RecordedWhereComputed
    BY DEF GraphInv, InStep
  <1>1. /\ contexts' \in Seq(Context) /\ Len(contexts') = Len(contexts)
        /\ contexts \in Seq(Context)
        /\ job.bound \in 0..Len(contexts) /\ Len(contexts) \in Nat
    BY <1>0, DeleteFileIs DEF AgentTypeOK
  <1>2. /\ \A c \in DOMAIN contexts :
              /\ contexts'[c].file = IF contexts[c].file = f THEN None
                                     ELSE contexts[c].file
              /\ contexts'[c].params = contexts[c].params
              /\ contexts'[c].summary = contexts[c].summary
        /\ job.status = "ended" \/ job.file # f
    BY <1>0, DeleteFileIs
  <1>3. /\ active' = active /\ job' = job /\ graph' = graph /\ child' = child /\ run' = run
    BY DEF DeleteFile, saved
  <1>4. job.bound # 0 => /\ contexts'[job.bound].file = contexts[job.bound].file
                         /\ contexts'[job.bound].params = contexts[job.bound].params
    <2>1. SUFFICES ASSUME job.bound # 0
                   PROVE  /\ contexts'[job.bound].file = contexts[job.bound].file
                          /\ contexts'[job.bound].params = contexts[job.bound].params
      OBVIOUS
    <2>2. job.bound \in DOMAIN contexts /\ job.file # f
      BY <1>0, <1>1, <1>2, <2>1 DEF NodesInOrder
    <2>3. contexts[job.bound].file = job.file
      BY <1>0, <2>1 DEF RowIsBound
    <2> QED
      BY <1>2, <2>2, <2>3
  <1>5. RowIsBound'
    BY <1>0, <1>3, <1>4 DEF RowIsBound
  <1>6. FoldFollowsRow'
    BY <1>0, <1>3, <1>4 DEF FoldFollowsRow, RowIsBound
  <1>7. DeepFollowsRow'
    BY <1>0, <1>3, <1>4 DEF DeepFollowsRow, Deep, Follows
  <1>8. RecordedWhereComputed'
    <2>1. ASSUME NEW c \in DOMAIN contexts', contexts'[c].summary # None
          PROVE  /\ contexts'[c].file \in {None, contexts'[c].summary.file}
                 /\ contexts'[c].summary.params \in {None, contexts'[c].params}
      <3>1. c \in DOMAIN contexts
        BY <1>1
      <3> QED
        BY <1>0, <1>2, <2>1, <3>1 DEF RecordedWhereComputed
    <2> QED
      BY <2>1 DEF RecordedWhereComputed
  <1> QED
    BY <1>5, <1>6, <1>7, <1>8 DEF InStep

(* The transaction of a node binds the row, the session and the context to *)
(* one file, and a fold the parameters to that context.                    *)
LEMMA CommitInStep ==
  ASSUME GraphInv, ~late, Commit
  PROVE  InStep'
PROOF
  <1>0. /\ AgentTypeOK /\ RunInOrder /\ NodesInOrder
        /\ RowIsBound /\ FoldFollowsRow /\ RecordedWhereComputed
    BY DEF GraphInv, InStep
  <1>1. /\ run.phase = "bind" /\ run.tx \in Tx /\ TxInOrder(run.tx) /\ FileIsThere(run.tx)
        /\ run'.phase = "bound" /\ run'.ctx = active' /\ run'.tx = run.tx
        /\ graph' = graph /\ child' = child
    BY <1>0, CommitIs DEF saved
  <1>2. PICK o \in Outcomes(run.tx) : Activate(run.tx, o[1], o[2])
    BY <1>0, CommitIs
  <1>3. /\ Extends(contexts', active') /\ contexts' = o[1] /\ active' = o[2]
        /\ job'.bound = active'
        /\ job'.file = IF run.tx.kind = "fold" THEN job.file ELSE contexts'[active'].file
    BY <1>0, <1>1, <1>2, ActivateIs
  <1>4. /\ run.tx.kind = "fold" =>
              /\ contexts'[active'].params = run.tx.params
              /\ (job.bound # 0 => contexts[job.bound].file = job.file)
                    => contexts'[active'].file = job.file
        /\ run.tx.kind = "switch" => contexts' = contexts /\ active' = run.tx.ctx
        /\ run.tx.kind = "file" => contexts'[active'].file = run.tx.file
    <2>1. \A tx \in Tx : TxInOrder(tx) => \A q \in Outcomes(tx) :
             /\ tx.kind = "fold" => /\ q[1][q[2]].params = tx.params
                                    /\ (job.bound # 0 => contexts[job.bound].file = job.file)
                                          => q[1][q[2]].file = job.file
             /\ tx.kind = "switch" => q[1] = contexts /\ q[2] = tx.ctx
             /\ tx.kind = "file" => q[1][q[2]].file = tx.file
      BY <1>0, OutcomeIs
    <2> QED
      BY <1>1, <1>3, <2>1
  <1>5. \/ graph.node = "fold" /\ run.tx.kind = "fold"
        \/ graph.node = "switch" /\ run.tx.kind \in {"switch", "file"}
    BY <1>0, <1>1 DEF RunInOrder
  <1>6. active' # 0
    BY <1>3 DEF Extends
  <1>7. job'.file # None /\ contexts'[active'].file = job'.file
    <2>1. None \notin library
      BY <1>0, GraphAssumption DEF AgentTypeOK
    <2>2. CASE graph.node = "fold" /\ run.tx.kind = "fold"
      BY <1>0, <1>1, <1>3, <1>4, <2>2 DEF FoldFollowsRow, RowIsBound
    <2>3. CASE run.tx.kind = "switch"
      BY <1>1, <1>3, <1>4, <2>1, <2>3 DEF FileIsThere
    <2>4. CASE run.tx.kind = "file"
      BY <1>1, <1>3, <1>4, <2>1, <2>4 DEF FileIsThere
    <2> QED
      BY <1>5, <2>2, <2>3, <2>4
  <1>8. RowIsBound'
    BY <1>3, <1>6, <1>7 DEF RowIsBound
  <1>9. FoldFollowsRow'
    <2>1. graph.node = "fold" => /\ run.tx.kind = "fold"
                                 /\ graph.file # None /\ graph.file = job.file
      BY <1>0, <1>1, <1>5 DEF FoldFollowsRow
    <2> QED
      BY <1>1, <1>3, <1>4, <2>1 DEF FoldFollowsRow
  <1>10. DeepFollowsRow'
    <2>1. ~Deep /\ graph.node # "preprocess"
      BY <1>0, <1>5 DEF Deep, NodesInOrder
    <2>2. child = {}
      BY <1>0, <2>1 DEF NodesInOrder
    <2> QED
      BY <1>1, <2>1, <2>2 DEF DeepFollowsRow, Deep
  <1>11. RecordedWhereComputed'
    BY <1>0, <1>3, RecordedExtends
  <1> QED
    BY <1>8, <1>9, <1>10, <1>11 DEF InStep

(* Every step stays in step unless it commits a transaction late.          *)
LEMMA InStepStep ==
  ASSUME GraphInv, [Next]_vars, ~late'
  PROVE  InStep'
PROOF
  <1>0. /\ AgentTypeOK /\ RunInOrder /\ Numbered /\ NodesInOrder
    BY DEF GraphInv
  <1>1. /\ ~late
        /\ LateCommit => UNCHANGED <<contexts, active, library, job, graph, child, run>>
    BY <1>0, LateStays
  <1>2. RowIsBound /\ FoldFollowsRow /\ DeepFollowsRow /\ RecordedWhereComputed
    BY <1>1 DEF GraphInv, InStep
  <1>3. ASSUME UNCHANGED <<contexts, active, job, graph, child, run>>
        PROVE  InStep'
    BY <1>1, <1>2, <1>3 DEF InStep, RowIsBound, FoldFollowsRow, DeepFollowsRow, Deep,
                            Follows, RecordedWhereComputed
  <1>4. CASE InMemory
    BY <1>1, <1>4, NodesInStep
  <1>5. CASE CreateJob
    BY <1>1, <1>5, CreateInStep
  <1>6. CASE JobIsLost \/ RecursionLimit \/ Finish
    BY <1>1, <1>6, EndInStep
  <1>7. CASE TakeOver \/ Resume \/ FoldAsks
    BY <1>1, <1>7, LeaseInStep
  <1>8. ASSUME NEW f \in Files, DeleteFile(f)
        PROVE  InStep'
    BY <1>1, <1>8, DeleteInStep
  <1>9. CASE Commit
    BY <1>1, <1>9, CommitInStep
  <1>10. CASE LateCommit
    BY <1>1, <1>3, <1>10
  <1>11. CASE RunAlgorithm
    <2>1. /\ graph.node = "deep_agent" /\ graph' = graph /\ run' = run
          /\ contexts' = contexts /\ active' = active /\ job' = job
      BY <1>0, <1>11, RunAlgorithmIs DEF mysql
    <2>2. PICK s \in Result : child' = child \cup {s} /\ s.file = job.file
      BY <1>0, <1>11, RunAlgorithmIs
    <2>3. DeepFollowsRow'
      BY <1>2, <2>1, <2>2 DEF DeepFollowsRow, Deep, Follows
    <2> QED
      BY <1>1, <1>2, <2>1, <2>3 DEF InStep, RowIsBound, FoldFollowsRow,
                                    RecordedWhereComputed
  <1>12. CASE UNCHANGED vars
    BY <1>3, <1>12 DEF vars, mysql, saved
  <1> QED
    BY <1>4, <1>5, <1>6, <1>7, <1>8, <1>9, <1>10, <1>11, <1>12, InsideOrOutside DEF Outside

-----------------------------------------------------------------------------
(* The theorems *)

(* A session starts with no context, no job and nothing computed.          *)
LEMMA InitInv ==
  ASSUME Init
  PROVE  GraphInv
PROOF
  <1>1. /\ contexts = <<>> /\ active = 0 /\ library = Files
        /\ job = [status |-> "ended", file |-> None, bound |-> 0, lease |-> 0]
        /\ graph = Started(None, 0) /\ child = {} /\ run = Entered
        /\ pending = None /\ late = FALSE /\ timeouts = 0
    BY DEF Init
  <1>2. /\ graph \in Graph /\ graph.ctx = 0 /\ graph.retries = 0 /\ graph.node = "agent"
        /\ graph.fin = "none" /\ graph.results = {}
        /\ run \in Run /\ run.phase = "start" /\ run.visits = 0
    BY <1>1, StartedIs
  <1>3. job \in Job /\ job.bound = 0 /\ job.file = None /\ job.lease = 0
    BY <1>1 DEF Job
  <1>4. AgentTypeOK
    <2>1. << >> \in Seq(Context) /\ Len(<< >>) = 0
      OBVIOUS
    <2>2. contexts \in Seq(Context) /\ Len(contexts) = 0
      BY <1>1, <2>1
    <2>3. /\ MaxContexts \in Nat /\ MaxLeases \in Nat /\ MaxVisits \in Nat
          /\ MaxLate \in Nat
      BY GraphAssumption
    <2>4. /\ Len(contexts) <= MaxContexts
          /\ active \in 0..Len(contexts) /\ job.bound \in 0..Len(contexts)
          /\ graph.ctx \in 0..Len(contexts)
      BY <1>1, <1>2, <1>3, <2>2, <2>3
    <2>5. /\ job.lease \in 0..MaxLeases /\ graph.retries \in 0..1
          /\ run.visits \in 0..MaxVisits /\ timeouts \in 0..MaxLate
      BY <1>1, <1>2, <1>3, <2>3
    <2>6. /\ library \subseteq Files /\ child \subseteq Result
          /\ pending \in Tx \cup {None} /\ late \in BOOLEAN
      BY <1>1
    <2> QED
      BY <1>2, <1>3, <2>2, <2>4, <2>5, <2>6 DEF AgentTypeOK
  <1>5. RunInOrder
    BY <1>1, <1>2 DEF RunInOrder
  <1>6. Numbered
    <2>1. IsFiniteSet({})
      BY FS_EmptySet
    <2> QED
      BY <1>1, <1>2, <2>1 DEF Numbered
  <1>7. NodesInOrder
    BY <1>1, <1>2, <1>3 DEF NodesInOrder
  <1>8. InStep
    <2>1. RowIsBound
      BY <1>3 DEF RowIsBound
    <2>2. FoldFollowsRow
      BY <1>2 DEF FoldFollowsRow
    <2>3. DeepFollowsRow
      BY <1>1, <1>2 DEF DeepFollowsRow, Deep
    <2>4. RecordedWhereComputed
      BY <1>1 DEF RecordedWhereComputed
    <2> QED
      BY <2>1, <2>2, <2>3, <2>4 DEF InStep
  <1> QED
    BY <1>4, <1>5, <1>6, <1>7, <1>8 DEF GraphInv

(* Every step keeps the invariant.                                         *)
LEMMA NextInv ==
  ASSUME GraphInv, [Next]_vars
  PROVE  GraphInv'
PROOF
  <1>1. AgentTypeOK /\ RunInOrder /\ Numbered /\ NodesInOrder
    BY DEF GraphInv
  <1>2. AgentTypeOK' /\ RunInOrder' /\ Numbered' /\ NodesInOrder'
    BY <1>1, TypesStep, RunOrderStep, NumberedStep, NodesStep
  <1>3. ~late' => InStep'
    BY InStepStep
  <1> QED
    BY <1>2, <1>3 DEF GraphInv

(* The invariant holds of every session.                                   *)
LEMMA GraphInvariant == Spec => []GraphInv
PROOF
  BY InitInv, NextInv, PTL DEF Spec

(* AgentTypeOK, in particular: the row, the session and the graph only     *)
(* ever name contexts there are, and no node is visited more often than    *)
(* the recursion limit allows.                                             *)
THEOREM GraphTypes == Spec => []AgentTypeOK
PROOF
  <1>1. GraphInv => AgentTypeOK
    BY DEF GraphInv
  <1> QED
    BY <1>1, GraphInvariant, PTL

(* From preprocess to the report, whatever was retried, resumed, taken     *)
(* over or deleted, the state, the row, the session and the context name   *)
(* one file, target and treatment, as long as no transaction of a node     *)
(* that was given up has been committed under the same lease.              *)
THEOREM WorkFollowsTheRow == Spec => []StateFollowsRow
PROOF
  <1>1. GraphInv => StateFollowsRow
    <2>1. SUFFICES ASSUME GraphInv, Analysing, ~late
                   PROVE  /\ job.bound # 0 /\ graph.ctx = job.bound
                          /\ active = job.bound /\ graph.file = job.file
                          /\ contexts[job.bound].file = job.file
                          /\ contexts[job.bound].params = graph.params
      BY DEF StateFollowsRow
    <2>2. RowIsBound /\ DeepFollowsRow
      BY <2>1 DEF GraphInv, InStep
    <2>3. Follows
      BY <2>1, <2>2 DEF Analysing, Deep, DeepFollowsRow
    <2> QED
      BY <2>2, <2>3 DEF Follows, RowIsBound
  <1> QED
    BY <1>1, GraphInvariant, PTL

(* No context ever shows the result of an analysis of another file, or of  *)
(* another target and treatment: record_analysis_results writes by the     *)
(* row, and a fold never changes parameters that have been named.          *)
THEOREM ResultsStayWithTheirContext == Spec => []RecordedWhereComputed
PROOF
  <1>1. GraphInv => RecordedWhereComputed
    BY DEF GraphInv, InStep, RecordedWhereComputed
  <1> QED
    BY <1>1, GraphInvariant, PTL

(* The one valid result a conclusion names is what the end of the job      *)
(* records in the row's context.                                           *)
LEMMA ConclusionStep ==
  ASSUME GraphInv, Concludes
  PROVE  contexts'[graph.ctx].summary =
            [file |-> graph.file, params |-> graph.params, ok |-> TRUE]
PROOF
  <1>1. /\ graph.node = "end" /\ graph.fin = "valid" /\ ~late /\ Ends(Record)
        /\ graph.decision.outcome = "algorithm_supported"
    BY DEF Concludes, Finish
  <1>2. /\ AgentTypeOK /\ Numbered /\ NodesInOrder /\ RowIsBound /\ DeepFollowsRow
    BY <1>1 DEF GraphInv, InStep
  <1>3. Follows
    BY <1>1, <1>2 DEF DeepFollowsRow, Deep
  <1>4. /\ job.bound \in DOMAIN contexts /\ contexts[job.bound] \in Context
        /\ graph.ctx = job.bound /\ graph.file = job.file
    <2>1. /\ contexts \in Seq(Context) /\ DOMAIN contexts = 1..Len(contexts)
          /\ job.bound \in 0..Len(contexts) /\ Len(contexts) \in Nat
      BY <1>2 DEF AgentTypeOK
    <2> QED
      BY <1>3, <2>1 DEF Follows
  <1>5. PICK r \in graph.results : r.id = graph.decision.primary /\ r.ok
    BY <1>1, <1>2 DEF NodesInOrder
  <1>6. r \in child /\ r \in Result /\ r.ok = TRUE /\ r.file = job.file
    BY <1>2, <1>5 DEF Numbered, AgentTypeOK, Result, DeepFollowsRow
  <1>7. Primary(graph.results, graph.decision) = {r}
    <2>1. \A s \in graph.results : s.id = graph.decision.primary => s = r
      BY <1>2, <1>5, <1>6 DEF Numbered
    <2>2. {s \in graph.results : s.id = graph.decision.primary} = {r}
      BY <1>5, <2>1
    <2> QED
      BY <2>2 DEF Primary
  <1>8. (CHOOSE s \in {r} : TRUE) = r
    OBVIOUS
  <1>9. PICK rep : rep = (contexts[job.bound].report \/ graph.report)
    OBVIOUS
  <1>10. Record[job.bound] =
            [contexts[job.bound] EXCEPT
               !.report = rep,
               !.summary = [file |-> r.file, params |-> graph.params, ok |-> r.ok]]
    BY <1>4, <1>7, <1>8, <1>9 DEF Record, RecordedIn
  <1>11. Record[job.bound].summary
            = [file |-> r.file, params |-> graph.params, ok |-> r.ok]
    BY <1>4, <1>10 DEF Context
  <1>12. contexts' = Record
    BY <1>1 DEF Ends
  <1> QED
    BY <1>4, <1>6, <1>11, <1>12

(* A conclusion the gate has let pass, and no late commit has overtaken,   *)
(* is recorded as a valid result of the file and parameters it was         *)
(* computed on.                                                            *)
THEOREM ConclusionsAreRecorded == Spec => AcceptedIsRecorded
PROOF
  <1>1. ASSUME GraphInv
        PROVE  [Concludes => contexts'[graph.ctx].summary =
                   [file |-> graph.file, params |-> graph.params, ok |-> TRUE]]_vars
    BY <1>1, ConclusionStep
  <1> QED
    BY <1>1, GraphInvariant, PTL DEF AcceptedIsRecorded
=============================================================================

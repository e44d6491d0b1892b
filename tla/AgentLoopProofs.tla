---------------------------- MODULE AgentLoopProofs ----------------------------
(***************************************************************************)
(* What AgentLoop guarantees for every set of tools and workers and every  *)
(* budget, however often workers die or outlive their leases.              *)
(***************************************************************************)
EXTENDS AgentLoop, FiniteSetTheorems, TLAPS

(* The operations on the Agent's state, field by field.                    *)

LEMMA SpentType == "turns" \in Spent /\ "none" \notin Spent /\ Limit \in [Spent -> Nat]
BY ToolsAssumption, BudgetAssumption, TurnsAssumption DEF Spent, Limit

LEMMA FreshType == FreshState \in AgentStates
BY DEF FreshState, NothingSpent, AgentStates

LEMMA TurnType == ASSUME NEW s \in AgentStates PROVE Turn(s) \in Nat
BY SpentType DEF Turn, AgentStates

LEMMA SpendType ==
  ASSUME NEW s \in AgentStates, NEW k \in Spent
  PROVE  /\ Spend(s, k) \in AgentStates
         /\ Spend(s, k).used = [s.used EXCEPT ![k] = @ + 1]
         /\ Spend(s, k).start = s.start
         /\ Spend(s, k).status = s.status
         /\ Spend(s, k).steps = s.steps
         /\ Spend(s, k).gate = s.gate
<1>1. s.used \in [Spent -> Nat]
  BY DEF AgentStates
<1>2. [s.used EXCEPT ![k] = @ + 1] \in [Spent -> Nat]
  BY <1>1
<1> QED BY <1>2 DEF Spend, AgentStates

LEMMA AddStepType ==
  ASSUME NEW s \in AgentStates, NEW n \in Nat
  PROVE  /\ AddStep(s, n) \in AgentStates
         /\ AddStep(s, n).used = s.used
         /\ AddStep(s, n).start = s.start
         /\ AddStep(s, n).status = s.status
         /\ AddStep(s, n).steps = Append(s.steps, n)
         /\ AddStep(s, n).gate = s.gate
<1>1. Append(s.steps, n) \in Seq(Nat)
  BY DEF AgentStates
<1> QED BY <1>1 DEF AddStep, AgentStates

LEMMA AskedType ==
  ASSUME NEW s \in AgentStates
  PROVE  /\ Asked(s) \in AgentStates
         /\ Asked(s).used = s.used
         /\ Asked(s).start = s.start
         /\ Asked(s).status = "waiting_input"
         /\ Asked(s).steps = Append(s.steps, Turn(s))
         /\ Asked(s).gate = Turn(s)
<1> DEFINE u == AddStep(s, Turn(s))
<1>1. /\ u \in AgentStates /\ Turn(s) \in Nat
      /\ u.used = s.used /\ u.start = s.start /\ u.steps = Append(s.steps, Turn(s))
  BY TurnType, AddStepType
<1>2. Asked(s) = [u EXCEPT !.status = "waiting_input", !.gate = Turn(s)]
  BY DEF Asked
<1> HIDE DEF u
<1>3. Asked(s) \in AgentStates /\ Asked(s).used = u.used /\ Asked(s).steps = u.steps
  BY <1>1, <1>2 DEF AgentStates
<1>4. Asked(s).start = u.start /\ Asked(s).status = "waiting_input" /\ Asked(s).gate = Turn(s)
  BY <1>1, <1>2 DEF AgentStates
<1> QED BY <1>1, <1>3, <1>4

LEMMA EndedType ==
  ASSUME NEW s \in AgentStates, NEW n \in Nat, NEW v,
         \/ n = Turn(s) /\ v = Reported(s)
         \/ n = Turn(s) + 1 /\ v = Abstained(s)
  PROVE  /\ v \in AgentStates
         /\ v.used = s.used
         /\ v.start = s.start
         /\ v.status = "completed"
         /\ v.steps = Append(s.steps, n)
<1> DEFINE u == AddStep(s, n)
<1>1. /\ u \in AgentStates
      /\ u.used = s.used /\ u.start = s.start /\ u.steps = Append(s.steps, n)
  BY AddStepType
<1>2. \/ v = [u EXCEPT !.status = "completed", !.result = "report", !.draft = FALSE]
      \/ v = [u EXCEPT !.status = "completed", !.result = "abstention", !.draft = FALSE]
  BY DEF Reported, Abstained
<1> HIDE DEF u
<1>3. v \in AgentStates /\ v.used = u.used /\ v.steps = u.steps /\ v.status = "completed"
  BY <1>1, <1>2 DEF AgentStates
<1>4. v.start = u.start
  BY <1>1, <1>2 DEF AgentStates
<1> QED BY <1>1, <1>3, <1>4

LEMMA DraftType ==
  ASSUME NEW s \in AgentStates, NEW d, d = [s EXCEPT !.draft = TRUE]
  PROVE  /\ d \in AgentStates
         /\ d.used = s.used /\ d.start = s.start
         /\ d.status = s.status /\ d.steps = s.steps /\ d.gate = s.gate
BY DEF AgentStates

Restarted(u, f) == [u EXCEPT !.status = "running", !.gate = 0, !.start = f]

LEMMA RestartType ==
  ASSUME NEW u \in AgentStates, NEW f \in [Spent -> Nat]
  PROVE  /\ Restarted(u, f) \in AgentStates
         /\ Restarted(u, f).used = u.used /\ Restarted(u, f).steps = u.steps
         /\ Restarted(u, f).status = "running" /\ Restarted(u, f).start = f
BY DEF AgentStates, Restarted

LEMMA AnswerType ==
  ASSUME NEW s \in AgentStates
  PROVE  /\ AnswerAgent(s) \in AgentStates
         /\ AnswerAgent(s).used = [s.used EXCEPT !["turns"] = @ + 1]
         /\ AnswerAgent(s).start = AnswerAgent(s).used
         /\ AnswerAgent(s).status = "running"
         /\ AnswerAgent(s).steps = Append(s.steps, Turn(s) + 1)
<1> DEFINE t == Spend(s, "turns")
<1>1. t \in AgentStates /\ t.used = [s.used EXCEPT !["turns"] = @ + 1] /\ t.steps = s.steps
  BY SpentType, SpendType
<1>2. Turn(t) = Turn(s) + 1 /\ Turn(t) \in Nat
  BY <1>1, SpentType, TurnType DEF Turn, AgentStates
<1> DEFINE u == AddStep(t, Turn(t))
<1>3. /\ u \in AgentStates /\ u.used = t.used
      /\ u.steps = Append(s.steps, Turn(s) + 1)
  BY <1>1, <1>2, AddStepType
<1>4. AnswerAgent(s) = Restarted(u, t.used)
  BY DEF AnswerAgent, Restarted
<1>5. t.used \in [Spent -> Nat]
  BY <1>1 DEF AgentStates
<1> HIDE DEF t, u
<1> QED BY <1>1, <1>3, <1>4, <1>5, RestartType

-----------------------------------------------------------------------------
(* Type correctness.  A worker that is not idle has a state, so has a task *)
(* that waits for an answer, and only while it decides has a worker a call *)
(* still to make.                                                          *)
WorkerRecords ==
  [pc : {"idle", "loop", "decide", "check"}, attempt : Nat,
   tool : Spent \cup {"none"}, state : AgentStates \cup {NoState}]

WorkerOK(r) ==
  /\ r \in WorkerRecords
  /\ r.pc # "idle" => r.state \in AgentStates
  /\ r.pc # "decide" => r.tool = "none"

Typed ==
  /\ TypeOK
  /\ \A w \in Workers : WorkerOK(worker[w])
  /\ status = "waiting_input" => saved \in AgentStates

LEMMA InitTyped == Init => Typed
<1> SUFFICES ASSUME Init PROVE Typed
  OBVIOUS
<1>1. WorkerOK(Idle)
  BY DEF Idle, WorkerOK, WorkerRecords
<1>2. TypeOK
  BY <1>1 DEF Init, TypeOK, NothingSpent, WorkerOK, WorkerRecords
<1> QED BY <1>1, <1>2 DEF Init, Typed

(* Only worker w moves, to a record with these fields.                     *)
Moves(w, pc, tool, s) ==
  /\ worker' \in [Workers -> WorkerRecords]
  /\ \A v \in Workers \ {w} : worker'[v] = worker[v]
  /\ worker'[w].pc = pc /\ worker'[w].tool = tool /\ worker'[w].state = s
  /\ worker'[w].attempt = worker[w].attempt

LEMMA CheckpointMoves ==
  ASSUME Typed, NEW w \in Workers, NEW s \in AgentStates,
         NEW pc \in {"idle", "loop", "decide", "check"}, NEW tool \in Spent \cup {"none"},
         Checkpoint(w, s, pc, tool)
  PROVE  Moves(w, pc, tool, s)
<1>1. worker \in [Workers -> WorkerRecords]
  BY DEF Typed, TypeOK, WorkerRecords
<1> QED BY <1>1 DEF Checkpoint, Moves, WorkerRecords

LEMMA CallMoves ==
  ASSUME Typed, NEW w \in Workers, Call(w)
  PROVE  /\ Moves(w, "decide", "none", Mem(w))
         /\ At(w, "decide") /\ Mem(w) \in AgentStates /\ worker[w].tool \in Spent
<1>1. worker \in [Workers -> WorkerRecords]
  BY DEF Typed, TypeOK, WorkerRecords
<1>2. worker[w] \in WorkerRecords /\ At(w, "decide") /\ Mem(w) \in AgentStates
  BY DEF Call, Typed, WorkerOK, At, Mem
<1>3. Moves(w, "decide", "none", Mem(w))
  BY <1>1, <1>2 DEF Call, At, Mem, Moves, WorkerRecords
<1>4. worker[w].tool \in Spent
  BY <1>2 DEF Call, WorkerRecords
<1> QED BY <1>2, <1>3, <1>4

LEMMA ReleaseMoves ==
  ASSUME Typed, NEW w \in Workers, Release(w)
  PROVE  /\ worker' \in [Workers -> WorkerRecords]
         /\ \A v \in Workers \ {w} : worker'[v] = worker[v]
         /\ worker'[w].pc = "idle" /\ worker'[w].tool = "none"
<1>1. worker \in [Workers -> WorkerRecords] /\ Idle \in WorkerRecords
  BY DEF Typed, TypeOK, WorkerRecords, Idle
<1>2. Idle.pc = "idle" /\ Idle.tool = "none"
  BY DEF Idle
<1> QED BY <1>1, <1>2 DEF Release

(* What the checkpoints of a run write: at pc "from" the state s becomes   *)
(* t, and the worker goes on at pc, with a call of tool to make.           *)
Writes(from, s, t, pc, tool) ==
  \/ /\ pc = "decide" /\ tool \in Spent /\ (from = "loop" <=> tool = "turns")
     /\ Left(s, tool) > 0 /\ t = Spend(s, tool)
  \/ from # "loop" /\ pc = "loop" /\ tool = "none" /\ t = AddStep(s, Turn(s))
  \/ from # "loop" /\ pc = "loop" /\ tool = "none" /\ t = Asked(s)
  \/ from # "loop" /\ pc = "loop" /\ tool = "none" /\ t = Reported(s)
  \/ from = "loop" /\ pc = "loop" /\ tool = "none" /\ t = Abstained(s)
  \/ from # "loop" /\ pc = "check" /\ tool = "none" /\ t = [s EXCEPT !.draft = TRUE]

WriteStep(w) ==
  \/ StartTurn(w) \/ Abstain(w)
  \/ Pay(w) \/ EndTurn(w) \/ Ask(w) \/ Draft(w) \/ CheckDraft(w)

LEMMA WriteCases ==
  ASSUME Typed, NEW w \in Workers, WriteStep(w)
  PROVE  /\ ~At(w, "idle") /\ Mem(w) \in AgentStates /\ worker[w].tool = "none"
         /\ UNCHANGED calls
         /\ At(w, "loop") => Runs(Mem(w))
         /\ \E t, pc, tool : Writes(worker[w].pc, Mem(w), t, pc, tool) /\ Checkpoint(w, t, pc, tool)
<1>1. ~At(w, "idle")
  BY DEF WriteStep, StartTurn, Abstain, Pay, EndTurn, Ask, Draft, CheckDraft, Decided, At
<1>2. Mem(w) \in AgentStates
  BY <1>1 DEF Typed, WorkerOK, At, Mem
<1>3. worker[w].tool = "none"
  BY DEF WriteStep, StartTurn, Abstain, Pay, EndTurn, Ask, Draft, CheckDraft, Decided, At,
         Typed, WorkerOK
<1>4. UNCHANGED calls
  BY DEF WriteStep, StartTurn, Abstain, Pay, EndTurn, Ask, Draft, CheckDraft
<1>5. \E t, pc, tool : Writes(worker[w].pc, Mem(w), t, pc, tool) /\ Checkpoint(w, t, pc, tool)
  <2>1. CASE StartTurn(w)
    BY <2>1, SpentType DEF StartTurn, Writes, At, Decided
  <2>2. CASE Abstain(w)
    BY <2>2 DEF Abstain, Writes, At, Decided
  <2>3. CASE Pay(w)
    BY <2>3, ToolsAssumption DEF Pay, Writes, At, Decided, Spent
  <2>4. CASE EndTurn(w)
    BY <2>4 DEF EndTurn, Writes, At, Decided
  <2>5. CASE Ask(w)
    BY <2>5 DEF Ask, Writes, At, Decided
  <2>6. CASE Draft(w)
    BY <2>6 DEF Draft, Writes, At, Decided
  <2>7. CASE CheckDraft(w)
    BY <2>7 DEF CheckDraft, Writes, At, Decided
  <2> QED BY <2>1, <2>2, <2>3, <2>4, <2>5, <2>6, <2>7 DEF WriteStep
<1>6. At(w, "loop") => Runs(Mem(w))
  BY DEF WriteStep, StartTurn, Abstain, Pay, EndTurn, Ask, Draft, CheckDraft, Decided, At
<1> QED BY <1>1, <1>2, <1>3, <1>4, <1>5, <1>6

(* Every write yields a state of the Agent, whose fields are these.        *)
LEMMA WritesType ==
  ASSUME NEW s \in AgentStates, NEW t, NEW pc, NEW tool, NEW from,
         Writes(from, s, t, pc, tool)
  PROVE  /\ t \in AgentStates /\ t.start = s.start
         /\ pc \in {"loop", "decide", "check"}
         /\ tool \in Spent \cup {"none"}
         /\ pc # "decide" => tool = "none" /\ t.used = s.used
         /\ pc = "decide" => /\ tool \in Spent /\ (from = "loop" <=> tool = "turns")
                            /\ Left(s, tool) > 0
                            /\ t.used = [s.used EXCEPT ![tool] = @ + 1]
         /\ pc # "loop" => t.status = s.status /\ t.gate = s.gate /\ t.steps = s.steps
         /\ pc = "check" => from # "loop"
         /\ pc = "loop" =>
              \/ /\ from # "loop" /\ t.steps = Append(s.steps, Turn(s))
                 /\ \/ t.status = s.status /\ t.gate = s.gate
                    \/ t.status = "waiting_input" /\ t.gate = Turn(s)
                    \/ t.status = "completed"
              \/ t.status = "completed" /\ t.steps = Append(s.steps, Turn(s) + 1)
<1>1. Turn(s) \in Nat
  BY TurnType
<1>2. CASE /\ pc = "decide" /\ tool \in Spent /\ (from = "loop" <=> tool = "turns")
           /\ Left(s, tool) > 0 /\ t = Spend(s, tool)
  BY <1>2, SpendType
<1>3. CASE from # "loop" /\ pc = "loop" /\ tool = "none" /\ t = AddStep(s, Turn(s))
  BY <1>1, <1>3, AddStepType
<1>4. CASE from # "loop" /\ pc = "loop" /\ tool = "none" /\ t = Asked(s)
  BY <1>4, AskedType
<1>5. CASE /\ pc = "loop" /\ tool = "none"
           /\ (from # "loop" /\ t = Reported(s)) \/ t = Abstained(s)
  <2>1. Turn(s) + 1 \in Nat
    BY <1>1
  <2> QED BY <1>1, <1>5, <2>1, EndedType
<1>6. CASE from # "loop" /\ pc = "check" /\ tool = "none" /\ t = [s EXCEPT !.draft = TRUE]
  BY <1>6, DraftType
<1> QED BY <1>2, <1>3, <1>4, <1>5, <1>6 DEF Writes

(* The worker of a typed step has a typed record again.                    *)
LEMMA MovesTyped ==
  ASSUME Typed, NEW w \in Workers, NEW pc, NEW tool, NEW s \in AgentStates,
         Moves(w, pc, tool, s), pc # "decide" => tool = "none"
  PROVE  \A v \in Workers : WorkerOK(worker'[v])
<1>1. worker'[w] \in WorkerRecords /\ worker'[w].state = s
  BY DEF Moves
<1>2. WorkerOK(worker'[w])
  BY <1>1 DEF Moves, WorkerOK
<1> QED BY <1>2 DEF Moves, Typed

LEMMA ReleaseTyped ==
  ASSUME Typed, NEW w \in Workers, Release(w)
  PROVE  \A v \in Workers : WorkerOK(worker'[v])
<1>1. WorkerOK(worker'[w])
  BY ReleaseMoves DEF WorkerOK
<1> QED BY <1>1, ReleaseMoves DEF Typed

LEMMA ClaimMoves ==
  ASSUME Typed, NEW w \in Workers, Claim(w)
  PROVE  /\ worker' \in [Workers -> WorkerRecords]
         /\ \A v \in Workers \ {w} : worker'[v] = worker[v]
         /\ worker'[w].pc = "loop" /\ worker'[w].tool = "none"
         /\ worker'[w].attempt = attempt + 1
         /\ worker'[w].state = (IF saved = NoState THEN FreshState ELSE saved)
         /\ worker'[w].state \in AgentStates
<1> DEFINE s == IF saved = NoState THEN FreshState ELSE saved
           r == [pc |-> "loop", attempt |-> attempt + 1, tool |-> "none", state |-> s]
<1>1. s \in AgentStates
  BY FreshType DEF Typed, TypeOK
<1>2. r \in WorkerRecords
  BY <1>1 DEF Typed, TypeOK, WorkerRecords
<1>3. r.pc = "loop" /\ r.tool = "none" /\ r.attempt = attempt + 1 /\ r.state = s
  OBVIOUS
<1>4. worker' = [worker EXCEPT ![w] = r] /\ worker \in [Workers -> WorkerRecords]
  BY DEF Claim, Typed, TypeOK, WorkerRecords
<1> HIDE DEF r
<1> QED BY <1>1, <1>2, <1>3, <1>4

LEMMA NextTyped == Typed /\ [Next]_vars => Typed'
<1> SUFFICES ASSUME Typed, [Next]_vars
             PROVE  Typed'
  OBVIOUS
<1> USE DEF TypeOK
<1>1. ASSUME NEW w \in Workers, Claim(w) PROVE Typed'
  <2>1. WorkerOK(worker'[w])
    BY <1>1, ClaimMoves DEF WorkerOK
  <2> QED BY <1>1, <2>1, ClaimMoves DEF Claim, Typed, WorkerRecords
<1>2. ASSUME NEW w \in Workers, WriteStep(w) PROVE Typed'
  <2> DEFINE from == worker[w].pc
  <2>1. PICK t, pc, tool : Writes(from, Mem(w), t, pc, tool) /\ Checkpoint(w, t, pc, tool)
    BY <1>2, WriteCases
  <2> HIDE DEF from
  <2>2. /\ t \in AgentStates
        /\ pc \in {"loop", "decide", "check"}
        /\ tool \in Spent \cup {"none"}
        /\ pc # "decide" => tool = "none"
    BY <1>2, <2>1, WriteCases, WritesType
  <2>3. Moves(w, pc, tool, t)
    BY <2>1, <2>2, CheckpointMoves
  <2>4. /\ worker' \in [Workers -> WorkerRecords]
        /\ \A v \in Workers : WorkerOK(worker'[v])
    BY <2>2, <2>3, MovesTyped DEF Moves
  <2> QED BY <1>2, <2>1, <2>2, <2>4, WriteCases DEF Checkpoint, CanWrite, Typed, WorkerRecords
<1>3. ASSUME NEW w \in Workers, Call(w) PROVE Typed'
  <2>1. /\ worker' \in [Workers -> WorkerRecords]
        /\ \A v \in Workers : WorkerOK(worker'[v])
    BY <1>3, CallMoves, MovesTyped DEF Moves
  <2>2. calls' \in [Spent -> Nat]
    BY <1>3, CallMoves DEF Call, Typed
  <2> QED BY <1>3, <2>1, <2>2 DEF Call, Typed, WorkerRecords
<1>4. ASSUME NEW w \in Workers, Pause(w) \/ Complete(w) \/ Fail(w) \/ Fenced(w) \/ Crash(w)
      PROVE  Typed'
  <2>1. Release(w) /\ UNCHANGED <<attempt, calls, human, answered>>
    BY <1>4 DEF Pause, Complete, Fail, Fenced, Crash
  <2>2. /\ worker' \in [Workers -> WorkerRecords]
        /\ \A v \in Workers : WorkerOK(worker'[v])
    BY <2>1, ReleaseMoves, ReleaseTyped
  <2>3. saved' \in AgentStates \cup {NoState}
    BY <1>4 DEF Pause, Complete, Fail, Fenced, Crash, Typed, WorkerOK, At, Mem
  <2>4. /\ status' \in {"queued", "running", "waiting_input", "succeeded", "failed"}
        /\ status' = "waiting_input" => saved' \in AgentStates
    BY <1>4 DEF Pause, Complete, Fail, Fenced, Crash, Typed, WorkerOK, At, Mem
  <2> QED BY <2>1, <2>2, <2>3, <2>4 DEF Typed, WorkerRecords
<1>5. CASE SweepAway \/ Retry
  <2>1. \A v \in Workers : WorkerOK(worker'[v])
    BY <1>5 DEF SweepAway, Retry, Typed
  <2>2. TypeOK'
    <3>1. CASE SweepAway
      BY <3>1 DEF SweepAway, Typed
    <3>2. CASE Retry
      BY <3>2 DEF Retry, Typed
    <3> QED BY <1>5, <3>1, <3>2
  <2>3. status' # "waiting_input"
    BY <1>5 DEF SweepAway, Retry
  <2> QED BY <2>1, <2>2, <2>3 DEF Typed
<1>6. CASE Answer
  <2>1. saved \in AgentStates
    BY <1>6 DEF Answer, Typed
  <2>2. saved' \in AgentStates /\ saved.gate \in Nat
    BY <1>6, <2>1, AnswerType DEF Answer, AgentStates
  <2>3. TypeOK'
    <3>1. human' \in Nat /\ status' = "queued" /\ answered' = answered \cup {saved.gate}
      BY <1>6 DEF Answer, Typed
    <3>2. answered \subseteq Nat
      BY DEF Typed
    <3>3. answered' \subseteq Nat
      <4> HIDE DEF TypeOK
      <4> QED BY <2>2, <3>1, <3>2
    <3>4. UNCHANGED <<attempt, worker, calls>>
      BY <1>6 DEF Answer
    <3> QED BY <2>2, <3>1, <3>3, <3>4 DEF Typed
  <2>4. \A v \in Workers : WorkerOK(worker'[v])
    BY <1>6 DEF Answer, Typed
  <2> QED BY <1>6, <2>3, <2>4 DEF Answer, Typed
<1>7. CASE UNCHANGED vars
  BY <1>7 DEF vars, Typed
<1> QED BY <1>1, <1>2, <1>3, <1>4, <1>5, <1>6, <1>7 DEF Next, LoopStep, WriteStep

LEMMA AlwaysTyped == Spec => []Typed
BY InitTyped, NextTyped, PTL DEF Spec

(* Every variable keeps its type, for all tools, budgets and workers.      *)
THEOREM LoopTypeCorrect == Spec => []TypeOK
BY AlwaysTyped, PTL DEF Typed

-----------------------------------------------------------------------------
(* The fence.  Only one worker can write, the one whose memory the saved   *)
(* state is, and between two steps of the Agent it works on a running one. *)
Cur == IF saved = NoState THEN FreshState ELSE saved
Holds(w) == ~At(w, "idle") /\ CanWrite(w)

Fence ==
  /\ \A w \in Workers : ~At(w, "idle") => worker[w].attempt <= attempt
  /\ \A v, w \in Workers :
       ~At(v, "idle") /\ ~At(w, "idle") /\ worker[v].attempt = worker[w].attempt => v = w
  /\ \A w \in Workers : Holds(w) => Mem(w) = Cur
  /\ \A w \in Workers : Holds(w) /\ ~At(w, "loop") => Cur.status = "running"

LEMMA CurType == Typed => Cur \in AgentStates
BY FreshType DEF Cur, Typed, TypeOK

LEMMA InitFence == Init => Fence
<1>1. Idle.pc = "idle"
  BY DEF Idle
<1> QED BY <1>1 DEF Init, Fence, At, Holds

(* A checkpoint: what it makes of the saved state.                         *)
WriteEffect(w, t, pc, tool) ==
  /\ Holds(w) /\ worker[w].tool = "none"
  /\ Cur.status = "running" /\ saved' = t /\ Cur' = t /\ t \in AgentStates
  /\ Writes(worker[w].pc, Cur, t, pc, tool)
  /\ Moves(w, pc, tool, t)
  /\ UNCHANGED <<status, attempt, calls, human, answered>>

LEMMA WriteEffects ==
  ASSUME Typed, Fence, NEW w \in Workers, WriteStep(w)
  PROVE  \E t, pc, tool : WriteEffect(w, t, pc, tool)
<1> DEFINE from == worker[w].pc
<1>1. PICK t, pc, tool : Writes(from, Mem(w), t, pc, tool) /\ Checkpoint(w, t, pc, tool)
  BY WriteCases
<1>2. Holds(w) /\ Mem(w) = Cur /\ worker[w].tool = "none"
  BY <1>1, WriteCases DEF Checkpoint, Fence, Holds
<1>3. Cur.status = "running"
  BY <1>2, WriteCases DEF Fence, Runs
<1> HIDE DEF from
<1>4. /\ t \in AgentStates /\ pc \in {"loop", "decide", "check"}
      /\ tool \in Spent \cup {"none"}
  BY <1>1, WriteCases, WritesType
<1>5. Moves(w, pc, tool, t)
  BY <1>1, <1>4, CheckpointMoves
<1>6. saved' = t /\ Cur' = t
  BY <1>1, <1>4, NoStateAssumption DEF Checkpoint, Cur
<1> QED BY <1>1, <1>2, <1>3, <1>4, <1>5, <1>6, WriteCases DEF Checkpoint, WriteEffect, from

(* A worker that stops, and a task that is settled or waits.               *)
Stop(w) == Pause(w) \/ Complete(w) \/ Fail(w) \/ Fenced(w) \/ Crash(w)

LEMMA StopEffects ==
  ASSUME Typed, Fence, NEW w \in Workers, Stop(w)
  PROVE  /\ worker' \in [Workers -> WorkerRecords]
         /\ \A v \in Workers \ {w} : worker'[v] = worker[v]
         /\ worker'[w].pc = "idle" /\ worker'[w].tool = "none"
         /\ saved' = saved \/ (saved = NoState /\ saved' = FreshState)
         /\ Cur' = Cur
         /\ status' = status \/ status' \in {"waiting_input", "succeeded", "failed"}
         /\ status' = "waiting_input" => status = "waiting_input" \/ Cur.status = "waiting_input"
         /\ UNCHANGED <<attempt, calls, human, answered>>
<1>1. Release(w) /\ UNCHANGED <<attempt, calls, human, answered>>
  BY DEF Stop, Pause, Complete, Fail, Fenced, Crash
<1>2. saved' = saved \/ saved' = Cur
  BY DEF Stop, Pause, Complete, Fail, Fenced, Crash, Fence, Holds, At
<1>3. Cur' = Cur
  BY <1>2, FreshType, NoStateAssumption DEF Cur
<1>4. /\ status' = status \/ status' \in {"waiting_input", "succeeded", "failed"}
      /\ status' = "waiting_input" => status = "waiting_input" \/ Cur.status = "waiting_input"
  BY DEF Stop, Pause, Complete, Fail, Fenced, Crash, Fence, Holds, At
<1> QED BY <1>1, <1>2, <1>3, <1>4, ReleaseMoves DEF Cur

LEMMA NextFence == Typed /\ Fence /\ [Next]_vars => Fence'
<1> SUFFICES ASSUME Typed, Fence, [Next]_vars
             PROVE  Fence'
  OBVIOUS
<1> USE DEF At, Holds, CanWrite, Mem
<1>1. ASSUME NEW w \in Workers, Claim(w) PROVE Fence'
  <2>1. Cur' = Cur /\ attempt' = attempt + 1 /\ attempt \in Nat
    BY <1>1 DEF Claim, Cur, Typed, TypeOK
  <2>2. \A v \in Workers \ {w} : worker'[v].pc # "idle" =>
          worker'[v].attempt < attempt' /\ worker'[v].attempt \in Nat
    <3>1. ASSUME NEW v \in Workers \ {w}, worker'[v].pc # "idle"
          PROVE  worker[v].attempt <= attempt /\ worker[v].attempt \in Nat /\ worker'[v] = worker[v]
      BY <1>1, <3>1, ClaimMoves DEF Fence, Typed, WorkerOK, WorkerRecords
    <3> QED BY <2>1, <3>1
  <2>3. /\ \A v \in Workers \ {w} : worker'[v] = worker[v]
        /\ worker'[w].pc = "loop" /\ worker'[w].attempt = attempt' /\ worker'[w].state = Cur'
    BY <1>1, <2>1, ClaimMoves DEF Cur
  <2>4. \A v \in Workers : worker'[v].pc # "idle" => worker'[v].attempt <= attempt'
    BY <2>1, <2>2, <2>3
  <2>5. \A v \in Workers : Holds(v)' => v = w
    BY <2>1, <2>2, <1>1, ClaimMoves DEF WorkerRecords
  <2>6. \A u, v \in Workers :
          worker'[u].pc # "idle" /\ worker'[v].pc # "idle" /\ worker'[u].attempt = worker'[v].attempt
          => u = v
    BY <2>1, <2>2, <2>3 DEF Fence
  <2> QED BY <2>3, <2>4, <2>5, <2>6 DEF Fence
<1>2. ASSUME NEW w \in Workers, WriteStep(w) PROVE Fence'
  <2> DEFINE from == worker[w].pc
  <2>1. PICK t, pc, tool : WriteEffect(w, t, pc, tool)
    BY <1>2, WriteEffects
  <2>2. Writes(from, Cur, t, pc, tool)
    BY <2>1 DEF WriteEffect
  <2>3. pc # "loop" => t.status = Cur.status
    <3> HIDE DEF from
    <3> QED BY <2>2, CurType, WritesType
  <2>4. \A v \in Workers \ {w} : ~Holds(v)'
    BY <2>1 DEF WriteEffect, Moves, Fence
  <2>5. worker'[w].state = Cur' /\ (worker'[w].pc # "loop" => Cur'.status = "running")
    BY <2>1, <2>3 DEF WriteEffect, Moves
  <2> QED BY <2>1, <2>4, <2>5 DEF WriteEffect, Moves, Fence
<1>3. ASSUME NEW w \in Workers, Call(w) PROVE Fence'
  <2>1. /\ UNCHANGED <<status, attempt, saved>> /\ Cur' = Cur
        /\ \A v \in Workers : /\ worker'[v].pc = worker[v].pc
                              /\ worker'[v].attempt = worker[v].attempt
                              /\ worker'[v].state = worker[v].state
    BY <1>3, CallMoves DEF Call, Cur, Moves
  <2> QED BY <2>1 DEF Fence
<1>4. ASSUME NEW w \in Workers, Stop(w) PROVE Fence'
  <2>1. \A v \in Workers : Holds(v)' => Holds(v) /\ worker'[v] = worker[v]
    BY <1>4, StopEffects
  <2>2. \A v \in Workers : worker'[v].pc # "idle" => worker'[v] = worker[v]
    BY <1>4, StopEffects
  <2> QED BY <1>4, <2>1, <2>2, StopEffects DEF Fence
<1>5. CASE SweepAway \/ Answer \/ Retry
  BY <1>5 DEF SweepAway, Answer, Retry, Fence
<1>6. CASE UNCHANGED vars
  BY <1>6 DEF vars, Fence, Cur
<1> QED BY <1>1, <1>2, <1>3, <1>4, <1>5, <1>6 DEF Next, LoopStep, WriteStep, Stop

LEMMA AlwaysFenced == Spec => []Fence
BY InitFence, NextFence, AlwaysTyped, PTL DEF Spec

(* The steps that leave the state of the Agent as it is.                   *)
Neutral(w) == Claim(w) \/ Call(w) \/ Stop(w)

LEMMA NeutralEffects ==
  ASSUME Typed, Fence, NEW w \in Workers, Neutral(w)
  PROVE  /\ Cur' = Cur /\ UNCHANGED <<human, answered>>
         /\ saved' = saved \/ saved = NoState
         /\ status' = "waiting_input" => status = "waiting_input" \/ Cur.status = "waiting_input"
         /\ \A v \in Workers : (Holds(v) /\ ~At(v, "loop"))' => Holds(v) /\ ~At(v, "loop")
<1>1. CASE Claim(w)
  <2>1. UNCHANGED <<human, answered, saved>> /\ Cur' = Cur /\ status' # "waiting_input"
    BY <1>1 DEF Claim, Cur
  <2>2. /\ \A v \in Workers \ {w} : worker'[v] = worker[v]
        /\ worker'[w].pc = "loop" /\ attempt' = attempt + 1 /\ attempt \in Nat
    BY <1>1, ClaimMoves DEF Claim, Typed, TypeOK
  <2>3. ASSUME NEW v \in Workers \ {w}, Holds(v)' PROVE FALSE
    <3>1. worker[v].pc # "idle" /\ worker[v].attempt = attempt + 1
      BY <2>2, <2>3 DEF Holds, At, CanWrite
    <3>2. worker[v].attempt <= attempt
      BY <3>1 DEF Fence, At
    <3> QED BY <2>2, <3>1, <3>2
  <2> QED BY <2>1, <2>2, <2>3 DEF At
<1>2. CASE Call(w)
  <2>1. UNCHANGED <<human, answered, saved, status, attempt>> /\ Cur' = Cur
    BY <1>2 DEF Call, Cur
  <2>2. \A v \in Workers : worker'[v].pc = worker[v].pc /\ worker'[v].attempt = worker[v].attempt
    BY <1>2, CallMoves DEF Moves, At
  <2> QED BY <2>1, <2>2 DEF Holds, At, CanWrite
<1>3. CASE Stop(w)
  BY <1>3, StopEffects DEF Holds, At, CanWrite
<1> QED BY <1>1, <1>2, <1>3 DEF Neutral

LEMMA NextCases ==
  [Next]_vars => \/ \E w \in Workers : Neutral(w) \/ WriteStep(w)
                 \/ SweepAway \/ Answer \/ Retry \/ UNCHANGED vars
BY DEF Next, LoopStep, Neutral, WriteStep, Stop

(* What an answer and a retry make of the saved state.                     *)
LEMMA AnswerEffects ==
  ASSUME Typed, Answer
  PROVE  /\ saved = Cur /\ Cur.status = "waiting_input" /\ Cur' = AnswerAgent(Cur)
         /\ human' = human + 1 /\ answered' = answered \cup {Cur.gate}
         /\ status' = "queued" /\ UNCHANGED <<worker, calls>>
<1>1. saved \in AgentStates
  BY DEF Answer, Typed
<1>2. saved = Cur /\ AnswerAgent(saved) \in AgentStates
  BY <1>1, AnswerType, NoStateAssumption DEF Cur
<1>3. Cur' = AnswerAgent(Cur)
  BY <1>2, NoStateAssumption DEF Answer, Cur
<1> QED BY <1>2, <1>3 DEF Answer

LEMMA RetryEffects ==
  ASSUME Typed, Retry
  PROVE  /\ Cur' = FreshState /\ human' = human + 1 /\ answered' = {}
         /\ status' = "queued" /\ UNCHANGED <<worker, calls>>
BY DEF Retry, Cur

-----------------------------------------------------------------------------
(* A report or a question that was saved is kept.                          *)
LEMMA NextKeeps ==
  ASSUME Typed, Fence, [Next]_vars,
         saved # NoState, saved.status # "running", saved' # saved
  PROVE  status \in {"waiting_input", "failed"} /\ status' = "queued"
<1>1. ASSUME NEW w \in Workers, WriteStep(w) PROVE FALSE
  BY <1>1, WriteEffects DEF WriteEffect, Cur
<1>2. ASSUME NEW w \in Workers, Neutral(w) PROVE FALSE
  BY <1>2, NeutralEffects
<1>3. ~SweepAway /\ ~UNCHANGED vars
  BY DEF SweepAway, vars
<1> QED BY <1>1, <1>2, <1>3, NextCases DEF Answer, Retry

(* A state saved with a report or a question is changed by an answer or a  *)
(* retry alone: a successor of a dead worker does not work on it.          *)
THEOREM OutcomesAreKept == Spec => OutcomeIsKept
<1>1. Typed /\ Fence /\ [Next]_vars =>
        [saved # NoState /\ saved.status # "running" /\ saved' # saved =>
           status \in {"waiting_input", "failed"} /\ status' = "queued"]_vars
  BY NextKeeps
<1> QED BY <1>1, AlwaysTyped, AlwaysFenced, PTL DEF Spec, OutcomeIsKept

-----------------------------------------------------------------------------
(* Questions.  A gate is the turn that asked, and every answer takes a     *)
(* turn, so gates answered are smaller than any turn to come.              *)
Gates ==
  /\ \A g \in answered : g < Turn(Cur)
  /\ Cur.status = "waiting_input" => Cur.gate = Turn(Cur)
  /\ status = "waiting_input" => Cur.status = "waiting_input"

LEMMA InitGates == Init => Gates
BY DEF Init, Gates, Cur, FreshState

(* Turns are counted, never given back.                                    *)
LEMMA WritesTurn ==
  ASSUME NEW s \in AgentStates, NEW t, NEW pc, NEW tool, NEW from,
         Writes(from, s, t, pc, tool)
  PROVE  /\ Turn(s) \in Nat /\ Turn(t) \in Nat /\ Turn(t) >= Turn(s)
         /\ pc # "decide" => Turn(t) = Turn(s)
         /\ from = "loop" /\ pc = "decide" => Turn(t) = Turn(s) + 1
         /\ from # "loop" => Turn(t) = Turn(s)
<1>1. Turn(s) \in Nat /\ s.used \in [Spent -> Nat] /\ "turns" \in Spent
  BY TurnType, SpentType DEF AgentStates
<1>2. CASE /\ pc = "decide" /\ tool \in Spent /\ (from = "loop" <=> tool = "turns")
           /\ t = Spend(s, tool)
  <2>1. t.used = [s.used EXCEPT ![tool] = @ + 1]
    BY <1>2, SpendType
  <2> QED BY <1>1, <1>2, <2>1 DEF Turn
<1>3. CASE pc # "decide" /\ t.used = s.used
  BY <1>1, <1>3 DEF Turn
<1>4. t = AddStep(s, Turn(s)) \/ t = Asked(s) => t.used = s.used
  <2>1. AddStep(s, Turn(s)).used = s.used
    BY <1>1, AddStepType
  <2>2. Asked(s).used = s.used
    BY AskedType
  <2> QED BY <2>1, <2>2
<1>5. t = Reported(s) \/ t = Abstained(s) => t.used = s.used
  <2>1. Turn(s) + 1 \in Nat
    BY <1>1
  <2>2. Reported(s).used = s.used /\ Abstained(s).used = s.used
    BY <1>1, <2>1, EndedType
  <2> QED BY <2>2
<1>6. t = [s EXCEPT !.draft = TRUE] => t.used = s.used
  BY DraftType
<1> QED BY <1>2, <1>3, <1>4, <1>5, <1>6 DEF Writes

LEMMA AnswerTurn ==
  ASSUME NEW s \in AgentStates
  PROVE  Turn(AnswerAgent(s)) = Turn(s) + 1 /\ Turn(s) \in Nat
<1>1. s.used \in [Spent -> Nat]
  BY DEF AgentStates
<1> QED BY <1>1, AnswerType, TurnType, SpentType DEF Turn

LEMMA NextGates == Typed /\ Fence /\ Gates /\ [Next]_vars => Gates'
<1> SUFFICES ASSUME Typed, Fence, Gates, [Next]_vars
             PROVE  Gates'
  OBVIOUS
<1>1. ASSUME NEW w \in Workers, WriteStep(w) PROVE Gates'
  <2> DEFINE from == worker[w].pc
  <2>1. PICK t, pc, tool : WriteEffect(w, t, pc, tool)
    BY <1>1, WriteEffects
  <2>2. /\ Cur.status = "running" /\ Cur' = t /\ UNCHANGED <<status, answered>>
        /\ Writes(from, Cur, t, pc, tool)
    BY <2>1 DEF WriteEffect
  <2> HIDE DEF from
  <2>3. Turn(Cur) \in Nat /\ Turn(t) \in Nat /\ Turn(t) >= Turn(Cur)
    BY <2>2, WritesTurn, CurType
  <2>4. t.status = "waiting_input" => t.gate = Turn(t)
    <3>1. t.status = "waiting_input" => pc = "loop" /\ t.gate = Turn(Cur)
      BY <2>2, WritesType, CurType
    <3> QED BY <2>2, <3>1, WritesTurn, CurType
  <2>5. status # "waiting_input"
    BY <2>2 DEF Gates
  <2>6. \A g \in answered : g < Turn(t)
    BY <2>3 DEF Gates, Typed, TypeOK
  <2> QED BY <2>2, <2>4, <2>5, <2>6 DEF Gates
<1>2. ASSUME NEW w \in Workers, Neutral(w) PROVE Gates'
  BY <1>2, NeutralEffects DEF Gates
<1>3. CASE Answer
  <2>1. Cur.gate = Turn(Cur) /\ Cur'.status = "running"
    BY <1>3, AnswerEffects, AnswerType, CurType DEF Gates
  <2>2. Turn(Cur') = Turn(Cur) + 1 /\ Turn(Cur) \in Nat
    BY <1>3, AnswerEffects, AnswerTurn, CurType
  <2>3. \A g \in answered' : g < Turn(Cur')
    <3>1. answered \subseteq Nat /\ answered' = answered \cup {Turn(Cur)}
      BY <1>3, <2>1, AnswerEffects DEF Typed, TypeOK
    <3> QED BY <2>2, <3>1 DEF Gates
  <2> QED BY <1>3, <2>1, <2>3, AnswerEffects DEF Gates
<1>4. CASE Retry
  BY <1>4, RetryEffects DEF Gates, FreshState
<1>5. CASE SweepAway \/ UNCHANGED vars
  BY <1>5 DEF SweepAway, vars, Gates, Cur
<1> QED BY <1>1, <1>2, <1>3, <1>4, <1>5, NextCases

(* A question that was answered is not put again in the same run.          *)
THEOREM GatesAnsweredOnce == Spec => []NoQuestionReopened
<1>1. Spec => []Gates
  BY InitGates, NextGates, AlwaysTyped, AlwaysFenced, PTL DEF Spec
<1>2. Typed /\ Gates => NoQuestionReopened
  <2> SUFFICES ASSUME Typed, Gates, status = "waiting_input"
               PROVE  saved.gate \notin answered
    BY DEF NoQuestionReopened
  <2>1. saved = Cur /\ saved \in AgentStates
    BY NoStateAssumption DEF Typed, Cur
  <2>2. saved.gate = Turn(Cur) /\ Turn(Cur) \in Nat
    BY <2>1, TurnType DEF Gates
  <2> QED BY <2>2 DEF Gates
<1> QED BY <1>1, <1>2, AlwaysTyped, PTL

-----------------------------------------------------------------------------
(* Steps.  Until its run is over a state has no step after the turn it is  *)
(* in, and within a turn none of that turn yet.                            *)
Rising(q) == \A i, j \in DOMAIN q : i < j => q[i] < q[j]
Below(q, n) == \A i \in DOMAIN q : q[i] < n

Steps ==
  /\ Rising(Cur.steps)
  /\ Cur.status # "completed" => Below(Cur.steps, Turn(Cur) + 1)
  /\ \A w \in Workers : Holds(w) /\ ~At(w, "loop") => Below(Cur.steps, Turn(Cur))

LEMMA AppendRising ==
  ASSUME NEW q \in Seq(Nat), NEW n \in Nat, Rising(q), Below(q, n)
  PROVE  Rising(Append(q, n)) /\ Below(Append(q, n), n + 1)
<1>1. DOMAIN Append(q, n) = 1..(Len(q) + 1) /\ DOMAIN q = 1..Len(q) /\ Len(q) \in Nat
  OBVIOUS
<1>2. /\ \A i \in 1..Len(q) : Append(q, n)[i] = q[i] /\ q[i] \in Nat
      /\ Append(q, n)[Len(q) + 1] = n
  OBVIOUS
<1>3. \A i \in 1..Len(q) : Append(q, n)[i] < n
  BY <1>1, <1>2 DEF Below
<1>4. ASSUME NEW i \in 1..(Len(q) + 1), NEW j \in 1..(Len(q) + 1), i < j
      PROVE  Append(q, n)[i] < Append(q, n)[j]
  <2>1. i \in 1..Len(q)
    BY <1>1, <1>4
  <2>2. CASE j = Len(q) + 1
    BY <1>2, <1>3, <2>1, <2>2
  <2>3. CASE j \in 1..Len(q)
    <3>1. q[i] < q[j]
      BY <1>1, <1>4, <2>1, <2>3 DEF Rising
    <3> QED BY <1>2, <2>1, <2>3, <3>1
  <2> QED BY <1>1, <2>2, <2>3
<1>5. ASSUME NEW i \in 1..(Len(q) + 1) PROVE Append(q, n)[i] < n + 1
  <2>1. CASE i = Len(q) + 1
    BY <1>2, <2>1
  <2>2. CASE i \in 1..Len(q)
    <3>1. Append(q, n)[i] < n /\ Append(q, n)[i] \in Nat
      BY <1>2, <1>3, <2>2
    <3> QED BY <3>1
  <2> QED BY <1>1, <2>1, <2>2
<1> QED BY <1>1, <1>4, <1>5 DEF Rising, Below

LEMMA BelowNext ==
  ASSUME NEW q \in Seq(Nat), NEW n \in Nat, Below(q, n)
  PROVE  Below(q, n + 1)
<1>1. \A i \in DOMAIN q : q[i] \in Nat
  OBVIOUS
<1> QED BY <1>1 DEF Below

(* Of the steps: a turn still open leaves them alone, a closed one has one *)
(* more, and a run cut off one of the turn it did not get.                 *)
LEMMA WritesSteps ==
  ASSUME NEW s \in AgentStates, NEW t, NEW pc, NEW tool, NEW from,
         Writes(from, s, t, pc, tool)
  PROVE  \/ pc = "decide" /\ t.steps = s.steps
         \/ pc = "check" /\ from # "loop" /\ t.steps = s.steps
         \/ pc = "loop" /\ from # "loop" /\ t.steps = Append(s.steps, Turn(s))
         \/ /\ pc = "loop" /\ t.status = "completed"
            /\ t.steps = Append(s.steps, Turn(s) + 1)
<1>1. Turn(s) \in Nat /\ Turn(s) + 1 \in Nat
  BY TurnType
<1>2. ASSUME tool \in Spent, t = Spend(s, tool) PROVE t.steps = s.steps
  BY <1>2, SpendType
<1>3. t = [s EXCEPT !.draft = TRUE] => t.steps = s.steps
  BY DraftType
<1>4. AddStep(s, Turn(s)).steps = Append(s.steps, Turn(s))
  BY <1>1, AddStepType
<1>5. Asked(s).steps = Append(s.steps, Turn(s))
  BY AskedType
<1>6. Reported(s).steps = Append(s.steps, Turn(s))
  BY <1>1, EndedType
<1>7. Abstained(s).steps = Append(s.steps, Turn(s) + 1) /\ Abstained(s).status = "completed"
  BY <1>1, EndedType
<1> QED BY <1>2, <1>3, <1>4, <1>5, <1>6, <1>7 DEF Writes

LEMMA InitSteps == Init => Steps
<1>1. DOMAIN << >> = {}
  OBVIOUS
<1>2. FreshState.steps = << >> /\ (Init => Cur = FreshState /\ \A w \in Workers : At(w, "idle"))
  BY DEF Init, Cur, FreshState, At, Idle
<1> QED BY <1>1, <1>2 DEF Steps, Rising, Below, Holds

LEMMA NextSteps == Typed /\ Fence /\ Steps /\ [Next]_vars => Steps'
<1> SUFFICES ASSUME Typed, Fence, Steps, [Next]_vars
             PROVE  Steps'
  OBVIOUS
<1>0. Cur \in AgentStates /\ Cur.steps \in Seq(Nat) /\ Turn(Cur) \in Nat /\ Turn(Cur) + 1 \in Nat
  BY CurType, TurnType DEF AgentStates
<1>1. ASSUME NEW w \in Workers, WriteStep(w) PROVE Steps'
  <2> DEFINE from == worker[w].pc
  <2>1. PICK t, pc, tool : WriteEffect(w, t, pc, tool)
    BY <1>1, WriteEffects
  <2>2. /\ Cur.status = "running" /\ Cur' = t /\ Writes(from, Cur, t, pc, tool)
        /\ worker'[w].pc = pc
    BY <2>1 DEF WriteEffect, Moves
  <2>3. \A v \in Workers \ {w} : ~Holds(v)'
    BY <2>1 DEF WriteEffect, Moves, Fence, Holds, At, CanWrite
  <2>4. Below(Cur.steps, Turn(Cur) + 1) /\ (from # "loop" => Below(Cur.steps, Turn(Cur)))
    BY <2>1, <2>2 DEF Steps, WriteEffect, At
  <2> HIDE DEF from
  <2>5. /\ pc # "decide" => Turn(t) = Turn(Cur)
        /\ from = "loop" /\ pc = "decide" => Turn(t) = Turn(Cur) + 1
        /\ from # "loop" => Turn(t) = Turn(Cur)
    BY <1>0, <2>2, WritesTurn
  <2>6. CASE pc # "loop"
    <3>1. t.steps = Cur.steps /\ (pc = "check" => from # "loop") /\ pc \in {"decide", "check"}
      BY <1>0, <2>2, <2>6, WritesSteps
    <3>2. Below(t.steps, Turn(t)) /\ Below(t.steps, Turn(t) + 1)
      BY <1>0, <2>4, <2>5, <2>6, <3>1, BelowNext
    <3> QED BY <2>2, <2>3, <3>1, <3>2 DEF Steps
  <2>7. CASE pc = "loop"
    <3>1. \/ from # "loop" /\ t.steps = Append(Cur.steps, Turn(Cur))
          \/ t.status = "completed" /\ t.steps = Append(Cur.steps, Turn(Cur) + 1)
      BY <1>0, <2>2, <2>7, WritesSteps
    <3>2. CASE from # "loop" /\ t.steps = Append(Cur.steps, Turn(Cur))
      <4>1. Rising(t.steps) /\ Below(t.steps, Turn(t) + 1)
        BY <1>0, <2>4, <2>5, <3>2, AppendRising DEF Steps
      <4> QED BY <2>2, <2>3, <2>7, <4>1 DEF Steps, At
    <3>3. CASE t.status = "completed" /\ t.steps = Append(Cur.steps, Turn(Cur) + 1)
      <4>1. Rising(t.steps)
        BY <1>0, <2>4, <3>3, AppendRising DEF Steps
      <4> QED BY <2>2, <2>3, <2>7, <3>3, <4>1 DEF Steps, At
    <3> QED BY <3>1, <3>2, <3>3
  <2> QED BY <2>6, <2>7
<1>2. ASSUME NEW w \in Workers, Neutral(w) PROVE Steps'
  BY <1>2, NeutralEffects DEF Steps
<1>3. CASE Answer
  <2>1. /\ Cur.status = "waiting_input" /\ Cur' = AnswerAgent(Cur) /\ status' = "queued"
        /\ Cur'.steps = Append(Cur.steps, Turn(Cur) + 1) /\ Turn(Cur') = Turn(Cur) + 1
    BY <1>0, <1>3, AnswerEffects, AnswerType, AnswerTurn
  <2>2. Rising(Cur'.steps) /\ Below(Cur'.steps, Turn(Cur') + 1)
    BY <1>0, <2>1, AppendRising DEF Steps
  <2> QED BY <2>1, <2>2 DEF Steps, Holds, CanWrite
<1>4. CASE Retry
  <2>1. Cur'.steps = << >> /\ status' = "queued"
    BY <1>4, RetryEffects DEF FreshState
  <2>2. DOMAIN << >> = {}
    OBVIOUS
  <2> QED BY <2>1, <2>2 DEF Steps, Rising, Below, Holds, CanWrite
<1>5. CASE SweepAway
  <2>1. Cur' = Cur /\ status' = "failed"
    BY <1>5 DEF SweepAway, Cur
  <2> QED BY <2>1 DEF Steps, Holds, CanWrite
<1>6. CASE UNCHANGED vars
  BY <1>6 DEF vars, Steps, Cur, Holds, At, CanWrite
<1> QED BY <1>1, <1>2, <1>3, <1>4, <1>5, <1>6, NextCases

(* The steps saved for a task have rising numbers, whatever turns were     *)
(* lost, answered or cut off, so no step takes the row of another.         *)
THEOREM StepsNeverCollide == Spec => []StepsRise
<1>1. Spec => []Steps
  BY InitSteps, NextSteps, AlwaysTyped, AlwaysFenced, PTL DEF Spec
<1>2. Steps => StepsRise
  BY DEF Steps, StepsRise, Rising, Cur
<1> QED BY <1>1, <1>2, PTL

-----------------------------------------------------------------------------
(* Budgets.  Of what people granted, what was called, what is paid for but *)
(* not called yet and what is left of the current budget is never more.    *)
Pending(k) == {w \in Workers : worker[w].tool = k}

Account(k) ==
  /\ IsFiniteSet(Pending(k))
  /\ Left(Cur, k) >= 0
  /\ calls[k] + Cardinality(Pending(k)) + Left(Cur, k) <= Limit[k] * (1 + human)

Accounts == \A k \in Spent : Account(k)

LEMMA LeftType ==
  ASSUME NEW s \in AgentStates, NEW k \in Spent
  PROVE  Left(s, k) \in Int
BY SpentType DEF Left, AgentStates

LEMMA SpendLeft ==
  ASSUME NEW s \in AgentStates, NEW j \in Spent, NEW k \in Spent
  PROVE  Left(Spend(s, j), k) = (IF k = j THEN Left(s, k) - 1 ELSE Left(s, k))
<1>1. s.used \in [Spent -> Nat] /\ s.start \in [Spent -> Nat]
  BY DEF AgentStates
<1>2. /\ Spend(s, j).used[k] = (IF k = j THEN s.used[k] + 1 ELSE s.used[k])
      /\ Spend(s, j).start[k] = s.start[k]
  <2>1. Spend(s, j).used = [s.used EXCEPT ![j] = @ + 1] /\ Spend(s, j).start = s.start
    BY SpendType
  <2>2. [s.used EXCEPT ![j] = @ + 1][k] = (IF k = j THEN s.used[k] + 1 ELSE s.used[k])
    BY <1>1
  <2> QED BY <2>1, <2>2
<1>3. s.used[k] \in Nat /\ s.start[k] \in Nat /\ Limit[k] \in Nat
  BY <1>1, SpentType
<1> QED BY <1>2, <1>3 DEF Left

LEMMA SameLeft ==
  ASSUME NEW s, NEW t, t.used = s.used, t.start = s.start, NEW k
  PROVE  Left(t, k) = Left(s, k)
BY DEF Left

LEMMA WritesLeft ==
  ASSUME NEW s \in AgentStates, NEW t, NEW pc, NEW tool, NEW from,
         Writes(from, s, t, pc, tool)
  PROVE  \/ tool \in Spent /\ Left(s, tool) > 0 /\ t = Spend(s, tool)
         \/ tool = "none" /\ \A k : Left(t, k) = Left(s, k)
<1>1. Turn(s) \in Nat /\ Turn(s) + 1 \in Nat
  BY TurnType
<1>2. \A k : Left(AddStep(s, Turn(s)), k) = Left(s, k)
  BY <1>1, AddStepType, SameLeft
<1>3. \A k : Left(Asked(s), k) = Left(s, k)
  BY AskedType, SameLeft
<1>4. \A k : Left(Reported(s), k) = Left(s, k)
  BY <1>1, EndedType, SameLeft
<1>5. \A k : Left(Abstained(s), k) = Left(s, k)
  BY <1>1, EndedType, SameLeft
<1>6. t = [s EXCEPT !.draft = TRUE] => \A k : Left(t, k) = Left(s, k)
  BY DraftType, SameLeft
<1> QED BY <1>2, <1>3, <1>4, <1>5, <1>6 DEF Writes

LEMMA Granted ==
  ASSUME NEW l \in Nat, NEW h \in Nat
  PROVE  l * (1 + h) \in Nat /\ l * (1 + (h + 1)) = l * (1 + h) + l
OBVIOUS

LEMMA Counted ==
  ASSUME Typed, NEW k \in Spent, IsFiniteSet(Pending(k))
  PROVE  /\ calls[k] \in Nat /\ Cardinality(Pending(k)) \in Nat /\ Left(Cur, k) \in Int
         /\ Limit[k] \in Nat /\ human \in Nat /\ Limit[k] * (1 + human) \in Nat
BY SpentType, CurType, LeftType, FS_CardinalityType, Granted DEF Typed, TypeOK

LEMMA InitAccounts == Init => Accounts
<1> SUFFICES ASSUME Init, NEW k \in Spent PROVE Account(k)
  BY DEF Accounts
<1>1. Pending(k) = {} /\ Cur = FreshState /\ calls[k] = 0 /\ human = 0
  BY SpentType DEF Init, Pending, Idle, Cur, NothingSpent
<1>2. Left(FreshState, k) = Limit[k] /\ Limit[k] \in Nat
  BY SpentType DEF Left, FreshState, NothingSpent
<1>3. Limit[k] * (1 + 0) = Limit[k]
  BY <1>2
<1> QED BY <1>1, <1>2, <1>3, FS_EmptySet DEF Account

(* Workers that stop, or begin, have nothing more to call than before.     *)
LEMMA FewerPending ==
  ASSUME Typed, NEW k \in Spent, Account(k), Pending(k)' \subseteq Pending(k),
         Cur' = Cur, UNCHANGED <<calls, human>>
  PROVE  Account(k)'
<1>1. /\ IsFiniteSet(Pending(k)') /\ Cardinality(Pending(k)') <= Cardinality(Pending(k))
      /\ Cardinality(Pending(k)') \in Nat
  BY FS_Subset, FS_CardinalityType DEF Account
<1>2. Left(Cur, k)' = Left(Cur, k)
  BY DEF Left
<1> QED BY <1>1, <1>2, Counted DEF Account

LEMMA NextAccounts == Typed /\ Fence /\ Accounts /\ [Next]_vars => Accounts'
<1> SUFFICES ASSUME Typed, Fence, [Next]_vars, NEW k \in Spent, Account(k)
             PROVE  Account(k)'
  BY DEF Accounts
<1>1. /\ IsFiniteSet(Pending(k)) /\ Left(Cur, k) >= 0
      /\ calls[k] + Cardinality(Pending(k)) + Left(Cur, k) <= Limit[k] * (1 + human)
  BY DEF Account
<1>2. /\ calls[k] \in Nat /\ Cardinality(Pending(k)) \in Nat /\ Left(Cur, k) \in Int
      /\ Limit[k] \in Nat /\ human \in Nat /\ Limit[k] * (1 + human) \in Nat
  BY <1>1, Counted
<1>3. ASSUME NEW w \in Workers, WriteStep(w) PROVE Account(k)'
  <2>1. PICK t, pc, tool : WriteEffect(w, t, pc, tool)
    BY <1>3, WriteEffects
  <2>2. /\ Cur' = t /\ UNCHANGED <<calls, human>> /\ worker[w].tool = "none"
        /\ \A v \in Workers \ {w} : worker'[v] = worker[v]
        /\ worker'[w].tool = tool
    BY <2>1 DEF WriteEffect, Moves
  <2>3. \/ tool \in Spent /\ Left(Cur, tool) > 0 /\ t = Spend(Cur, tool)
        \/ tool = "none" /\ \A j : Left(t, j) = Left(Cur, j)
    BY <2>1, CurType, WritesLeft DEF WriteEffect
  <2>4. CASE tool # k
    <3>1. Pending(k)' = Pending(k)
      BY <2>2, <2>4, SpentType DEF Pending
    <3>2. Left(t, k) = Left(Cur, k)
      BY <2>3, <2>4, CurType, SpendLeft
    <3> QED BY <1>1, <2>2, <3>1, <3>2 DEF Account, Left
  <2>5. CASE tool = k
    <3>1. Pending(k)' = Pending(k) \cup {w} /\ w \notin Pending(k)
      BY <2>2, <2>5, SpentType DEF Pending
    <3>2. IsFiniteSet(Pending(k)') /\ Cardinality(Pending(k)') = Cardinality(Pending(k)) + 1
      BY <1>1, <3>1, FS_AddElement
    <3>3. Left(Cur, k) > 0 /\ Left(t, k) = Left(Cur, k) - 1
      BY <2>3, <2>5, SpentType, CurType, SpendLeft
    <3>4. Left(Cur, k)' = Left(t, k)
      BY <2>2 DEF Left
    <3> QED BY <1>1, <1>2, <2>2, <3>2, <3>3, <3>4 DEF Account
  <2> QED BY <2>4, <2>5
<1>4. ASSUME NEW w \in Workers, Call(w) PROVE Account(k)'
  <2>1. /\ Cur' = Cur /\ UNCHANGED human
        /\ \A v \in Workers \ {w} : worker'[v] = worker[v]
        /\ worker'[w].tool = "none" /\ worker[w].tool \in Spent
        /\ calls' = [calls EXCEPT ![worker[w].tool] = @ + 1]
    BY <1>4, CallMoves DEF Call, Cur, Moves
  <2>2. CASE worker[w].tool # k
    <3>1. Pending(k)' = Pending(k)
      BY <2>1, <2>2, SpentType DEF Pending
    <3>2. calls'[k] = calls[k]
      BY <2>1, <2>2 DEF Typed, TypeOK
    <3> QED BY <1>1, <2>1, <3>1, <3>2 DEF Account, Left
  <2>3. CASE worker[w].tool = k
    <3>1. Pending(k)' = Pending(k) \ {w} /\ w \in Pending(k)
      BY <2>1, <2>3, SpentType DEF Pending
    <3>2. IsFiniteSet(Pending(k)') /\ Cardinality(Pending(k)') = Cardinality(Pending(k)) - 1
      BY <1>1, <3>1, FS_RemoveElement
    <3>3. calls'[k] = calls[k] + 1
      BY <2>1, <2>3 DEF Typed, TypeOK
    <3>4. Left(Cur, k)' = Left(Cur, k)
      BY <2>1 DEF Left
    <3> QED BY <1>1, <1>2, <2>1, <3>2, <3>3, <3>4 DEF Account
  <2> QED BY <2>2, <2>3
<1>5. ASSUME NEW w \in Workers, Claim(w) \/ Stop(w) PROVE Account(k)'
  <2>1. /\ Cur' = Cur /\ UNCHANGED <<calls, human>>
        /\ \A v \in Workers \ {w} : worker'[v] = worker[v]
        /\ worker'[w].tool = "none"
    BY <1>5, ClaimMoves, StopEffects DEF Claim, Cur
  <2>2. Pending(k)' \subseteq Pending(k)
    BY <2>1, SpentType DEF Pending
  <2> QED BY <2>1, <2>2, FewerPending
<1>6. CASE Answer \/ Retry
  <2>1. human' = human + 1 /\ UNCHANGED <<worker, calls>>
    BY <1>6, AnswerEffects, RetryEffects
  <2>2. Left(Cur, k)' = Limit[k]
    <3>1. CASE Answer
      <4>1. Cur' = AnswerAgent(Cur) /\ AnswerAgent(Cur).start = AnswerAgent(Cur).used
        BY <3>1, AnswerEffects, CurType, AnswerType
      <4>2. AnswerAgent(Cur).used[k] \in Nat
        BY CurType, AnswerType DEF AgentStates
      <4> QED BY <1>2, <4>1, <4>2 DEF Left
    <3>2. CASE Retry
      <4>1. Cur' = FreshState
        BY <3>2, RetryEffects
      <4> QED BY <1>2, <4>1 DEF Left, FreshState, NothingSpent
    <3> QED BY <1>6, <3>1, <3>2
  <2>3. Limit[k] * (1 + human') = Limit[k] * (1 + human) + Limit[k]
    BY <1>2, <2>1, Granted
  <2>4. Pending(k)' = Pending(k)
    BY <2>1 DEF Pending
  <2> QED BY <1>1, <1>2, <2>1, <2>2, <2>3, <2>4 DEF Account
<1>7. CASE SweepAway \/ UNCHANGED vars
  <2>1. Cur' = Cur /\ UNCHANGED <<calls, human, worker>>
    BY <1>7 DEF SweepAway, vars, Cur
  <2>2. Pending(k)' \subseteq Pending(k)
    BY <2>1 DEF Pending
  <2> QED BY <2>1, <2>2, FewerPending
<1> QED BY <1>3, <1>4, <1>5, <1>6, <1>7, NextCases DEF Neutral

(* The calls made of each tool and the turns taken stay in the budget that *)
(* people granted, for all budgets, tools and numbers of workers.          *)
THEOREM BudgetsHold == Spec => []CallsWithinBudget
<1>1. Spec => []Accounts
  BY InitAccounts, NextAccounts, AlwaysTyped, AlwaysFenced, PTL DEF Spec
<1>2. Typed /\ Accounts => CallsWithinBudget
  <2> SUFFICES ASSUME Typed, NEW k \in Spent, Account(k)
               PROVE  calls[k] <= Limit[k] * (1 + human)
    BY DEF Accounts, CallsWithinBudget
  <2> QED BY Counted DEF Account
<1> QED BY <1>1, <1>2, AlwaysTyped, PTL
================================================================================

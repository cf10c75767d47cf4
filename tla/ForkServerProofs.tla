-------------------------- MODULE ForkServerProofs ---------------------------
(***************************************************************************)
(* Theorems about ForkServer, for every number of executions and every set *)
(* of modes: two targets never live at once, no request goes to a process  *)
(* that was killed before, no alarm outlives its execution, and every      *)
(* execution is reported as what its process died of.                      *)
(***************************************************************************)
EXTENDS ForkServer, SequenceTheorems, FiniteSetTheorems, TLAPS

ModeSet == [net : BOOLEAN, forksrv : BOOLEAN, persistent : BOOLEAN,
            terminate : BOOLEAN, fnr : BOOLEAN]

\* What a process can end of, and what the fuzzer can be told of it.
Deaths == {"exited", "crashed", "oom", "termed", "killed"}
Told == Deaths \cup {"stopped"}

\* From the pid of the target to its status; and with the timer set.
Talk == {"arm", "network", "terminate", "wait_gone", "status"}
Armed == {"network", "terminate", "wait_gone", "status", "collect", "report"}

\* The process of the execution.
Cur == IF mode.forksrv THEN fs.child ELSE child_pid

(***************************************************************************)
(* Types, and when a process has died of something.                        *)
(***************************************************************************)
States == {"none", "running", "stopped", "zombie", "reaped"}
Process == [state : States, how : Deaths \cup {"none"}, term : BOOLEAN]
ServerState == [pc : {"read", "bury", "fork", "continue", "wait", "gone"},
                child : 0 .. MaxRuns, stopped : BOOLEAN]

Scalars ==
    /\ mode \in ModeSet
    /\ pc \in {"idle", "request", "getpid", "over"} \cup Talk \cup Armed
    /\ run \in Nat /\ timer \in Nat
    /\ child_timed_out \in BOOLEAN /\ prev_timed_out \in BOOLEAN /\ stop_soon \in BOOLEAN
    /\ fs \in ServerState

DeadOf == \A p \in Pids : proc[p].how \in Deaths <=> proc[p].state \in {"zombie", "reaped"}

Types == Scalars /\ proc \in [Pids -> Process] /\ DeadOf

(***************************************************************************)
(* Who can be alive: the child of the fork server, unless the fork server  *)
(* knows it to be gone; without one, the process of the execution.         *)
(***************************************************************************)
Children ==
    /\ mode.forksrv =>
          /\ \A p \in Pids : proc[p].state \in Alive =>
                /\ p = fs.child
                /\ fs.pc # "fork"
                /\ fs.pc = "read" => fs.stopped
          /\ (fs.stopped \/ fs.pc \in {"wait", "continue", "bury"}) => fs.child \in Pids
    /\ ~mode.forksrv =>
          /\ fs.pc = "gone"
          /\ pc \notin {"request", "getpid", "over"}
          /\ pc \in Talk => child_pid \in Pids
          /\ \A p \in Pids : proc[p].state \in Alive => p = child_pid /\ pc \in Talk

(***************************************************************************)
(* How far the fuzzer and the fork server are, and what is in the pipes    *)
(* between them.                                                           *)
(***************************************************************************)
AtRest == /\ pc \in {"idle", "request", "collect", "report"}
          /\ fs.pc = "read" /\ ctl = << >> /\ st = << >>

Asked == pc = "getpid" /\ fs.pc = "read" /\ ctl = <<prev_timed_out>> /\ st = << >>

Working == pc = "getpid" /\ fs.pc \in {"bury", "fork", "continue"} /\ ctl = << >> /\ st = << >>

Answered ==
    /\ pc = "getpid" /\ ctl = << >> /\ fs.child \in Pids
    /\ \/ fs.pc = "wait" /\ st = <<fs.child>>
       \/ fs.pc = "read" /\ \E h \in Told \ {"killed"} : st = <<fs.child, h>>

Running ==
    /\ pc \in Talk /\ ctl = << >> /\ child_pid = fs.child /\ fs.child \in Pids
    /\ \/ fs.pc = "wait" /\ st = << >>
       \/ fs.pc = "read" /\ \E h \in Told : st = <<h>> /\ (h = "killed" => child_timed_out)

Phases == (mode.forksrv /\ ~stop_soon) => AtRest \/ Asked \/ Working \/ Answered \/ Running

(***************************************************************************)
(* Who was killed: only the alarm kills, and leaves a mark that lasts      *)
(* until the fork server has written the process off.                      *)
(***************************************************************************)
Marked ==
    (Cur \in Pids /\ proc[Cur].how = "killed") =>
        /\ pc # "arm"
        /\ pc \in Armed => child_timed_out
        /\ (mode.forksrv /\ pc \in {"idle", "request", "getpid"} /\ fs.pc = "read") =>
                (fs.stopped => prev_timed_out)
        /\ (mode.forksrv /\ pc = "getpid") =>
                /\ fs.pc \in {"read", "bury", "fork"}
                /\ fs.pc = "read" => st = << >>

Kills ==
    ~stop_soon =>
        /\ timer # 0 => timer = run /\ pc \in Armed
        /\ Marked
        /\ pc \in {"collect", "report"} =>
              /\ child_pid \in {0, Cur}
              /\ status \in Told
              /\ status = "killed" => child_timed_out
        /\ (pc = "idle" /\ run > 0) => FaultTellsDeath

IInv == Types /\ Children /\ Phases /\ Kills

-----------------------------------------------------------------------------
(***************************************************************************)
(* A pipe holds at most two words.                                         *)
(***************************************************************************)
LEMMA OneWord == ASSUME NEW x PROVE
    Append(<< >>, x) = <<x>> /\ Head(<<x>>) = x /\ Tail(<<x>>) = << >> /\ <<x>> # << >>
  OBVIOUS

LEMMA TwoWords == ASSUME NEW x, NEW y PROVE
    /\ Append(<<x>>, y) = <<x, y>>
    /\ Head(<<x, y>>) = x /\ Tail(<<x, y>>) = <<y>> /\ <<x, y>> # << >>
<1>1. /\ <<x>> \in Seq({x, y}) /\ Len(<<x>>) = 1 /\ <<x>>[1] = x
      /\ <<x, y>> \in Seq({x, y}) /\ Len(<<x, y>>) = 2 /\ <<x, y>>[1] = x /\ <<x, y>>[2] = y
  OBVIOUS
<1>2. /\ Append(<<x>>, y) \in Seq({x, y}) /\ Len(Append(<<x>>, y)) = 2
      /\ Append(<<x>>, y)[1] = x /\ Append(<<x>>, y)[2] = y
  BY <1>1, AppendProperties
<1>3. \A i \in 1 .. Len(<<x, y>>) : Append(<<x>>, y)[i] = <<x, y>>[i]
  BY <1>1, <1>2
<1>4. Append(<<x>>, y) = <<x, y>>
  BY <1>1, <1>2, <1>3, SeqEqual
<1> QED BY <1>1, <1>4

(***************************************************************************)
(* What can become of the processes: one gets a new state, has SIGTERM     *)
(* waiting or not, or dies of something.                                   *)
(***************************************************************************)
Moved(p, s) == proc' = [proc EXCEPT ![p].state = s]

Signalled(p, b) == proc' = [proc EXCEPT ![p].term = b]

Fallen(p, h) == proc' = [proc EXCEPT ![p].state = "zombie", ![p].how = h]

LEMMA MovedProc ==
    ASSUME proc \in [Pids -> Process], NEW p, NEW s \in States, Moved(p, s)
    PROVE  /\ proc' \in [Pids -> Process]
           /\ \A q \in Pids : /\ proc'[q].state = (IF q = p THEN s ELSE proc[q].state)
                              /\ proc'[q].how = proc[q].how
  BY DEF Process, Moved

LEMMA SignalledProc ==
    ASSUME proc \in [Pids -> Process], NEW p, NEW b \in BOOLEAN, Signalled(p, b)
    PROVE  /\ proc' \in [Pids -> Process]
           /\ \A q \in Pids : proc'[q].state = proc[q].state /\ proc'[q].how = proc[q].how
  BY DEF Process, Signalled

LEMMA FallenProc ==
    ASSUME proc \in [Pids -> Process], NEW p, NEW h \in Deaths, Fallen(p, h)
    PROVE  /\ proc' \in [Pids -> Process]
           /\ \A q \in Pids : /\ proc'[q].state = (IF q = p THEN "zombie" ELSE proc[q].state)
                              /\ proc'[q].how = (IF q = p THEN h ELSE proc[q].how)
  BY DEF Process, States, Fallen

\* SIGKILL.
LEMMA KilledProc ==
    ASSUME proc \in [Pids -> Process], NEW p, proc' = Killed(p)
    PROVE  \/ p \in Pids /\ proc[p].state \in Alive /\ Fallen(p, "killed")
           \/ ~(p \in Pids /\ proc[p].state \in Alive) /\ proc' = proc
  BY DEF Killed, Fallen, Process

(***************************************************************************)
(* One step of the fuzzer, the fork server, the target, the alarm or init. *)
(***************************************************************************)
LEMMA Inductive == IInv /\ [Next]_vars => IInv'
<1> SUFFICES ASSUME IInv, [Next]_vars PROVE IInv'
  OBVIOUS
<1> USE ForkServerAssumption
<1> USE DEF IInv, Pids, fuzzer, pipes
<1>1. CASE Begin
  <2>1. CASE mode.forksrv
    <3>1. Types'
      <4>1. run' \in Nat
        BY <1>1 DEF Types, Scalars, Begin
      <4> QED BY <1>1, <2>1, <4>1 DEF Types, Scalars, DeadOf, Begin
    <3>2. Children' /\ Phases'
      BY <1>1, <2>1 DEF Phases, AtRest, Asked, Working, Answered, Running, Children, Talk,
          Begin
    <3>3. Kills'
      BY <1>1, <2>1 DEF Kills, Marked, Cur, Armed, Begin
    <3> QED BY <3>1, <3>2, <3>3
  <2>2. CASE ~mode.forksrv
    <3>1. PICK p \in Pids : Forks(p) /\ child_pid' = p /\ pc' = "arm"
      BY <1>1, <2>2 DEF Begin
    <3>2. Moved(p, "running") /\ proc[p].state = "none"
      BY <3>1 DEF Forks, Moved
    <3>3. /\ proc' \in [Pids -> Process]
          /\ \A q \in Pids :
                /\ proc'[q].state = (IF q = p THEN "running" ELSE proc[q].state)
                /\ proc'[q].how = proc[q].how
      BY <3>2, MovedProc DEF Types, States
    <3>4. Types'
      <4>1. Scalars'
        <5>1. run' \in Nat
          BY <1>1 DEF Types, Scalars, Begin
        <5> QED BY <1>1, <3>1, <5>1 DEF Types, Scalars, Talk, Begin
      <4>2. DeadOf'
        BY <3>2, <3>3 DEF Types, DeadOf, Deaths
      <4> QED BY <3>3, <4>1, <4>2 DEF Types
    <3>5. Children'
      BY <1>1, <2>2, <3>1, <3>3 DEF Types, Scalars, Children, Begin, Talk, Alive
    <3>6. Phases'
      BY <1>1, <2>2 DEF Phases, Begin
    <3>7. Kills'
      <4>1. proc'[p].how # "killed"
        BY <3>2, <3>3 DEF Types, DeadOf, Deaths
      <4> QED BY <1>1, <2>2, <3>1, <4>1 DEF Types, Scalars, Kills, Marked, Cur, Begin,
              Armed, FaultTellsDeath
    <3> QED BY <3>4, <3>5, <3>6, <3>7
  <2> QED BY <2>1, <2>2 DEF Types, Scalars, ModeSet
<1>2. CASE Request
  <2>1. Types'
    <3>1. Scalars'
      BY <1>2 DEF Types, Scalars, ServerState, Talk, Armed, Request
    <3>2. proc' \in [Pids -> Process] /\ DeadOf'
      BY <1>2 DEF Types, DeadOf, Request
    <3> QED BY <3>1, <3>2 DEF Types
  <2>2. Children'
    BY <1>2 DEF Children, Alive, Request
  <2>3. Phases'
    BY OneWord, <1>2 DEF Phases, AtRest, Asked, Working, Answered, Running, Talk, Told,
        Request
  <2>4. Kills'
    BY <1>2 DEF Kills, Marked, Cur, Armed, Talk, FaultTellsDeath, Phases, AtRest, Asked,
        Working, Answered, Running, Children, Types, Scalars, ServerState, Request
  <2> QED BY <2>1, <2>2, <2>3, <2>4
<1>3. CASE GetPid
  <2>1. Types'
    <3>1. Scalars'
      BY <1>3 DEF Types, Scalars, ServerState, Talk, Armed, GetPid
    <3>2. proc' \in [Pids -> Process] /\ DeadOf'
      BY <1>3 DEF Types, DeadOf, GetPid
    <3> QED BY <3>1, <3>2 DEF Types
  <2>2. Children'
    BY <1>3 DEF Children, Alive, GetPid
  <2>3. Phases'
    <3> SUFFICES ASSUME mode.forksrv, ~stop_soon PROVE Running'
      BY <1>3 DEF Phases, GetPid
    <3>1. Answered
      BY <1>3 DEF Phases, AtRest, Asked, Working, Running, GetPid, Talk
    <3>2. CASE fs.pc = "wait" /\ st = <<fs.child>>
      BY <1>3, <3>1, <3>2, OneWord DEF Answered, Running, GetPid, Talk
    <3>3. ASSUME NEW h \in Told \ {"killed"}, fs.pc = "read", st = <<fs.child, h>>
          PROVE Running'
      BY <1>3, <3>1, <3>3, TwoWords DEF Answered, Running, GetPid, Talk
    <3> QED BY <3>1, <3>2, <3>3 DEF Answered
  <2>4. Kills'
    BY <1>3 DEF Kills, Marked, Cur, Armed, Talk, FaultTellsDeath, Phases, AtRest, Asked,
        Working, Answered, Running, Children, Types, Scalars, ServerState, GetPid
  <2> QED BY <2>1, <2>2, <2>3, <2>4
<1>4. CASE Arm
  <2>1. Types'
    <3>1. Scalars'
      BY <1>4 DEF Types, Scalars, ServerState, Talk, Armed, Arm
    <3>2. proc' \in [Pids -> Process] /\ DeadOf'
      BY <1>4 DEF Types, DeadOf, Arm
    <3> QED BY <3>1, <3>2 DEF Types
  <2>2. Children'
    BY <1>4 DEF Children, Alive, Talk, Arm
  <2>3. Phases'
    BY <1>4 DEF Phases, AtRest, Asked, Working, Answered, Running, Talk, Told, Arm
  <2>4. Kills'
    BY <1>4 DEF Kills, Marked, Cur, Armed, Arm
  <2> QED BY <2>1, <2>2, <2>3, <2>4
<1>5. CASE Network
  <2>1. Types'
    <3>1. Scalars'
      BY <1>5 DEF Types, Scalars, ServerState, Talk, Armed, Network
    <3>2. proc' \in [Pids -> Process] /\ DeadOf'
      BY <1>5 DEF Types, DeadOf, Network
    <3> QED BY <3>1, <3>2 DEF Types
  <2>2. Children'
    BY <1>5 DEF Children, Alive, Talk, Network
  <2>3. Phases'
    BY <1>5 DEF Phases, AtRest, Asked, Working, Answered, Running, Talk, Told, Network
  <2>4. Kills'
    BY <1>5 DEF Kills, Marked, Cur, Armed, Network
  <2> QED BY <2>1, <2>2, <2>3, <2>4
<1>6. CASE Terminate
  <2>1. Types'
    <3>1. Scalars'
      BY <1>6 DEF Types, Scalars, ServerState, Talk, Armed, Terminate
    <3>2. proc' \in [Pids -> Process] /\ DeadOf'
      <4>1. CASE proc' = proc
        BY <4>1 DEF Types, DeadOf
      <4>2. CASE Signalled(child_pid, TRUE)
        BY <1>6, <4>2, SignalledProc DEF Types, DeadOf, States, Deaths, Alive, Terminate
      <4> QED BY <1>6, <4>1, <4>2 DEF Terminate, Signalled
    <3> QED BY <3>1, <3>2 DEF Types
  <2>2. Children'
    BY <1>6 DEF Children, Alive, Talk, Terminate
  <2>3. Phases'
    BY <1>6 DEF Phases, AtRest, Asked, Working, Answered, Running, Talk, Told, Terminate
  <2>4. Kills'
    BY <1>6 DEF Kills, Marked, Cur, Armed, Terminate
  <2> QED BY <2>1, <2>2, <2>3, <2>4
<1>7. CASE WaitGone
  <2>1. Types'
    <3>1. Scalars'
      BY <1>7 DEF Types, Scalars, ServerState, Talk, Armed, WaitGone
    <3>2. proc' \in [Pids -> Process] /\ DeadOf'
      BY <1>7 DEF Types, DeadOf, WaitGone
    <3> QED BY <3>1, <3>2 DEF Types
  <2>2. Children'
    BY <1>7 DEF Children, Alive, Talk, WaitGone
  <2>3. Phases'
    BY <1>7 DEF Phases, AtRest, Asked, Working, Answered, Running, Talk, Told, WaitGone
  <2>4. Kills'
    BY <1>7 DEF Kills, Marked, Cur, Armed, WaitGone
  <2> QED BY <2>1, <2>2, <2>3, <2>4
<1>8. CASE Status
  <2>1. Types'
    <3>1. Scalars'
      BY <1>8 DEF Types, Scalars, ServerState, Talk, Armed, Status
    <3>2. proc' \in [Pids -> Process] /\ DeadOf'
      <4>1. CASE proc' = proc
        BY <4>1 DEF Types, DeadOf
      <4>2. CASE Moved(child_pid, "reaped") /\ proc[child_pid].state = "zombie"
        BY <1>8, <4>2, MovedProc DEF Types, DeadOf, States, Deaths, Alive, Status
      <4> QED BY <1>8, <4>1, <4>2 DEF Status, Moved
    <3> QED BY <3>1, <3>2 DEF Types
  <2>2. Children'
    BY <1>8 DEF Children, Alive, Talk, Types, Scalars, ModeSet, Process, ServerState,
        States, DeadOf, Deaths, Status
  <2>3. Phases'
    <3> SUFFICES ASSUME mode.forksrv, ~stop_soon PROVE AtRest'
      BY <1>8 DEF Phases, Status
    <3>1. Running
      BY <1>8 DEF Phases, AtRest, Asked, Working, Answered, Status
    <3>2. PICK h \in Told : st = <<h>> /\ fs.pc = "read"
      BY <1>8, <3>1 DEF Running, Status
    <3> QED BY <1>8, <3>1, <3>2, OneWord DEF Running, AtRest, Status
  <2>4. Kills'
    BY <1>8 DEF Kills, Marked, Cur, Armed, Talk, FaultTellsDeath, Phases, AtRest, Asked,
        Working, Answered, Running, Children, Types, Scalars, ServerState, Process, States,
        DeadOf, Deaths, Told, Alive, ModeSet, Status
  <2> QED BY <2>1, <2>2, <2>3, <2>4
<1>9. CASE Collect
  <2>1. Types'
    <3>1. Scalars'
      BY <1>9 DEF Types, Scalars, ServerState, Talk, Armed, Collect
    <3>2. proc' \in [Pids -> Process] /\ DeadOf'
      BY <1>9 DEF Types, DeadOf, Collect
    <3> QED BY <3>1, <3>2 DEF Types
  <2>2. Children'
    BY <1>9 DEF Children, Alive, Talk, Collect
  <2>3. Phases'
    BY <1>9 DEF Phases, AtRest, Asked, Working, Answered, Running, Talk, Told, Collect
  <2>4. Kills'
    BY <1>9 DEF Kills, Marked, Cur, Armed, Collect
  <2> QED BY <2>1, <2>2, <2>3, <2>4
<1>10. CASE Report
  <2>1. Types'
    <3>1. Scalars'
      BY <1>10 DEF Types, Scalars, ServerState, Talk, Armed, Report, Outcome
    <3>2. proc' \in [Pids -> Process] /\ DeadOf'
      BY <1>10 DEF Types, DeadOf, Report, Outcome
    <3> QED BY <3>1, <3>2 DEF Types
  <2>2. Children'
    BY <1>10 DEF Children, Alive, Talk, Report, Outcome
  <2>3. Phases'
    BY <1>10 DEF Phases, AtRest, Asked, Working, Answered, Running, Talk, Told, Report,
        Outcome
  <2>4. Kills'
    BY <1>10 DEF Kills, Marked, Cur, Armed, Talk, FaultTellsDeath, Phases, AtRest, Asked,
        Working, Answered, Running, Children, Types, Scalars, ServerState, Process, States,
        DeadOf, Deaths, Told, Alive, ModeSet, Report, Outcome
  <2> QED BY <2>1, <2>2, <2>3, <2>4
<1>11. CASE Wake
  <2>1. Types'
    <3>1. Scalars'
      BY <1>11 DEF Types, Scalars, ServerState, Talk, Armed, Wake
    <3>2. proc' \in [Pids -> Process] /\ DeadOf'
      BY <1>11 DEF Types, DeadOf, Wake
    <3> QED BY <3>1, <3>2 DEF Types
  <2>2. Children'
    BY <1>11 DEF Children, Alive, Talk, Types, Scalars, ModeSet, Process, ServerState,
        States, DeadOf, Deaths, Wake
  <2>3. Phases'
    BY OneWord, <1>11 DEF Phases, AtRest, Asked, Working, Answered, Running, Talk, Told,
        Types, Scalars, ServerState, Wake
  <2>4. Kills'
    <3>1. CASE mode.forksrv /\ ~stop_soon
      <4>1. Asked
        BY <1>11, <3>1 DEF Phases, AtRest, Working, Answered, Running, Wake
      <4>2. Head(ctl) = prev_timed_out
        BY <4>1, OneWord DEF Asked
      <4>3. CASE fs.stopped /\ prev_timed_out
        BY <1>11, <3>1, <4>1, <4>2, <4>3 DEF Kills, Marked, Cur, Asked, Wake, Types,
            Scalars, ServerState, Armed
      <4>4. CASE ~(fs.stopped /\ prev_timed_out)
        BY <1>11, <3>1, <4>1, <4>2, <4>4 DEF Kills, Marked, Cur, Asked, Wake, Types,
            Scalars, ServerState, Armed
      <4> QED BY <4>3, <4>4
    <3>2. CASE ~(mode.forksrv /\ ~stop_soon)
      BY <1>11, <3>2 DEF Kills, Children, Wake
    <3> QED BY <3>1, <3>2
  <2> QED BY <2>1, <2>2, <2>3, <2>4
<1>12. CASE Bury
  <2>1. Types'
    <3>1. Scalars'
      BY <1>12 DEF Types, Scalars, ServerState, Talk, Armed, Bury
    <3>2. proc' \in [Pids -> Process] /\ DeadOf'
      <4>1. Moved(fs.child, "reaped")
        BY <1>12 DEF Bury, Moved
      <4>2. fs.child \in Pids => proc[fs.child].state = "zombie"
        BY <1>12 DEF Bury
      <4>3. /\ proc' \in [Pids -> Process]
            /\ \A q \in Pids :
                  /\ proc'[q].state = (IF q = fs.child THEN "reaped" ELSE proc[q].state)
                  /\ proc'[q].how = proc[q].how
        BY <4>1, MovedProc DEF Types, States
      <4> QED BY <4>2, <4>3 DEF Types, DeadOf
    <3> QED BY <3>1, <3>2 DEF Types
  <2>2. Children'
    BY <1>12 DEF Children, Alive, Bury
  <2>3. Phases'
    BY <1>12 DEF Phases, AtRest, Asked, Working, Answered, Running, Bury
  <2>4. Kills'
    BY <1>12 DEF Kills, Marked, Cur, Armed, Talk, FaultTellsDeath, Bury
  <2> QED BY <2>1, <2>2, <2>3, <2>4
<1>13. CASE Fork
  <2>1. PICK p \in Pids : /\ Forks(p)
                          /\ fs' = [fs EXCEPT !.pc = "wait", !.child = p]
                          /\ st' = Append(st, p)
    BY <1>13 DEF Fork
  <2>2. Moved(p, "running") /\ proc[p].state = "none"
    BY <2>1 DEF Forks, Moved
  <2>3. /\ proc' \in [Pids -> Process]
        /\ \A q \in Pids : /\ proc'[q].state = (IF q = p THEN "running" ELSE proc[q].state)
                           /\ proc'[q].how = proc[q].how
    BY <2>2, MovedProc DEF Types, States
  <2>4. fs'.pc = "wait" /\ fs'.child = p /\ fs'.stopped = fs.stopped /\ fs' \in ServerState
    <3>1. p \in 0 .. MaxRuns /\ fs \in ServerState
      BY DEF Types, Scalars
    <3> QED BY <2>1, <3>1 DEF ServerState
  <2>5. Types'
    <3>1. Scalars'
      BY <1>13, <2>4 DEF Types, Scalars, Fork
    <3>2. DeadOf'
      BY <2>2, <2>3 DEF Types, DeadOf, Deaths
    <3> QED BY <2>3, <3>1, <3>2 DEF Types
  <2>6. Children'
    BY <1>13, <2>3, <2>4 DEF Children, Fork, Alive
  <2>7. Phases'
    BY <1>13, <2>1, <2>4, OneWord DEF Phases, AtRest, Asked, Working, Answered, Running,
        Fork
  <2>8. Kills'
    <3>1. proc'[p].how # "killed"
      BY <2>2, <2>3 DEF Types, DeadOf, Deaths
    <3>2. ~stop_soon => pc = "getpid"
      BY <1>13 DEF Children, Phases, AtRest, Asked, Working, Answered, Running, Fork, Types,
          Scalars, ModeSet
    <3> QED BY <1>13, <2>4, <3>1, <3>2 DEF Kills, Marked, Cur, Fork, Armed, Children, Types,
            Scalars, ModeSet
  <2> QED BY <2>5, <2>6, <2>7, <2>8
<1>14. CASE Continue
  <2>1. Types'
    <3>1. Scalars'
      BY <1>14 DEF Types, Scalars, ServerState, Talk, Armed, Continue
    <3>2. proc' \in [Pids -> Process] /\ DeadOf'
      <4>1. CASE proc' = proc
        BY <4>1 DEF Types, DeadOf
      <4>2. CASE Moved(fs.child, "running") /\ proc[fs.child].state = "stopped"
        <5>1. /\ proc' \in [Pids -> Process]
              /\ \A q \in Pids :
                    /\ proc'[q].state = (IF q = fs.child THEN "running" ELSE proc[q].state)
                    /\ proc'[q].how = proc[q].how
          BY <4>2, MovedProc DEF Types, States
        <5> QED BY <4>2, <5>1 DEF Types, DeadOf
      <4> QED BY <1>14, <4>1, <4>2 DEF Continue, Moved
    <3> QED BY <3>1, <3>2 DEF Types
  <2>2. Children'
    BY <1>14 DEF Children, Alive, Continue
  <2>3. Phases'
    BY OneWord, <1>14 DEF Phases, AtRest, Asked, Working, Answered, Running, Children, Talk,
        Told, Types, Scalars, ServerState, Process, States, DeadOf, Deaths, Armed, ModeSet,
        Continue
  <2>4. Kills'
    BY <1>14 DEF Kills, Marked, Cur, Armed, Talk, FaultTellsDeath, Continue
  <2> QED BY <2>1, <2>2, <2>3, <2>4
<1>15. CASE Wait
  <2>1. CASE /\ proc[fs.child].state = "zombie"
             /\ Moved(fs.child, "reaped")
             /\ st' = Append(st, proc[fs.child].how)
             /\ fs' = [fs EXCEPT !.pc = "read"]
    <3>1. fs.child \in Pids
      BY <1>15 DEF Children, Wait
    <3>2. /\ proc' \in [Pids -> Process]
          /\ \A q \in Pids :
                /\ proc'[q].state = (IF q = fs.child THEN "reaped" ELSE proc[q].state)
                /\ proc'[q].how = proc[q].how
      BY <2>1, MovedProc DEF Types, States
    <3>3. /\ fs'.pc = "read" /\ fs'.child = fs.child /\ fs'.stopped = fs.stopped
          /\ fs' \in ServerState
      BY <2>1 DEF Types, Scalars, ServerState
    <3>4. proc[fs.child].how \in Deaths
      BY <2>1, <3>1 DEF Types, DeadOf
    <3>5. Types'
      <4>1. Scalars'
        BY <1>15, <3>3 DEF Types, Scalars, Wait
      <4>2. DeadOf'
        BY <2>1, <3>1, <3>2 DEF Types, DeadOf, Deaths
      <4> QED BY <3>2, <4>1, <4>2 DEF Types
    <3>6. Children'
      BY <1>15, <3>1, <3>2, <3>3 DEF Children, Wait, Alive
    <3>7. Phases'
      <4> SUFFICES ASSUME mode.forksrv, ~stop_soon PROVE Answered' \/ Running'
        BY <1>15 DEF Phases, Wait
      <4>1. CASE Answered
        <5>1. proc[fs.child].how # "killed"
          BY <1>15, <3>1, <4>1 DEF Kills, Marked, Cur, Answered, Wait
        <5>2. st' = <<fs.child, proc[fs.child].how>>
          <6>1. st = <<fs.child>>
            BY <1>15, <4>1 DEF Answered, Wait
          <6>2. st' = Append(<<fs.child>>, proc[fs.child].how)
            BY <2>1, <6>1
          <6> QED BY <6>2, TwoWords
        <5> QED BY <1>15, <3>1, <3>3, <3>4, <4>1, <5>1, <5>2 DEF Answered, Told, Wait
      <4>2. CASE Running
        <5>1. st' = <<proc[fs.child].how>>
          <6>1. st = << >>
            BY <1>15, <4>2 DEF Running, Wait
          <6>2. st' = Append(<< >>, proc[fs.child].how)
            BY <2>1, <6>1
          <6> QED BY <6>2, OneWord
        <5>2. proc[fs.child].how = "killed" => child_timed_out
          BY <3>1, <4>2 DEF Kills, Marked, Cur, Running, Talk, Armed
        <5> QED BY <1>15, <3>3, <3>4, <4>2, <5>1, <5>2 DEF Running, Told, Wait
      <4> QED BY <1>15, <4>1, <4>2 DEF Phases, AtRest, Asked, Working, Wait
    <3>8. Kills'
      <4> SUFFICES ASSUME ~stop_soon, mode.forksrv PROVE Kills'
        BY <1>15 DEF Kills, Wait, Children
      <4>1. Answered \/ Running
        BY <1>15 DEF Phases, AtRest, Asked, Working, Wait
      <4>2. CASE Answered
        <5>1. proc[fs.child].how # "killed"
          BY <1>15, <3>1, <4>2 DEF Kills, Marked, Cur, Answered, Wait
        <5> QED BY <1>15, <3>1, <3>2, <3>3, <4>2, <5>1 DEF Kills, Marked, Cur, Answered,
                Wait, Armed
      <4>3. CASE Running
        BY <1>15, <3>1, <3>2, <3>3, <4>3 DEF Kills, Marked, Cur, Running, Wait, Talk, Armed
      <4> QED BY <4>1, <4>2, <4>3
    <3> QED BY <3>5, <3>6, <3>7, <3>8
  <2>2. CASE /\ proc[fs.child].state = "stopped"
             /\ st' = Append(st, "stopped")
             /\ fs' = [fs EXCEPT !.pc = "read", !.stopped = TRUE]
             /\ UNCHANGED proc
    <3>1. fs.child \in Pids
      BY <1>15 DEF Children, Wait
    <3>2. fs'.pc = "read" /\ fs'.child = fs.child /\ fs'.stopped /\ fs' \in ServerState
      BY <2>2 DEF Types, Scalars, ServerState
    <3>3. proc[fs.child].how # "killed"
      BY <2>2, <3>1 DEF Types, DeadOf, Deaths
    <3>4. Types'
      BY <1>15, <2>2, <3>2 DEF Types, Scalars, DeadOf, Wait
    <3>5. Children'
      BY <1>15, <2>2, <3>1, <3>2 DEF Children, Wait, Alive
    <3>6. Phases'
      <4> SUFFICES ASSUME mode.forksrv, ~stop_soon PROVE Answered' \/ Running'
        BY <1>15 DEF Phases, Wait
      <4>1. CASE Answered
        <5>1. st' = <<fs.child, "stopped">>
          <6>1. st = <<fs.child>>
            BY <1>15, <4>1 DEF Answered, Wait
          <6>2. st' = Append(<<fs.child>>, "stopped")
            BY <2>2, <6>1
          <6> QED BY <6>2, TwoWords
        <5>2. pc' = pc /\ ctl' = ctl /\ child_pid' = child_pid
          BY <1>15 DEF Wait
        <5>3. "stopped" \in Told \ {"killed"}
          BY DEF Told
        <5> QED BY <3>1, <3>2, <4>1, <5>1, <5>2, <5>3 DEF Answered
      <4>2. CASE Running
        <5>1. st' = <<"stopped">>
          <6>1. st = << >>
            BY <1>15, <4>2 DEF Running, Wait
          <6>2. st' = Append(<< >>, "stopped")
            BY <2>2, <6>1
          <6> QED BY <6>2, OneWord
        <5> QED BY <1>15, <3>2, <4>2, <5>1 DEF Running, Told, Wait
      <4> QED BY <1>15, <4>1, <4>2 DEF Phases, AtRest, Asked, Working, Wait
    <3>7. Kills'
      <4> SUFFICES ASSUME ~stop_soon, mode.forksrv PROVE Kills'
        BY <1>15 DEF Kills, Wait, Children
      <4>1. Answered \/ Running
        BY <1>15 DEF Phases, AtRest, Asked, Working, Wait
      <4> QED BY <1>15, <2>2, <3>2, <3>3, <4>1 DEF Kills, Marked, Cur, Answered, Running,
              Wait, Talk, Armed
    <3> QED BY <3>4, <3>5, <3>6, <3>7
  <2> QED BY <1>15, <2>1, <2>2 DEF Wait, Moved
<1>16. CASE Alarm
  <2>1. Types'
    <3>1. Scalars'
      BY <1>16 DEF Types, Scalars, ServerState, Talk, Armed, Alarm, Killed
    <3>2. proc' \in [Pids -> Process] /\ DeadOf'
      <4>1. CASE proc' = proc
        BY <4>1 DEF Types, DeadOf
      <4>2. CASE proc' = Killed(child_pid)
        <5>1. CASE proc' = proc
          BY <5>1 DEF Types, DeadOf
        <5>2. CASE Fallen(child_pid, "killed")
          BY <5>2, FallenProc DEF Types, DeadOf, Deaths
        <5> QED BY <4>2, <5>1, <5>2, KilledProc DEF Types
      <4> QED BY <1>16, <4>1, <4>2 DEF Alarm
    <3> QED BY <3>1, <3>2 DEF Types
  <2>2. Children'
    BY <1>16 DEF Children, Alive, Talk, Types, Scalars, Alarm, Killed
  <2>3. Phases'
    BY <1>16 DEF Phases, AtRest, Asked, Working, Answered, Running, Alarm, Killed
  <2>4. Kills'
    BY <1>16 DEF Kills, Marked, Cur, Armed, Alarm, Killed
  <2> QED BY <2>1, <2>2, <2>3, <2>4
<1>17. CASE StopSignal
  <2>1. Types'
    <3>1. Scalars'
      BY <1>17 DEF Types, Scalars, ServerState, Talk, Armed, StopSignal, Killed
    <3>2. proc' \in [Pids -> Process] /\ DeadOf'
      <4>1. CASE proc' = proc
        BY <4>1 DEF Types, DeadOf
      <4>2. CASE Fallen(child_pid, "killed")
        BY <4>2, FallenProc DEF Types, DeadOf, Deaths
      <4>3. proc' = Killed(child_pid)
        BY <1>17 DEF StopSignal
      <4> QED BY <4>1, <4>2, <4>3, KilledProc DEF Types
    <3> QED BY <3>1, <3>2 DEF Types
  <2>2. Children'
    BY <1>17 DEF Children, Alive, StopSignal, Killed
  <2>3. Phases'
    BY <1>17 DEF Phases, AtRest, Asked, Working, Answered, Running, StopSignal, Killed
  <2>4. Kills'
    BY <1>17 DEF Kills, Marked, Cur, Armed, StopSignal, Killed
  <2> QED BY <2>1, <2>2, <2>3, <2>4
<1>18. ASSUME NEW p \in Pids, Dies(p) PROVE IInv'
  <2>1. Types'
    <3>1. Scalars'
      BY <1>18 DEF Types, Scalars, ServerState, Talk, Armed, Dies, Ends
    <3>2. proc' \in [Pids -> Process] /\ DeadOf'
      <4>1. PICK how \in Deaths : Fallen(p, how)
        BY <1>18 DEF Dies, Ends, Fallen, Deaths
      <4> QED BY <4>1, FallenProc DEF Types, DeadOf
    <3> QED BY <3>1, <3>2 DEF Types
  <2>2. Children'
    BY <1>18 DEF Children, Alive, Talk, Types, Scalars, Dies, Ends
  <2>3. Phases'
    BY <1>18 DEF Phases, AtRest, Asked, Working, Answered, Running, Dies, Ends
  <2>4. Kills'
    BY <1>18 DEF Kills, Marked, Cur, Armed, Talk, FaultTellsDeath, Types, Scalars,
        ServerState, Dies, Ends
  <2> QED BY <2>1, <2>2, <2>3, <2>4
<1>19. ASSUME NEW p \in Pids, TakesTerm(p) PROVE IInv'
  <2>1. Types'
    <3>1. Scalars'
      BY <1>19 DEF Types, Scalars, ServerState, Talk, Armed, TakesTerm, Ends
    <3>2. proc' \in [Pids -> Process] /\ DeadOf'
      <4>1. CASE Fallen(p, "termed")
        BY <4>1, FallenProc DEF Types, DeadOf, Deaths
      <4>2. CASE Signalled(p, FALSE)
        BY <4>2, SignalledProc DEF Types, DeadOf
      <4> QED BY <1>19, <4>1, <4>2 DEF TakesTerm, Ends, Fallen, Signalled
    <3> QED BY <3>1, <3>2 DEF Types
  <2>2. Children'
    BY <1>19 DEF Children, Alive, Talk, Types, Scalars, TakesTerm, Ends
  <2>3. Phases'
    BY <1>19 DEF Phases, AtRest, Asked, Working, Answered, Running, TakesTerm, Ends
  <2>4. Kills'
    BY <1>19 DEF Kills, Marked, Cur, Armed, Talk, FaultTellsDeath, Phases, AtRest, Asked,
        Working, Answered, Running, Children, Types, Scalars, ServerState, Process, States,
        DeadOf, Deaths, Told, Alive, ModeSet, TakesTerm, Ends
  <2> QED BY <2>1, <2>2, <2>3, <2>4
<1>20. ASSUME NEW p \in Pids, StopsItself(p) PROVE IInv'
  <2>1. Types'
    <3>1. Scalars'
      BY <1>20 DEF Types, Scalars, ServerState, Talk, Armed, StopsItself
    <3>2. proc' \in [Pids -> Process] /\ DeadOf'
      <4>1. Moved(p, "stopped")
        BY <1>20 DEF StopsItself, Moved
      <4> QED BY <4>1, <1>20, MovedProc DEF Types, DeadOf, States, Deaths, StopsItself
    <3> QED BY <3>1, <3>2 DEF Types
  <2>2. Children'
    BY <1>20 DEF Children, Alive, StopsItself
  <2>3. Phases'
    BY <1>20 DEF Phases, AtRest, Asked, Working, Answered, Running, StopsItself
  <2>4. Kills'
    BY <1>20 DEF Kills, Marked, Cur, Armed, Talk, FaultTellsDeath, StopsItself
  <2> QED BY <2>1, <2>2, <2>3, <2>4
<1>21. ASSUME NEW p \in Pids, Orphan(p) PROVE IInv'
  <2>1. Types'
    <3>1. Scalars'
      BY <1>21 DEF Types, Scalars, ServerState, Talk, Armed, Orphan
    <3>2. proc' \in [Pids -> Process] /\ DeadOf'
      <4>1. Moved(p, "reaped")
        BY <1>21 DEF Orphan, Moved
      <4> QED BY <4>1, <1>21, MovedProc DEF Types, DeadOf, States, Deaths, Orphan
    <3> QED BY <3>1, <3>2 DEF Types
  <2>2. Children'
    BY <1>21 DEF Children, Alive, Orphan
  <2>3. Phases'
    BY <1>21 DEF Phases, AtRest, Asked, Working, Answered, Running, Orphan
  <2>4. Kills'
    BY <1>21 DEF Kills, Marked, Cur, Armed, Talk, FaultTellsDeath, Orphan
  <2> QED BY <2>1, <2>2, <2>3, <2>4
<1>22. CASE UNCHANGED vars
  BY <1>22 DEF vars, Types, Scalars, DeadOf, Children, Phases, AtRest, Asked, Working,
      Answered, Running, Kills, Marked, FaultTellsDeath, Cur, Told, Deaths, Talk, Armed
<1> QED BY <1>1, <1>2, <1>3, <1>4, <1>5, <1>6, <1>7, <1>8, <1>9, <1>10, <1>11, <1>12, <1>13,
        <1>14, <1>15, <1>16, <1>17, <1>18, <1>19, <1>20, <1>21, <1>22 DEF Next, Fuzzer,
        Server

LEMMA Initial == Init => IInv
<1> SUFFICES ASSUME Init PROVE IInv
  OBVIOUS
<1> USE ForkServerAssumption DEF Init
<1>1. Types
  <2>1. mode \in ModeSet /\ fs \in ServerState
    BY DEF ModeSet, ServerState
  <2>2. /\ proc \in [Pids -> Process]
        /\ \A p \in Pids : proc[p].state = "none" /\ proc[p].how = "none"
    BY DEF Process, States
  <2>3. DeadOf
    BY <2>2 DEF DeadOf, Deaths
  <2> QED BY <2>1, <2>2, <2>3 DEF Types, Scalars
<1>2. Children
  BY DEF Children, Alive, Talk
<1>3. Phases
  BY DEF Phases, AtRest
<1>4. Kills
  BY DEF Kills, Marked, Cur, Deaths, Pids
<1> QED BY <1>1, <1>2, <1>3, <1>4 DEF IInv

LEMMA Invariant == Spec => []IInv
  BY Initial, Inductive, PTL DEF Spec

(***************************************************************************)
(* Whatever the target does and whenever the alarm strikes, an execution   *)
(* is reported as what its process died of (run_target's classification,   *)
(* for every number of executions and every mode).                         *)
(***************************************************************************)
THEOREM ReportsTellDeath == Spec => []FaultTellsDeath
<1>1. IInv => FaultTellsDeath
  BY DEF IInv, Kills, FaultTellsDeath
<1> QED BY <1>1, Invariant, PTL

(***************************************************************************)
(* Two processes of the target never live at once, a stopped one included: *)
(* the alive one is the child of the fork server, or of the execution.     *)
(***************************************************************************)
THEOREM OneTargetLives == Spec => []OneTarget
<1>1. IInv => OneTarget
  <2> SUFFICES ASSUME IInv PROVE OneTarget
    OBVIOUS
  <2> DEFINE A == {p \in Pids : proc[p].state \in Alive}
  <2>1. A \subseteq {Cur}
    BY DEF IInv, Children, Cur, Types, Scalars, ModeSet
  <2>2. IsFiniteSet({Cur}) /\ Cardinality({Cur}) = 1
    BY FS_Singleton
  <2>3. Cardinality(A) <= 1
    BY <2>1, <2>2, FS_Subset
  <2> QED BY <2>3 DEF OneTarget
<1> QED BY <1>1, Invariant, PTL

(***************************************************************************)
(* A request is never answered by a process that the alarm had killed: the *)
(* fork server writes it off first (was_killed in __afl_start_forkserver). *)
(***************************************************************************)
THEOREM TargetIsFresh == Spec => []FreshTarget
<1>1. IInv => FreshTarget
  <2> SUFFICES ASSUME IInv, pc = "arm", ~stop_soon PROVE proc[child_pid].how # "killed"
    BY DEF FreshTarget
  <2>1. child_pid = Cur
    BY DEF IInv, Phases, AtRest, Asked, Working, Answered, Running, Cur, Types, Scalars,
        ModeSet
  <2>2. child_pid \in Pids
    <3>1. CASE mode.forksrv
      BY <3>1 DEF IInv, Phases, AtRest, Asked, Working, Answered, Running
    <3>2. CASE ~mode.forksrv
      BY <3>2 DEF IInv, Children, Talk
    <3> QED BY <3>1, <3>2
  <2> QED BY <2>1, <2>2 DEF IInv, Kills, Marked
<1> QED BY <1>1, Invariant, PTL

(***************************************************************************)
(* The alarm of one execution cannot strike in the next: run_target turns  *)
(* the timer off before it returns.                                        *)
(***************************************************************************)
THEOREM AlarmsEndInTime == Spec => []AlarmOfThisRun
<1>1. IInv => AlarmOfThisRun
  BY DEF IInv, Kills, AlarmOfThisRun, Armed
<1> QED BY <1>1, Invariant, PTL
=============================================================================

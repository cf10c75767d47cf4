----------------------------- MODULE ForkServer -----------------------------
(***************************************************************************)
(* One execution after another of the target: the fuzzer (run_target), the *)
(* fork server inside the instrumented target, the processes it forks, the *)
(* timer, and the signals between them.  What is said over the network is  *)
(* one step here; Delivery has its detail.                                 *)
(*                                                                         *)
(* A process that ended is a zombie until its parent waits for it, and     *)
(* kill(pid, 0) succeeds on a zombie.                                      *)
(***************************************************************************)
EXTENDS Integers, Sequences, FiniteSets

CONSTANTS
    Modes,      \* records of booleans: net (use_net), forksrv (neither dumb_mode = 1
                \* nor no_forkserver), persistent (is_persistent), terminate
                \* (terminate_child), fnr (false_negative_reduction)
    MaxRuns     \* bound on the executions, and on the processes

ASSUME ForkServerAssumption ==
    /\ Modes \subseteq [net : BOOLEAN, forksrv : BOOLEAN, persistent : BOOLEAN,
                        terminate : BOOLEAN, fnr : BOOLEAN]
    /\ MaxRuns \in Nat \ {0}

VARIABLES
    mode,
    pc,                 \* where the fuzzer is in run_target
    run,                \* executions begun: total_execs and the one going on
    child_pid,
    child_timed_out,
    prev_timed_out,
    stop_soon,
    timer,              \* the execution that armed ITIMER_REAL, 0 if it is off
    ctl,                \* the pipe to the fork server: was_killed
    st,                 \* the pipe back: a pid, then a status
    fs,                 \* the fork server: pc, child_pid, child_stopped
    proc,               \* the processes: state, and the status of one that ended
    status,
    fault

Pids == 1 .. MaxRuns
fuzzer == <<pc, run, child_pid, child_timed_out, prev_timed_out, status, fault>>
pipes == <<ctl, st>>
vars == <<mode, fuzzer, stop_soon, timer, pipes, fs, proc>>

Alive == {"running", "stopped"}

\* The processes after SIGKILL to p.
Killed(p) == IF p \in Pids /\ proc[p].state \in Alive
             THEN [proc EXCEPT ![p] = [@ EXCEPT !.state = "zombie", !.how = "killed"]]
             ELSE proc

\* fork(): a pid that was not used.
Forks(p) == /\ p \in Pids /\ proc[p].state = "none"
            /\ \A q \in Pids : q < p => proc[q].state # "none"
            /\ proc' = [proc EXCEPT ![p].state = "running"]

Init ==
    /\ mode \in Modes
    /\ pc = "idle" /\ run = 0 /\ child_pid = 0
    /\ child_timed_out = FALSE /\ prev_timed_out = FALSE /\ stop_soon = FALSE
    /\ timer = 0 /\ ctl = << >> /\ st = << >>
    /\ fs = [pc |-> IF mode.forksrv THEN "read" ELSE "gone", child |-> 0, stopped |-> FALSE]
    /\ proc = [p \in Pids |-> [state |-> "none", how |-> "none", term |-> FALSE]]
    /\ status = "none" /\ fault = "NONE"

-----------------------------------------------------------------------------
(***************************************************************************)
(* The fuzzer.                                                             *)
(***************************************************************************)
\* run_target begins; without a fork server it forks the target itself.
Begin ==
    /\ pc = "idle" /\ run < MaxRuns /\ ~stop_soon
    /\ run' = run + 1 /\ child_timed_out' = FALSE
    /\ IF mode.forksrv THEN pc' = "request" /\ UNCHANGED <<child_pid, proc>>
       ELSE \E p \in Pids : Forks(p) /\ child_pid' = p /\ pc' = "arm"
    /\ UNCHANGED <<mode, prev_timed_out, status, fault, stop_soon, timer, pipes, fs>>

\* The fork server is told whether the last execution was killed.  A broken pipe
\* ends run_target if the user stopped the campaign, else the program.
Request ==
    /\ pc = "request"
    /\ IF fs.pc = "gone" THEN pc' = "over" /\ UNCHANGED ctl
       ELSE pc' = "getpid" /\ ctl' = Append(ctl, prev_timed_out)
    /\ UNCHANGED <<mode, run, child_pid, child_timed_out, prev_timed_out, status, fault,
                   stop_soon, timer, st, fs, proc>>

GetPid ==
    /\ pc = "getpid" /\ (st # << >> \/ fs.pc = "gone")
    /\ IF st = << >> THEN pc' = "over" /\ UNCHANGED <<child_pid, st>>
       ELSE child_pid' = Head(st) /\ st' = Tail(st) /\ pc' = "arm"
    /\ UNCHANGED <<mode, run, child_timed_out, prev_timed_out, status, fault, stop_soon, timer,
                   ctl, fs, proc>>

\* setitimer
Arm ==
    /\ pc = "arm" /\ timer' = run
    /\ pc' = IF mode.net THEN "network" ELSE "status"
    /\ UNCHANGED <<mode, run, child_pid, child_timed_out, prev_timed_out, status, fault,
                   stop_soon, pipes, fs, proc>>

\* send_over_network: it cannot connect; or the last message drew no reply, and
\* false negatives are to be reduced; or the server is to end.
Network ==
    /\ pc = "network"
    /\ \E connected, likely_buggy \in BOOLEAN :
          pc' = IF ~connected \/ (likely_buggy /\ mode.fnr) THEN "status" ELSE "terminate"
    /\ UNCHANGED <<mode, run, child_pid, child_timed_out, prev_timed_out, status, fault,
                   stop_soon, timer, pipes, fs, proc>>

Terminate ==
    /\ pc = "terminate" /\ pc' = "wait_gone"
    /\ proc' = IF mode.terminate /\ proc[child_pid].state \in Alive
               THEN [proc EXCEPT ![child_pid].term = TRUE] ELSE proc
    /\ UNCHANGED <<mode, run, child_pid, child_timed_out, prev_timed_out, status, fault,
                   stop_soon, timer, pipes, fs>>

\* "give the server a bit more time to gracefully terminate": until ESRCH.
WaitGone ==
    /\ pc = "wait_gone" /\ proc[child_pid].state = "reaped"
    /\ pc' = "status"
    /\ UNCHANGED <<mode, run, child_pid, child_timed_out, prev_timed_out, status, fault,
                   stop_soon, timer, pipes, fs, proc>>

\* The status comes from the fork server, or from waitpid.
Status ==
    /\ pc = "status"
    /\ IF mode.forksrv
       THEN /\ st # << >> \/ fs.pc = "gone"
            /\ IF st = << >> THEN pc' = "over" /\ UNCHANGED <<status, st>>
               ELSE status' = Head(st) /\ st' = Tail(st) /\ pc' = "collect"
            /\ UNCHANGED proc
       ELSE /\ proc[child_pid].state = "zombie"
            /\ proc' = [proc EXCEPT ![child_pid].state = "reaped"]
            /\ status' = proc[child_pid].how /\ pc' = "collect"
            /\ UNCHANGED st
    /\ UNCHANGED <<mode, run, child_pid, child_timed_out, prev_timed_out, fault, stop_soon,
                   timer, ctl, fs>>

Collect ==
    /\ pc = "collect" /\ pc' = "report"
    /\ child_pid' = IF status = "stopped" THEN child_pid ELSE 0
    /\ UNCHANGED <<mode, run, child_timed_out, prev_timed_out, status, fault, stop_soon, timer,
                   pipes, fs, proc>>

\* Fault: any death after the alarm is a timeout.
Outcome_AnyDeath ==
    IF status \in {"exited", "stopped"} \/ stop_soon THEN "NONE"
    ELSE IF child_timed_out THEN "TMOUT"
    ELSE IF status = "termed" THEN "NONE" ELSE "CRASH"

\* killed and oom are both SIGKILL to WTERMSIG.
Outcome ==
    IF status \in {"exited", "stopped"} \/ stop_soon THEN "NONE"
    ELSE IF child_timed_out /\ status \in {"killed", "oom"} THEN "TMOUT"
    ELSE IF status = "termed" THEN "NONE" ELSE "CRASH"

\* The timer is off before child_timed_out is looked at.
Report ==
    /\ pc = "report" /\ pc' = "idle"
    /\ timer' = 0
    /\ prev_timed_out' = child_timed_out
    /\ fault' = Outcome
    /\ UNCHANGED <<mode, run, child_pid, child_timed_out, status, stop_soon, pipes, fs, proc>>

\* Fault: the alarm asks the process to end.
Alarm_Asks ==
    /\ timer # 0 /\ timer' = 0
    /\ IF child_pid > 0
       THEN child_timed_out' = TRUE /\ proc' = [proc EXCEPT ![child_pid].term = TRUE]
       ELSE UNCHANGED <<child_timed_out, proc>>
    /\ UNCHANGED <<mode, pc, run, child_pid, prev_timed_out, status, fault, stop_soon, pipes, fs>>

\* handle_timeout
Alarm ==
    /\ timer # 0 /\ timer' = 0
    /\ IF child_pid > 0 THEN child_timed_out' = TRUE /\ proc' = Killed(child_pid)
       ELSE UNCHANGED <<child_timed_out, proc>>
    /\ UNCHANGED <<mode, pc, run, child_pid, prev_timed_out, status, fault, stop_soon, pipes, fs>>

\* handle_stop_sig: the child and the fork server are killed.
StopSignal ==
    /\ ~stop_soon /\ stop_soon' = TRUE
    /\ proc' = Killed(child_pid)
    /\ fs' = [fs EXCEPT !.pc = "gone"]
    /\ UNCHANGED <<mode, fuzzer, timer, pipes>>

-----------------------------------------------------------------------------
(***************************************************************************)
(* The fork server.                                                        *)
(***************************************************************************)
\* Fault: a stopped child is continued though it was killed.
Wake_Continues ==
    /\ fs.pc = "read" /\ ctl # << >> /\ ctl' = Tail(ctl)
    /\ fs' = [fs EXCEPT !.pc = IF fs.stopped THEN "continue" ELSE "fork"]
    /\ UNCHANGED <<mode, fuzzer, stop_soon, timer, st, proc>>

\* The next request: a stopped child that was killed is written off first, any
\* other stopped child goes on.
Wake ==
    /\ fs.pc = "read" /\ ctl # << >> /\ ctl' = Tail(ctl)
    /\ fs' = [fs EXCEPT !.pc = IF fs.stopped /\ Head(ctl) THEN "bury"
                               ELSE IF fs.stopped THEN "continue" ELSE "fork"]
    /\ UNCHANGED <<mode, fuzzer, stop_soon, timer, st, proc>>

Bury ==
    /\ fs.pc = "bury" /\ proc[fs.child].state = "zombie"
    /\ proc' = [proc EXCEPT ![fs.child].state = "reaped"]
    /\ fs' = [fs EXCEPT !.pc = "fork", !.stopped = FALSE]
    /\ UNCHANGED <<mode, fuzzer, stop_soon, timer, pipes>>

Fork ==
    /\ fs.pc = "fork"
    /\ \E p \in Pids : /\ Forks(p)
                       /\ fs' = [fs EXCEPT !.pc = "wait", !.child = p]
                       /\ st' = Append(st, p)
    /\ UNCHANGED <<mode, fuzzer, stop_soon, timer, ctl>>

\* SIGCONT
Continue ==
    /\ fs.pc = "continue"
    /\ proc' = IF proc[fs.child].state = "stopped"
               THEN [proc EXCEPT ![fs.child].state = "running"] ELSE proc
    /\ fs' = [fs EXCEPT !.pc = "wait", !.stopped = FALSE]
    /\ st' = Append(st, fs.child)
    /\ UNCHANGED <<mode, fuzzer, stop_soon, timer, ctl>>

\* Fault: a child that stopped is given up for a new one.
Wait_Forgets ==
    /\ fs.pc = "wait"
    /\ \/ /\ proc[fs.child].state = "zombie"
          /\ proc' = [proc EXCEPT ![fs.child].state = "reaped"]
          /\ st' = Append(st, proc[fs.child].how)
       \/ /\ mode.persistent /\ proc[fs.child].state = "stopped"
          /\ st' = Append(st, "stopped")
          /\ UNCHANGED proc
    /\ fs' = [fs EXCEPT !.pc = "read"]
    /\ UNCHANGED <<mode, fuzzer, stop_soon, timer, ctl>>

\* waitpid, WUNTRACED for a persistent target.
Wait ==
    /\ fs.pc = "wait"
    /\ \/ /\ proc[fs.child].state = "zombie"
          /\ proc' = [proc EXCEPT ![fs.child].state = "reaped"]
          /\ st' = Append(st, proc[fs.child].how)
          /\ fs' = [fs EXCEPT !.pc = "read"]
       \/ /\ mode.persistent /\ proc[fs.child].state = "stopped"
          /\ st' = Append(st, "stopped")
          /\ fs' = [fs EXCEPT !.pc = "read", !.stopped = TRUE]
          /\ UNCHANGED proc
    /\ UNCHANGED <<mode, fuzzer, stop_soon, timer, ctl>>

-----------------------------------------------------------------------------
(***************************************************************************)
(* The target, and init for its orphans.                                   *)
(***************************************************************************)
Ends(p, how) ==
    /\ proc[p].state = "running"
    /\ proc' = [proc EXCEPT ![p].state = "zombie", ![p].how = how]
    /\ UNCHANGED <<mode, fuzzer, stop_soon, timer, pipes, fs>>

\* The target exits, crashes, or is killed by the kernel for its memory.
Dies(p) == \E how \in {"exited", "crashed", "oom"} : Ends(p, how)

\* SIGTERM ends it or is handled; a stopped process sees it when it goes on.
TakesTerm(p) ==
    /\ proc[p].term
    /\ \/ Ends(p, "termed")
       \/ /\ proc[p].state = "running"
          /\ proc' = [proc EXCEPT ![p].term = FALSE]
          /\ UNCHANGED <<mode, fuzzer, stop_soon, timer, pipes, fs>>

\* __afl_persistent_loop
StopsItself(p) ==
    /\ mode.persistent /\ proc[p].state = "running"
    /\ proc' = [proc EXCEPT ![p].state = "stopped"]
    /\ UNCHANGED <<mode, fuzzer, stop_soon, timer, pipes, fs>>

Orphan(p) ==
    /\ mode.forksrv /\ fs.pc = "gone" /\ proc[p].state = "zombie"
    /\ proc' = [proc EXCEPT ![p].state = "reaped"]
    /\ UNCHANGED <<mode, fuzzer, stop_soon, timer, pipes, fs>>

Fuzzer == Begin \/ Request \/ GetPid \/ Arm \/ Network \/ Terminate \/ WaitGone
              \/ Status \/ Collect \/ Report

Server == Wake \/ Bury \/ Fork \/ Continue \/ Wait

Next == \/ Fuzzer \/ Server \/ Alarm \/ StopSignal
        \/ \E p \in Pids : Dies(p) \/ TakesTerm(p) \/ StopsItself(p) \/ Orphan(p)

\* The fuzzer and the fork server run, time passes, and init waits for orphans.
\* Nothing is assumed of the target.
Spec == /\ Init /\ [][Next]_vars
        /\ WF_vars(Fuzzer) /\ WF_vars(Server) /\ WF_vars(Alarm)
        /\ \A p \in Pids : WF_vars(Orphan(p))

-----------------------------------------------------------------------------
(***************************************************************************)
(* Properties.                                                             *)
(***************************************************************************)
\* Every variable has its type; the pipes hold what is on its way, one word each.
TypeOK ==
    /\ pc \in {"idle", "request", "getpid", "arm", "network", "terminate", "wait_gone",
               "status", "collect", "report", "over"}
    /\ run \in 0 .. MaxRuns /\ child_pid \in 0 .. MaxRuns /\ timer \in 0 .. MaxRuns
    /\ fs.pc \in {"read", "bury", "fork", "continue", "wait", "gone"}
    /\ Len(ctl) <= 1 /\ Len(st) <= 2
    /\ fault \in {"NONE", "TMOUT", "CRASH"}

\* What an execution is reported as is how its process ended: a crash is never
\* lost to an alarm that came late, a process killed for its time is never a
\* crash, one that ended or stopped by itself is no fault, and the death of an
\* earlier execution is not reported again.
FaultTellsDeath ==
    (pc = "idle" /\ run > 0 /\ ~stop_soon) =>
        CASE status = "crashed" -> fault = "CRASH"
          [] status = "killed" -> fault = "TMOUT"
          [] status = "oom" -> fault \in {"CRASH", "TMOUT"}
          [] OTHER -> fault = "NONE"

\* Two processes of the target never live side by side: they would compete for
\* the port, and replies would come from the wrong one.
OneTarget == Cardinality({p \in Pids : proc[p].state \in Alive}) <= 1

\* The alarm of one execution cannot strike in the next.
AlarmOfThisRun == timer # 0 /\ ~stop_soon => timer = run /\ pc # "idle"

\* A process the fuzzer is about to talk to has not ended in an earlier execution:
\* a stopped child that the alarm killed was written off.
FreshTarget == (pc = "arm" /\ ~stop_soon) => proc[child_pid].how # "killed"

\* Every execution ends: through the fork server, and for a target that is not
\* both persistent and on the network.
RunEnds ==
    (mode.forksrv /\ ~(mode.net /\ mode.persistent) /\ pc # "idle") ~> (pc \in {"idle", "over"})

\* The same without a fork server: "fork + execve() call for every tested input".
RunEndsWithoutServer == (~mode.forksrv /\ pc # "idle") ~> (pc \in {"idle", "over"})
=============================================================================

------------------------------ MODULE Netstack -----------------------------
(***************************************************************************)
(* The supervisor of the user-space TCP/IP stack                           *)
(* (desktop-agent-be/src/tun_handler/netstack.rs and tasks.rs).  The stack *)
(* runs as a generation of tasks, a runner among them; when one ends the   *)
(* others are cancelled, aborted and awaited, and after a pause a new      *)
(* generation is built on the same device.                                 *)
(***************************************************************************)
EXTENDS Naturals, Sequences, FiniteSets

CONSTANTS
    TASKS,        \* the handles of a generation in the order stop joins them
    MaxFaults,    \* bound: tasks that end by themselves and builds that fail
    NoTask

Kinds == {TASKS[i] : i \in 1..Len(TASKS)}

NetstackConstants == TASKS \in Seq(STRING) /\ NoTask \notin Kinds /\ MaxFaults \in Nat

VARIABLES
    shutdown,     \* the token of the agent; each generation has a child of it
    cancelled,    \* the token of this generation
    task,         \* [Kinds -> "absent" | "running" | "aborted" | "ended"]
    left,         \* tasks of earlier generations that still run
    sup,          \* where run_netstack_supervisor is
    completed,    \* the task whose handle select! has taken the result of
    next,         \* the handle stop_netstack_generation is at
    stuck,        \* the task that never comes back to an await, if there is one
    faults

nvars == <<shutdown, cancelled, task, left, sup, completed, next, stuck, faults>>

NetstackInit ==
    /\ shutdown = FALSE /\ cancelled = FALSE
    /\ task = [k \in Kinds |-> "absent"] /\ left = {}
    /\ sup = "absent" /\ completed = NoTask /\ next = 1
    /\ stuck \in Kinds \cup {NoTask} /\ faults = 0

Over(k) == task[k] \in {"absent", "ended"}

\* Builds the stack and spawns the tasks; nothing is spawned before the last
\* step that can fail.
start_netstack_generation ==
    /\ left' = left \cup {k \in Kinds : ~Over(k)}
    /\ task' = [k \in Kinds |-> "running"]
    /\ cancelled' = shutdown
    /\ completed' = NoTask

spawn_netstack_supervisor ==
    /\ sup = "absent" /\ sup' = "select"
    /\ start_netstack_generation
    /\ UNCHANGED <<shutdown, next, stuck, faults>>

\* A task breaks out of its loop: a token seen, a device or channel error, a
\* closed stream, a panic; or it is dropped where it awaits.
Seen(k) == k # "runner" /\ (shutdown \/ cancelled)
spawn_packet_bridge(k) ==
    /\ ~Over(k) /\ k # stuck
    /\ task[k] = "aborted" \/ Seen(k)
    /\ task' = [task EXCEPT ![k] = "ended"]
    /\ UNCHANGED <<shutdown, cancelled, left, sup, completed, next, stuck, faults>>
TaskFails(k) ==
    /\ task[k] = "running" /\ faults < MaxFaults /\ faults' = faults + 1
    /\ task' = [task EXCEPT ![k] = "ended"]
    /\ UNCHANGED <<cancelled, left, sup, completed, next, stuck>>

\* select! takes the token or one of the handles that are ready.
SelectShutdown ==
    /\ sup = "select" /\ shutdown
    /\ sup' = "stop" /\ next' = 1 /\ cancelled' = TRUE
    /\ UNCHANGED <<shutdown, task, left, completed, stuck, faults>>
SelectTask(k) ==
    /\ sup = "select" /\ task[k] = "ended"
    /\ sup' = "stop" /\ completed' = k /\ next' = 1 /\ cancelled' = TRUE
    /\ UNCHANGED <<shutdown, task, left, stuck, faults>>

\* Faulty variant: the handle select! has consumed is awaited again.
Skipped_none(k) == FALSE
\* A handle must not be polled once it has given its result.
Skipped(k) == completed = k

\* abort() and await, one handle after the other.
Abort ==
    /\ sup = "stop" /\ next <= Len(TASKS) /\ ~Skipped(TASKS[next]) /\ task[TASKS[next]] = "running"
    /\ task' = [task EXCEPT ![TASKS[next]] = "aborted"]
    /\ UNCHANGED <<shutdown, cancelled, left, sup, completed, next, stuck, faults>>
Await ==
    /\ sup = "stop" /\ next <= Len(TASKS)
    /\ \/ Skipped(TASKS[next]) /\ next' = next + 1 /\ UNCHANGED sup
       \/ /\ ~Skipped(TASKS[next]) /\ task[TASKS[next]] = "ended"
          /\ IF completed = TASKS[next] THEN sup' = "panicked" /\ UNCHANGED next
                                        ELSE next' = next + 1 /\ UNCHANGED sup
    /\ UNCHANGED <<shutdown, cancelled, task, left, completed, stuck, faults>>
stop_netstack_generation ==
    /\ sup = "stop" /\ next > Len(TASKS)
    /\ sup' = IF completed = NoTask \/ shutdown THEN "done" ELSE "sleep"
    /\ UNCHANGED <<shutdown, cancelled, task, left, completed, next, stuck, faults>>

\* The pause ends, or the token ends the supervisor.
Sleep ==
    /\ sup \in {"sleep", "retry"}
    /\ \/ shutdown /\ sup' = "done"
       \/ ~(shutdown /\ sup = "sleep") /\ sup' = "build"
    /\ UNCHANGED <<shutdown, cancelled, task, left, completed, next, stuck, faults>>

Rebuild ==
    /\ sup = "build"
    /\ \/ start_netstack_generation /\ sup' = "select" /\ UNCHANGED faults
       \/ /\ faults < MaxFaults /\ faults' = faults + 1 /\ sup' = "retry"
          /\ UNCHANGED <<cancelled, task, left, completed>>
    /\ UNCHANGED <<shutdown, next, stuck>>

run_netstack_supervisor ==
    \/ SelectShutdown \/ \E k \in Kinds : SelectTask(k)
    \/ Abort \/ Await \/ stop_netstack_generation \/ Sleep \/ Rebuild
TaskSteps == \E k \in Kinds : spawn_packet_bridge(k)
-----------------------------------------------------------------------------
NetstackTypeOK ==
    /\ shutdown \in BOOLEAN /\ cancelled \in BOOLEAN
    /\ task \in [Kinds -> {"absent", "running", "aborted", "ended"}] /\ left \subseteq Kinds
    /\ sup \in {"absent", "select", "stop", "sleep", "build", "retry", "done", "panicked", "aborted"}
    /\ completed \in Kinds \cup {NoTask} /\ stuck \in Kinds \cup {NoTask}
    /\ next \in 1..(Len(TASKS) + 1) /\ faults \in 0..MaxFaults

\* However tasks end, together or one after another: two generations never use
\* the device at the same time, no handle is polled after it gave its result,
\* and the supervisor is not gone while the agent still needs it.
OneGeneration ==
    /\ left = {}
    /\ sup # "panicked"
    /\ sup = "done" => shutdown

Healthy == \A k \in Kinds : task[k] = "running"
=============================================================================

------------------------------ MODULE DnsGuard ------------------------------
(***************************************************************************)
(* The system's DNS setting in TUN mode (tun_handler/dns/): DnsGuard       *)
(* points an interface at the TUN's DNS address and puts the former        *)
(* setting back when it is dropped; DnsLease keeps the former setting in a *)
(* state file for the start after a process that did not get that far.     *)
(* Windows and macOS have the same steps; an interface here is a Windows   *)
(* interface or a macOS network service.                                   *)
(*                                                                         *)
(* One process may start the agent many times (desktop-agent-ui embeds it),*)
(* so a lease with the process's own pid may be one it has left behind.    *)
(***************************************************************************)
EXTENDS Integers, FiniteSetsExt, Functions

CONSTANTS Ifs, Pids,
          Original,               \* interface -> "empty" (DHCP) or "user" (static servers)
          MaxFaults, MaxCrashes,  \* bounds: failed commands and writes; crashes
          NoPid, NoIf

GuardConstants == /\ Original \in [Ifs -> {"empty", "user"}] /\ NoIf \notin Ifs
                  /\ {MaxFaults, MaxCrashes} \subseteq Nat

VARIABLES
    pid, others,    \* this process, or NoPid; the other processes that are alive
    phase,          \* "off", "idle", "restoring", "installing", "recording", "setting",
                    \* "undoing", "running", "dropping"
    dns,            \* interface -> "empty", "user" or "tun"
    file,           \* the state file: Missing, Torn, or a LeaseOf a pid
    records,        \* lease.state.records: position -> record
    todo,           \* records of the stale lease still to be restored
    target, previous,
    kept,           \* records that were said to be kept for the next start
    retried,        \* whether that start has tried them
    ignored,        \* a lease was left alone since its process seemed to be alive
    faults, crashes

vars == <<pid, others, phase, dns, file, records, todo, target, previous, kept, retried, ignored, faults, crashes>>

Record(i, p) == [target |-> i, previous |-> p]
LeaseOf(p, rs) == [kind |-> "lease", pid |-> p, records |-> rs]
Missing == [kind |-> "none"]
Torn == [kind |-> "torn"]
Lease == file.kind = "lease"

\* A Vec by position: push puts a record behind the last one, retain leaves the others
\* where they are.
push(rs, r) == LET n == 1 + Max({0} \cup DOMAIN rs)
               IN [x \in DOMAIN rs \cup {n} |-> IF x = n THEN r ELSE rs[x]]
RetainOthers(rs, i) == [x \in {y \in DOMAIN rs : rs[y].target # i} |-> rs[x]]
is_empty(rs) == DOMAIN rs = {}

Init == /\ pid = NoPid /\ others = {} /\ phase = "off" /\ dns = Original /\ file = Missing
        /\ records = <<>> /\ todo = <<>> /\ target = NoIf /\ previous = "empty"
        /\ kept = {} /\ retried = TRUE /\ ignored = FALSE /\ faults = 0 /\ crashes = 0

Fault == faults < MaxFaults /\ faults' = faults + 1

\* persist: fs::write in place.
persist(rs) == \/ file' = LeaseOf(pid, rs) /\ UNCHANGED faults
               \/ Fault /\ UNCHANGED file

\* set_dns_servers, clear_dns_servers: the command may fail.
set_dns_servers(i, s) == dns' = [dns EXCEPT ![i] = s]
-----------------------------------------------------------------------------
(* Start: what an earlier process left. *)

StartProcess == /\ phase = "off" /\ phase' = "idle"
                /\ \E p \in Pids \ others : pid' = p
                /\ UNCHANGED <<others, dns, file, records, todo, target, previous, kept, retried, ignored, faults, crashes>>

\* Another program gets the pid of a process that is gone.
OtherProcess == /\ \E p \in Pids \ (others \cup {pid}) : others' = others \cup {p}
                /\ Pids \ others' # {}
                /\ UNCHANGED <<pid, phase, dns, file, records, todo, target, previous, kept, retried, ignored, faults, crashes>>

current_process_is_alive(p) == p \in others

\* A lease of this pid, or of a pid in use, is left alone.
cleanup_stale_records ==
    /\ phase = "idle" /\ records' = <<>>
    /\ LET skip == Lease => file.pid = pid \/ current_process_is_alive(file.pid)
       IN /\ todo' = IF skip THEN <<>> ELSE file.records
          /\ phase' = IF skip THEN "installing" ELSE "restoring"
          /\ ignored' = (ignored \/ (Lease /\ file.pid \in others \cup {pid}))
          /\ retried' = (retried \/ ~skip)
    /\ file' = IF file = Torn THEN Missing ELSE file
    /\ UNCHANGED <<pid, others, dns, target, previous, kept, faults, crashes>>

\* Those that cannot be restored stay in the lease.
restore_dns_record ==
    /\ phase = "restoring"
    /\ \E n \in DOMAIN todo :
          /\ \A m \in DOMAIN todo : n <= m
          /\ todo' = [m \in DOMAIN todo \ {n} |-> todo[m]]
          /\ \/ set_dns_servers(todo[n].target, todo[n].previous) /\ UNCHANGED <<records, faults>>
             \/ Fault /\ records' = push(records, todo[n]) /\ UNCHANGED dns
    /\ UNCHANGED <<pid, others, phase, file, target, previous, kept, retried, ignored, crashes>>

StaleRecordsDone == /\ phase = "restoring" /\ is_empty(todo) /\ phase' = "installing"
                    /\ IF is_empty(records) THEN file' = Missing /\ UNCHANGED faults ELSE persist(records)
                    /\ UNCHANGED <<pid, others, dns, records, todo, target, previous, kept, retried, ignored, crashes>>
-----------------------------------------------------------------------------
(* DnsGuard::install. *)

\* Faulty variant: the TUN's address is taken for a former setting.
normalize_previous_dns_identity(p) == p

\* The TUN's address is what an earlier run left.
normalize_previous_dns(p) == IF p = "tun" THEN "empty" ELSE p

\* cleanup_stale_dns ends here: proxy_dns is off, or there is no interface to be set.
NoTakeover == /\ phase = "installing" /\ phase' = "running"
              /\ UNCHANGED <<pid, others, dns, file, records, todo, target, previous, kept, retried, ignored, faults, crashes>>

windows_previous_dns ==
    /\ phase = "installing" /\ phase' = "recording"
    /\ \E i \in Ifs : target' = i /\ previous' = normalize_previous_dns(dns[i])
    /\ UNCHANGED <<pid, others, dns, file, records, todo, kept, retried, ignored, faults, crashes>>

\* Faulty variant: the record is only in memory.
record_active_in_memory ==
    /\ phase = "recording" /\ phase' = "setting"
    /\ records' = push(records, Record(target, previous))
    /\ UNCHANGED <<pid, others, dns, file, todo, target, previous, kept, retried, ignored, faults, crashes>>

\* Before the setting is touched.
record_active ==
    /\ phase = "recording" /\ phase' = "setting"
    /\ records' = push(records, Record(target, previous)) /\ persist(records')
    /\ UNCHANGED <<pid, others, dns, todo, target, previous, kept, retried, ignored, crashes>>

install == /\ phase = "setting"
           /\ \/ set_dns_servers(target, "tun") /\ phase' = "running" /\ UNCHANGED faults
              \/ Fault /\ phase' = "undoing" /\ UNCHANGED dns
           /\ UNCHANGED <<pid, others, file, records, todo, target, previous, kept, retried, ignored, crashes>>

\* Drop, and install when it could not set the DNS.
RestorePrevious ==
    /\ (phase = "running" /\ target # NoIf) \/ phase = "undoing"
    /\ \/ set_dns_servers(target, previous) /\ phase' = "dropping" /\ UNCHANGED <<target, kept, retried, faults>>
       \/ /\ Fault /\ phase' = (IF phase = "undoing" THEN "running" ELSE "idle") /\ target' = NoIf
          /\ kept' = Range(records) /\ retried' = FALSE /\ UNCHANGED dns
    /\ UNCHANGED <<pid, others, file, records, todo, previous, ignored, crashes>>

\* By target: an older record of the same interface goes too.
remove_record == /\ phase = "dropping" /\ phase' = "idle" /\ target' = NoIf
                 /\ records' = RetainOthers(records, target)
                 /\ IF is_empty(records') THEN file' = Missing /\ UNCHANGED faults ELSE persist(records')
                 /\ UNCHANGED <<pid, others, dns, todo, previous, kept, retried, ignored, crashes>>

StopWithoutGuard == /\ phase = "running" /\ target = NoIf /\ phase' = "idle"
                    /\ UNCHANGED <<pid, others, dns, file, records, todo, target, previous, kept, retried, ignored, faults, crashes>>

\* The process ends, in the middle of a write of the file maybe.
Crash == /\ phase # "off" /\ (phase # "idle" => crashes < MaxCrashes)
         /\ crashes' = IF phase = "idle" THEN crashes ELSE crashes + 1
         /\ phase' = "off" /\ pid' = NoPid /\ records' = <<>> /\ todo' = <<>> /\ target' = NoIf
         /\ \/ UNCHANGED file
            \/ phase = "recording" /\ file' = Torn
         /\ UNCHANGED <<others, dns, previous, kept, retried, ignored, faults>>

Next == \/ StartProcess \/ OtherProcess \/ cleanup_stale_records \/ restore_dns_record \/ StaleRecordsDone
        \/ NoTakeover \/ windows_previous_dns \/ record_active \/ install \/ RestorePrevious \/ remove_record
        \/ StopWithoutGuard \/ Crash

Spec == Init /\ [][Next]_vars
-----------------------------------------------------------------------------
InFile(i) == Lease /\ Record(i, Original[i]) \in Range(file.records)

\* However the process ends, an interface that points at the TUN's DNS has its former
\* setting in the state file (commands and writes working, no lease ignored).
DnsIsRestorable == faults = 0 /\ ~ignored => \A i \in Ifs : dns[i] # Original[i] => InFile(i)

\* With that, once a start is past its cleanup only the interface it takes over differs
\* from what the user had set.
OriginalRestored == faults = 0 /\ ~ignored /\ phase \in {"installing", "running"} =>
                        \A i \in Ifs \ {target} : dns[i] = Original[i]

\* Whatever fails, the TUN's own address is never what will be put back.
TunIsNeverPutBack == /\ previous # "tun"
                     /\ Lease => \A r \in Range(file.records) : r.previous # "tun"

\* What the log says when a setting cannot be put back: the state file is kept and the
\* next start tries again.
KeptForNextStart == ~retried => \A r \in kept : Lease /\ r \in Range(file.records)
=============================================================================

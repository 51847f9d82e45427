------------------------------ MODULE FlagSync ------------------------------
(***************************************************************************)
(* The global controls: kill switch, emergency halt and module gates held  *)
(* by every replica, the runtime_flags rows they are published to, and the *)
(* sync task that applies the rows on each replica.                        *)
(*                                                                         *)
(* Source: crates/core/src/state.rs (set_kill_switch, emergency_stop,      *)
(* clear_halt, set_enabled, publish_flag, apply_flag_sync),                *)
(* crates/core/src/db/claims.rs (PostgresFlags), crates/server/src/main.rs *)
(* (sync task) and api.rs, module-telegram commands.rs (kill and resume).  *)
(*                                                                         *)
(* A request is a program of steps; between two steps the code awaits a    *)
(* lock or the database.  One clock stands for the database's and the      *)
(* replicas' clocks, which the code assumes to be synchronised.            *)
(***************************************************************************)
EXTENDS Naturals, Sequences

CONSTANTS
    Replicas,     \* 1..n, in the order in which they are first asked
    Trading,      \* BotModule::TRADING, the trading modules in their order
    Requests,     \* 1..n: operator requests in order of arrival
    MaxFaults     \* bound: writes that fail, processes that die

Modules == {Trading[i] : i \in DOMAIN Trading}
Latches == {"kill_switch", "halted"}
Flags   == Latches \cup Modules

ASSUME FlagSyncAssumption ==
    /\ MaxFaults \in Nat
    /\ Requests \subseteq Nat \ {0} /\ Replicas \subseteq Nat \ {0}
    /\ Trading \in Seq(Modules) /\ Modules \cap Latches = {}

VARIABLES
    local,    \* local[r][f]: the flag as replica r acts on it
    touched,  \* touched[r][f]: r's last stamped decision (0: never)
    store,    \* store[f]: the shared row
    request,  \* request[q]: where it runs and what it still has to do
    sync,     \* sync[r]: the rows a sync round of r has read, or Resting
    now,      \* the clock, which moves on with every row that is written
    halt,     \* the last stop, unless a resume was asked for since or was still
              \* being served when it arrived; or 0
    faults,   \* what is left of the bound
    dropped   \* some write has failed

vars == <<local, touched, store, request, sync, now, halt, faults, dropped>>

Resting == [f \in Flags |-> [on |-> FALSE, at |-> 0]]
Rows    == [on : BOOLEAN, at : Nat]
Kinds   == {"stop", "resume", "enable", "disable"}
Unserved == [kind |-> "none", at |-> 0, todo |-> << >>]

-----------------------------------------------------------------------------
(* The requests.                                                           *)

\* A local store of some flags, one that only publishes a change, and the
\* publication of a flag.
Set(to)        == [do |-> "set", to |-> to]
Change(m, on)  == [do |-> "change", to |-> [f \in {m} |-> on]]
Publish(f, on) == [do |-> "publish", to |-> [g \in {f} |-> on]]

Gated == [i \in DOMAIN Trading |-> Publish(Trading[i], FALSE)]

\* Mutant: an emergency stop publishes one of its two latches.
EmergencyStopOneLatch ==
    <<Set([f \in Flags |-> f \in Latches]), Publish("kill_switch", TRUE)>> \o Gated

\* emergency_stop: everything locally first, then row by row.
EmergencyStop ==
    <<Set([f \in Flags |-> f \in Latches]),
      Publish("kill_switch", TRUE), Publish("halted", TRUE)>> \o Gated

\* /resume: set_kill_switch(false), then clear_halt.
Resume ==
    << Set([f \in {"kill_switch"} |-> FALSE]), Publish("kill_switch", FALSE),
       Set([f \in {"halted"} |-> FALSE]), Publish("halted", FALSE) >>

\* set_enabled publishes only what it changed.
SetEnabled(m, on) == <<Change(m, on), Publish(m, on)>>

Programs(kind) ==
    CASE kind = "stop"    -> {EmergencyStop}
      [] kind = "resume"  -> {Resume}
      [] kind = "enable"  -> {SetEnabled(m, TRUE) : m \in Modules}
      [] kind = "disable" -> {SetEnabled(m, FALSE) : m \in Modules}

Running(q)    == request[q].todo # << >>
Killed(r)     == local[r]["kill_switch"] \/ local[r]["halted"]
Advance(q)    == request' = [request EXCEPT ![q].todo = Tail(@)]

\* What the configuration says at startup.
Configured == [f \in Flags |-> f \in Modules]

\* The rows are as an earlier stop, resume and enabling left them.
Init ==
    /\ local = [r \in Replicas |-> Configured]
    /\ touched = [r \in Replicas |-> [f \in Flags |-> 0]]
    /\ store = [f \in Flags |-> [on |-> Configured[f], at |-> 1]]
    /\ request = [q \in Requests |-> Unserved]
    /\ sync = [r \in Replicas |-> Resting]
    /\ now = 1
    /\ halt = 0
    /\ faults = MaxFaults /\ dropped = FALSE

\* A request at replica r takes its next local step (atomics, and gates under
\* a lock nobody holds across I/O).  An unchanged gate is not published.
Decides(q, kind, r, todo) ==
    LET op   == Head(todo)
        same == \A f \in DOMAIN op.to : local[r][f] = op.to[f] IN
    /\ local' = [local EXCEPT ![r] =
                   [f \in Flags |-> IF f \in DOMAIN op.to THEN op.to[f] ELSE @[f]]]
    /\ request' = [request EXCEPT ![q] =
          [kind |-> kind, at |-> r,
           todo |-> IF op.do = "change" /\ same THEN << >> ELSE Tail(todo)]]

\* An operator's request arrives at a replica, and its first step is local.
Arrive(q, r) ==
    /\ request[q] = Unserved /\ \A p \in Requests : p < q => request[p] # Unserved
    /\ \A s \in Replicas : s < r => \E p \in Requests : request[p].at = s
    /\ \E kind \in Kinds : \E program \in Programs(kind) :
          /\ Decides(q, kind, r, program)
          /\ halt' = CASE kind = "resume" -> 0
                       [] kind = "stop" /\ \A p \in Requests :
                                  Running(p) => request[p].kind # "resume" -> q
                       [] OTHER -> halt
    /\ UNCHANGED <<touched, store, sync, now, faults, dropped>>

\* A later local step: the halt of a resume.
Decide(q) ==
    /\ Running(q) /\ Head(request[q].todo).do = "set"
    /\ Decides(q, request[q].kind, request[q].at, request[q].todo)
    /\ UNCHANGED <<touched, store, sync, now, halt, faults, dropped>>

Fault == faults > 0 /\ faults' = faults - 1

\* Mutant: the decision is stamped when the row has been written.
StampLate == now + 1

\* publish_flag stamps the decision before the row is written.  (Between the
\* two a sync could only skip a row, so they are one step.)
Stamp == now

\* PostgresFlags::write: the last writer wins, at the database's time; a
\* failure is logged and forgotten.
Write(q) ==
    /\ Running(q) /\ Head(request[q].todo).do = "publish"
    /\ LET op == Head(request[q].todo) IN
       /\ touched' = [touched EXCEPT ![request[q].at] =
                        [f \in Flags |-> IF f \in DOMAIN op.to THEN Stamp ELSE @[f]]]
       /\ \/ /\ store' = [f \in Flags |-> IF f \in DOMAIN op.to
                                          THEN [on |-> op.to[f], at |-> now + 1] ELSE store[f]]
             /\ now' = now + 1 /\ UNCHANGED <<faults, dropped>>
          \/ Fault /\ dropped' = TRUE /\ UNCHANGED <<store, now>>
    /\ Advance(q)
    /\ UNCHANGED <<local, sync, halt>>

-----------------------------------------------------------------------------
(* The sync task.                                                          *)

\* read_all.
Read(r) ==
    /\ sync[r] = Resting
    /\ sync' = [sync EXCEPT ![r] = store]
    /\ UNCHANGED <<local, touched, store, request, now, halt, faults, dropped>>

\* Mutant: the halt latch is not synchronised.
CurrentNoHalt(r, f, row) ==
    f # "halted" /\ ((f \in Latches /\ row.on) \/ row.at > touched[r][f])

\* The safe direction of a latch needs no recency, anything else a row newer
\* than the last stamped decision.
Current(r, f, row) == (f \in Latches /\ row.on) \/ row.at > touched[r][f]

\* apply_flag_sync: nothing is stamped and nothing written back.  (The locks
\* it awaits on the way leave no more room than the wait before it.)
Apply(r) ==
    /\ sync[r] # Resting
    /\ local' = [local EXCEPT ![r] =
                   [f \in Flags |-> IF Current(r, f, sync[r][f]) THEN sync[r][f].on ELSE @[f]]]
    /\ sync' = [sync EXCEPT ![r] = Resting]
    /\ UNCHANGED <<touched, store, request, now, halt, faults, dropped>>

\* A process dies with its requests and starts from its configuration.
Restart(r) ==
    /\ Fault
    /\ local' = [local EXCEPT ![r] = Configured]
    /\ touched' = [touched EXCEPT ![r] = [f \in Flags |-> 0]]
    /\ sync' = [sync EXCEPT ![r] = Resting]
    /\ request' = [q \in Requests |-> IF request[q].at = r
                                      THEN [request[q] EXCEPT !.todo = << >>] ELSE request[q]]
    /\ halt' = IF halt # 0 /\ request[halt].at = r /\ Running(halt) THEN 0 ELSE halt
    /\ UNCHANGED <<store, now, dropped>>

Serve(q)    == Decide(q) \/ Write(q)
SyncTask(r) == Read(r) \/ Apply(r)

Next ==
    \/ \E q \in Requests : Serve(q) \/ \E r \in Replicas : Arrive(q, r)
    \/ \E r \in Replicas : SyncTask(r) \/ Restart(r)

\* A request is served to its end and the sync task ticks.
Fairness ==
    /\ \A q \in Requests : WF_vars(Serve(q))
    /\ \A r \in Replicas : WF_vars(SyncTask(r))

Spec == Init /\ [][Next]_vars /\ Fairness

-----------------------------------------------------------------------------
(* Properties.                                                             *)

Ops == [do : {"set", "change", "publish"},
        to : UNION {[fs -> BOOLEAN] : fs \in SUBSET Flags}]

\* Types; what is left of a request is a sequence of steps, faults a budget.
TypeOK ==
    /\ local \in [Replicas -> [Flags -> BOOLEAN]]
    /\ touched \in [Replicas -> [Flags -> Nat]]
    /\ store \in [Flags -> Rows]
    /\ request \in [Requests -> [kind : Kinds \cup {"none"}, at : Replicas \cup {0},
                                 todo : Seq(Ops)]]
    /\ sync \in [Replicas -> [Flags -> Rows]]
    /\ now \in Nat
    /\ halt \in Requests \cup {0}
    /\ faults \in 0..MaxFaults /\ dropped \in BOOLEAN

\* The last stop was served to its end, no resume was still being served when
\* it arrived (that one's later writes may undo it), and none was asked since.
Stopped == halt # 0 /\ ~Running(halt)

\* emergency_stop, "must reach EVERY replica": once a stop that no resume
\* overlaps was published and nobody has asked to resume, a latch is on in the
\* rows, even if one of the stop's writes failed.
StopIsDurable ==
    Stopped => \E f \in Latches : store[f].on

\* And every replica acts on it sooner or later, the ones that restart too.
StopReachesAll ==
    Stopped ~> (halt = 0 \/ \A r \in Replicas : Killed(r))

\* apply_flag_sync, "so every replica converges": unless a write failed, all
\* replicas end up with what the rows say.
Converges ==
    <>[](dropped \/ \A r \in Replicas, f \in Flags : local[r][f] = store[f].on)

\* apply_flag_sync, "kill OFF and module flags apply only when the shared row
\* is newer than this replica's last local decision for that flag": while a
\* stop is being served and nobody asked to resume, its latches stay on.
StopHolds ==
    [][halt # 0 /\ Running(halt) /\ halt' = halt
          => \A f \in Latches : local[request[halt].at][f] => local'[request[halt].at][f]]_vars

=============================================================================

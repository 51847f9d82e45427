------------------------- MODULE ServerTasksProofs -------------------------
(***************************************************************************)
(* Proofs about two background tasks of the server binary: the flag sync   *)
(* (FlagSync) and the recovery worker's queue (ReconQueue).  They share no *)
(* state; each theorem is about one of the two specifications.             *)
(***************************************************************************)
EXTENDS FlagSync, ReconQueue, TLAPS

-----------------------------------------------------------------------------
(* FlagSync: types.                                                        *)

\* Steps that publish gates and no latch.
GatesOnly(todo) ==
    \A i \in DOMAIN todo : todo[i].do = "publish" /\ DOMAIN todo[i].to \cap Latches = {}

\* What the configuration says of flags, modules and bounds.
LEMMA ConfigFacts ==
    /\ Latches \subseteq Flags /\ Modules \subseteq Flags
    /\ \A i \in DOMAIN Trading : Trading[i] \in Modules
    /\ DOMAIN Trading = 1..Len(Trading) /\ Len(Trading) \in Nat
    /\ 0 \notin Replicas /\ 0 \notin Requests /\ MaxFaults \in Nat
  <1>1. Trading \in Seq(Modules) /\ 0 \notin Replicas /\ 0 \notin Requests /\ MaxFaults \in Nat
    BY FlagSyncAssumption
  <1> QED BY <1>1 DEF Flags, Modules

\* A step with some flags as its target is a step.
LEMMA OpType ==
    ASSUME NEW do \in {"set", "change", "publish"}, NEW fs \in SUBSET Flags,
           NEW to \in [fs -> BOOLEAN]
    PROVE  [do |-> do, to |-> to] \in Ops
  <1> DEFINE Targets == UNION {[gs -> BOOLEAN] : gs \in SUBSET Flags}
  <1>1. to \in Targets
    BY Zenon
  <1>2. Ops = [do : {"set", "change", "publish"}, to : Targets]
    BY DEF Ops
  <1> HIDE DEF Targets
  <1> QED BY <1>1, <1>2

\* The fields of a step.
LEMMA OpFields ==
    ASSUME NEW op \in Ops
    PROVE  /\ op.do \in {"set", "change", "publish"} /\ DOMAIN op.to \subseteq Flags
           /\ \A f \in DOMAIN op.to : op.to[f] \in BOOLEAN
  <1> DEFINE Targets == UNION {[gs -> BOOLEAN] : gs \in SUBSET Flags}
  <1>1. Ops = [do : {"set", "change", "publish"}, to : Targets]
    BY DEF Ops
  <1>2. op.do \in {"set", "change", "publish"} /\ op.to \in Targets
    <2> HIDE DEF Targets
    <2> QED BY <1>1
  <1>3. PICK gs \in SUBSET Flags : op.to \in [gs -> BOOLEAN]
    BY <1>2
  <1> QED BY <1>2, <1>3

\* The steps that publish or change one flag.
LEMMA PublishOp ==
    ASSUME NEW f \in Flags, NEW on \in BOOLEAN
    PROVE  /\ Publish(f, on) \in Ops /\ Publish(f, on).do = "publish"
           /\ DOMAIN Publish(f, on).to = {f} /\ Publish(f, on).to[f] = on
           /\ Change(f, on) \in Ops
  <1>1. [g \in {f} |-> on] \in [{f} -> BOOLEAN]
    BY Zenon
  <1>2. Publish(f, on) \in Ops /\ Change(f, on) \in Ops
    BY <1>1, OpType DEF Publish, Change
  <1> QED BY <1>2 DEF Publish

\* An emergency stop ends with the gates, and touches no latch there.
LEMMA GatedType ==
    Gated \in Seq(Ops) /\ GatesOnly(Gated)
  <1>1. DOMAIN Gated = 1..Len(Trading) /\ Len(Trading) \in Nat
    BY ConfigFacts DEF Gated
  <1>2. ASSUME NEW i \in DOMAIN Gated
        PROVE  /\ Gated[i] \in Ops /\ Gated[i].do = "publish"
               /\ DOMAIN Gated[i].to \cap Latches = {}
    <2>1. Trading[i] \in Modules /\ Trading[i] \in Flags /\ Gated[i] = Publish(Trading[i], FALSE)
      BY <1>2, ConfigFacts DEF Gated
    <2>2. Trading[i] \notin Latches
      BY <2>1, FlagSyncAssumption
    <2>3. /\ Publish(Trading[i], FALSE) \in Ops /\ Publish(Trading[i], FALSE).do = "publish"
          /\ DOMAIN Publish(Trading[i], FALSE).to = {Trading[i]}
      BY <2>1, PublishOp, Zenon
    <2> QED BY <2>1, <2>2, <2>3
  <1>3. Gated \in [1..Len(Trading) -> Ops]
    BY <1>1, <1>2 DEF Gated
  <1> QED BY <1>1, <1>2, <1>3 DEF GatesOnly

\* Short programs are sequences.
LEMMA Tuples ==
    ASSUME NEW S, NEW a \in S, NEW b \in S, NEW c \in S, NEW d \in S
    PROVE  /\ <<a, b>> \in Seq(S) /\ <<a, b>> # << >>
           /\ <<a, b, c, d>> \in Seq(S) /\ <<a, b, c, d>> # << >>
  OBVIOUS

\* A program that starts with up to three steps, step by step.
LEMMA Joined ==
    ASSUME NEW S, NEW a \in S, NEW b \in S, NEW c \in S, NEW t \in Seq(S)
    PROVE  /\ <<a, b, c>> \o t \in Seq(S) /\ <<a, b, c>> \o t # << >>
           /\ Head(<<a, b, c>> \o t) = a /\ Tail(<<a, b, c>> \o t) = <<b, c>> \o t
           /\ Head(<<b, c>> \o t) = b /\ Tail(<<b, c>> \o t) = <<c>> \o t
           /\ Head(<<c>> \o t) = c /\ Tail(<<c>> \o t) = t
           /\ <<b, c>> \o t # << >> /\ <<c>> \o t # << >>
  OBVIOUS

\* The steps of a stop and of a resume are steps.
LEMMA LatchOps ==
    /\ Set([f \in Flags |-> f \in Latches]) \in Ops
    /\ Publish("kill_switch", TRUE) \in Ops /\ Publish("halted", TRUE) \in Ops
    /\ Publish("kill_switch", FALSE) \in Ops /\ Publish("halted", FALSE) \in Ops
  <1>0. "kill_switch" \in Flags /\ "halted" \in Flags
    BY DEF Flags, Latches
  <1>1. /\ Publish("kill_switch", TRUE) \in Ops /\ Publish("halted", TRUE) \in Ops
        /\ Publish("kill_switch", FALSE) \in Ops /\ Publish("halted", FALSE) \in Ops
    BY <1>0, PublishOp, Zenon
  <1>2. Set([f \in Flags |-> f \in Latches]) \in Ops
    <2>0. \A f \in Flags : (f \in Latches) \in BOOLEAN
      OBVIOUS
    <2>1. [f \in Flags |-> f \in Latches] \in [Flags -> BOOLEAN]
      BY <2>0, Zenon
    <2> QED BY <2>1, OpType DEF Set
  <1> QED BY <1>1, <1>2

\* Every program is a sequence of steps, and has one.
LEMMA ProgramType ==
    ASSUME NEW kind \in Kinds, NEW program \in Programs(kind)
    PROVE  program \in Seq(Ops) /\ program # << >>
  <1>0. "kill_switch" \in Flags /\ "halted" \in Flags
    BY DEF Flags, Latches
  <1>3. Set([f \in {"kill_switch"} |-> FALSE]) \in Ops
    <2>1. [f \in {"kill_switch"} |-> FALSE] \in [{"kill_switch"} -> BOOLEAN]
      BY Zenon
    <2>2. {"kill_switch"} \in SUBSET Flags /\ "set" \in {"set", "change", "publish"}
      BY <1>0
    <2> QED BY <2>1, <2>2, OpType, Zenon DEF Set
  <1>4. Set([f \in {"halted"} |-> FALSE]) \in Ops
    <2>1. [f \in {"halted"} |-> FALSE] \in [{"halted"} -> BOOLEAN]
      BY Zenon
    <2>2. {"halted"} \in SUBSET Flags /\ "set" \in {"set", "change", "publish"}
      BY <1>0
    <2> QED BY <2>1, <2>2, OpType, Zenon DEF Set
  <1>5. CASE kind = "stop"
    <2>1. program = EmergencyStop
      BY <1>5 DEF Programs
    <2>2. Gated \in Seq(Ops)
      BY GatedType
    <2> DEFINE first == Set([f \in Flags |-> f \in Latches])
               kill  == Publish("kill_switch", TRUE)
               stop  == Publish("halted", TRUE)
    <2>3. EmergencyStop = <<first, kill, stop>> \o Gated
      BY DEF EmergencyStop
    <2>4. first \in Ops /\ kill \in Ops /\ stop \in Ops
      BY LatchOps
    <2> HIDE DEF first, kill, stop
    <2> QED BY <2>1, <2>2, <2>3, <2>4, Joined
  <1>6. CASE kind = "resume"
    <2>1. program = Resume
      BY <1>6 DEF Programs
    <2>2. Gated \in Seq(Ops)
      BY GatedType
    <2> QED BY <2>1, <1>3, <1>4, LatchOps, Tuples, Zenon DEF Resume
  <1>7. CASE kind \in {"enable", "disable"}
    <2>1. PICK m \in Modules, on \in BOOLEAN : program = SetEnabled(m, on)
      BY <1>7 DEF Programs
    <2>2. m \in Flags
      BY DEF Flags
    <2>3. Change(m, on) \in Ops /\ Publish(m, on) \in Ops
      BY <2>2, PublishOp
    <2> QED BY <2>1, <2>3 DEF SetEnabled
  <1> QED BY <1>5, <1>6, <1>7 DEF Kinds

\* What is left of a program.
LEMMA TailType ==
    ASSUME NEW S, NEW t \in Seq(S), t # << >>
    PROVE  Head(t) \in S /\ Tail(t) \in Seq(S)
  OBVIOUS

\* A request's record.
Requested == [kind : Kinds \cup {"none"}, at : Replicas \cup {0}, todo : Seq(Ops)]

\* A request built field by field is a request.
LEMMA RequestType ==
    ASSUME NEW kind \in Kinds \cup {"none"}, NEW r \in Replicas \cup {0}, NEW todo \in Seq(Ops)
    PROVE  /\ [kind |-> kind, at |-> r, todo |-> todo] \in Requested
           /\ \A v \in Requested : [v EXCEPT !.todo = todo] \in Requested
  <1> DEFINE K == Kinds \cup {"none"}
             R == Replicas \cup {0}
             T == Seq(Ops)
  <1>1. kind \in K /\ r \in R /\ todo \in T
    OBVIOUS
  <1>2. Requested = [kind : K, at : R, todo : T]
    BY DEF Requested
  <1> HIDE DEF K, R, T
  <1> QED BY <1>1, <1>2

\* The fields of a request.
LEMMA RequestFields ==
    ASSUME NEW v \in Requested
    PROVE  v.kind \in Kinds \cup {"none"} /\ v.at \in Replicas \cup {0} /\ v.todo \in Seq(Ops)
  BY DEF Requested

\* A local decision keeps the flags of its replica Boolean.
LEMMA LocalType ==
    ASSUME TypeOK, NEW r, NEW op \in Ops,
           local' = [local EXCEPT ![r] =
                       [f \in Flags |-> IF f \in DOMAIN op.to THEN op.to[f] ELSE @[f]]]
    PROVE  local' \in [Replicas -> [Flags -> BOOLEAN]]
  <1>0. local \in [Replicas -> [Flags -> BOOLEAN]]
    BY DEF TypeOK
  <1>1. CASE r \in Replicas
    <2> DEFINE new == [f \in Flags |-> IF f \in DOMAIN op.to THEN op.to[f] ELSE local[r][f]]
    <2>1. \A f \in Flags : (IF f \in DOMAIN op.to THEN op.to[f] ELSE local[r][f]) \in BOOLEAN
      <3>1. \A f \in Flags : local[r][f] \in BOOLEAN
        BY <1>0, <1>1, Zenon
      <3>2. \A f \in DOMAIN op.to : op.to[f] \in BOOLEAN
        BY OpFields
      <3> QED BY <3>1, <3>2, Zenon
    <2>2. new \in [Flags -> BOOLEAN]
      BY <2>1, Zenon
    <2>3. local' = [local EXCEPT ![r] = new]
      OBVIOUS
    <2> HIDE DEF new
    <2> QED BY <1>0, <2>2, <2>3
  <1>2. CASE r \notin Replicas
    BY <1>0, <1>2
  <1> QED BY <1>1, <1>2

\* A local step of a request keeps its types.
LEMMA DecidesType ==
    ASSUME TypeOK, NEW q \in Requests, NEW kind \in Kinds \cup {"none"},
           NEW r \in Replicas \cup {0}, NEW todo \in Seq(Ops), todo # << >>,
           Decides(q, kind, r, todo)
    PROVE  local' \in [Replicas -> [Flags -> BOOLEAN]] /\ request' \in [Requests -> Requested]
  <1>1. Head(todo) \in Ops /\ Tail(todo) \in Seq(Ops) /\ << >> \in Seq(Ops)
    BY TailType
  <1>2. local' \in [Replicas -> [Flags -> BOOLEAN]]
    BY <1>1, LocalType, Zenon DEF Decides
  <1>3. PICK rest \in Seq(Ops) :
          request' = [request EXCEPT ![q] = [kind |-> kind, at |-> r, todo |-> rest]]
    BY <1>1, Zenon DEF Decides
  <1>4. request \in [Requests -> Requested]
    BY DEF TypeOK, Requested
  <1>5. [kind |-> kind, at |-> r, todo |-> rest] \in Requested
    BY RequestType
  <1> QED BY <1>2, <1>3, <1>4, <1>5

\* A request that has published goes on with the rest of its steps.
LEMMA AdvanceType ==
    ASSUME TypeOK, NEW q \in Requests, Running(q), Advance(q)
    PROVE  request' \in [Requests -> Requested]
  <1>1. request \in [Requests -> Requested]
    BY DEF TypeOK, Requested
  <1>2. request[q].todo \in Seq(Ops) /\ request[q].todo # << >>
    BY <1>1, RequestFields DEF Running
  <1>3. Tail(request[q].todo) \in Seq(Ops)
    BY <1>2, TailType
  <1>4. [request[q] EXCEPT !.todo = Tail(request[q].todo)] \in Requested
    <2>0. request[q] \in Requested /\ "none" \in Kinds \cup {"none"} /\ 0 \in Replicas \cup {0}
      BY <1>1
    <2> QED BY <1>3, <2>0, RequestType, Zenon
  <1>5. request' = [request EXCEPT ![q] = [request[q] EXCEPT !.todo = Tail(request[q].todo)]]
    BY DEF Advance
  <1> QED BY <1>1, <1>4, <1>5

\* A written row is a row.
LEMMA RowType ==
    ASSUME NEW on \in BOOLEAN, NEW n \in Nat
    PROVE  [on |-> on, at |-> n] \in Rows
  BY DEF Rows

\* A fault is within the bound.
LEMMA FaultType ==
    ASSUME TypeOK, MaxFaults \in Nat, Fault PROVE faults' \in 0..MaxFaults
  BY DEF TypeOK, Fault

\* A publication, written or lost, keeps the types.
LEMMA WriteType ==
    ASSUME TypeOK, NEW q \in Requests, Write(q)
    PROVE  TypeOK'
  <1> DEFINE op == Head(request[q].todo)
             r  == request[q].at
  <1>0. request \in [Requests -> Requested] /\ Running(q) /\ Advance(q) /\ now \in Nat
    BY DEF TypeOK, Requested, Write
  <1>1. op \in Ops
    <2>1. request[q].todo \in Seq(Ops) /\ request[q].todo # << >>
      BY <1>0, RequestFields DEF Running
    <2> QED BY <2>1, TailType
  <1>2. request' \in [Requests -> Requested]
    BY <1>0, AdvanceType
  <1>3. UNCHANGED <<local, sync, halt>>
    BY DEF Write
  <1>4. touched' \in [Replicas -> [Flags -> Nat]]
    <2> DEFINE new == [f \in Flags |-> IF f \in DOMAIN op.to THEN now ELSE touched[r][f]]
    <2>1. touched \in [Replicas -> [Flags -> Nat]]
      BY DEF TypeOK
    <2>2. touched' = [touched EXCEPT ![r] = new]
      BY DEF Write, Stamp
    <2>3. r \in Replicas => new \in [Flags -> Nat]
      BY <1>0, <2>1
    <2> HIDE DEF new, r
    <2> QED BY <2>1, <2>2, <2>3
  <1>5. \/ /\ store' = [f \in Flags |-> IF f \in DOMAIN op.to
                                        THEN [on |-> op.to[f], at |-> now + 1] ELSE store[f]]
           /\ now' = now + 1 /\ UNCHANGED <<faults, dropped>>
        \/ Fault /\ dropped' = TRUE /\ UNCHANGED <<store, now>>
    BY DEF Write
  <1>6. store' \in [Flags -> Rows]
    <2>1. store \in [Flags -> Rows]
      BY DEF TypeOK
    <2>2. ASSUME NEW f \in DOMAIN op.to PROVE [on |-> op.to[f], at |-> now + 1] \in Rows
      <3>1. op.to[f] \in BOOLEAN
        BY <1>1, OpFields
      <3>2. now + 1 \in Nat
        BY <1>0
      <3> QED BY <3>1, <3>2, RowType
    <2> HIDE DEF op
    <2> QED BY <1>5, <2>1, <2>2
  <1>7. now' \in Nat
    BY <1>0, <1>5
  <1>8. faults' \in 0..MaxFaults
    BY <1>5, FaultType, FlagSyncAssumption DEF TypeOK
  <1>9. dropped' \in BOOLEAN
    BY <1>5 DEF TypeOK
  <1> QED BY <1>2, <1>3, <1>4, <1>6, <1>7, <1>8, <1>9 DEF TypeOK, Requested

\* Applying the rows keeps the flags of a replica Boolean.
LEMMA ApplyType ==
    ASSUME TypeOK, NEW r \in Replicas, Apply(r)
    PROVE  local' \in [Replicas -> [Flags -> BOOLEAN]]
  <1> DEFINE new == [f \in Flags |-> IF Current(r, f, sync[r][f]) THEN sync[r][f].on
                                                              ELSE local[r][f]]
  <1>1. /\ local \in [Replicas -> [Flags -> BOOLEAN]]
        /\ sync \in [Replicas -> [Flags -> Rows]]
    BY DEF TypeOK
  <1>2. ASSUME NEW f \in Flags
        PROVE  (IF Current(r, f, sync[r][f]) THEN sync[r][f].on ELSE local[r][f]) \in BOOLEAN
    <2>1. sync[r][f] \in Rows
      BY <1>1
    <2>2. sync[r][f].on \in BOOLEAN
      BY <2>1 DEF Rows
    <2>3. local[r][f] \in BOOLEAN
      BY <1>1, Zenon
    <2> QED BY <2>2, <2>3, Zenon
  <1>3. new \in [Flags -> BOOLEAN]
    BY <1>2, Zenon
  <1>4. local' = [local EXCEPT ![r] = new]
    BY DEF Apply
  <1> HIDE DEF new
  <1> QED BY <1>1, <1>3, <1>4

\* What a process starts with is well typed.
LEMMA InitialTypes ==
    /\ Configured \in [Flags -> BOOLEAN] /\ Resting \in [Flags -> Rows]
    /\ [f \in Flags |-> 0] \in [Flags -> Nat]
    /\ [f \in Flags |-> [on |-> Configured[f], at |-> 1]] \in [Flags -> Rows]
  <1>1. Configured \in [Flags -> BOOLEAN]
    <2>1. \A f \in Flags : (f \in Modules) \in BOOLEAN
      OBVIOUS
    <2> QED BY <2>1, Zenon DEF Configured
  <1>2. \A f \in Flags : [on |-> Configured[f], at |-> 1] \in Rows
    <2> TAKE f \in Flags
    <2>1. Configured[f] \in BOOLEAN
      BY <1>1, Zenon
    <2> QED BY <2>1, RowType
  <1>3. Resting \in [Flags -> Rows]
    BY DEF Resting, Rows
  <1> QED BY <1>1, <1>2, <1>3

\* A restart keeps the types.
LEMMA RestartType ==
    ASSUME TypeOK, NEW r \in Replicas, Restart(r)
    PROVE  TypeOK'
  <1>1. local' \in [Replicas -> [Flags -> BOOLEAN]]
    BY InitialTypes DEF TypeOK, Restart
  <1>2. touched' \in [Replicas -> [Flags -> Nat]]
    BY InitialTypes DEF TypeOK, Restart
  <1>3. sync' \in [Replicas -> [Flags -> Rows]]
    BY InitialTypes DEF TypeOK, Restart
  <1>4. request' \in [Requests -> Requested]
    <2>1. request \in [Requests -> Requested]
      BY DEF TypeOK, Requested
    <2>2. ASSUME NEW q \in Requests PROVE [request[q] EXCEPT !.todo = << >>] \in Requested
      <3>1. /\ request[q] \in Requested /\ << >> \in Seq(Ops)
            /\ "none" \in Kinds \cup {"none"} /\ 0 \in Replicas \cup {0}
        BY <2>1
      <3> QED BY <3>1, RequestType, Zenon
    <2> QED BY <2>1, <2>2 DEF Restart
  <1>5. faults' \in 0..MaxFaults
    BY FaultType, FlagSyncAssumption DEF Restart
  <1>6. halt' \in Requests \cup {0}
    BY DEF Restart, TypeOK
  <1>7. UNCHANGED <<store, now, dropped>>
    BY DEF Restart
  <1> QED BY <1>1, <1>2, <1>3, <1>4, <1>5, <1>6, <1>7 DEF TypeOK, Requested

\* A request that arrives keeps the types.
LEMMA ArriveType ==
    ASSUME TypeOK, NEW q \in Requests, NEW r \in Replicas, Arrive(q, r)
    PROVE  TypeOK'
  <1>1. PICK kind \in Kinds : \E program \in Programs(kind) :
            /\ Decides(q, kind, r, program)
            /\ halt' = CASE kind = "resume" -> 0
                         [] kind = "stop" /\ \A p \in Requests :
                                    Running(p) => request[p].kind # "resume" -> q
                         [] OTHER -> halt
    BY Zenon DEF Arrive
  <1>2. PICK program \in Programs(kind) : Decides(q, kind, r, program)
    BY <1>1
  <1>3. program \in Seq(Ops) /\ program # << >>
    BY ProgramType
  <1>4. local' \in [Replicas -> [Flags -> BOOLEAN]] /\ request' \in [Requests -> Requested]
    BY <1>2, <1>3, DecidesType
  <1>5. halt' \in Requests \cup {0}
    BY <1>1 DEF TypeOK
  <1>6. UNCHANGED <<touched, store, sync, now, faults, dropped>>
    BY DEF Arrive
  <1> QED BY <1>4, <1>5, <1>6 DEF TypeOK, Requested

\* The later local step of a resume keeps the types.
LEMMA DecideType ==
    ASSUME TypeOK, NEW q \in Requests, Decide(q)
    PROVE  TypeOK'
  <1>1. request[q] \in Requested
    BY DEF TypeOK, Requested
  <1>2. /\ request[q].kind \in Kinds \cup {"none"} /\ request[q].at \in Replicas \cup {0}
        /\ request[q].todo \in Seq(Ops) /\ request[q].todo # << >>
    BY <1>1, RequestFields DEF Decide, Running
  <1>3. Decides(q, request[q].kind, request[q].at, request[q].todo)
    BY DEF Decide
  <1>4. local' \in [Replicas -> [Flags -> BOOLEAN]] /\ request' \in [Requests -> Requested]
    BY <1>2, <1>3, DecidesType
  <1>5. UNCHANGED <<touched, store, sync, now, halt, faults, dropped>>
    BY DEF Decide
  <1> QED BY <1>4, <1>5 DEF TypeOK, Requested

\* Every step keeps the types.
LEMMA TypeStep ==
    ASSUME TypeOK, [Next]_vars PROVE TypeOK'
  <1>1. ASSUME NEW q \in Requests, Serve(q) PROVE TypeOK'
    BY <1>1, DecideType, WriteType DEF Serve
  <1>2. ASSUME NEW q \in Requests, NEW r \in Replicas, Arrive(q, r) PROVE TypeOK'
    BY <1>2, ArriveType
  <1>3. ASSUME NEW r \in Replicas, Read(r) PROVE TypeOK'
    BY <1>3 DEF Read, TypeOK
  <1>4. ASSUME NEW r \in Replicas, Apply(r) PROVE TypeOK'
    <2>1. local' \in [Replicas -> [Flags -> BOOLEAN]]
      BY <1>4, ApplyType
    <2>2. sync' \in [Replicas -> [Flags -> Rows]]
      BY <1>4, InitialTypes DEF Apply, TypeOK
    <2>3. UNCHANGED <<touched, store, request, now, halt, faults, dropped>>
      BY <1>4 DEF Apply
    <2> QED BY <2>1, <2>2, <2>3 DEF TypeOK
  <1>5. ASSUME NEW r \in Replicas, Restart(r) PROVE TypeOK'
    BY <1>5, RestartType
  <1>6. CASE UNCHANGED vars
    BY <1>6 DEF vars, TypeOK
  <1> QED BY <1>1, <1>2, <1>3, <1>4, <1>5, <1>6 DEF Next, SyncTask

\* The initial states are well typed.
LEMMA InitType ==
    ASSUME Init PROVE TypeOK
  <1>1. request \in [Requests -> Requested]
    <2>1. << >> \in Seq(Ops) /\ "none" \in Kinds \cup {"none"} /\ 0 \in Replicas \cup {0}
      OBVIOUS
    <2>2. Unserved \in Requested
      BY <2>1, RequestType, Zenon DEF Unserved
    <2> QED BY <2>2 DEF Init
  <1>2. faults \in 0..MaxFaults /\ halt \in Requests \cup {0} /\ now \in Nat /\ dropped \in BOOLEAN
    <2>1. faults = MaxFaults /\ halt = 0 /\ now = 1 /\ dropped = FALSE /\ MaxFaults \in Nat
      BY FlagSyncAssumption DEF Init
    <2>2. dropped \in BOOLEAN
      BY <2>1, Zenon
    <2> QED BY <2>1, <2>2
  <1>3. /\ local \in [Replicas -> [Flags -> BOOLEAN]] /\ sync \in [Replicas -> [Flags -> Rows]]
        /\ touched \in [Replicas -> [Flags -> Nat]]
    <2>1. /\ local = [r \in Replicas |-> Configured] /\ sync = [r \in Replicas |-> Resting]
          /\ touched = [r \in Replicas |-> [f \in Flags |-> 0]]
      BY DEF Init
    <2> QED BY <2>1, InitialTypes, Zenon
  <1>4. store \in [Flags -> Rows]
    BY InitialTypes DEF Init
  <1> QED BY <1>1, <1>2, <1>3, <1>4 DEF TypeOK, Requested

\* Flags, rows, programs and the fault budget keep their types, for any number
\* of replicas, modules, requests and faults.
THEOREM FlagTypeCorrect ==
    Spec => []TypeOK
  BY InitType, TypeStep, PTL DEF Spec

-----------------------------------------------------------------------------
(* An emergency stop is durable.                                           *)

\* What is left of an emergency stop before its first and its second latch.
BothLatches == <<Publish("kill_switch", TRUE), Publish("halted", TRUE)>> \o Gated
OneLatch    == <<Publish("halted", TRUE)>> \o Gated

\* What a request may still have to do, by its kind; a resume is not restricted.
RequestInv ==
    \A q \in Requests :
        /\ request[q].kind = "none" => request[q].todo = << >>
        /\ request[q].kind = "stop" => \/ request[q].todo \in {BothLatches, OneLatch}
                                       \/ GatesOnly(request[q].todo)
        /\ request[q].kind \in {"enable", "disable"} => GatesOnly(request[q].todo)

\* The halt is a stop, no resume runs, and as far as the stop got its latches
\* are in the rows, but for one that was lost.
LatchInv ==
    halt # 0 =>
        /\ request[halt].kind = "stop"
        /\ \A p \in Requests : Running(p) => request[p].kind # "resume"
        /\ \/ request[halt].todo = BothLatches
           \/ request[halt].todo = OneLatch /\ (store["kill_switch"].on \/ dropped)
           \/ \E f \in Latches : store[f].on

StopInv == RequestInv /\ LatchInv /\ (dropped => faults < MaxFaults)

\* The steps of an emergency stop, in their order.
LEMMA StopTodo ==
    /\ Head(EmergencyStop).do = "set" /\ Tail(EmergencyStop) = BothLatches
    /\ Head(BothLatches) = Publish("kill_switch", TRUE) /\ Tail(BothLatches) = OneLatch
    /\ Head(OneLatch) = Publish("halted", TRUE) /\ Tail(OneLatch) = Gated
    /\ BothLatches # << >> /\ OneLatch # << >>
  <1> DEFINE first == Set([f \in Flags |-> f \in Latches])
             kill  == Publish("kill_switch", TRUE)
             stop  == Publish("halted", TRUE)
  <1>1. /\ EmergencyStop = <<first, kill, stop>> \o Gated
        /\ BothLatches = <<kill, stop>> \o Gated /\ OneLatch = <<stop>> \o Gated
    BY DEF EmergencyStop, BothLatches, OneLatch
  <1>2. first.do = "set"
    BY DEF Set
  <1>3. Gated \in Seq(Ops)
    BY GatedType
  <1>4. first \in Ops /\ kill \in Ops /\ stop \in Ops
    BY LatchOps
  <1> HIDE DEF first, kill, stop
  <1>6. /\ Head(<<first, kill, stop>> \o Gated) = first
        /\ Tail(<<first, kill, stop>> \o Gated) = <<kill, stop>> \o Gated
        /\ Head(<<kill, stop>> \o Gated) = kill /\ Tail(<<kill, stop>> \o Gated) = <<stop>> \o Gated
        /\ Head(<<stop>> \o Gated) = stop /\ Tail(<<stop>> \o Gated) = Gated
        /\ <<kill, stop>> \o Gated # << >> /\ <<stop>> \o Gated # << >>
    BY <1>3, <1>4
  <1>7. kill = Publish("kill_switch", TRUE) /\ stop = Publish("halted", TRUE)
    BY DEF kill, stop
  <1> QED BY <1>1, <1>2, <1>6, <1>7

\* A program that only publishes gates does so to its end.
LEMMA GatesTail ==
    ASSUME NEW t \in Seq(Ops), t # << >>, GatesOnly(t)
    PROVE  /\ GatesOnly(Tail(t)) /\ Head(t).do = "publish"
           /\ DOMAIN Head(t).to \cap Latches = {}
  <1>1. /\ DOMAIN t = 1..Len(t) /\ Len(t) \in Nat /\ Len(t) # 0 /\ Head(t) = t[1]
        /\ DOMAIN Tail(t) = 1..(Len(t) - 1)
        /\ \A i \in 1..(Len(t) - 1) : Tail(t)[i] = t[i + 1]
    OBVIOUS
  <1>2. 1 \in DOMAIN t /\ \A i \in 1..(Len(t) - 1) : i + 1 \in DOMAIN t
    BY <1>1
  <1> QED BY <1>1, <1>2 DEF GatesOnly

\* Enabling a module publishes its gate and no latch.
LEMMA EnableTodo ==
    ASSUME NEW m \in Modules, NEW on \in BOOLEAN
    PROVE  GatesOnly(Tail(SetEnabled(m, on))) /\ GatesOnly(<< >>)
  <1>1. Tail(SetEnabled(m, on)) = <<Publish(m, on)>>
    BY DEF SetEnabled
  <1>2. m \in Flags /\ m \notin Latches
    BY FlagSyncAssumption DEF Flags
  <1>3. Publish(m, on).do = "publish" /\ DOMAIN Publish(m, on).to = {m}
    BY <1>2, PublishOp
  <1>4. DOMAIN <<Publish(m, on)>> = {1} /\ <<Publish(m, on)>>[1] = Publish(m, on)
    OBVIOUS
  <1>5. GatesOnly(<<Publish(m, on)>>)
    BY <1>2, <1>3, <1>4 DEF GatesOnly
  <1>6. GatesOnly(<< >>)
    BY DEF GatesOnly
  <1> QED BY <1>1, <1>5, <1>6

\* The invariant survives arrivals: a resume ends the halt, a stop begins with
\* both latches to publish, and no resume is running when it becomes the halt.
LEMMA StopArrive ==
    ASSUME TypeOK, StopInv, NEW q \in Requests, NEW r \in Replicas, Arrive(q, r)
    PROVE  StopInv'
  <1>1. PICK kind \in Kinds : \E program \in Programs(kind) :
            /\ Decides(q, kind, r, program)
            /\ halt' = CASE kind = "resume" -> 0
                         [] kind = "stop" /\ \A p \in Requests :
                                    Running(p) => request[p].kind # "resume" -> q
                         [] OTHER -> halt
    BY Zenon DEF Arrive
  <1>2. PICK program \in Programs(kind) : Decides(q, kind, r, program)
    BY <1>1
  <1> DEFINE same == \A f \in DOMAIN Head(program).to : local[r][f] = Head(program).to[f]
             rest == IF Head(program).do = "change" /\ same THEN << >> ELSE Tail(program)
  <1>3. request' = [request EXCEPT ![q] = [kind |-> kind, at |-> r, todo |-> rest]]
    BY <1>2 DEF Decides
  <1>4. kind = "stop" => rest = BothLatches
    <2> SUFFICES ASSUME kind = "stop" PROVE rest = BothLatches
      OBVIOUS
    <2>1. program = EmergencyStop
      BY DEF Programs
    <2> HIDE DEF same
    <2> QED BY <2>1, StopTodo
  <1>5. kind \in {"enable", "disable"} => GatesOnly(rest)
    <2> SUFFICES ASSUME kind \in {"enable", "disable"} PROVE GatesOnly(rest)
      OBVIOUS
    <2>1. PICK m \in Modules, on \in BOOLEAN : program = SetEnabled(m, on)
      BY DEF Programs
    <2>2. rest = Tail(program) \/ rest = << >>
      <3> HIDE DEF same
      <3> QED OBVIOUS
    <2> HIDE DEF rest
    <2> QED BY <2>1, <2>2, EnableTodo
  <1> HIDE DEF same, rest
  <1>6. /\ request'[q].kind = kind /\ request'[q].todo = rest
        /\ \A p \in Requests \ {q} : request'[p] = request[p]
    BY <1>3 DEF TypeOK
  <1>7. request[q].kind = "none" /\ request[q].todo = << >>
    BY DEF Arrive, Unserved
  <1>8. UNCHANGED <<store, faults, dropped>>
    BY DEF Arrive
  <1>9. RequestInv'
    <2> SUFFICES ASSUME NEW p \in Requests
                 PROVE  /\ request'[p].kind = "none" => request'[p].todo = << >>
                        /\ request'[p].kind = "stop" =>
                              \/ request'[p].todo \in {BothLatches, OneLatch}
                              \/ GatesOnly(request'[p].todo)
                        /\ request'[p].kind \in {"enable", "disable"} => GatesOnly(request'[p].todo)
      BY DEF RequestInv, GatesOnly, BothLatches, OneLatch, Publish, Gated
    <2>1. CASE p = q
      BY <1>4, <1>5, <1>6, <2>1 DEF Kinds
    <2>2. CASE p # q
      BY <1>6, <2>2 DEF StopInv, RequestInv
    <2> QED BY <2>1, <2>2
  <1>10. LatchInv'
    <2> SUFFICES ASSUME halt' # 0
                 PROVE  /\ request'[halt'].kind = "stop"
                        /\ \A p \in Requests : request'[p].todo # << >> => request'[p].kind # "resume"
                        /\ \/ request'[halt'].todo = BothLatches
                           \/ request'[halt'].todo = OneLatch /\ (store'["kill_switch"].on \/ dropped')
                           \/ \E f \in Latches : store'[f].on
      BY DEF LatchInv, Running, BothLatches, OneLatch, Publish, Gated
    <2>1. kind # "resume"
      BY <1>1
    <2>2. CASE kind = "stop" /\ \A p \in Requests : Running(p) => request[p].kind # "resume"
      <3>1. halt' = q
        BY <1>1, <2>2
      <3>2. ASSUME NEW p \in Requests, request'[p].todo # << >> PROVE request'[p].kind # "resume"
        BY <1>6, <2>1, <2>2, <3>2 DEF Running
      <3> QED BY <1>4, <1>6, <2>2, <3>1, <3>2
    <2>3. CASE ~(kind = "stop" /\ \A p \in Requests : Running(p) => request[p].kind # "resume")
      <3>1. halt' = halt
        BY <1>1, <2>1, <2>3
      <3>2. /\ request[halt].kind = "stop"
            /\ \A p \in Requests : Running(p) => request[p].kind # "resume"
            /\ \/ request[halt].todo = BothLatches
               \/ request[halt].todo = OneLatch /\ (store["kill_switch"].on \/ dropped)
               \/ \E f \in Latches : store[f].on
        BY <3>1 DEF StopInv, LatchInv
      <3>3. halt # q /\ halt \in Requests
        BY <1>7, <3>1, <3>2 DEF TypeOK
      <3>4. request'[halt'] = request[halt]
        BY <1>6, <3>1, <3>3
      <3>5. ASSUME NEW p \in Requests, request'[p].todo # << >> PROVE request'[p].kind # "resume"
        BY <1>6, <2>1, <3>2, <3>5 DEF Running
      <3> QED BY <1>8, <3>2, <3>4, <3>5
    <2> QED BY <2>2, <2>3
  <1> QED BY <1>8, <1>9, <1>10 DEF StopInv

\* What StopInv says of one request.
Orderly(v) ==
    /\ v.kind = "none" => v.todo = << >>
    /\ v.kind = "stop" => v.todo \in {BothLatches, OneLatch} \/ GatesOnly(v.todo)
    /\ v.kind \in {"enable", "disable"} => GatesOnly(v.todo)

\* RequestInv, request by request.
LEMMA OrderlyRequests ==
    /\ RequestInv <=> \A q \in Requests : Orderly(request[q])
    /\ RequestInv' <=> \A q \in Requests : Orderly(request'[q])
  BY DEF RequestInv, Orderly, GatesOnly, BothLatches, OneLatch, Publish, Gated

\* Of the steps of a request only a resume's are local.
LEMMA OnlyResumeDecides ==
    ASSUME TypeOK, StopInv, NEW q \in Requests, Decide(q)
    PROVE  request[q].kind = "resume" /\ halt = 0
  <1>1. request[q] \in Requested /\ Running(q) /\ Head(request[q].todo).do = "set"
    BY DEF TypeOK, Requested, Decide
  <1>2. request[q].todo \in Seq(Ops) /\ request[q].todo # << >>
        /\ request[q].kind \in Kinds \cup {"none"}
    BY <1>1, RequestFields DEF Running
  <1>3. Orderly(request[q])
    BY OrderlyRequests DEF StopInv
  <1>4. ~GatesOnly(request[q].todo)
    BY <1>1, <1>2, GatesTail
  <1>5. request[q].todo \notin {BothLatches, OneLatch}
    BY <1>1, StopTodo DEF Publish
  <1>6. request[q].kind = "resume"
    BY <1>2, <1>3, <1>4, <1>5 DEF Orderly, Kinds
  <1> QED BY <1>1, <1>6 DEF StopInv, LatchInv

\* The invariant survives the later step of a resume: there is no halt then.
LEMMA StopDecide ==
    ASSUME TypeOK, StopInv, NEW q \in Requests, Decide(q)
    PROVE  StopInv'
  <1>1. request[q].kind = "resume" /\ halt = 0
    BY OnlyResumeDecides
  <1>2. PICK rest : request' = [request EXCEPT ![q] =
                      [kind |-> request[q].kind, at |-> request[q].at, todo |-> rest]]
    BY DEF Decide, Decides
  <1>3. UNCHANGED <<halt, faults, dropped>>
    BY DEF Decide
  <1>4. ASSUME NEW p \in Requests PROVE Orderly(request'[p])
    <2>1. CASE p = q
      <3>1. request'[p].kind = "resume"
        BY <1>1, <1>2, <2>1 DEF TypeOK
      <3> QED BY <3>1 DEF Orderly
    <2>2. CASE p # q
      BY <1>2, <2>2, OrderlyRequests DEF StopInv, TypeOK
    <2> QED BY <2>1, <2>2
  <1>5. RequestInv'
    BY <1>4, OrderlyRequests
  <1>6. LatchInv'
    BY <1>1, <1>3 DEF LatchInv
  <1> QED BY <1>3, <1>5, <1>6 DEF StopInv

\* The invariant survives publications: while there is a halt no resume runs,
\* so a latch that is on in the rows stays on; the halt's first latch is written
\* or is the one fault, and then its second one is written.
LEMMA StopWrite ==
    ASSUME MaxFaults \in {0, 1}, TypeOK, StopInv, NEW q \in Requests, Write(q)
    PROVE  StopInv'
  <1> DEFINE op   == Head(request[q].todo)
             rest == Tail(request[q].todo)
  <1>0. request[q] \in Requested /\ Running(q) /\ Advance(q)
    BY DEF TypeOK, Requested, Write
  <1>1. request[q].todo \in Seq(Ops) /\ request[q].todo # << >>
        /\ request[q].kind \in Kinds \cup {"none"}
    BY <1>0, RequestFields DEF Running
  <1>2. /\ request'[q].kind = request[q].kind /\ request'[q].todo = rest
        /\ \A p \in Requests \ {q} : request'[p] = request[p]
    <2>1. request' = [request EXCEPT ![q] = [request[q] EXCEPT !.todo = rest]]
      BY <1>0 DEF Advance
    <2> HIDE DEF rest
    <2> QED BY <1>0, <2>1 DEF TypeOK, Requested
  <1>3. Orderly(request[q])
    BY OrderlyRequests DEF StopInv
  <1>4. \/ /\ \A f \in Flags : store'[f] = IF f \in DOMAIN op.to
                                         THEN [on |-> op.to[f], at |-> now + 1] ELSE store[f]
           /\ UNCHANGED <<faults, dropped>>
        \/ faults > 0 /\ faults' = faults - 1 /\ dropped' = TRUE /\ store' = store
    BY DEF Write, Fault
  <1>5. halt' = halt
    BY DEF Write
  <1>6. "kill_switch" \in Flags /\ "halted" \in Flags /\ Latches \subseteq Flags
    BY DEF Flags, Latches
  <1>a. faults \in 0..MaxFaults /\ MaxFaults \in Nat /\ (dropped => faults < MaxFaults)
    BY FlagSyncAssumption DEF StopInv, TypeOK
  <1>b. dropped' => faults' < MaxFaults
    <2>1. CASE UNCHANGED <<faults, dropped>>
      BY <1>a, <2>1
    <2>2. CASE faults' = faults - 1
      <3>1. faults - 1 < MaxFaults
        BY <1>a
      <3> QED BY <2>2, <3>1
    <2> QED BY <1>4, <2>1, <2>2
  \* The three stages of a request that is not a resume.
  <1>7. CASE request[q].kind = "resume"
    <2>1. halt = 0
      BY <1>0, <1>7 DEF StopInv, LatchInv
    <2>2. ASSUME NEW p \in Requests PROVE Orderly(request'[p])
      <3>1. CASE p = q
        BY <1>2, <1>7, <3>1 DEF Orderly
      <3>2. CASE p # q
        BY <1>2, <3>2, OrderlyRequests DEF StopInv
      <3> QED BY <3>1, <3>2
    <2>3. RequestInv' /\ LatchInv'
      BY <1>5, <2>1, <2>2, OrderlyRequests DEF LatchInv
    <2>4. dropped' => faults' < MaxFaults
      BY <1>b
    <2> QED BY <2>3, <2>4 DEF StopInv
  <1>8. CASE request[q].kind # "resume"
    <2>0. \/ request[q].todo = BothLatches \/ request[q].todo = OneLatch
          \/ GatesOnly(request[q].todo)
      BY <1>1, <1>3, <1>8 DEF Orderly, Kinds
    <2>1. request[q].todo = BothLatches =>
             /\ DOMAIN op.to = {"kill_switch"} /\ op.to["kill_switch"] = TRUE /\ rest = OneLatch
      <3>1. DOMAIN Publish("kill_switch", TRUE).to = {"kill_switch"}
            /\ Publish("kill_switch", TRUE).to["kill_switch"] = TRUE
        BY DEF Publish
      <3> QED BY <3>1, StopTodo
    <2>2. request[q].todo = OneLatch =>
             /\ DOMAIN op.to = {"halted"} /\ op.to["halted"] = TRUE /\ rest = Gated
      <3>1. DOMAIN Publish("halted", TRUE).to = {"halted"}
            /\ Publish("halted", TRUE).to["halted"] = TRUE
        BY DEF Publish
      <3> QED BY <3>1, StopTodo
    <2>3. GatesOnly(request[q].todo) => DOMAIN op.to \cap Latches = {} /\ GatesOnly(rest)
      BY <1>1, GatesTail
    <2> HIDE DEF op, rest
    <2>4. ASSUME NEW f \in Latches, store[f].on PROVE store'[f].on
      <3>1. f \in DOMAIN op.to => op.to[f] = TRUE
        BY <2>0, <2>1, <2>2, <2>3
      <3>2. CASE store'[f] = [on |-> op.to[f], at |-> now + 1] /\ f \in DOMAIN op.to
        BY <3>1, <3>2
      <3>3. CASE store'[f] = store[f]
        BY <2>4, <3>3
      <3> QED BY <1>4, <1>6, <3>2, <3>3
    <2>5. ASSUME NEW p \in Requests PROVE Orderly(request'[p])
      <3>1. CASE p = q
        <4>1. rest \in {BothLatches, OneLatch} \/ GatesOnly(rest)
          BY <2>0, <2>1, <2>2, <2>3, GatedType
        <4>2. request[q].kind \in {"enable", "disable"} => GatesOnly(rest)
          BY <1>3, <2>3 DEF Orderly
        <4>3. request[q].kind # "none"
          BY <1>1, <1>3 DEF Orderly
        <4> QED BY <1>2, <3>1, <4>1, <4>2, <4>3 DEF Orderly
      <3>2. CASE p # q
        BY <1>2, <3>2, OrderlyRequests DEF StopInv
      <3> QED BY <3>1, <3>2
    <2>6. RequestInv'
      BY <2>5, OrderlyRequests
    <2>7. dropped' => faults' < MaxFaults
      BY <1>b
    <2>8. LatchInv'
      <3> SUFFICES ASSUME halt' # 0
                   PROVE  /\ request'[halt'].kind = "stop"
                          /\ \A p \in Requests :
                                request'[p].todo # << >> => request'[p].kind # "resume"
                          /\ \/ request'[halt'].todo = BothLatches
                             \/ /\ request'[halt'].todo = OneLatch
                                /\ store'["kill_switch"].on \/ dropped'
                             \/ \E f \in Latches : store'[f].on
        BY DEF LatchInv, Running, BothLatches, OneLatch, Publish, Gated
      <3>1. /\ halt \in Requests /\ request[halt].kind = "stop"
            /\ \A p \in Requests : Running(p) => request[p].kind # "resume"
            /\ \/ request[halt].todo = BothLatches
               \/ request[halt].todo = OneLatch /\ (store["kill_switch"].on \/ dropped)
               \/ \E f \in Latches : store[f].on
        BY <1>5 DEF StopInv, LatchInv, TypeOK
      <3>2. request'[halt'].kind = "stop"
        BY <1>2, <1>5, <3>1
      <3>3. ASSUME NEW p \in Requests, request'[p].todo # << >> PROVE request'[p].kind # "resume"
        BY <1>2, <1>8, <3>1, <3>3 DEF Running
      <3>4. dropped => dropped'
        BY <1>4
      <3>5. "kill_switch" \in Latches /\ "halted" \in Latches
        BY DEF Latches
      <3>6. CASE \E f \in Latches : store[f].on
        BY <2>4, <3>2, <3>3, <3>6
      <3>7. CASE halt # q
        BY <1>2, <1>5, <2>4, <3>1, <3>2, <3>3, <3>4, <3>5, <3>7
      <3>8. CASE halt = q /\ request[q].todo = BothLatches
        <4>1. store'["kill_switch"].on \/ dropped'
          <5>1. CASE store'["kill_switch"] = [on |-> op.to["kill_switch"], at |-> now + 1]
            <6>1. store'["kill_switch"].on = op.to["kill_switch"]
              BY <5>1
            <6> QED BY <2>1, <3>8, <6>1
          <5>2. CASE dropped' = TRUE
            BY <5>2
          <5> QED BY <1>4, <1>6, <2>1, <3>8, <5>1, <5>2
        <4> QED BY <1>2, <1>5, <2>1, <3>2, <3>3, <3>8, <4>1
      <3>9. CASE halt = q /\ request[q].todo = OneLatch /\ store["kill_switch"].on
        BY <2>4, <3>2, <3>3, <3>5, <3>9
      <3>10. CASE halt = q /\ request[q].todo = OneLatch /\ dropped
        <4>1. faults = 0
          BY <1>a, <3>10
        <4>2. store'["halted"] = [on |-> op.to["halted"], at |-> now + 1]
          BY <1>4, <1>6, <2>2, <3>10, <4>1
        <4>3. store'["halted"].on = op.to["halted"]
          BY <4>2
        <4>4. store'["halted"].on
          BY <2>2, <3>10, <4>3
        <4> QED BY <3>2, <3>3, <3>5, <4>4
      <3> QED BY <3>1, <3>6, <3>7, <3>8, <3>9, <3>10
    <2> QED BY <2>6, <2>7, <2>8 DEF StopInv
  <1> QED BY <1>7, <1>8

\* The invariant survives a restart: a stop that is cut off is not the halt.
LEMMA StopRestart ==
    ASSUME TypeOK, StopInv, NEW r \in Replicas, Restart(r)
    PROVE  StopInv'
  <1>1. UNCHANGED <<store, dropped>> /\ faults' = faults - 1
    BY DEF Restart, Fault
  <1>2. ASSUME NEW q \in Requests
        PROVE  /\ request'[q].kind = request[q].kind
               /\ request'[q] = request[q] \/ (request[q].at = r /\ request'[q].todo = << >>)
    <2>1. request[q] \in Requested
      BY DEF TypeOK, Requested
    <2>2. request'[q] = IF request[q].at = r THEN [request[q] EXCEPT !.todo = << >>] ELSE request[q]
      BY DEF Restart
    <2> QED BY <2>1, <2>2 DEF Requested
  <1>3. ASSUME NEW q \in Requests PROVE Orderly(request'[q])
    <2>1. Orderly(request[q])
      BY OrderlyRequests DEF StopInv
    <2>2. GatesOnly(<< >>)
      BY DEF GatesOnly
    <2> QED BY <1>2, <2>1, <2>2 DEF Orderly
  <1>4. RequestInv'
    BY <1>3, OrderlyRequests
  <1>5. dropped' => faults' < MaxFaults
    <2>1. faults \in 0..MaxFaults /\ MaxFaults \in Nat
      BY FlagSyncAssumption DEF TypeOK
    <2>2. faults - 1 < MaxFaults
      BY <2>1
    <2> QED BY <1>1, <2>2
  <1>6. LatchInv'
    <2> SUFFICES ASSUME halt' # 0
                 PROVE  /\ request'[halt'].kind = "stop"
                        /\ \A p \in Requests :
                              request'[p].todo # << >> => request'[p].kind # "resume"
                        /\ \/ request'[halt'].todo = BothLatches
                           \/ /\ request'[halt'].todo = OneLatch
                              /\ store'["kill_switch"].on \/ dropped'
                           \/ \E f \in Latches : store'[f].on
      BY DEF LatchInv, Running, BothLatches, OneLatch, Publish, Gated
    <2>1. halt' = halt /\ halt # 0 /\ ~(request[halt].at = r /\ Running(halt))
      BY DEF Restart
    <2>2. /\ halt \in Requests /\ request[halt].kind = "stop"
          /\ \A p \in Requests : Running(p) => request[p].kind # "resume"
          /\ \/ request[halt].todo = BothLatches
             \/ request[halt].todo = OneLatch /\ (store["kill_switch"].on \/ dropped)
             \/ \E f \in Latches : store[f].on
      BY <2>1 DEF StopInv, LatchInv, TypeOK
    <2>3. ASSUME NEW p \in Requests, request'[p].todo # << >> PROVE request'[p].kind # "resume"
      BY <1>2, <2>2, <2>3 DEF Running
    <2>4. request'[halt'].kind = "stop"
      BY <1>2, <2>1, <2>2
    <2>5. CASE request[halt].at # r
      <3>1. request'[halt'] = request[halt]
        BY <1>2, <2>1, <2>2, <2>5
      <3> QED BY <1>1, <2>2, <2>3, <2>4, <3>1
    <2>6. CASE ~Running(halt)
      <3>1. request[halt].todo = << >>
        BY <2>6 DEF Running
      <3>2. \E f \in Latches : store[f].on
        BY <2>2, <3>1, StopTodo
      <3> QED BY <1>1, <2>3, <2>4, <3>2
    <2> QED BY <2>1, <2>5, <2>6
  <1> QED BY <1>4, <1>5, <1>6 DEF StopInv

\* The invariant survives every step, as long as one fault is all there is.
LEMMA StopStep ==
    ASSUME MaxFaults \in {0, 1}, TypeOK, StopInv, [Next]_vars
    PROVE  StopInv'
  <1>1. ASSUME NEW q \in Requests, Serve(q) PROVE StopInv'
    BY <1>1, StopDecide, StopWrite DEF Serve
  <1>2. ASSUME NEW q \in Requests, NEW r \in Replicas, Arrive(q, r) PROVE StopInv'
    BY <1>2, StopArrive
  <1>3. CASE UNCHANGED <<store, request, halt, faults, dropped>>
    <2>1. RequestInv'
      BY <1>3, OrderlyRequests DEF StopInv
    <2>2. LatchInv'
      BY <1>3 DEF StopInv, LatchInv, Running, BothLatches, OneLatch, Publish, Gated
    <2> QED BY <1>3, <2>1, <2>2 DEF StopInv
  <1>4. ASSUME NEW r \in Replicas, SyncTask(r) PROVE StopInv'
    BY <1>3, <1>4 DEF SyncTask, Read, Apply
  <1>5. ASSUME NEW r \in Replicas, Restart(r) PROVE StopInv'
    BY <1>5, StopRestart
  <1>6. CASE UNCHANGED vars
    BY <1>3, <1>6 DEF vars
  <1> QED BY <1>1, <1>2, <1>4, <1>5, <1>6 DEF Next

\* Nothing is halted at first.
LEMMA StopInit ==
    ASSUME Init PROVE StopInv
  <1>1. \A q \in Requests : request[q].kind = "none" /\ request[q].todo = << >>
    BY DEF Init, Unserved
  <1>2. halt = 0 /\ dropped = FALSE
    BY DEF Init
  <1>3. RequestInv
    BY <1>1, OrderlyRequests DEF Orderly
  <1> QED BY <1>2, <1>3 DEF StopInv, LatchInv

\* An emergency stop that was served to its end is in the rows, although one
\* write fails or one process dies, provided no resume was still being served
\* when it arrived and nobody has asked to resume since.
THEOREM StopAlwaysDurable ==
    ASSUME MaxFaults \in {0, 1} PROVE Spec => []StopIsDurable
  <1>1. TypeOK /\ StopInv /\ [Next]_vars => TypeOK' /\ StopInv'
    BY TypeStep, StopStep
  <1>2. Init => TypeOK /\ StopInv
    BY InitType, StopInit
  <1>3. TypeOK /\ StopInv => StopIsDurable
    BY StopTodo DEF StopIsDurable, Stopped, Running, StopInv, LatchInv
  <1> QED BY <1>1, <1>2, <1>3, PTL DEF Spec

-----------------------------------------------------------------------------
(* The reconciliation queue, for every set of workers and every attempt    *)
(* budget.                                                                 *)

\* What every statement of the repository returns on a well-typed row: a
\* well-typed row.  Claimed needs the test of claim_due on the budget.
LEMMA StatementsTyped ==
    ASSUME NEW r \in QueueRows
    PROVE  /\ Enqueued(r) \in QueueRows
           /\ Claimable(r) => Claimed(r) \in QueueRows
           /\ Released(r) \in QueueRows
           /\ \A v \in Verdicts : Settled(r, v) \in QueueRows
<1>. USE ReconQueueAssumption DEF QueueRows
<1>1. Enqueued(r) \in QueueRows
  <2> DEFINE st == IF r.status = "resolved" THEN "resolved" ELSE "pending"
  <2>1. CASE r.status = "absent"
    BY <2>1 DEF Enqueued
  <2>2. CASE r.status # "absent"
    <3>1. Enqueued(r) = [r EXCEPT !.status = st, !.due = TRUE]
      BY <2>2 DEF Enqueued
    <3>2. st \in {"resolved", "pending"}
      OBVIOUS
    <3> HIDE DEF st
    <3>. QED BY <3>1, <3>2
  <2>. QED BY <2>1, <2>2
<1>2. Claimable(r) => Claimed(r) \in QueueRows
  BY DEF Claimable, Claimed
<1>3. Released(r) \in QueueRows
  BY DEF Released
<1>4. ASSUME NEW v \in Verdicts PROVE Settled(r, v) \in QueueRows
  <2> DEFINE st == IF r.attempts >= MaxAttempts THEN "failed" ELSE "pending"
  <2>1. Failed(r) = [r EXCEPT !.status = st, !.due = FALSE]
    BY DEF Failed
  <2>2. st \in {"failed", "pending"}
    OBVIOUS
  <2> HIDE DEF st
  <2>3. Failed(r) \in QueueRows
    BY <2>1, <2>2
  <2>4. CASE v = "resolved"
    BY <2>4 DEF Settled
  <2>5. CASE v = "retry"
    BY <2>3, <2>5 DEF Settled
  <2>6. CASE v = "give_up"
    <3>1. Settled(r, v) = [r EXCEPT !.status = "failed", !.attempts = MaxAttempts]
      BY <2>6 DEF Settled
    <3>2. MaxAttempts \in 0..MaxAttempts
      OBVIOUS
    <3>. QED BY <3>1, <3>2
  <2>. QED BY <2>4, <2>5, <2>6 DEF Verdicts
<1>. QED BY <1>1, <1>2, <1>3, <1>4

\* Type correctness is preserved by every step, faults included.
LEMMA QueueTypeStep ==
    ASSUME QueueTypeOK, [QueueNext]_queueVars
    PROVE  QueueTypeOK'
<1>. USE ReconQueueAssumption
<1>1. row \in QueueRows /\ worker \in [Workers -> {"idle", "claimed"} \cup Verdicts]
      /\ stops \in 0..MaxStops /\ exists \in BOOLEAN
  BY DEF QueueTypeOK
<1>2. CASE Enqueue
  BY <1>1, <1>2, StatementsTyped DEF Enqueue, QueueTypeOK
<1>3. CASE Reopen
  BY <1>1, <1>3 DEF Reopen, QueueTypeOK, QueueRows
<1>4. CASE Elapse
  BY <1>1, <1>4 DEF Elapse, QueueTypeOK, QueueRows
<1>5. ASSUME NEW w \in Workers, Claim(w) PROVE QueueTypeOK'
  BY <1>1, <1>5, StatementsTyped DEF Claim, QueueTypeOK
<1>6. ASSUME NEW w \in Workers, Look(w) PROVE QueueTypeOK'
  <2>1. PICK v \in {"retry", IF exists THEN "resolved" ELSE "give_up"} :
           worker' = [worker EXCEPT ![w] = v]
    BY <1>6 DEF Look
  <2>2. v \in Verdicts
    BY <2>1 DEF Verdicts
  <2>. QED BY <1>1, <1>6, <2>1, <2>2 DEF Look, QueueTypeOK
<1>7. ASSUME NEW w \in Workers, WriteVerdict(w) PROVE QueueTypeOK'
  <2>1. row' \in QueueRows
    BY <1>1, <1>7, StatementsTyped DEF WriteVerdict
  <2>. QED BY <1>1, <1>7, <2>1 DEF WriteVerdict, QueueTypeOK
<1>8. ASSUME NEW w \in Workers, Stop(w) PROVE QueueTypeOK'
  BY <1>1, <1>8, StatementsTyped DEF Stop, QueueTypeOK
<1>9. ASSUME NEW w \in Workers, Crash(w) PROVE QueueTypeOK'
  BY <1>1, <1>9 DEF Crash, QueueTypeOK
<1>10. CASE UNCHANGED queueVars
  BY <1>1, <1>10 DEF queueVars, QueueTypeOK
<1>. QED
  BY <1>2, <1>3, <1>4, <1>5, <1>6, <1>7, <1>8, <1>9, <1>10 DEF QueueNext

\* The absent row and idle workers are well typed.
LEMMA QueueTypeInit ==
    ASSUME QueueInit PROVE QueueTypeOK
  BY ReconQueueAssumption DEF QueueInit, QueueTypeOK, QueueRows, Verdicts

\* The row never counts more attempts than max_attempts, whatever fails: no
\* claim is handed out past the budget, and release never goes below zero.
THEOREM QueueTypeCorrect ==
    QueueSpec => []QueueTypeOK
  BY QueueTypeInit, QueueTypeStep, PTL DEF QueueSpec

-----------------------------------------------------------------------------

\* NoOrphan alone is not inductive: release changes only an in_progress row,
\* so a pending row must be known to have attempts left.
PendingHasAttempts == row.status = "pending" => row.attempts < MaxAttempts
QueueInv == QueueTypeOK /\ PendingHasAttempts /\ NoOrphan

\* The absent row is nobody's.
LEMMA QueueInvInit ==
    ASSUME QueueInit PROVE QueueInv
<1>1. row.status = "absent"
  BY DEF QueueInit
<1>. QED BY <1>1, QueueTypeInit DEF QueueInv, PendingHasAttempts, NoOrphan, Active

\* Every statement and every worker step keeps the strengthened invariant
\* while no fault happens.
LEMMA QueueInvStep ==
    ASSUME Faults = {}, QueueInv, [QueueNext]_queueVars
    PROVE  QueueInv'
<1>. SUFFICES PendingHasAttempts' /\ NoOrphan'
  BY QueueTypeStep DEF QueueInv
<1>. USE ReconQueueAssumption
<1>1. row \in QueueRows /\ worker \in [Workers -> {"idle", "claimed"} \cup Verdicts]
  BY DEF QueueTypeOK, QueueInv
<1>2. CASE Enqueue
  <2>1. row.attempts < MaxAttempts /\ row' = Enqueued(row)
    BY <1>2 DEF Enqueue
  <2>2. row'.attempts < MaxAttempts
    BY <1>1, <2>1 DEF Enqueued, QueueRows
  <2>. QED BY <1>1, <2>2, QueueTypeStep
           DEF PendingHasAttempts, NoOrphan, QueueRows, QueueInv, QueueTypeOK
<1>3. CASE Reopen
  BY <1>1, <1>3 DEF Reopen, PendingHasAttempts, NoOrphan
<1>4. CASE Elapse
  BY <1>1, <1>4
     DEF Elapse, PendingHasAttempts, NoOrphan, Active, QueueInv, QueueRows
<1>5. ASSUME NEW w \in Workers, Claim(w) PROVE PendingHasAttempts' /\ NoOrphan'
  <2>1. row'.status = "in_progress" /\ worker'[w] # "idle"
    BY <1>1, <1>5 DEF Claim, Claimed
  <2>. QED BY <2>1 DEF PendingHasAttempts, NoOrphan
<1>6. ASSUME NEW w \in Workers, Look(w) PROVE PendingHasAttempts' /\ NoOrphan'
  <2>1. worker'[w] # "idle" /\ row' = row
    BY <1>1, <1>6 DEF Look
  <2>. QED BY <2>1 DEF PendingHasAttempts, NoOrphan, QueueInv
<1>7. ASSUME NEW w \in Workers, WriteVerdict(w) PROVE PendingHasAttempts' /\ NoOrphan'
  <2>1. row' = Settled(row, worker[w]) /\ worker[w] \in Verdicts
    BY <1>7 DEF WriteVerdict
  <2>2. \/ row'.status \in {"resolved", "failed"}
        \/ row'.status = "pending" /\ row'.attempts < MaxAttempts
    <3>1. CASE worker[w] = "retry"
      <4>1. row' = Failed(row)
        BY <2>1, <3>1 DEF Settled
      <4>2. CASE row.attempts >= MaxAttempts
        BY <1>1, <4>1, <4>2 DEF Failed, QueueRows
      <4>3. CASE row.attempts < MaxAttempts
        BY <1>1, <4>1, <4>3 DEF Failed, QueueRows
      <4>. QED BY <1>1, <4>2, <4>3 DEF QueueRows
    <3>2. CASE worker[w] # "retry"
      BY <1>1, <2>1, <3>2 DEF Settled, Verdicts, QueueRows
    <3>. QED BY <3>1, <3>2
  <2>. QED BY <1>1, <2>2, QueueTypeStep
           DEF PendingHasAttempts, NoOrphan, Active, QueueRows, QueueInv, QueueTypeOK
<1>8. ASSUME NEW w \in Workers, Stop(w) PROVE PendingHasAttempts' /\ NoOrphan'
  <2>1. row' = Released(row)
    BY <1>8 DEF Stop
  <2>2. ~Active(row)' \/ row'.attempts < MaxAttempts
    BY <1>1, <2>1 DEF Released, QueueRows, Active, QueueInv, PendingHasAttempts
  <2>. QED BY <1>1, <2>2, QueueTypeStep
           DEF PendingHasAttempts, NoOrphan, Active, QueueRows, QueueInv, QueueTypeOK
<1>9. ASSUME NEW w \in Workers, Crash(w) PROVE PendingHasAttempts' /\ NoOrphan'
  BY <1>9 DEF Crash
<1>10. CASE UNCHANGED queueVars
  BY <1>10 DEF queueVars, PendingHasAttempts, NoOrphan, Active, QueueInv
<1>. QED
  BY <1>2, <1>3, <1>4, <1>5, <1>6, <1>7, <1>8, <1>9, <1>10 DEF QueueNext

\* fail, "Exhausted items land in `failed` for operator attention": while no
\* worker dies, no write fails and nobody enqueues a spent subject, an item on
\* its last attempt is settled or in a worker's hands - for any number of
\* replicas, whatever shutdowns and lapsed claims do.
THEOREM NothingIsOrphaned ==
    ASSUME Faults = {} PROVE QueueSpec => []NoOrphan
<1>1. QueueInv => NoOrphan
  BY DEF QueueInv
<1>. QED BY <1>1, QueueInvInit, QueueInvStep, PTL DEF QueueSpec

=============================================================================

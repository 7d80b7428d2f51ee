----------------------------- MODULE SectionStl -----------------------------
(***************************************************************************)
(* The resident scheduler of code/section/srtos_stl: loadable task groups, *)
(* a FIFO of ready tasks, one shared stack with snapshots, and the native  *)
(* loader that enables, revokes, proves quiescent and forgets a group.     *)
(*                                                                         *)
(* Every call of core/section.c is one transaction under the port lock, so *)
(* it is one action here; the four places where the lock is free inside a  *)
(* longer operation are separate steps: the callbacks of managed init, the *)
(* PendSV window before the handler masks interrupts, the window after it  *)
(* unmasks them, and native_restore before port_run clears                 *)
(* dispatch_active.  Interrupts call the same API in all of them.          *)
(*                                                                         *)
(* Where a snapshot lies in the pool is SnapshotPool's subject.  Here the  *)
(* allocation history is a sequence of live and consumed records.          *)
(***************************************************************************)
EXTENDS Integers, SequencesExt, FiniteSets

CONSTANTS
  GroupIds,      (* loader identities                                      *)
  MaxGroups,     (* SECTION_STL_MAX_GROUPS                                 *)
  MaxTasks,      (* SECTION_STL_MAX_TASKS                                  *)
  MaxRecords,    (* SECTION_STL_MAX_RECORDS                                *)
  MaxGeneration, (* UINT32_MAX, the last generation                        *)
  SliceTicks,    (* SECTION_STL_SLICE_TICKS                                *)
  TickMod,       (* 2^32, the modulus of platform ticks                    *)
  TickSteps,     (* ticks a timer interrupt may report at once             *)
  Image,         (* the task table each group registers                    *)
  InitCalls,     (* the number of its managed init callbacks               *)
  Holders,       (* external callbacks and DMA transfers that take leases  *)
  HostHold,      (* values of ~section_stl_host_switch_allowed()           *)
  HostCommit,    (* results of section_stl_host_owner_commit               *)
  Exhaustible,   (* the pool can be too full for a frame                   *)
  Calls,         (* optional API calls the surroundings make               *)
  NONE

Slots == 1 .. MaxTasks
GroupStates == {"DISABLED", "ENABLED", "PAUSED", "REVOKING", "REVOKED"}
TaskStates == {"FREE", "SLEEPING", "NEW", "OLD", "RUNNING"}

ASSUME StlAssumption ==
  /\ MaxGroups \in Nat \ {0} /\ MaxTasks \in Nat \ {0} /\ MaxRecords \in Nat \ {0}
  /\ MaxGeneration \in Nat /\ TickMod \in Nat
  /\ SliceTicks \in Nat \ {0} /\ 2 * SliceTicks < TickMod
  /\ TickSteps \subseteq {d \in Nat \ {0} : 2 * d < TickMod}
  /\ InitCalls \in [GroupIds -> Nat]
  /\ Image \in [GroupIds -> Seq([period : Nat \ {0}, step : BOOLEAN])]
  /\ \A g \in GroupIds : \A i \in DOMAIN Image[g] : 2 * Image[g][i].period < TickMod
  /\ HostHold \subseteq BOOLEAN /\ HostCommit \subseteq BOOLEAN /\ Exhaustible \in BOOLEAN
  /\ IsFiniteSet(Holders) /\ NONE \notin Slots /\ NONE \notin GroupIds

VARIABLES
  group,          (* the resident group of each identity; gen 0 when none  *)
  group_list,     (* p_group_first: the newest registration first          *)
  generation,     (* the last load generation given out                    *)
  task,           (* resident task slots                                   *)
  ready,          (* the ready FIFO                                        *)
  records,        (* allocation history, oldest first                      *)
  current,        (* p_current                                             *)
  elapsed,        (* tick_now - slice_start while a task is current        *)
  native_pending, (* sticky request to return to native                    *)
  pend,           (* ICSR.PENDSVSET                                        *)
  phase,          (* what the CPU is in the middle of, below               *)
  init,           (* the managed init transaction of the native thread     *)
  lease,          (* the handle each holder has acquired                   *)
  hold,           (* the host services a transaction: no switch allowed    *)
  host_owner,     (* the owner last committed to the host                  *)
  fault           (* SECTION_STL_CORRUPT is latched                        *)

(* phase: "native"  native Thread on MSP, dispatch_active = 0              *)
(*        "svc"     section_stl_switch from the launching SVC, locked      *)
(*        "thread"  a task runs on PSP                                     *)
(*        "finish"  section_stl_entry after a callback, locked             *)
(*        "enter"   PendSV entered, interrupts not yet masked              *)
(*        "select"  section_stl_switch after the departure, locked         *)
(*        "exit"    PendSV leaves, interrupts unmasked                     *)
(*        "return"  native_restore done, dispatch_active still 1           *)
Phases == {"native", "svc", "thread", "finish", "enter", "select", "exit", "return"}
Unlocked == phase \in {"native", "thread", "enter", "exit", "return"}
DispatchActive == phase # "native"

groupVars == <<group, group_list, generation, init>>
queueVars == <<task, ready, records>>
cpuVars == <<current, elapsed>>
switchVars == <<native_pending, pend, phase>>
hostVars == <<hold, host_owner>>
vars == <<groupVars, queueVars, cpuVars, switchVars, lease, hostVars, fault>>

NoHandle == [id |-> NONE, gen |-> 0]
Absent == [gen |-> 0, state |-> "DISABLED", references |-> 0, init_busy |-> FALSE,
           initialized |-> FALSE, quiescent |-> FALSE]
FreeTask == [owner |-> NoHandle, state |-> "FREE", age |-> 0, period |-> 1,
             step |-> FALSE, quantum_left |-> 0]

Init ==
  /\ group = [g \in GroupIds |-> Absent] /\ group_list = << >> /\ generation = 0
  /\ init = NONE
  /\ task = [s \in Slots |-> FreeTask] /\ ready = << >> /\ records = << >>
  /\ current = NONE /\ elapsed = 0
  /\ native_pending = FALSE /\ pend = FALSE /\ phase = "native"
  /\ lease = [p \in Holders |-> NoHandle]
  /\ hold \in HostHold /\ host_owner = NoHandle
  /\ fault = FALSE

----------------------------------------------------------------------------
(* Identity.  A handle names one incarnation; any pairing of an identity   *)
(* with a generation given out so far may be in the hands of a caller.     *)

Handles == [id : GroupIds, gen : 1 .. generation]
Handle(g) == [id |-> g, gen |-> group[g].gen]

Resident_AnyGeneration(h) == group[h.id].gen # 0
Resident(h) == h # NoHandle /\ group[h.id].gen = h.gen

StateOf(h) == group[h.id].state
Closed(h) == StateOf(h) \in {"REVOKING", "REVOKED"}

TasksOf(h) == {s \in Slots : task[s].owner = h}
OwnedBy(cur, h) == cur # NONE /\ task[cur].owner = h
Executing(h) == group[h.id].init_busy \/ OwnedBy(current, h)
RecordsOf(h, r) == {i \in DOMAIN r : r[i].owner = h}

(* Only the consumed prefix of the history is reclaimed (records_reap).    *)
Reaped(r) == LET live == {i \in DOMAIN r : r[i].live} IN
  IF live = {} THEN << >> ELSE SubSeq(r, Min(live), Len(r))

Consumed(r, which) ==
  Reaped([i \in DOMAIN r |-> IF i \in which THEN [r[i] EXCEPT !.live = FALSE] ELSE r[i]])

(* The members of S in the order of R, a strict total order on S.          *)
InOrder(S, R) == CHOOSE f \in [1 .. Cardinality(S) -> S] :
  \A i, j \in 1 .. Cardinality(S) : i < j => <<f[i], f[j]>> \in R

(* ready_remove of the tasks tasks from the queue q, in the task table tk. *)
Removed(q, tasks) ==
  LET kept == {i \in DOMAIN q : q[i] \notin tasks}
      pos == InOrder(kept, {p \in kept \X kept : p[1] < p[2]})
  IN [i \in 1 .. Cardinality(kept) |-> q[pos[i]]]
Asleep(tk, q, tasks) ==
  [s \in Slots |-> IF s \in tasks /\ Contains(q, s) THEN [tk[s] EXCEPT !.state = "SLEEPING"]
                                                   ELSE tk[s]]

(* group_cancel, for a queue q, tasks tk and a current task cur that the   *)
(* same transaction may already have changed.                              *)
CancelGroup_KeepsQueue(h, q, tk, cur) ==
  /\ ready' = q
  /\ task' = tk
  /\ records' = Consumed(records, RecordsOf(h, records))
  /\ group' = [group EXCEPT ![h.id].state =
       IF group[h.id].init_busy \/ OwnedBy(cur, h) THEN "REVOKING" ELSE "REVOKED"]
CancelGroup(h, q, tk, cur) ==
  /\ ready' = Removed(q, TasksOf(h))
  /\ task' = Asleep(tk, q, TasksOf(h))
  /\ records' = Consumed(records, RecordsOf(h, records))
  /\ group' = [group EXCEPT ![h.id].state =
       IF group[h.id].init_busy \/ OwnedBy(cur, h) THEN "REVOKING" ELSE "REVOKED"]

(* activate_due: the sleeping tasks of enabled groups whose period is over *)
(* become ready, group by group and by period within a group.              *)
Due(tk, s) ==
  /\ tk[s].state = "SLEEPING" /\ StateOf(tk[s].owner) = "ENABLED"
  /\ tk[s].age >= tk[s].period

Position(s) == CHOOSE i \in DOMAIN group_list : group_list[i] = task[s].owner.id
Before(s, t) ==
  \/ Position(s) < Position(t)
  \/ /\ Position(s) = Position(t)
     /\ \/ task[s].period < task[t].period
        \/ task[s].period = task[t].period /\ s < t

Activated(tk) == [s \in Slots |->
  IF Due(tk, s) THEN [tk[s] EXCEPT !.state = "NEW", !.age = tk[s].age % tk[s].period]
                ELSE tk[s]]
WithDue(q, tk) ==
  LET due == {s \in Slots : Due(tk, s)}
  IN q \o InOrder(due, {p \in due \X due : Before(p[1], p[2])})

----------------------------------------------------------------------------
(* The native loader.  Registration copies the descriptors into the first  *)
(* free slots; nothing is published unless everything fits.                *)

FreeSlots == {s \in Slots : task[s].state = "FREE"}

Register_WrapsGeneration(g) ==
  /\ phase = "native" /\ ~fault /\ group[g].gen = 0 /\ Len(group_list) < MaxGroups
  /\ Len(Image[g]) <= Cardinality(FreeSlots)
  /\ generation' = IF generation = MaxGeneration THEN 1 ELSE generation + 1
  /\ group' = [group EXCEPT ![g] = [Absent EXCEPT !.gen = generation']]
  /\ group_list' = <<g>> \o group_list
  /\ UNCHANGED <<init, queueVars, cpuVars, switchVars, lease, hostVars, fault>>
Register(g) ==
  /\ phase = "native" /\ ~fault /\ group[g].gen = 0 /\ Len(group_list) < MaxGroups
  /\ Len(Image[g]) <= Cardinality(FreeSlots) /\ generation < MaxGeneration
  /\ generation' = generation + 1
  /\ group' = [group EXCEPT ![g] = [Absent EXCEPT !.gen = generation']]
  /\ group_list' = <<g>> \o group_list
  /\ task' = [s \in Slots |->
       LET i == Cardinality({f \in FreeSlots : f <= s}) IN
         IF s \in FreeSlots /\ i \in DOMAIN Image[g]
           THEN [FreeTask EXCEPT !.owner = [id |-> g, gen |-> generation'],
                  !.state = "SLEEPING", !.period = Image[g][i].period,
                  !.step = Image[g][i].step]
           ELSE task[s]]
  /\ UNCHANGED <<init, ready, records, cpuVars, switchVars, lease, hostVars, fault>>

(* group_initialize: admission, then the callbacks one by one outside the  *)
(* lock, each after a check that no revocation arrived, then the outcome.  *)
InitBegin(h) ==
  /\ phase = "native" /\ ~fault /\ Resident(h)
  /\ StateOf(h) = "DISABLED" /\ ~group[h.id].initialized
  /\ \A g \in GroupIds : ~group[g].init_busy
  /\ group' = [group EXCEPT ![h.id].init_busy = TRUE]
  /\ init' = [handle |-> h, left |-> InitCalls[h.id]]
  /\ UNCHANGED <<group_list, generation, queueVars, cpuVars, switchVars, lease, hostVars, fault>>

InitCall ==
  /\ phase = "native" /\ init # NONE /\ init.left > 0 /\ ~Closed(init.handle)
  /\ init' = [init EXCEPT !.left = @ - 1]
  /\ UNCHANGED <<group, group_list, generation, queueVars, cpuVars, switchVars, lease,
                 hostVars, fault>>

InitEnd ==
  /\ phase = "native" /\ init # NONE
  /\ init.left = 0 \/ Closed(init.handle)
  /\ group' = [group EXCEPT ![init.handle.id] =
       IF Closed(init.handle)
         THEN [@ EXCEPT !.init_busy = FALSE, !.state = "REVOKED"]
         ELSE [@ EXCEPT !.init_busy = FALSE, !.initialized = TRUE]]
  /\ init' = NONE
  /\ UNCHANGED <<group_list, generation, queueVars, cpuVars, switchVars, lease, hostVars, fault>>

Retired(h, r) ==
  /\ StateOf(h) = "REVOKED" /\ ~Executing(h)
  /\ group[h.id].references = 0 /\ RecordsOf(h, r) = {}

Quiescent_NotRetired(h) ==
  /\ phase = "native" /\ ~fault /\ Resident(h) /\ StateOf(h) = "REVOKED"
  /\ group' = [group EXCEPT ![h.id].quiescent = TRUE]
  /\ UNCHANGED <<group_list, generation, init, queueVars, cpuVars, switchVars, lease,
                 hostVars, fault>>
Quiescent(h) ==
  /\ phase = "native" /\ ~fault /\ Resident(h)
  /\ records' = Reaped(records)
  /\ Retired(h, records')
  /\ group' = [group EXCEPT ![h.id].quiescent = TRUE]
  /\ UNCHANGED <<group_list, generation, init, task, ready, cpuVars, switchVars, lease,
                 hostVars, fault>>

Forget_Unattested(h) ==
  /\ phase = "native" /\ ~fault /\ Resident(h) /\ StateOf(h) = "REVOKED"
  /\ group' = [group EXCEPT ![h.id] = Absent]
  /\ group_list' = Removed(group_list, {h.id})
  /\ task' = [s \in Slots |-> IF s \in TasksOf(h) THEN FreeTask ELSE task[s]]
  /\ UNCHANGED <<generation, init, ready, records, cpuVars, switchVars, lease, hostVars, fault>>
Forget(h) ==
  /\ phase = "native" /\ ~fault /\ Resident(h)
  /\ Retired(h, records) /\ group[h.id].quiescent
  /\ group' = [group EXCEPT ![h.id] = Absent]
  /\ group_list' = Removed(group_list, {h.id})
  /\ task' = [s \in Slots |-> IF s \in TasksOf(h) THEN FreeTask ELSE task[s]]
  /\ UNCHANGED <<generation, init, ready, records, cpuVars, switchVars, lease, hostVars, fault>>

----------------------------------------------------------------------------
(* Calls that any context may make: tasks, native code and interrupts.     *)

(* section_stl_port_request_switch, for a phase in which dispatch is active *)
RequestSwitch == pend' = DispatchActive

(* A group that is not already enabled has its periods rebased.            *)
Enable(h) ==
  /\ Unlocked /\ Resident(h) /\ group[h.id].initialized /\ ~Closed(h) /\ ~fault
  /\ group' = [group EXCEPT ![h.id].state = "ENABLED"]
  /\ task' = IF StateOf(h) = "ENABLED" THEN task
             ELSE [s \in Slots |-> IF s \in TasksOf(h) THEN [task[s] EXCEPT !.age = 0]
                                                      ELSE task[s]]
  /\ UNCHANGED <<group_list, generation, init, ready, records, cpuVars, switchVars, lease,
                 hostVars, fault>>

(* Disable and pause withdraw the activations that have not started.       *)
Withdraw(h) ==
  /\ LET unstarted == {s \in TasksOf(h) : task[s].state = "NEW"}
     IN ready' = Removed(ready, unstarted) /\ task' = Asleep(task, ready, unstarted)
  /\ UNCHANGED <<group_list, generation, init, records, cpuVars, switchVars, lease,
                 hostVars, fault>>

Disable_KeepsReady(h) ==
  /\ Unlocked /\ Resident(h) /\ ~Closed(h)
  /\ group' = [group EXCEPT ![h.id].state = "DISABLED"]
  /\ UNCHANGED <<group_list, generation, init, queueVars, cpuVars, switchVars, lease,
                 hostVars, fault>>
Disable(h) ==
  /\ Unlocked /\ Resident(h) /\ ~Closed(h)
  /\ group' = [group EXCEPT ![h.id].state = "DISABLED"]
  /\ Withdraw(h)

Pause_OverSnapshots(h) ==
  /\ Unlocked /\ Resident(h) /\ ~Closed(h)
  /\ ~Executing(h) /\ group[h.id].references = 0
  /\ group' = [group EXCEPT ![h.id].state = "PAUSED"]
  /\ Withdraw(h)
Pause(h) ==
  /\ Unlocked /\ Resident(h) /\ ~Closed(h)
  /\ ~Executing(h) /\ group[h.id].references = 0 /\ RecordsOf(h, records) = {}
  /\ group' = [group EXCEPT ![h.id].state = "PAUSED"]
  /\ Withdraw(h)

(* Revocation always closes the entry; it asks for a switch only when a    *)
(* task of the group is on the CPU.                                        *)
Revoke(h) ==
  /\ Unlocked /\ Resident(h)
  /\ CancelGroup(h, ready, task, current)
  /\ IF OwnedBy(current, h) THEN RequestSwitch ELSE UNCHANGED pend
  /\ UNCHANGED <<group_list, generation, init, cpuVars, native_pending, phase, lease,
                 hostVars, fault>>

Acquire(p, h) ==
  /\ Unlocked /\ Resident(h) /\ StateOf(h) \in {"DISABLED", "ENABLED"}
  /\ lease[p] = NoHandle
  /\ lease' = [lease EXCEPT ![p] = h]
  /\ group' = [group EXCEPT ![h.id].references = @ + 1]
  /\ UNCHANGED <<group_list, generation, init, queueVars, cpuVars, switchVars, hostVars, fault>>

Release(p) ==
  /\ Unlocked /\ lease[p] # NoHandle
  /\ lease' = [lease EXCEPT ![p] = NoHandle]
  /\ group' = IF Resident(lease[p]) /\ group[lease[p].id].references > 0
                THEN [group EXCEPT ![lease[p].id].references = @ - 1] ELSE group
  /\ UNCHANGED <<group_list, generation, init, queueVars, cpuVars, switchVars, hostVars, fault>>

Yield ==
  /\ Unlocked /\ current # NONE
  /\ RequestSwitch
  /\ UNCHANGED <<groupVars, queueVars, cpuVars, native_pending, phase, lease, hostVars, fault>>

RequestNative ==
  /\ Unlocked /\ ~fault /\ DispatchActive
  /\ native_pending' = TRUE
  /\ RequestSwitch
  /\ UNCHANGED <<groupVars, queueVars, cpuVars, phase, lease, hostVars, fault>>

(* The host begins or ends a servicing transaction.                        *)
HostService ==
  /\ Unlocked
  /\ hold' \in HostHold \ {hold}
  /\ UNCHANGED <<groupVars, queueVars, cpuVars, switchVars, lease, host_owner, fault>>

(* The timer interrupt.  While a task is current it leaves the activations *)
(* to the switch, which queues the interrupted task first.  Only enabled   *)
(* groups' ages count: enabling any other group rebases it.                *)
Tick(d) ==
  /\ Unlocked /\ ~fault
  /\ LET aged == [s \in Slots |->
           IF task[s].state # "FREE" /\ StateOf(task[s].owner) = "ENABLED"
             THEN [task[s] EXCEPT !.age = (@ + d) % TickMod] ELSE task[s]]
         ran == (elapsed + d) % TickMod
     IN IF current = NONE
          THEN /\ task' = Activated(aged) /\ ready' = WithDue(ready, aged)
               /\ UNCHANGED <<elapsed, pend>>
          ELSE /\ task' = aged /\ elapsed' = ran /\ UNCHANGED ready
               /\ IF phase \notin {"enter", "exit"} /\ ran >= task[current].quantum_left
                    THEN RequestSwitch ELSE UNCHANGED pend
  /\ UNCHANGED <<groupVars, records, current, native_pending, phase, lease, hostVars, fault>>

----------------------------------------------------------------------------
(* section_stl_run and the launching SVC.  A null frame comes back at once *)
(* when the host forbids switching.                                        *)
Run ==
  /\ phase = "native" /\ ~fault /\ \A g \in GroupIds : ~group[g].init_busy
  /\ phase' = IF hold THEN "return" ELSE "svc"
  /\ UNCHANGED <<groupVars, queueVars, cpuVars, native_pending, pend, lease, hostVars, fault>>

(* port_run resumes: a PendSV requested meanwhile is taken on MSP and      *)
(* ignored.                                                                *)
ReturnDone ==
  /\ phase = "return"
  /\ phase' = "native" /\ pend' = FALSE
  /\ UNCHANGED <<groupVars, queueVars, cpuVars, native_pending, lease, hostVars, fault>>

(* return_native and native_restore, with the faults latched so far.       *)
NativeReturn(faulty) ==
  /\ \E ok \in HostCommit :
       /\ native_pending' = (native_pending /\ ~ok)
       /\ host_owner' = IF ok THEN NoHandle ELSE host_owner
       /\ fault' = (faulty \/ ~ok)
  /\ current' = NONE /\ elapsed' = 0
  /\ pend' = FALSE /\ phase' = "return"

----------------------------------------------------------------------------
(* PendSV.                                                                 *)

PendSV ==
  /\ phase \in {"thread", "exit"} /\ pend
  /\ phase' = "enter" /\ pend' = FALSE
  /\ UNCHANGED <<groupVars, queueVars, cpuVars, native_pending, lease, hostVars, fault>>

PendSVExit ==
  /\ phase = "exit" /\ ~pend
  /\ phase' = "thread"
  /\ UNCHANGED <<groupVars, queueVars, cpuVars, native_pending, pend, lease, hostVars, fault>>

Departing == phase = "enter" /\ ~fault /\ ~hold
Owner(s) == task[s].owner
Dead_OnlyForgotten(s) == ~Resident(Owner(s))
Dead(s) == ~Resident(Owner(s)) \/ Closed(Owner(s))

DepartFault ==
  /\ phase = "enter" /\ fault
  /\ NativeReturn(TRUE)
  /\ UNCHANGED <<groupVars, queueVars, lease, hold>>

(* The host owns the old stack: back to the interrupted code, unchanged.   *)
DepartHeld ==
  /\ phase = "enter" /\ ~fault /\ hold
  /\ phase' = "exit"
  /\ UNCHANGED <<groupVars, queueVars, cpuVars, native_pending, pend, lease, hostVars, fault>>

Leave == current' = NONE /\ elapsed' = 0 /\ phase' = "select"

(* The owner was revoked: its frame is dropped, never saved.               *)
DepartRevoked ==
  /\ Departing /\ Dead(current)
  /\ LET tk == [task EXCEPT ![current].state = "SLEEPING"] IN
       IF Resident(Owner(current))
         THEN CancelGroup(Owner(current), ready, tk, NONE)
         ELSE task' = tk /\ UNCHANGED <<group, ready, records>>
  /\ Leave
  /\ UNCHANGED <<group_list, generation, init, native_pending, pend, lease, hostVars, fault>>

(* The frame is saved.  A native request interrupts a task that still has  *)
(* quantum: it keeps the rest and the head of the queue.                   *)
HasRecord_Always == TRUE
HasRecord_Strict == Len(Reaped(records)) < MaxRecords - 1
HasRecord == Len(Reaped(records)) < MaxRecords

DepartSaved_KeepsQuantum ==
  /\ Departing /\ ~Dead(current) /\ task[current].state = "RUNNING" /\ HasRecord
  /\ records' = Append(Reaped(records), [task |-> current, owner |-> Owner(current), live |-> TRUE])
  /\ task' = [task EXCEPT ![current].state = "OLD"]
  /\ ready' = IF native_pending THEN <<current>> \o ready ELSE Append(ready, current)
  /\ Leave
  /\ UNCHANGED <<groupVars, native_pending, pend, lease, hostVars, fault>>
DepartSaved ==
  /\ Departing /\ ~Dead(current) /\ task[current].state = "RUNNING" /\ HasRecord
  /\ records' = Append(Reaped(records), [task |-> current, owner |-> Owner(current), live |-> TRUE])
  /\ LET charged == IF elapsed = 0 THEN 1 ELSE elapsed
         keeps == native_pending /\ charged < task[current].quantum_left
     IN /\ task' = [task EXCEPT ![current].state = "OLD", ![current].quantum_left =
                      IF keeps THEN @ - charged ELSE SliceTicks]
        /\ ready' = IF keeps THEN <<current>> \o ready ELSE Append(ready, current)
  /\ Leave
  /\ UNCHANGED <<groupVars, native_pending, pend, lease, hostVars, fault>>

(* No room: the task keeps the CPU, and the request is spent.              *)
DepartExhausted ==
  /\ Departing /\ ~Dead(current) /\ task[current].state = "RUNNING" /\ (Exhaustible \/ ~HasRecord)
  /\ records' = Reaped(records)
  /\ phase' = "exit"
  /\ UNCHANGED <<groupVars, task, ready, cpuVars, native_pending, pend, lease, hostVars, fault>>

(* The callback had completed: no frame is worth saving.                   *)
DepartDone ==
  /\ Departing /\ ~Dead(current) /\ task[current].state # "RUNNING"
  /\ Leave
  /\ UNCHANGED <<groupVars, queueVars, native_pending, pend, lease, hostVars, fault>>

----------------------------------------------------------------------------
(* section_stl_switch once nobody owns the CPU.                            *)

Selecting == phase \in {"select", "svc"}
Candidates_NoActivation == ready
Candidates == WithDue(ready, task)

Admissible(s) ==
  /\ Resident(Owner(s))
  /\ \/ StateOf(Owner(s)) = "ENABLED"
     \/ StateOf(Owner(s)) = "DISABLED" /\ task[s].state = "OLD"

SelectNative ==
  /\ Selecting /\ native_pending
  /\ NativeReturn(FALSE)
  /\ UNCHANGED <<groupVars, queueVars, lease, hold>>

SelectIdle ==
  /\ Selecting /\ ~native_pending /\ Candidates = << >>
  /\ records' = Reaped(records)
  /\ NativeReturn(FALSE)
  /\ UNCHANGED <<groupVars, task, ready, lease, hold>>

(* One turn of the selection loop.  An inadmissible head is dropped, its   *)
(* group cancelled if revoked; an admissible one is dispatched once its    *)
(* frame is restored or built and the host has accepted the new owner.     *)
Snapshot(s) == {i \in DOMAIN records :
  records[i].live /\ records[i].task = s /\ records[i].owner = Owner(s)}

Selected(s) == [Activated(task) EXCEPT
  ![s].quantum_left = IF task[s].state = "OLD" THEN @ ELSE SliceTicks]
History_KeepsRecord(s) == Reaped(records)
History(s) == IF task[s].state = "OLD"
                THEN Consumed(records, {i \in DOMAIN records : records[i].task = s})
                ELSE Reaped(records)

Dispatch(s) ==
  /\ records' = History(s)
  /\ \E ok \in HostCommit :
       IF ok /\ (task[s].state = "OLD" => Snapshot(s) # {})
         THEN /\ task' = [Selected(s) EXCEPT ![s].state = "RUNNING"]
              /\ current' = s /\ elapsed' = 0
              /\ host_owner' = Owner(s)
              /\ phase' = IF phase = "svc" THEN "thread" ELSE "exit"
              /\ UNCHANGED <<fault, native_pending, pend>>
         ELSE /\ task' = Selected(s)
              /\ NativeReturn(TRUE)

SelectNext ==
  /\ Selecting /\ ~native_pending /\ Candidates # << >>
  /\ LET s == Head(Candidates)
         rest == Tail(Candidates)
     IN IF Admissible(s)
          THEN /\ ready' = rest /\ Dispatch(s) /\ UNCHANGED group
          ELSE /\ IF Resident(Owner(s)) /\ Closed(Owner(s))
                    THEN CancelGroup(Owner(s), rest, Activated(task), NONE)
                    ELSE /\ ready' = rest /\ task' = Activated(task)
                         /\ records' = Reaped(records) /\ UNCHANGED group
               /\ UNCHANGED <<cpuVars, switchVars, host_owner, fault>>
  /\ UNCHANGED <<group_list, generation, init, lease, hold>>

----------------------------------------------------------------------------
(* section_stl_entry: a callback returns.  A step that reports more work   *)
(* goes to the back of the queue, ahead of newly due tasks.                *)
Complete ==
  /\ phase = "thread" /\ ~pend /\ task[current].state = "RUNNING"
  /\ \E more \in IF task[current].step THEN BOOLEAN ELSE {FALSE} :
       LET again == more /\ Resident(Owner(current)) /\ StateOf(Owner(current)) = "ENABLED"
           tk == [task EXCEPT ![current].state = IF again THEN "NEW" ELSE "SLEEPING"]
       IN /\ task' = Activated(tk)
          /\ ready' = WithDue(IF again THEN Append(ready, current) ELSE ready, tk)
  /\ phase' = "finish"
  /\ UNCHANGED <<groupVars, records, cpuVars, native_pending, pend, lease, hostVars, fault>>

(* The next callback may start on the same stack, without a switch.        *)
Inlinable ==
  /\ ~native_pending /\ ~hold /\ elapsed < task[current].quantum_left
  /\ ready # << >> /\ task[Head(ready)].state = "NEW"
  /\ Resident(Owner(Head(ready))) /\ StateOf(Owner(Head(ready))) = "ENABLED"

FinishInline_NoCommit ==
  /\ phase = "finish" /\ Inlinable
  /\ LET s == Head(ready)
         tk == [task EXCEPT ![s].state = "RUNNING", ![s].quantum_left = SliceTicks]
     IN /\ current' = s /\ elapsed' = 0
        /\ ready' = Tail(ready) /\ task' = tk /\ UNCHANGED <<group, records>>
        /\ UNCHANGED <<host_owner, pend, fault>>
  /\ phase' = "thread"
  /\ UNCHANGED <<group_list, generation, init, native_pending, lease, hold>>
FinishInline ==
  /\ phase = "finish" /\ Inlinable
  /\ \E ok \in HostCommit :
       LET s == Head(ready)
           tk == [task EXCEPT ![s].state = "RUNNING", ![s].quantum_left = SliceTicks]
       IN IF ok
            THEN /\ current' = s /\ elapsed' = 0 /\ host_owner' = Owner(s)
                 /\ IF Resident(Owner(current)) /\ StateOf(Owner(current)) = "REVOKING"
                      THEN CancelGroup(Owner(current), Tail(ready), tk, s)
                      ELSE ready' = Tail(ready) /\ task' = tk /\ UNCHANGED <<group, records>>
                 /\ UNCHANGED <<pend, fault>>
            ELSE /\ fault' = TRUE /\ RequestSwitch
                 /\ UNCHANGED <<cpuVars, host_owner, queueVars, group>>
  /\ phase' = "thread"
  /\ UNCHANGED <<group_list, generation, init, native_pending, lease, hold>>

(* Otherwise PendSV must take over; the port may also refuse to inline.    *)
FinishSwitch ==
  /\ phase = "finish"
  /\ RequestSwitch
  /\ phase' = "thread"
  /\ UNCHANGED <<groupVars, queueVars, cpuVars, native_pending, lease, hostVars, fault>>

----------------------------------------------------------------------------
Dispatcher ==
  \/ PendSV \/ PendSVExit
  \/ DepartFault \/ DepartHeld \/ DepartRevoked \/ DepartSaved \/ DepartExhausted \/ DepartDone
  \/ SelectNative \/ SelectIdle \/ SelectNext
  \/ FinishInline \/ FinishSwitch \/ ReturnDone

API ==
  \/ \E h \in Handles :
       \/ "initialize" \in Calls /\ InitBegin(h)
       \/ "enable" \in Calls /\ Enable(h)
       \/ "disable" \in Calls /\ Disable(h)
       \/ "pause" \in Calls /\ Pause(h)
       \/ "revoke" \in Calls /\ Revoke(h)
       \/ "quiescent" \in Calls /\ Quiescent(h)
       \/ "forget" \in Calls /\ Forget(h)
       \/ \E p \in Holders : Acquire(p, h)
  \/ \E g \in GroupIds : Register(g)
  \/ \E p \in Holders : Release(p)
  \/ "yield" \in Calls /\ Yield
  \/ "request_native" \in Calls /\ RequestNative

Next ==
  \/ Dispatcher \/ API
  \/ InitCall \/ InitEnd \/ Run \/ Complete \/ HostService
  \/ \E d \in TickSteps : Tick(d)

Spec == Init /\ [][Next]_vars

(* Fairness.  PendSV, SVC and the locked transactions run to completion;   *)
(* the timer keeps interrupting; init callbacks return ("must return" in   *)
(* section.h); the native main loop keeps calling section_stl_run.  Task   *)
(* callbacks are not assumed to return, and the host is not assumed to     *)
(* stop servicing.                                                         *)
Fairness ==
  /\ WF_vars(Dispatcher)
  /\ \A d \in TickSteps : WF_vars(Tick(d))
  /\ WF_vars(InitCall) /\ WF_vars(InitEnd)
  /\ WF_vars(Run)

FairSpec == Spec /\ Fairness

----------------------------------------------------------------------------
(* Properties.                                                             *)

HandleType == [id : GroupIds, gen : 1 .. MaxGeneration] \cup {NoHandle}

(* The resident tables hold what section.c declares them to hold.          *)
TypeOK ==
  /\ group \in [GroupIds -> [gen : 0 .. MaxGeneration, state : GroupStates,
       references : 0 .. Cardinality(Holders), init_busy : BOOLEAN,
       initialized : BOOLEAN, quiescent : BOOLEAN]]
  /\ group_list \in Seq(GroupIds) /\ generation \in 0 .. MaxGeneration
  /\ task \in [Slots -> [owner : HandleType, state : TaskStates, age : 0 .. TickMod - 1,
       period : Nat, step : BOOLEAN, quantum_left : 0 .. SliceTicks]]
  /\ ready \in Seq(Slots) /\ Len(records) <= MaxRecords
  /\ current \in Slots \cup {NONE} /\ elapsed \in 0 .. TickMod - 1
  /\ phase \in Phases /\ lease \in [Holders -> HandleType]
  /\ {native_pending, pend, hold, fault} \subseteq BOOLEAN

(* The ready FIFO holds exactly the tasks that are ready, each once, and   *)
(* none that its group may not run: no order of disable, pause, revoke and *)
(* completion leaves a ready task unqueued, where it would be lost, or a   *)
(* queued one for section_stl_switch to refuse.                            *)
QueueSound ==
  ~fault =>
    /\ IsInjective(ready)
    /\ \A s \in Slots : /\ Contains(ready, s) <=> task[s].state \in {"NEW", "OLD"}
                        /\ Contains(ready, s) => Admissible(s)
                        /\ task[s].state = "RUNNING" => s = current

(* A task waits in TASK_OLD exactly while the history holds one live       *)
(* record of it, and nothing consumed is left at the head of the history.  *)
SnapshotsMatch ==
  ~fault =>
    /\ \A s \in Slots : Cardinality(Snapshot(s)) = IF task[s].state = "OLD" THEN 1 ELSE 0
    /\ \A i \in DOMAIN records : records[i].live =>
         task[records[i].task].owner = records[i].owner
    /\ records # << >> => records[1].live

Loaded == {g \in GroupIds : group[g].gen # 0}

(* A revoked group has nothing left on the CPU, in the queue or in a live  *)
(* snapshot; one that is still revoking is executing, so that a switch or  *)
(* the end of its init is there to finish the revocation.                  *)
ClosedIsOut ==
  ~fault => \A g \in Loaded : LET h == Handle(g) IN
    /\ group[g].state = "REVOKED" =>
         /\ ~Executing(h)
         /\ \A s \in Slots : task[s].owner = h => task[s].state = "SLEEPING"
    /\ group[g].state = "REVOKING" => Executing(h)
    /\ Closed(h) => \A i \in RecordsOf(h, records) : ~records[i].live

(* A paused group pins nothing: no lease, no record, no task ready or      *)
(* running.                                                                *)
PausedIsIdle ==
  ~fault => \A g \in Loaded : group[g].state = "PAUSED" =>
    /\ group[g].references = 0 /\ RecordsOf(Handle(g), records) = {}
    /\ ~Executing(Handle(g))
    /\ \A s \in Slots : task[s].owner = Handle(g) => task[s].state = "SLEEPING"

(* The native attestation of cleanup cannot be overtaken: a quiescent      *)
(* group stays retired until it is forgotten.                              *)
QuiescentIsRetired ==
  \A g \in Loaded : group[g].quiescent => Retired(Handle(g), records)

(* Forgetting a group leaves no pointer to it: tasks, records, the init    *)
(* transaction and the external leases all name resident incarnations.     *)
NothingOutlivesForget ==
  /\ \A s \in Slots : task[s].state # "FREE" => Resident(Owner(s))
  /\ \A i \in DOMAIN records : Resident(records[i].owner)
  /\ init # NONE => Resident(init.handle) /\ group[init.handle.id].init_busy
  /\ \A p \in Holders : lease[p] # NoHandle => Resident(lease[p])

(* Business code runs only under the owner the host has committed, and     *)
(* native code only under none.                                            *)
OwnerCommitted ==
  ~fault =>
    /\ phase \in {"thread", "enter", "exit", "finish"} =>
         current # NONE /\ host_owner = Owner(current) /\ Resident(host_owner)
    /\ phase \in {"native", "svc", "return"} => current = NONE /\ host_owner = NoHandle

(* No step reopens a closed incarnation, and a generation once used is     *)
(* never given out again.                                                  *)
ClosedIsFinal ==
  [][\A g \in GroupIds :
       IF group'[g].gen = group[g].gen
         THEN /\ Closed(Handle(g)) => group'[g].state \in {"REVOKING", "REVOKED"}
              /\ group[g].state = "REVOKED" => group'[g].state = "REVOKED"
         ELSE group'[g].gen = 0 \/ group'[g].gen > generation]_vars

(* section_stl_run comes back only when there is nothing to run: unless    *)
(* native work was requested or switching is forbidden, no ready and no    *)
(* due task is left behind.                                                *)
ReturnsOnlyWhenIdle ==
  [][phase # "return" /\ phase' = "return" /\ ~native_pending /\ ~hold /\ ~fault'
       => ready' = << >> /\ \A s \in Slots : ~Due(task', s)]_vars

(* A revocation always completes: without the callback's cooperation, even *)
(* with the pool exhausted, once the host stops forbidding switches.       *)
RevokeCompletes ==
  <>[]~hold => \A g \in GroupIds :
    group[g].state = "REVOKING" ~> group[g].state # "REVOKING"

(* A native request is served whatever the tasks do.                       *)
NativeServed == native_pending ~> phase \in {"return", "native"}

(* No ready task waits forever: neither a callback that never returns nor  *)
(* native requests that keep interrupting it starve the others.  A request *)
(* that an interrupt makes while port_run is returning is too late to be   *)
(* served and ends the next dispatch at once, so tasks run only if such    *)
(* requests do not come in every return.                                   *)
EveryTaskRuns ==
  <>[](phase = "return" => ~native_pending) =>
    \A s \in Slots : Contains(ready, s) ~> ~Contains(ready, s)
=============================================================================

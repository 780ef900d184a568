--------------------------- MODULE ProcessManager ---------------------------
(***************************************************************************)
(* The control room's ownership of the radar process (ui/process_manager.py*)
(* behind ui/bridge.py): start, stop with its worker thread, restart with  *)
(* a thread of its own, the child ending by itself, the window closing and *)
(* opening again with what the lock file says.                             *)
(*                                                                         *)
(* Whether the operating system shows the identity of a process is open at *)
(* every look: it may refuse it, and may still show one that has exited.   *)
(***************************************************************************)
EXTENDS Integers, FiniteSets

CONSTANTS
    MaxKids,            \* bound: launches
    MaxRestarts,        \* restart threads
    MaxStoppers,        \* bound: stop workers at one time
    MaxWindows          \* bound: times the window is opened

ASSUME RoomAssumption == {MaxKids, MaxRestarts, MaxStoppers, MaxWindows} \subseteq Nat

VARIABLES
    room,               \* the manager: its state, _proc, the launch record
    kid,                \* the processes launched, by number
    born,               \* history: the window that launched each
    lockfile,           \* the pid lock file: a kid, or 0
    stopper,            \* the stop workers: their place and their process
    restarter,          \* restart threads
    strays,             \* history: signals sent to a process of another window
    window              \* how many times the window was opened

roomVars == <<room, kid, born, lockfile, stopper, restarter, strays, window>>

Kids == 1..MaxKids
Restarts == 1..MaxRestarts
Stoppers == 1..MaxStoppers
NoKid == 0
Room(state, proc, record) == [state |-> state, proc |-> proc, record |-> record]
Worker(pc, proc, forced) == [pc |-> pc, proc |-> proc, forced |-> forced]
NoWorker == Worker("none", NoKid, FALSE)
Launched == {k \in Kids : kid[k] # "none"}

RoomInit ==
    /\ room = Room("STOPPED", NoKid, FALSE)
    /\ kid = [k \in Kids |-> "none"] /\ born = [k \in Kids |-> 0]
    /\ lockfile = NoKid /\ stopper = [w \in Stoppers |-> NoWorker] /\ restarter = [r \in Restarts |-> "none"]
    /\ strays = 0 /\ window = 1

is_owned(k, visible) == room.proc = k /\ room.record /\ visible
Unknown(r) == [r EXCEPT !.state = "UNKNOWN"]

-----------------------------------------------------------------------------

(* Mutant: the process handle is not looked at.                              *)
MayStart_ByState == room.state \notin {"STARTING", "RUNNING", "STOPPING", "ADOPTED", "UNKNOWN"}

(* start(), wholly under the lock: no second child while one may exist.     *)
MayStart == /\ room.proc = NoKid
            /\ room.state \notin {"STARTING", "RUNNING", "STOPPING", "ADOPTED", "UNKNOWN"}

StartEffect ==
    \/ /\ ~MayStart /\ UNCHANGED <<room, kid, born, lockfile>>
    \/ /\ MayStart /\ room' = Room("ERROR", NoKid, FALSE)          \* no interpreter, or the launch fails
       /\ UNCHANGED <<kid, born, lockfile>>
    \/ /\ MayStart /\ Cardinality(Launched) < MaxKids
       /\ LET k == Cardinality(Launched) + 1
          IN  /\ kid' = [kid EXCEPT ![k] = "running"] /\ born' = [born EXCEPT ![k] = window]
              /\ \/ room' = Room("UNKNOWN", k, FALSE) /\ UNCHANGED lockfile
                 \/ room' = Room("RUNNING", k, TRUE) /\ lockfile' \in {k, lockfile}

start == StartEffect /\ UNCHANGED <<stopper, restarter, strays, window>>

(* stop(): the checks under the lock, then a worker thread.  A stop that    *)
(* cannot see the identity leaves STOPPING, so that a later one starts a    *)
(* second worker beside the first.                                          *)
StopEffect(visible) ==
    IF room.state = "ADOPTED" \/ room.proc = NoKid THEN UNCHANGED <<room, stopper>>
    ELSE IF ~is_owned(room.proc, visible) THEN room' = Unknown(room) /\ UNCHANGED stopper
    ELSE IF room.state = "STOPPING" THEN UNCHANGED <<room, stopper>>
    ELSE /\ room' = [room EXCEPT !.state = "STOPPING"]
         /\ \E w \in Stoppers : /\ stopper[w] = NoWorker
                               /\ stopper' = [stopper EXCEPT ![w] = Worker("check", room.proc, FALSE)]

stop(visible) == StopEffect(visible) /\ UNCHANGED <<kid, born, lockfile, restarter, strays, window>>

-----------------------------------------------------------------------------
(* A stop worker.  A signal to a child that has exited does nothing.        *)
WorkerEnds(w) == stopper' = [stopper EXCEPT ![w] = NoWorker]

StopWorkerChecks(w, visible) ==
    /\ stopper[w].pc \in {"check", "check_kill"}
    /\ IF is_owned(stopper[w].proc, visible)
       THEN /\ stopper' = [stopper EXCEPT ![w].pc = IF @ = "check" THEN "terminate" ELSE "kill"]
            /\ UNCHANGED room
       ELSE room' = Unknown(room) /\ WorkerEnds(w)
    /\ UNCHANGED <<kid, born, lockfile, restarter, strays, window>>

SendSignal(w) ==
    /\ stopper[w].pc \in {"terminate", "kill"}
    /\ strays' = strays + (IF born[stopper[w].proc] # window /\ kid[stopper[w].proc] = "running" THEN 1 ELSE 0)
    /\ stopper' = [stopper EXCEPT ![w] =
                      Worker(IF @.pc = "kill" THEN "wait_kill" ELSE "wait", @.proc, @.pc = "kill")]
    /\ UNCHANGED <<room, kid, born, lockfile, restarter, window>>

WaitTimesOut(w) ==
    /\ stopper[w].pc = "wait" /\ kid[stopper[w].proc] = "running"
    /\ stopper' = [stopper EXCEPT ![w].pc = "check_kill"]
    /\ UNCHANGED <<room, kid, born, lockfile, restarter, strays, window>>

WaitReturns(w) ==
    /\ stopper[w].pc \in {"wait", "wait_kill"} /\ kid[stopper[w].proc] = "exited"
    /\ IF room.proc # stopper[w].proc \/ ~room.record
       THEN room' = Unknown(room) /\ UNCHANGED lockfile
       ELSE /\ room' = Room(IF stopper[w].forced THEN "FORCED_STOPPED" ELSE "STOPPED", NoKid, FALSE)
            /\ lockfile' \in {NoKid, lockfile}
    /\ WorkerEnds(w)
    /\ UNCHANGED <<kid, born, restarter, strays, window>>

(* The signal or the second wait raises: ownership is retained. *)
StopFails(w) ==
    /\ stopper[w].pc \in {"terminate", "kill", "wait_kill"}
    /\ room' = [room EXCEPT !.state = "ERROR"] /\ WorkerEnds(w)
    /\ UNCHANGED <<kid, born, lockfile, restarter, strays, window>>

-----------------------------------------------------------------------------
(* restart(): stop, join the worker for a while, start, in its own thread.  *)
restart(r) ==
    /\ restarter[r] = "none" /\ restarter' = [restarter EXCEPT ![r] = "stop"]
    /\ UNCHANGED <<room, kid, born, lockfile, stopper, strays, window>>

RestartStops(r, visible) ==
    /\ restarter[r] = "stop" /\ StopEffect(visible)
    /\ restarter' = [restarter EXCEPT ![r] = "join"]
    /\ UNCHANGED <<kid, born, lockfile, strays, window>>

(* The join returns when the worker has ended, or at its own timeout.       *)
RestartStarts(r) ==
    /\ restarter[r] = "join" /\ StartEffect
    /\ restarter' = [restarter EXCEPT ![r] = "none"]
    /\ UNCHANGED <<stopper, strays, window>>

(* The radar ends: by itself, by a crash, or on the signal it was sent.     *)
ChildExits(k) ==
    /\ kid[k] = "running" /\ kid' = [kid EXCEPT ![k] = "exited"]
    /\ UNCHANGED <<room, born, lockfile, stopper, restarter, strays, window>>

(* The window closes: its threads end with it, the radar goes on.  The next *)
(* one adopts what the lock file names if a process has that pid, be it     *)
(* another one by now; else it removes the file.                            *)
adopt_existing_lock ==
    /\ window < MaxWindows /\ window' = window + 1
    /\ stopper' = [w \in Stoppers |-> NoWorker] /\ restarter' = [r \in Restarts |-> "none"]
    /\ \E reused \in BOOLEAN :
          IF lockfile # NoKid /\ (kid[lockfile] = "running" \/ reused)
          THEN room' = Room("ADOPTED", NoKid, FALSE) /\ UNCHANGED lockfile
          ELSE room' = Room("STOPPED", NoKid, FALSE) /\ lockfile' = NoKid
    /\ UNCHANGED <<kid, born, strays>>

StopWorker(w) ==
    \/ \E visible \in BOOLEAN : StopWorkerChecks(w, visible)
    \/ SendSignal(w) \/ WaitTimesOut(w) \/ WaitReturns(w) \/ StopFails(w)

RoomNext ==
    \/ start \/ adopt_existing_lock \/ \E w \in Stoppers : StopWorker(w)
    \/ \E visible \in BOOLEAN : stop(visible)
    \/ \E r \in Restarts : restart(r) \/ RestartStarts(r) \/ \E visible \in BOOLEAN : RestartStops(r, visible)
    \/ \E k \in Kids : ChildExits(k)

(* The worker threads run: their waits have a timeout. *)
RoomFairness == \A w \in Stoppers : WF_roomVars(StopWorker(w))
RoomSpec == RoomInit /\ [][RoomNext]_roomVars /\ RoomFairness

-----------------------------------------------------------------------------
(* A radar that this window launched and that still runs is the one it      *)
(* holds, so there is never a second one and none is lost from sight, in    *)
(* whatever order start, stop, restart, the exit of the process and a stop  *)
(* that failed or timed out come; STOPPED means it has ended; no process of *)
(* an earlier window is ever signalled (start's guard, stop, _stop_worker). *)
RoomInv ==
    /\ room.state \in {"STOPPED", "FORCED_STOPPED", "RUNNING", "STOPPING", "ADOPTED", "UNKNOWN", "ERROR"}
    /\ \A k \in Launched : kid[k] = "running" /\ born[k] = window => room.proc = k
    /\ strays = 0
    /\ room.state = "STOPPING" => \E w \in Stoppers : stopper[w].pc # "none"

(* A stop ends: STOPPING is left for an outcome the user can see, however   *)
(* stubborn the process is (the bounded waits of _stop_worker).             *)
StopSettles == (room.state = "STOPPING") ~> (room.state # "STOPPING")
=============================================================================

------------------------------ MODULE Notifier ------------------------------
(***************************************************************************)
(* E-mail notifications (hub/internal/notify/notifier.go): the debounced   *)
(* offline notice, the two job queues and their worker, Close, and the     *)
(* shutdown of the hub that leads to Close (hub/cmd/veyport/main.go).      *)
(*                                                                         *)
(* Every critical section of Notifier.mu is one step.  A timer that fired  *)
(* runs its callback in a goroutine of its own: Stop no longer reaches it. *)
(* One recipient stands for all; a job is its event type.                  *)
(***************************************************************************)
EXTENDS Naturals, Sequences, Fleet

CONSTANTS
    Timers,       \* the timers that can be created: bounds the disconnects
    NoTimer,      \* no entry in the debounce map
    NoJob,        \* the worker has no job in hand
    QCap,         \* capacity of each job queue (100 in the code)
    MaxConnects,  \* bound: agent connections
    MaxHttp       \* bound: notifications sent by HTTP handlers

ASSUME NotifierAssumption ==
    /\ QCap \in Nat \ {0}
    /\ MaxConnects \in Nat
    /\ MaxHttp \in Nat
    /\ NoTimer \notin Timers
    /\ NoJob \notin {"offline", "online", "security", "plain"}

VARIABLES
    agent,      \* agent[s]: the handler of s: "down", "arriving" or "up"
    timer,      \* timer[t]: the state of the timer and of its callback
    owner,      \* owner[t]: the server whose outage t stands for
    debounce,   \* debounce[s]: the timer in the map
    queue, priorityQueue,  \* jobs
    worker,     \* the worker's place in its loop
    job,        \* the job in the worker's hand
    shutdown,   \* how far the hub is with stopping
    panicked,   \* a job was sent on a closed queue
    connects, https  \* how many events happened

notifierVars == <<agent, timer, owner, debounce, queue, priorityQueue,
                  worker, job, shutdown, panicked, connects, https>>

timerVars == <<timer, owner, debounce>>
queueVars == <<queue, priorityQueue, panicked>>
workVars  == <<worker, job>>
countVars == <<connects, https>>

securityEvents == {"security"}
Job == {"offline", "online", "plain"} \cup securityEvents

\* Close: queue is closed first, then priorityQueue.
QueueClosed    == shutdown \in {"queueClosed", "wait", "closed"}
PriorityClosed == shutdown \in {"wait", "closed"}

NotifierTypeOK ==
    /\ agent \in [Servers -> {"down", "arriving", "up"}]
    /\ timer \in [Timers -> {"unused", "running", "fired", "sending", "sent", "stopped"}]
    /\ owner \in [Timers -> Servers]
    /\ debounce \in [Servers -> Timers \cup {NoTimer}]
    /\ queue \in Seq(Job) /\ Len(queue) <= QCap
    /\ priorityQueue \in Seq(securityEvents) /\ Len(priorityQueue) <= QCap
    /\ worker \in {"priority", "both", "drainQueue", "drainPriority", "returned"}
    /\ job \in Job \cup {NoJob}
    /\ shutdown \in {"run", "graceful", "http", "timersStopped", "queueClosed", "wait", "closed"}
    /\ panicked \in BOOLEAN
    /\ connects \in 0..MaxConnects
    /\ https \in 0..MaxHttp

NotifierInit ==
    /\ agent = [s \in Servers |-> "down"]
    /\ timer = [t \in Timers |-> "unused"]
    /\ owner \in [Timers -> Servers]
    /\ debounce = [s \in Servers |-> NoTimer]
    /\ queue = <<>>
    /\ priorityQueue = <<>>
    /\ worker = "priority"
    /\ job = NoJob
    /\ shutdown = "run"
    /\ panicked = FALSE
    /\ connects = 0
    /\ https = 0

\* Timer.Stop reaches a timer that has not fired.
Stop(t) == [timer EXCEPT ![t] = IF @ = "running" THEN "stopped" ELSE @]

\* enqueueNotification and enqueueJob, with SMTP enabled and one recipient.
\* A job that finds no room is dropped; a send on a closed queue panics.
enqueueJob(j) ==
    /\ panicked' = (panicked \/ QueueClosed)
    /\ IF ~QueueClosed /\ Len(queue) < QCap
       THEN queue' = Append(queue, j) /\ UNCHANGED priorityQueue
       ELSE IF ~QueueClosed /\ j \in securityEvents /\ Len(priorityQueue) < QCap
       THEN priorityQueue' = Append(priorityQueue, j) /\ UNCHANGED queue
       ELSE UNCHANGED <<queue, priorityQueue>>

-----------------------------------------------------------------------------
(* Notify                                                                  *)

\* Notify(agent.offline): scheduleDebounced.
scheduleDebounced(s, t) ==
    /\ agent[s] = "up"
    /\ timer[t] = "unused"
    /\ owner[t] = s
    /\ agent' = [agent EXCEPT ![s] = "down"]
    /\ LET stopped == IF debounce[s] = NoTimer THEN timer ELSE Stop(debounce[s])
       IN timer' = [stopped EXCEPT ![t] = "running"]
    /\ debounce' = [debounce EXCEPT ![s] = t]
    /\ UNCHANGED <<owner, queueVars, workVars, shutdown, countVars>>

\* Notify(agent.online) up to cancelDebounce; a stream may supersede another.
\* If there was an entry the online notice is suppressed.
cancelDebounce(s) ==
    /\ agent[s] \in {"down", "up"}
    /\ shutdown = "run"
    /\ connects < MaxConnects
    /\ connects' = connects + 1
    /\ \/ /\ debounce[s] # NoTimer
          /\ timer' = Stop(debounce[s])
          /\ debounce' = [debounce EXCEPT ![s] = NoTimer]
          /\ agent' = [agent EXCEPT ![s] = "up"]
       \/ /\ debounce[s] = NoTimer
          /\ agent' = [agent EXCEPT ![s] = "arriving"]
          /\ UNCHANGED <<timer, debounce>>
    /\ UNCHANGED <<owner, queueVars, workVars, shutdown, https>>

\* The rest of Notify(agent.online).
notifyOnline(s) ==
    /\ agent[s] = "arriving"
    /\ agent' = [agent EXCEPT ![s] = "up"]
    /\ enqueueJob("online")
    /\ UNCHANGED <<timerVars, workVars, shutdown, countVars>>

\* Notify by an HTTP handler.  srv.Start returns as soon as Shutdown is
\* called, so handlers still run while the notifier closes.
notifyHttp(j) ==
    /\ j \in {"security", "plain"}
    /\ shutdown # "closed"
    /\ https < MaxHttp
    /\ https' = https + 1
    /\ enqueueJob(j)
    /\ UNCHANGED <<agent, timerVars, workVars, shutdown, connects>>

\* DebounceDelay has passed: the callback's goroutine starts.
timerFires(t) ==
    /\ timer[t] = "running"
    /\ timer' = [timer EXCEPT ![t] = "fired"]
    /\ UNCHANGED <<agent, owner, debounce, queueVars, workVars, shutdown, countVars>>

\* Mutant: the callback leaves the entry in the map.
debounceExpired_KeepsEntry(t) ==
    /\ timer[t] = "fired"
    /\ timer' = [timer EXCEPT ![t] = "sending"]
    /\ UNCHANGED <<agent, owner, debounce, queueVars, workVars, shutdown, countVars>>

\* The callback deletes the key, whichever timer the entry holds by now.
debounceExpired(t) ==
    /\ timer[t] = "fired"
    /\ timer' = [timer EXCEPT ![t] = "sending"]
    /\ debounce' = [debounce EXCEPT ![owner[t]] = NoTimer]
    /\ UNCHANGED <<agent, owner, queueVars, workVars, shutdown, countVars>>

notifyOffline(t) ==
    /\ timer[t] = "sending"
    /\ timer' = [timer EXCEPT ![t] = "sent"]
    /\ enqueueJob("offline")
    /\ UNCHANGED <<agent, owner, debounce, workVars, shutdown, countVars>>

-----------------------------------------------------------------------------
(* The worker                                                              *)

Free == job = NoJob

takePriority ==
    /\ priorityQueue # <<>>
    /\ job' = Head(priorityQueue)
    /\ priorityQueue' = Tail(priorityQueue)
    /\ UNCHANGED queue

takeQueue ==
    /\ queue # <<>>
    /\ job' = Head(queue)
    /\ queue' = Tail(queue)
    /\ UNCHANGED priorityQueue

\* Mutant: the worker returns once priorityQueue is closed.
workerPriority_NoDrain ==
    /\ worker = "priority" /\ Free
    /\ \/ takePriority /\ UNCHANGED worker
       \/ /\ priorityQueue = <<>>
          /\ worker' = IF PriorityClosed THEN "returned" ELSE "both"
          /\ UNCHANGED <<queue, priorityQueue, job>>
    /\ UNCHANGED <<agent, timerVars, panicked, shutdown, countVars>>

\* The select that looks at priorityQueue alone.
workerPriority ==
    /\ worker = "priority" /\ Free
    /\ \/ takePriority /\ UNCHANGED worker
       \/ /\ priorityQueue = <<>>
          /\ worker' = IF PriorityClosed THEN "drainQueue" ELSE "both"
          /\ UNCHANGED <<queue, priorityQueue, job>>
    /\ UNCHANGED <<agent, timerVars, panicked, shutdown, countVars>>

\* The select on both queues, which chooses freely and blocks.
workerBoth ==
    /\ worker = "both" /\ Free
    /\ \/ (takePriority \/ takeQueue) /\ worker' = "priority"
       \/ /\ PriorityClosed /\ priorityQueue = <<>>
          /\ worker' = "drainQueue"
          /\ UNCHANGED <<queue, priorityQueue, job>>
       \/ /\ QueueClosed /\ queue = <<>>
          /\ worker' = "drainPriority"
          /\ UNCHANGED <<queue, priorityQueue, job>>
    /\ UNCHANGED <<agent, timerVars, panicked, shutdown, countVars>>

\* drainQueue(queue) or drainQueue(priorityQueue): until closed and empty.
drainQueue ==
    /\ worker \in {"drainQueue", "drainPriority"} /\ Free
    /\ LET ch     == IF worker = "drainQueue" THEN queue ELSE priorityQueue
           closed == IF worker = "drainQueue" THEN QueueClosed ELSE PriorityClosed
       IN \/ /\ ch # <<>>
             /\ IF worker = "drainQueue" THEN takeQueue ELSE takePriority
             /\ UNCHANGED worker
          \/ /\ ch = <<>> /\ closed
             /\ worker' = "returned"
             /\ UNCHANGED <<queue, priorityQueue, job>>
    /\ UNCHANGED <<agent, timerVars, panicked, shutdown, countVars>>

\* The mail is sent, or its failure logged.
processJob ==
    /\ ~Free
    /\ job' = NoJob
    /\ UNCHANGED <<agent, timerVars, queueVars, worker, shutdown, countVars>>

-----------------------------------------------------------------------------
(* Shutdown                                                                *)

ShutdownStep(from, to) ==
    /\ shutdown = from
    /\ shutdown' = to
    /\ UNCHANGED <<agent, queueVars, workVars, countVars>>

\* SIGTERM: GracefulStop takes no new stream and waits for those there are.
signalled == ShutdownStep("run", "graceful") /\ UNCHANGED timerVars

\* GracefulStop has returned; srv.Shutdown makes srv.Start return.
gracefulStopReturns ==
    /\ \A s \in Servers : agent[s] = "down"
    /\ ShutdownStep("graceful", "http")
    /\ UNCHANGED timerVars

\* Close: every timer in the map is stopped and forgotten.
closeTimers ==
    /\ ShutdownStep("http", "timersStopped")
    /\ timer' = [t \in Timers |-> IF \E s \in Servers : debounce[s] = t /\ timer[t] = "running"
                                  THEN "stopped" ELSE timer[t]]
    /\ debounce' = [s \in Servers |-> NoTimer]
    /\ UNCHANGED <<owner>>

closeQueue == ShutdownStep("timersStopped", "queueClosed") /\ UNCHANGED timerVars

\* Mutant: priorityQueue stays open.
closePriority_Forgotten == FALSE /\ UNCHANGED notifierVars

closePriority == ShutdownStep("queueClosed", "wait") /\ UNCHANGED timerVars

\* wg.Wait returns.
closeReturns ==
    /\ worker = "returned"
    /\ ShutdownStep("wait", "closed")
    /\ UNCHANGED timerVars

-----------------------------------------------------------------------------
\* A panic ends the process: nothing runs after it.
Alive == ~panicked

Callback(t) == Alive /\ (debounceExpired(t) \/ notifyOffline(t))
Worker      == Alive /\ (workerPriority \/ workerBoth \/ drainQueue \/ processJob)
Close       == Alive /\ (closeTimers \/ closeQueue \/ closePriority \/ closeReturns)

NotifierNext ==
    \/ \E s \in Servers, t \in Timers : Alive /\ scheduleDebounced(s, t)
    \/ \E s \in Servers : Alive /\ cancelDebounce(s)
    \/ \E s \in Servers : Alive /\ notifyOnline(s)
    \/ \E j \in Job : Alive /\ notifyHttp(j)
    \/ \E t \in Timers : Alive /\ timerFires(t)
    \/ \E t \in Timers : Callback(t)
    \/ Worker
    \/ Alive /\ signalled
    \/ Alive /\ gracefulStopReturns
    \/ Close

NotifierSpec == NotifierInit /\ [][NotifierNext]_notifierVars

(***************************************************************************)
(* Fairness.  Goroutines are scheduled, timers fire and a mail is sent or  *)
(* fails (an assumption on the mail server: SendEmail sets no deadline).   *)
(* Nothing is assumed of agents, of HTTP clients or of signals.            *)
(***************************************************************************)
NotifierFairness ==
    /\ WF_notifierVars(Worker)
    /\ WF_notifierVars(Alive /\ gracefulStopReturns)
    /\ WF_notifierVars(Close)
    /\ \A t \in Timers : WF_notifierVars(Alive /\ timerFires(t)) /\ WF_notifierVars(Callback(t))
    /\ \A s \in Servers : WF_notifierVars(Alive /\ notifyOnline(s))

NotifierFairSpec == NotifierSpec /\ NotifierFairness

-----------------------------------------------------------------------------
\* When Close has returned no accepted job is left behind: not in a queue and
\* not in the worker's hand (worker, drainQueue, Close).
DrainedAtClose ==
    shutdown = "closed" => queue = <<>> /\ priorityQueue = <<>> /\ job = NoJob

\* The online notice is suppressed only for an outage whose offline notice is
\* not on its way to the queue yet: a timer in the map has not got past its
\* deletion of the entry and was not stopped (scheduleDebounced, cancelDebounce).
EntryIsPending ==
    \A s \in Servers : debounce[s] # NoTimer =>
        owner[debounce[s]] = s /\ timer[debounce[s]] \in {"running", "fired"}

\* Once srv.Start has returned, Close returns too, unless it meets a sender
\* and the process dies: the worker and Close do not wait for each other
\* (worker, drainQueue, Close).
CloseReturns == (shutdown = "http") ~> (shutdown = "closed" \/ panicked)
=============================================================================

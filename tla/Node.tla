--------------------------------- MODULE Node ---------------------------------
(***************************************************************************)
(* The threads of node.c that every application node runs: the node thread *)
(* with its 1 Hz tasks, the transmission of queued frames and the restart, *)
(* the receive thread that answers requests, the fast thread, and main()   *)
(* that sets the mode.  The watchdog is reset when a frame is put into a   *)
(* mailbox of the CAN controller, and nowhere else once main() is done.    *)
(*                                                                         *)
(* The system time is a counter of SYSTIME_WRAP ticks.  All threads share  *)
(* it; the receive and the fast thread have the higher priority and run    *)
(* between any two steps of the node thread.  A scheduling bound is        *)
(* assumed: the node thread begins and ends its 1 Hz tasks at most PERIOD  *)
(* ticks after it began the last ones.                                     *)
(***************************************************************************)
EXTENDS Integers

CONSTANTS
  SYSTIME_WRAP,        \* system time ticks before the counter is 0 again (2^32)
  SYSTIME_SECOND,      \* ticks of a second
  PERIOD,              \* most ticks from one run of the 1 Hz tasks to the next
  WATCHDOG,            \* ticks until the watchdog resets the node
  MAILBOXES,           \* transmit mailboxes of the CAN controller
  POOL                 \* frames that fit into canard's memory pool

ASSUME NodeAssumption ==
  /\ {SYSTIME_SECOND, PERIOD, SYSTIME_WRAP, WATCHDOG, MAILBOXES, POOL} \subseteq Nat \ {0}
  /\ SYSTIME_SECOND < PERIOD /\ PERIOD < SYSTIME_WRAP

VARIABLES
  now,             \* chVTGetSystemTimeX()
  main,            \* main() is still in its "init" or "done"
  node_mode,
  NodeRestartAt,   \* 0: no restart asked for
  canNode,         \* where CanNodeThread is
  currentTime,
  lastInvocation,
  fast,            \* FastTasksThread "waits", "runs" or has "ended"
  txQueue,         \* frames queued by canard
  txEvent,         \* a transmit event is pending
  mailboxes,       \* mailboxes in use
  bus,             \* frames get acknowledged
  watchdog         \* ticks since wdgReset

nodeVars == <<now, main, node_mode, NodeRestartAt, canNode, currentTime, lastInvocation,
              fast, txQueue, txEvent, mailboxes, bus, watchdog>>

AfterReset ==
  [now |-> 0, main |-> "init", mode |-> "INITIALIZATION", restart |-> 0, canNode |-> "loop",
   fast |-> "waits", queue |-> 0, event |-> FALSE, mailboxes |-> 0, watchdog |-> 0]

NodeInit ==
  /\ now = AfterReset.now /\ currentTime = 0 /\ lastInvocation = 0
  /\ main = AfterReset.main /\ node_mode = AfterReset.mode
  /\ NodeRestartAt = AfterReset.restart
  /\ canNode = AfterReset.canNode /\ fast = AfterReset.fast
  /\ txQueue = AfterReset.queue /\ txEvent = AfterReset.event
  /\ mailboxes = AfterReset.mailboxes /\ watchdog = AfterReset.watchdog
  /\ bus = TRUE

SystemReset ==
  /\ now' = AfterReset.now /\ currentTime' = 0 /\ lastInvocation' = 0
  /\ main' = AfterReset.main /\ node_mode' = AfterReset.mode
  /\ NodeRestartAt' = AfterReset.restart
  /\ canNode' = AfterReset.canNode /\ fast' = AfterReset.fast
  /\ txQueue' = AfterReset.queue /\ txEvent' = AfterReset.event
  /\ mailboxes' = AfterReset.mailboxes /\ watchdog' = AfterReset.watchdog
  /\ UNCHANGED bus

TimeElapsedSince(t) == (now + SYSTIME_WRAP - t) % SYSTIME_WRAP

-----------------------------------------------------------------------------
\* what the threads share

isNodeRestartRequested == NodeRestartAt # 0

\* Variant: every request sets a new time.
requestNodeRestart_again == NodeRestartAt' = (now + SYSTIME_SECOND) % SYSTIME_WRAP

\* the sum is a system time as well: it wraps, and can be the 0 of "not asked for"
requestNodeRestart ==
  NodeRestartAt' = IF NodeRestartAt = 0 THEN (now + SYSTIME_SECOND) % SYSTIME_WRAP ELSE NodeRestartAt

\* a frame that finds the pool full is dropped
canardLockBroadcast ==
  /\ txQueue' = IF txQueue < POOL THEN txQueue + 1 ELSE txQueue
  /\ txEvent' = TRUE

makeNodeStatusMessage ==
  node_mode' = IF isNodeRestartRequested THEN "INITIALIZATION" ELSE node_mode

-----------------------------------------------------------------------------
\* the receive thread: each handler ends with its answer

onGetNodeInfo ==
  /\ makeNodeStatusMessage
  /\ canardLockBroadcast
  /\ UNCHANGED <<NodeRestartAt, now, main, canNode, currentTime, lastInvocation, fast,
                 mailboxes, bus, watchdog>>

onRestartNode ==
  /\ \/ requestNodeRestart
     \/ UNCHANGED NodeRestartAt       \* not the magic number: the response is 0
  /\ canardLockBroadcast
  /\ UNCHANGED <<now, main, node_mode, canNode, currentTime, lastInvocation, fast,
                 mailboxes, bus, watchdog>>

onBeginFirmwareUpdate ==
  /\ IF isNodeRestartRequested THEN UNCHANGED NodeRestartAt ELSE requestNodeRestart
  /\ canardLockBroadcast
  /\ UNCHANGED <<now, main, node_mode, canNode, currentTime, lastInvocation, fast,
                 mailboxes, bus, watchdog>>

-----------------------------------------------------------------------------
\* the node thread

Due == TimeElapsedSince(lastInvocation) > SYSTIME_SECOND

Begin1HzTasks ==
  /\ canNode = "loop" /\ Due
  /\ currentTime' = now
  /\ canNode' = "status"
  /\ UNCHANGED <<now, main, node_mode, NodeRestartAt, lastInvocation, fast, txQueue, txEvent,
                 mailboxes, bus, watchdog>>

broadcast_node_status ==
  /\ canNode = "status"
  /\ makeNodeStatusMessage
  /\ canardLockBroadcast
  /\ canNode' = IF node_mode' = "OPERATIONAL" THEN "app_tick" ELSE "check"
  /\ UNCHANGED <<now, main, NodeRestartAt, currentTime, lastInvocation, fast, mailboxes, bus,
                 watchdog>>

run_app_tick ==
  /\ canNode = "app_tick"
  /\ canardLockBroadcast \/ UNCHANGED <<txQueue, txEvent>>
  /\ canNode' = "check"
  /\ UNCHANGED <<now, main, node_mode, NodeRestartAt, currentTime, lastInvocation, fast,
                 mailboxes, bus, watchdog>>

RestartNow == isNodeRestartRequested /\ currentTime > NodeRestartAt

End1HzTasks ==
  /\ canNode = "check"
  /\ \/ RestartNow /\ SystemReset
     \/ /\ ~RestartNow
        /\ lastInvocation' = currentTime
        /\ canNode' = "loop"
        /\ UNCHANGED <<now, main, node_mode, NodeRestartAt, currentTime, fast, txQueue,
                       txEvent, mailboxes, bus, watchdog>>

\* frames are moved until the queue is empty or the mailboxes are full; only a
\* frame that was moved resets the watchdog
Movable == IF txQueue < MAILBOXES - mailboxes THEN txQueue ELSE MAILBOXES - mailboxes

\* Variant: the watchdog is reset before canTransmit took the frame.
processTx_anyway ==
  /\ canNode = "loop" /\ ~Due /\ txEvent
  /\ txQueue' = txQueue - Movable
  /\ mailboxes' = mailboxes + Movable
  /\ watchdog' = IF txQueue > 0 THEN 0 ELSE watchdog
  /\ txEvent' = FALSE
  /\ UNCHANGED <<now, main, node_mode, NodeRestartAt, canNode, currentTime, lastInvocation,
                 fast, bus>>

processTx ==
  /\ canNode = "loop" /\ ~Due /\ txEvent
  /\ txQueue' = txQueue - Movable
  /\ mailboxes' = mailboxes + Movable
  /\ watchdog' = IF Movable > 0 THEN 0 ELSE watchdog
  /\ txEvent' = FALSE
  /\ UNCHANGED <<now, main, node_mode, NodeRestartAt, canNode, currentTime, lastInvocation,
                 fast, bus>>

CanNodeThread ==
  Begin1HzTasks \/ broadcast_node_status \/ run_app_tick \/ End1HzTasks \/ processTx

-----------------------------------------------------------------------------
\* main(), the fast thread, and the world

MainDone ==
  /\ main = "init"
  /\ main' = "done" /\ node_mode' = "OPERATIONAL" /\ watchdog' = 0
  /\ UNCHANGED <<now, NodeRestartAt, canNode, currentTime, lastInvocation, fast, txQueue,
                 txEvent, mailboxes, bus>>

\* once ended the fast thread, and with it the keys and the dimmer, are not
\* begun again
FastTasksThread ==
  /\ \/ fast = "waits" /\ node_mode = "OPERATIONAL" /\ fast' = "runs"
     \/ fast = "runs" /\ node_mode # "OPERATIONAL" /\ fast' = "ended"
  /\ UNCHANGED <<now, main, node_mode, NodeRestartAt, canNode, currentTime, lastInvocation,
                 txQueue, txEvent, mailboxes, bus, watchdog>>

SystemTick ==
  /\ TimeElapsedSince(lastInvocation) < PERIOD /\ watchdog < WATCHDOG
  /\ now' = (now + 1) % SYSTIME_WRAP
  /\ watchdog' = watchdog + 1
  /\ UNCHANGED <<main, node_mode, NodeRestartAt, canNode, currentTime, lastInvocation, fast,
                 txQueue, txEvent, mailboxes, bus>>

WatchdogReset == watchdog = WATCHDOG /\ SystemReset

FrameSent ==
  /\ bus /\ mailboxes > 0
  /\ mailboxes' = mailboxes - 1 /\ txEvent' = TRUE
  /\ UNCHANGED <<now, main, node_mode, NodeRestartAt, canNode, currentTime, lastInvocation,
                 fast, txQueue, bus, watchdog>>

BusChanges ==
  /\ bus' = ~bus
  /\ UNCHANGED <<now, main, node_mode, NodeRestartAt, canNode, currentTime, lastInvocation,
                 fast, txQueue, txEvent, mailboxes, watchdog>>

NodeNext ==
  \/ onGetNodeInfo \/ onRestartNode \/ onBeginFirmwareUpdate
  \/ CanNodeThread \/ MainDone \/ FastTasksThread
  \/ SystemTick \/ WatchdogReset \/ FrameSent \/ BusChanges

\* the threads run and time goes on; nothing is said of requests and the bus
NodeFairness ==
  /\ WF_nodeVars(CanNodeThread) /\ WF_nodeVars(MainDone) /\ WF_nodeVars(FastTasksThread)
  /\ WF_nodeVars(SystemTick) /\ WF_nodeVars(WatchdogReset)

NodeSteps == NodeInit /\ [][NodeNext]_nodeVars

NodeSpec == NodeSteps /\ NodeFairness

-----------------------------------------------------------------------------
\* Properties

\* The restart that a client was promised happens, whatever requests follow,
\* unless its time is one of those the wrap of the system time makes the node
\* miss: 0, or so late that the 1 Hz task may not look before the wrap
\* (requestNodeRestart, CanNodeThread).
RestartHappens == NodeRestartAt \in 1 .. SYSTIME_WRAP - PERIOD - 1 ~> NodeRestartAt = 0

\* Nor is it late: a promised restart with such a time pends at most a second and
\* a run of the 1 Hz tasks, whatever the system time was when it was asked for.
RestartIsPrompt ==
  NodeRestartAt \in 1 .. SYSTIME_WRAP - PERIOD - 1 =>
    LET asked == (NodeRestartAt + SYSTIME_WRAP - SYSTIME_SECOND) % SYSTIME_WRAP
    IN  TimeElapsedSince(asked) <= SYSTIME_SECOND + PERIOD

\* A node that gets no frame onto the bus does not stay that way: it is reset
\* by the watchdog unless the bus recovers (processTx).
DeadBusResets == ~bus ~> (bus \/ main = "init")

=============================================================================

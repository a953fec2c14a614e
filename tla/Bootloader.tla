----------------------------- MODULE Bootloader -----------------------------
(***************************************************************************)
(* The life of a node around its firmware updates: the bootloader's main   *)
(* thread with its boot timeout, the RestartNode and BeginFirmwareUpdate   *)
(* handlers of the bootloader and of the application, the structure        *)
(* bootloader_interface both share over a reset, watchdog and power cuts.  *)
(* The update itself is FirmwareUpdate, taken step by step.                *)
(*                                                                         *)
(* Time is counted in sleeps of the main thread (500 ms); timers are what  *)
(* is left of them.  Main and node thread have the same priority and no    *)
(* time slices: each runs until it waits.  The receive thread preempts     *)
(* both.                                                                   *)
(***************************************************************************)
EXTENDS FirmwareUpdate

CONSTANTS
  BOOTLOADER_TIMEOUT,         \* sleeps until the application is booted (20)
  BOOT_DELAY,                 \* sleeps after an update (4)
  RESTART_DELAY,              \* sleeps from RestartNode to the reset (2)
  NodeId,                     \* of this node, its CONFIG_NODE_ID
  NodeIdLost,                 \* may config_get_uint(CONFIG_NODE_ID) give 0, its
                              \* read having failed?
  BootloaderRequests,         \* may BeginFirmwareUpdate reach the bootloader?
  PowerCuts                   \* may the power fail?

ASSUME BootloaderAssumption ==
  /\ {BOOTLOADER_TIMEOUT, BOOT_DELAY, RESTART_DELAY} \subseteq Nat \ {0}
  /\ NodeId \in 1..127
  /\ {NodeIdLost, BootloaderRequests, PowerCuts} \subseteq BOOLEAN

VARIABLES
  running,      \* "bootloader", "starting" (jumped to the application) or "app"
  main_pc,      \* the bootloader's main(): "sleep", "wake" or "test"
  boot_in,      \* boot_application_at - now
  restart_in,   \* NodeRestartAt - now, or Never for NodeRestartAt = 0
  magic,        \* bootloader_interface.magic is BOOTLOADER_INTERFACE_VALID_MAGIC
  node_id,      \* bootloader_interface.node_id
  current,      \* history: the stored request was made since the application
                \* last started
  handed_over   \* history: the application stored it, with its node id

mainVars    == <<running, main_pc, boot_in>>
commandVars == <<magic, node_id>>
historyVars == <<current, handed_over>>
bootVars    == <<mainVars, restart_in, commandVars, historyVars>>
vars        == <<fuVars, bootVars>>

Never == 1000

(* Power on: the application is whatever was installed before. *)
BootInit ==
  /\ Init
  /\ running = "bootloader"
  /\ main_pc = "sleep"
  /\ boot_in = BOOTLOADER_TIMEOUT
  /\ restart_in = Never
  /\ magic = FALSE
  /\ node_id = 0
  /\ current = FALSE
  /\ handed_over = FALSE

-----------------------------------------------------------------------------
(* Resets *)

(* Variant: the command alone starts an update, with or without a request. *)
BootloaderStart_magicOnly ==
  /\ running' = "bootloader"
  /\ main_pc' = "sleep"
  /\ boot_in' = BOOTLOADER_TIMEOUT
  /\ restart_in' = Never
  /\ FirmwareUpdate' = (magic' /\ node_id' # 0)
  /\ ResetStatics

(* main() of the bootloader up to its loop. *)
BootloaderStart ==
  /\ running' = "bootloader"
  /\ main_pc' = "sleep"
  /\ boot_in' = BOOTLOADER_TIMEOUT
  /\ restart_in' = Never
  /\ FirmwareUpdate' = (/\ magic' /\ node_id' # 0
                        /\ request_from_node_id' # 0
                        /\ request_file_name' # NoFile)
  /\ ResetStatics

(* Variant: the magic is used up by the first reset. *)
Reset_usesMagic ==
  /\ magic' = (magic /\ running = "app")
  /\ UNCHANGED <<requestVars, node_id, historyVars>>
  /\ BootloaderStart

(* A reset by software or watchdog: the RAM keeps bootloader_interface. *)
Reset ==
  /\ UNCHANGED <<commandVars, requestVars, historyVars>>
  /\ BootloaderStart

(* After a power cut the RAM holds anything, but not the magic. *)
PowerCut ==
  /\ PowerCuts
  /\ magic' = FALSE
  /\ node_id' \in {0, NodeId}
  /\ current' = FALSE
  /\ handed_over' = FALSE
  /\ request_from_node_id' \in RequestNodes
  /\ request_file_name' \in Names
  /\ BootloaderStart

(* CanNodeThread: the 1 Hz task finds currentTime > NodeRestartAt. *)
NodeRestart ==
  /\ running # "starting"
  /\ node_pc = "loop" /\ main_pc # "test"
  /\ restart_in < 0
  /\ Reset

(* The watchdog: HardFault_Handler loops, the application hangs. *)
Works ==
  \/ \E f \in Files : Holds(f, FileSize[f])
  \/ \A a \in Offsets : flash[a] = Foreign

WatchdogReset ==
  /\ \/ running = "bootloader" /\ node_pc = "fault"
     \/ running = "starting" /\ ~Works
     \/ running = "app"
  /\ Reset

-----------------------------------------------------------------------------
(* The main thread of the bootloader *)

nodeBusy == node_pc # "loop" \/ (FirmwareUpdate /\ ~file_request_pending)

(* Half a second passes and main() is woken.  The node thread is polled    *)
(* every 100 ms: by then it has done what it can, and restarted when due.  *)
Tick ==
  /\ ~nodeBusy
  /\ main_pc = "sleep"
  /\ running # "starting"
  /\ restart_in > -2
  /\ restart_in' = IF restart_in = Never THEN Never ELSE restart_in - 1
  /\ IF running = "bootloader"
     THEN /\ main_pc' = "wake"
          /\ boot_in' = IF boot_in > 0 THEN boot_in - 1 ELSE 0
     ELSE UNCHANGED <<main_pc, boot_in>>
  /\ UNCHANGED <<fuVars, running, commandVars, historyVars>>

(* Variant: main() takes no notice of FirmwareUpdate. *)
MainCheck_ignoresUpdate ==
  /\ main_pc = "wake"
  /\ node_pc = "loop"
  /\ main_pc' = "test"
  /\ UNCHANGED <<fuVars, running, boot_in, restart_in, commandVars, historyVars>>

(* FirmwareUpdate is read ... *)
MainCheck ==
  /\ main_pc = "wake"
  /\ node_pc = "loop"
  /\ boot_in' = IF FirmwareUpdate THEN BOOT_DELAY ELSE boot_in
  /\ main_pc' = "test"
  /\ UNCHANGED <<fuVars, running, restart_in, commandVars, historyVars>>

MainSleep ==
  /\ main_pc = "test"
  /\ boot_in > 0
  /\ main_pc' = "sleep"
  /\ UNCHANGED <<fuVars, running, boot_in, restart_in, commandVars, historyVars>>

(* ... and boot_application_at tested: boot_application() leaves the       *)
(* bootloader, whatever FirmwareUpdate has become since.                   *)
boot_application ==
  /\ main_pc = "test"
  /\ boot_in = 0
  /\ running' = "starting"
  /\ main_pc' = "sleep"
  /\ restart_in' = Never
  /\ FirmwareUpdate' = FALSE
  /\ ResetStatics
  /\ UNCHANGED <<requestVars, boot_in, commandVars, historyVars>>

-----------------------------------------------------------------------------
(* The receive thread of the bootloader *)

receiving == running = "bootloader" /\ node_pc # "fault"

(* requestNodeRestart *)
requestNodeRestart ==
  restart_in' = IF restart_in = Never THEN RESTART_DELAY ELSE restart_in

onRestartNode ==
  /\ receiving
  /\ requestNodeRestart
  /\ UNCHANGED <<fuVars, mainVars, commandVars, historyVars>>

(* Answers 2, 1 and 0; only the last changes anything. *)
onBeginFirmwareUpdate(node, f) ==
  /\ BootloaderRequests
  /\ receiving
  /\ IF FirmwareUpdate \/ restart_in # Never
     THEN UNCHANGED <<fuVars, historyVars>>
     ELSE /\ AcceptBeginFirmwareUpdate(node, f)
          /\ current' = TRUE
          /\ handed_over' = FALSE
  /\ UNCHANGED <<mainVars, restart_in, commandVars>>

BootAnswer == receiving /\ Answer /\ UNCHANGED bootVars

BootLose == Lose /\ UNCHANGED bootVars

(* The node thread; main() does not wait between MainCheck and its test. *)
BootNodeThread ==
  /\ receiving
  /\ main_pc # "test"
  /\ NodeThread
  /\ UNCHANGED <<mainVars, restart_in, commandVars, historyVars>>

-----------------------------------------------------------------------------
(* The application *)

(* main() of the application: bootloader_interface.magic = 0. *)
AppStart ==
  /\ running = "starting"
  /\ Works
  /\ running' = "app"
  /\ magic' = FALSE
  /\ current' = FALSE
  /\ UNCHANGED <<fuVars, main_pc, boot_in, restart_in, node_id, handed_over>>

(* Variant: the magic is not set. *)
app_requestNodeRestart_noMagic ==
  /\ node_id' \in IF NodeIdLost THEN {0, NodeId} ELSE {NodeId}
  /\ UNCHANGED magic
  /\ requestNodeRestart

(* requestNodeRestart of the application also stores its node id, as it is *)
(* read from the EEPROM, and makes the magic valid.                        *)
app_requestNodeRestart ==
  /\ node_id' \in IF NodeIdLost THEN {0, NodeId} ELSE {NodeId}
  /\ magic' = TRUE
  /\ requestNodeRestart

app_onRestartNode ==
  /\ running = "app"
  /\ app_requestNodeRestart
  /\ handed_over' = (handed_over /\ node_id' # 0)
  /\ UNCHANGED <<fuVars, mainVars, current>>

(* Answered with 1 and ignored when a restart is already requested. *)
app_onBeginFirmwareUpdate(node, f) ==
  /\ running = "app"
  /\ restart_in = Never
  /\ StoreRequest(node, f)
  /\ app_requestNodeRestart
  /\ current' = TRUE
  /\ handed_over' = (node_id' # 0)
  /\ UNCHANGED mainVars

-----------------------------------------------------------------------------

BootNext ==
  \/ Tick \/ MainCheck \/ MainSleep \/ boot_application
  \/ onRestartNode \/ app_onRestartNode
  \/ \E node \in RequestNodes, f \in Names :
       onBeginFirmwareUpdate(node, f) \/ app_onBeginFirmwareUpdate(node, f)
  \/ BootAnswer \/ BootLose \/ BootNodeThread
  \/ AppStart
  \/ NodeRestart \/ WatchdogReset \/ PowerCut

BootSpec == BootInit /\ [][BootNext]_vars

(* Time passes, threads that are ready run, a server that is there answers,*)
(* a hung processor is reset by the watchdog.                              *)
FairBootSpec ==
  /\ BootSpec
  /\ WF_vars(Tick)
  /\ WF_vars(MainCheck) /\ WF_vars(MainSleep) /\ WF_vars(boot_application)
  /\ WF_vars(BootNodeThread) /\ WF_vars(BootAnswer)
  /\ WF_vars(AppStart) /\ WF_vars(NodeRestart)
  /\ WF_vars(running # "app" /\ WatchdogReset)

-----------------------------------------------------------------------------
(* Properties *)

Booting == running = "bootloader" /\ running' = "starting"

(* Whatever main() and the receive thread do between them, the application *)
(* is never booted out of an update that has begun to read its image.      *)
BootInterruptsNoUpdate ==
  [][Booting => /\ ~file_request_pending
                /\ file_request_ptr = 0
                /\ node_pc = "loop"]_vars

(* Only a working image is started: an update the application asked for is *)
(* begun again after each reset, and the boot timeout waits for its end.   *)
(* (No power cut, no flash fault, nothing requested of the bootloader.)    *)
BootsWorkingImage == running = "starting" => Works

(* The hand-over is good for one start of the application: of the requests *)
(* it stored together with its node id, none is acted on again after it    *)
(* has started anew, whatever else is in bootloader_interface, asked of    *)
(* the bootloader or done to the power meanwhile.  (One that the           *)
(* bootloader accepts just before it jumps is: the application only clears *)
(* the magic, and its next restart sets it again.)                         *)
HandedOverOnce == FirmwareUpdate /\ handed_over => current

(* An update of a file of the server that the application handed over is   *)
(* done in the end, however often the node was restarted on the way, once  *)
(* that stops; unless a further restart has lost the node id.  (A request  *)
(* without a server or a file is accepted as well, and never served.)      *)
RequestIsServed ==
  \A f \in Files :
    <>[][~(onRestartNode \/ app_onRestartNode \/ WatchdogReset)]_vars =>
      ((/\ running = "app" /\ current /\ handed_over
        /\ request_from_node_id = ServerNode /\ request_file_name = f)
         ~> Holds(f, FileSize[f]) \/ ~handed_over)

(* The bootloader always ends in the application, once it is left alone. *)
BootsInTheEnd ==
  <>[][/\ ~onRestartNode
       /\ \A node \in RequestNodes, f \in Names : ~onBeginFirmwareUpdate(node, f)]_vars =>
    (running = "bootloader" ~> running = "app")

(* The node runs the update exactly as FirmwareUpdate says. *)
ImplementsFirmwareUpdate == Spec

=============================================================================

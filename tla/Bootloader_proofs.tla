-------------------------- MODULE Bootloader_proofs --------------------------
(***************************************************************************)
(* The composed node takes only steps of FirmwareUpdate, so what is proved *)
(* of the update holds in it; the boot timeout never ends an update; and,  *)
(* left to the application's requests, only a working image is booted.     *)
(***************************************************************************)
EXTENDS Bootloader, FirmwareUpdate_proofs

-----------------------------------------------------------------------------
(* Every step of the node is one of the update *)

(* A reset by software, by the watchdog or of the power is a Restart. *)
LEMMA StartIsRestart ==
  ASSUME BootloaderStart,
         request_from_node_id' \in RequestNodes,
         request_file_name' \in Names
  PROVE  Restart
BY DEF BootloaderStart, Restart

LEMMA ResetIsRestart ==
  ASSUME TypeOK, Reset \/ PowerCut
  PROVE  BootloaderStart /\ Restart
<1>1. /\ BootloaderStart
      /\ request_from_node_id' \in RequestNodes
      /\ request_file_name' \in Names
  BY DEF Reset, PowerCut, requestVars, TypeOK
<1>. QED  BY <1>1, StartIsRestart

LEMMA BootStep ==
  ASSUME TypeOK, [BootNext]_vars
  PROVE  [Next]_fuVars
<1>1. CASE \/ Tick \/ MainCheck \/ MainSleep \/ onRestartNode \/ app_onRestartNode
           \/ AppStart \/ UNCHANGED vars
  BY <1>1 DEF Tick, MainCheck, MainSleep, onRestartNode, app_onRestartNode, AppStart,
              vars
<1>2. CASE boot_application
  <2>1. Restart
    BY <1>2 DEF boot_application, Restart, requestVars, TypeOK
  <2>. QED  BY <2>1 DEF Next
<1>3. ASSUME NEW node \in RequestNodes, NEW f \in Names, onBeginFirmwareUpdate(node, f)
      PROVE  [Next]_fuVars
  BY <1>3 DEF onBeginFirmwareUpdate, Next
<1>4. ASSUME NEW node \in RequestNodes, NEW f \in Names,
             app_onBeginFirmwareUpdate(node, f)
      PROVE  [Next]_fuVars
  BY <1>4 DEF app_onBeginFirmwareUpdate, Next
<1>5. CASE BootAnswer \/ BootLose \/ BootNodeThread
  BY <1>5 DEF BootAnswer, BootLose, BootNodeThread, Next
<1>6. CASE NodeRestart \/ WatchdogReset \/ PowerCut
  <2>1. Restart
    BY <1>6, ResetIsRestart DEF NodeRestart, WatchdogReset
  <2>. QED  BY <2>1 DEF Next
<1>. QED  BY <1>1, <1>2, <1>3, <1>4, <1>5, <1>6 DEF BootNext

LEMMA BootUpdateInvariant == BootSpec => []IInv
<1>1. BootInit => IInv
  BY IInv_init DEF BootInit
<1>2. IInv /\ [BootNext]_vars => IInv'
  <2>. SUFFICES ASSUME IInv, [BootNext]_vars  PROVE IInv'
    OBVIOUS
  <2>1. [Next]_fuVars
    BY BootStep DEF IInv
  <2>. QED  BY <2>1, IInv_step
<1>. QED  BY <1>1, <1>2, PTL DEF BootSpec

(* ImplementsFirmwareUpdate: main(), the services of bootloader and         *)
(* application, resets and power cuts do nothing to the update that        *)
(* FirmwareUpdate does not know of.                                        *)
THEOREM RunsTheUpdate == BootSpec => ImplementsFirmwareUpdate
<1>1. BootInit => Init
  BY DEF BootInit
<1>2. IInv /\ [BootNext]_vars => [Next]_fuVars
  BY BootStep DEF IInv
<1>. QED
  BY <1>1, <1>2, BootUpdateInvariant, PTL DEF BootSpec, Spec, ImplementsFirmwareUpdate

-----------------------------------------------------------------------------
(* The boot timeout *)

(* Between its look at FirmwareUpdate and the test of the time, main() does *)
(* not wait, so the node thread has read nothing if the time is up: an      *)
(* update that is begun in between is still as initGlobals left it.         *)
TestInv ==
  main_pc = "test" =>
    /\ node_pc = "loop"
    /\ boot_in = 0 => ~file_request_pending /\ globalsInitial

LEMMA TestInv_step ==
  ASSUME IInv, TestInv, [BootNext]_vars
  PROVE  TestInv'
<1>. SUFFICES ASSUME main_pc' = "test"
              PROVE  /\ node_pc' = "loop"
                     /\ boot_in' = 0 => ~file_request_pending' /\ globalsInitial'
  BY DEF TestInv
<1>1. CASE MainCheck
  <2>1. node_pc = "loop" /\ UNCHANGED fuVars
    BY <1>1 DEF MainCheck
  <2>2. ASSUME boot_in' = 0  PROVE ~FirmwareUpdate
    BY <1>1, <2>2, BootloaderAssumption DEF MainCheck
  <2>3. ~FirmwareUpdate => ~file_request_pending /\ globalsInitial
    BY DEF IInv, ControlInv
  <2>. QED
    BY <2>1, <2>2, <2>3 DEF fuVars, fileVars, bufferVars, globalsInitial
<1>2. CASE main_pc = "test"
  <2>. USE <1>2
  <2>1. CASE \/ onRestartNode \/ app_onRestartNode \/ AppStart \/ BootLose
             \/ UNCHANGED vars
    BY <2>1 DEF onRestartNode, app_onRestartNode, AppStart, BootLose, Lose, vars,
                fuVars, fileVars, bufferVars, bootVars, mainVars, TestInv,
                globalsInitial
  <2>2. ASSUME NEW node \in RequestNodes, NEW f \in Names,
               onBeginFirmwareUpdate(node, f) \/ app_onBeginFirmwareUpdate(node, f)
        PROVE  UNCHANGED <<fileVars, bufferVars, node_pc, boot_in>>
    BY <2>2 DEF onBeginFirmwareUpdate, app_onBeginFirmwareUpdate, StoreRequest,
                AcceptBeginFirmwareUpdate, fuVars, mainVars
  <2>3. CASE BootAnswer
    <3>1. ~file_request_pending => UNCHANGED <<fileVars, bufferVars>>
      BY <2>3 DEF BootAnswer, Answer, onFileRead
    <3>2. UNCHANGED <<node_pc, boot_in>>
      BY <2>3 DEF BootAnswer, Answer, bootVars, mainVars
    <3>. QED
      BY <3>1, <3>2 DEF TestInv, fileVars, bufferVars, globalsInitial
  <2>4. CASE \/ Tick \/ MainSleep \/ boot_application \/ BootNodeThread
             \/ NodeRestart \/ WatchdogReset \/ PowerCut
    BY <2>4 DEF Tick, MainSleep, boot_application, BootNodeThread, NodeRestart,
                WatchdogReset, PowerCut, Reset, BootloaderStart
  <2>. QED
    BY <1>1, <2>1, <2>2, <2>3, <2>4
       DEF BootNext, TestInv, fileVars, bufferVars, globalsInitial
<1>3. CASE main_pc # "test" /\ ~MainCheck
  BY <1>3 DEF BootNext, vars, bootVars, mainVars, Tick, MainSleep, boot_application,
              onRestartNode, app_onRestartNode, onBeginFirmwareUpdate,
              app_onBeginFirmwareUpdate, BootAnswer, BootLose, BootNodeThread,
              AppStart, NodeRestart, WatchdogReset, PowerCut, Reset, BootloaderStart
<1>. QED  BY <1>1, <1>2, <1>3

LEMMA TestInvariant == BootSpec => []TestInv
<1>1. BootInit => TestInv
  BY DEF BootInit, TestInv
<1>2. IInv /\ TestInv /\ [BootNext]_vars => TestInv'
  BY TestInv_step
<1>. QED  BY <1>1, <1>2, BootUpdateInvariant, PTL DEF BootSpec

(* BootInterruptsNoUpdate, for every length of the timeouts. *)
THEOREM NoUpdateInterrupted == BootSpec => BootInterruptsNoUpdate
<1>1. TestInv /\ [BootNext]_vars =>
        [Booting => /\ ~file_request_pending
                    /\ file_request_ptr = 0
                    /\ node_pc = "loop"]_vars
  <2>. SUFFICES ASSUME TestInv, BootNext, Booting
                PROVE  /\ ~file_request_pending
                       /\ file_request_ptr = 0
                       /\ node_pc = "loop"
    BY DEF vars, bootVars, mainVars, Booting
  <2>1. boot_application
    BY DEF Booting, BootNext, Tick, MainCheck, MainSleep, onRestartNode,
           app_onRestartNode, onBeginFirmwareUpdate, app_onBeginFirmwareUpdate,
           BootAnswer, BootLose, BootNodeThread, AppStart, NodeRestart, WatchdogReset,
           PowerCut, Reset, BootloaderStart, bootVars, mainVars
  <2>. QED  BY <2>1 DEF boot_application, TestInv, globalsInitial
<1>. QED  BY <1>1, TestInvariant, PTL DEF BootSpec, BootInterruptsNoUpdate

-----------------------------------------------------------------------------
(* What becomes of requests *)

(* bootloader_interface holds a request that can be served. *)
Stored == request_from_node_id # 0 /\ request_file_name # NoFile

(* A request that was handed over has its magic and its node id for as     *)
(* long as it is there: the bootloader runs it at once, and has none when  *)
(* it runs no update, so that none is left when the application starts.    *)
(* Only one taken by the bootloader itself can outlive it.                 *)
HandedInv ==
  /\ running # "bootloader" =>
       ~FirmwareUpdate /\ node_pc = "loop" /\ main_pc = "sleep"
  /\ handed_over =>
       /\ Stored => current /\ magic /\ node_id # 0
       /\ FirmwareUpdate => current
       /\ running = "bootloader" =>
            \/ FirmwareUpdate /\ node_pc \notin {"done2", "failed2"} /\ Stored
            \/ FirmwareUpdate /\ node_pc = "done2" /\ ~Stored
            \/ ~FirmwareUpdate /\ node_pc = "failed2"
            \/ ~FirmwareUpdate /\ node_pc = "loop" /\ ~Stored
       /\ running = "starting" => ~Stored
       /\ main_pc = "test" /\ boot_in = 0 => ~FirmwareUpdate

LEMMA HandedInv_node ==
  ASSUME IInv, HandedInv, BootNodeThread
  PROVE  HandedInv'
<1>1. /\ running = "bootloader" /\ main_pc # "test"
      /\ UNCHANGED <<running, main_pc, boot_in, magic, node_id, current, handed_over>>
  BY DEF BootNodeThread, receiving, mainVars, commandVars, historyVars
<1>2. CASE RequestMore \/ VerifyPage \/ flash_erase_page \/ flash_write_block \/ CheckPage
  <2>1. /\ UNCHANGED <<FirmwareUpdate, request_from_node_id, request_file_name>>
        /\ FirmwareUpdate /\ {node_pc, node_pc'} \cap {"done2", "failed2"} = {}
    BY <1>2 DEF RequestMore, VerifyPage, flash_erase_page, flash_write_block, CheckPage,
                PageInFlash, processing, flagVars, requestVars, IInv, ControlInv
  <2>. QED  BY <1>1, <2>1 DEF HandedInv, Stored
<1>3. CASE ForgetRequest
  BY <1>1, <1>3 DEF ForgetRequest, flagVars, HandedInv, Stored
<1>4. CASE EndUpdate
  BY <1>1, <1>4 DEF EndUpdate, requestVars, HandedInv, Stored
<1>5. CASE FailUpdate
  BY <1>1, <1>5 DEF FailUpdate, requestVars, HandedInv, Stored
<1>6. CASE ForgetFailedRequest
  BY <1>1, <1>6 DEF ForgetFailedRequest, flagVars, HandedInv, Stored
<1>. QED  BY <1>2, <1>3, <1>4, <1>5, <1>6 DEF BootNodeThread, NodeThread

LEMMA HandedInv_begin ==
  ASSUME HandedInv, NEW node \in RequestNodes, NEW f \in Names,
         onBeginFirmwareUpdate(node, f) \/ app_onBeginFirmwareUpdate(node, f)
  PROVE  HandedInv'
<1>1. CASE onBeginFirmwareUpdate(node, f)
  <2>1. CASE UNCHANGED <<fuVars, historyVars>>
    BY <1>1, <2>1 DEF onBeginFirmwareUpdate, HandedInv, Stored, fuVars, flagVars,
                      requestVars, mainVars, commandVars, historyVars
  <2>2. CASE handed_over' = FALSE
    BY <1>1, <2>2 DEF onBeginFirmwareUpdate, HandedInv, receiving, mainVars
  <2>. QED  BY <1>1, <2>1, <2>2 DEF onBeginFirmwareUpdate
<1>2. CASE app_onBeginFirmwareUpdate(node, f)
  BY <1>2 DEF app_onBeginFirmwareUpdate, app_requestNodeRestart, StoreRequest, mainVars,
              flagVars, HandedInv, Stored
<1>. QED  BY <1>1, <1>2

LEMMA HandedInv_reset ==
  ASSUME HandedInv, NodeRestart \/ WatchdogReset \/ PowerCut
  PROVE  HandedInv'
<1>1. CASE NodeRestart \/ WatchdogReset
  <2>1. Reset
    BY <1>1 DEF NodeRestart, WatchdogReset
  <2>2. /\ UNCHANGED <<magic, node_id, request_from_node_id, request_file_name, current,
                       handed_over>>
        /\ running' = "bootloader" /\ main_pc' = "sleep" /\ node_pc' = "loop"
        /\ FirmwareUpdate' = (magic' /\ node_id' # 0 /\ Stored')
    BY <2>1 DEF Reset, BootloaderStart, ResetStatics, requestVars, commandVars,
                historyVars, Stored
  <2>. QED  BY <2>2 DEF HandedInv, Stored
<1>2. CASE PowerCut
  BY <1>2 DEF PowerCut, BootloaderStart, HandedInv
<1>. QED  BY <1>1, <1>2

LEMMA HandedInv_step ==
  ASSUME IInv, TestInv, HandedInv, [BootNext]_vars
  PROVE  HandedInv'
<1>1. CASE \/ Tick \/ MainSleep \/ onRestartNode \/ UNCHANGED vars
  BY <1>1 DEF Tick, MainSleep, onRestartNode, vars, bootVars, mainVars, fuVars, flagVars,
              requestVars, commandVars, historyVars, HandedInv, Stored
<1>2. CASE MainCheck
  BY <1>2, BootloaderAssumption
     DEF MainCheck, fuVars, flagVars, requestVars, commandVars, historyVars, HandedInv,
         Stored
<1>3. CASE boot_application
  <2>1. main_pc = "test" /\ running = "bootloader" /\ node_pc = "loop" /\ boot_in = 0
    BY <1>3 DEF boot_application, TestInv, HandedInv
  <2>2. handed_over => ~Stored
    BY <2>1 DEF HandedInv
  <2>. QED
    BY <1>3, <2>2 DEF boot_application, ResetStatics, requestVars, commandVars,
                      historyVars, HandedInv, Stored
<1>4. CASE app_onRestartNode
  BY <1>4 DEF app_onRestartNode, app_requestNodeRestart, mainVars, fuVars, flagVars,
              requestVars, HandedInv, Stored
<1>5. ASSUME NEW node \in RequestNodes, NEW f \in Names,
             onBeginFirmwareUpdate(node, f) \/ app_onBeginFirmwareUpdate(node, f)
      PROVE  HandedInv'
  BY <1>5, HandedInv_begin
<1>6. CASE BootAnswer \/ BootLose
  <2>1. UNCHANGED <<FirmwareUpdate, request_from_node_id, request_file_name, node_pc,
                    running, main_pc, boot_in, magic, node_id, current, handed_over>>
    BY <1>6 DEF BootAnswer, BootLose, Answer, Lose, bootVars, mainVars, flagVars,
                requestVars, commandVars, historyVars
  <2>. QED  BY <2>1 DEF HandedInv, Stored
<1>7. CASE AppStart
  BY <1>7 DEF AppStart, fuVars, flagVars, requestVars, HandedInv, Stored
<1>8. CASE BootNodeThread
  BY <1>8, HandedInv_node
<1>9. CASE NodeRestart \/ WatchdogReset \/ PowerCut
  BY <1>9, HandedInv_reset
<1>. QED
  BY <1>1, <1>2, <1>3, <1>4, <1>5, <1>6, <1>7, <1>8, <1>9 DEF BootNext

LEMMA HandedInvariant == BootSpec => []HandedInv
<1>1. BootInit => HandedInv
  BY DEF BootInit, Init, HandedInv
<1>2. IInv /\ TestInv /\ HandedInv /\ [BootNext]_vars => HandedInv'
  BY HandedInv_step
<1>. QED  BY <1>1, <1>2, BootUpdateInvariant, TestInvariant, PTL DEF BootSpec

(* HandedOverOnce: whatever is asked of the bootloader, whatever a power    *)
(* cut leaves in bootloader_interface and however often the node id cannot *)
(* be read, an update that the application handed over never begins again  *)
(* after the application has started anew.                                 *)
THEOREM NoOldRequest == BootSpec => []HandedOverOnce
<1>1. HandedInv => HandedOverOnce
  BY DEF HandedInv, HandedOverOnce
<1>. QED  BY <1>1, HandedInvariant, PTL

-----------------------------------------------------------------------------
(* Updates only begun for the application *)

(* An update that runs has all a reset needs to begin it again, until its  *)
(* image is there; main() never has its time run out while one runs.       *)
RequestInv ==
  /\ FirmwareUpdate /\ node_pc # "done2" => magic /\ node_id # 0 /\ Stored
  /\ FirmwareUpdate => request_file_name # NoFile
  /\ node_pc = "failed2" => ~FirmwareUpdate
  /\ main_pc = "test" /\ boot_in = 0 => ~FirmwareUpdate

LEMMA RequestInv_node ==
  ASSUME IInv, RequestInv, BootNodeThread
  PROVE  RequestInv'
<1>1. main_pc # "test" /\ UNCHANGED <<main_pc, boot_in, magic, node_id>>
  BY DEF BootNodeThread, mainVars, commandVars
<1>2. CASE RequestMore \/ VerifyPage \/ flash_erase_page \/ flash_write_block \/ CheckPage
  <2>1. /\ UNCHANGED <<FirmwareUpdate, request_from_node_id, request_file_name>>
        /\ node_pc # "done2" /\ node_pc' # "failed2"
    BY <1>2 DEF RequestMore, VerifyPage, flash_erase_page, flash_write_block, CheckPage,
                PageInFlash, processing, flagVars, requestVars
  <2>. QED  BY <1>1, <2>1 DEF RequestInv, Stored
<1>3. CASE ForgetRequest
  BY <1>1, <1>3 DEF ForgetRequest, flagVars, RequestInv
<1>4. CASE EndUpdate \/ FailUpdate
  BY <1>1, <1>4 DEF EndUpdate, FailUpdate, RequestInv
<1>5. CASE ForgetFailedRequest
  BY <1>1, <1>5 DEF ForgetFailedRequest, flagVars, RequestInv
<1>. QED
  BY <1>2, <1>3, <1>4, <1>5 DEF BootNodeThread, NodeThread

LEMMA RequestInv_step ==
  ASSUME ~BootloaderRequests, ~PowerCuts, IInv, HandedInv, RequestInv, [BootNext]_vars
  PROVE  RequestInv'
<1>1. CASE \/ Tick \/ MainSleep \/ onRestartNode \/ UNCHANGED vars
  BY <1>1 DEF Tick, MainSleep, onRestartNode, vars, bootVars, mainVars, fuVars, flagVars,
              requestVars, commandVars, historyVars, RequestInv, Stored
<1>2. CASE MainCheck
  BY <1>2, BootloaderAssumption
     DEF MainCheck, fuVars, flagVars, requestVars, commandVars, RequestInv, Stored
<1>3. CASE boot_application
  BY <1>3 DEF boot_application, RequestInv
<1>4. CASE app_onRestartNode \/ AppStart
  BY <1>4 DEF app_onRestartNode, AppStart, mainVars, fuVars, flagVars, HandedInv,
              RequestInv
<1>5. ASSUME NEW node \in RequestNodes, NEW f \in Names,
             app_onBeginFirmwareUpdate(node, f)
      PROVE  RequestInv'
  BY <1>5 DEF app_onBeginFirmwareUpdate, StoreRequest, mainVars, flagVars, HandedInv,
              RequestInv
<1>6. CASE BootAnswer \/ BootLose
  <2>1. UNCHANGED <<FirmwareUpdate, request_from_node_id, request_file_name, node_pc,
                    main_pc, boot_in, magic, node_id>>
    BY <1>6 DEF BootAnswer, BootLose, Answer, Lose, bootVars, mainVars, flagVars,
                requestVars, commandVars
  <2>. QED  BY <2>1 DEF RequestInv, Stored
<1>7. CASE BootNodeThread
  BY <1>7, RequestInv_node
<1>8. CASE NodeRestart \/ WatchdogReset
  BY <1>8 DEF NodeRestart, WatchdogReset, Reset, BootloaderStart, ResetStatics,
              commandVars, requestVars, RequestInv, Stored
<1>. QED
  BY <1>1, <1>2, <1>3, <1>4, <1>5, <1>6, <1>7, <1>8
     DEF BootNext, onBeginFirmwareUpdate, PowerCut

LEMMA RequestInvariant ==
  ASSUME ~BootloaderRequests, ~PowerCuts
  PROVE  BootSpec => []RequestInv
<1>1. BootInit => RequestInv
  BY DEF BootInit, Init, RequestInv
<1>2. IInv /\ HandedInv /\ RequestInv /\ [BootNext]_vars => RequestInv'
  BY RequestInv_step
<1>. QED  BY <1>1, <1>2, BootUpdateInvariant, HandedInvariant, PTL DEF BootSpec

-----------------------------------------------------------------------------
(* What is booted *)

(* A flash that takes what is written to it fails no check, and the image  *)
(* in it only ceases to work while an update runs, which goes on after     *)
(* each reset until the new one is complete.                               *)
ImageInv ==
  /\ node_pc = "check" => flash_verify_block
  /\ node_pc \notin {"failed1", "failed2"}
  /\ Works \/ FirmwareUpdate

(* The two steps between writing a page and the end of an update. *)
LEMMA WriteVerifies ==
  ASSUME ~FlashFaults, IInv, flash_write_block
  PROVE  flash_verify_block'
<1>1. /\ firmware_write_offset \in Nat /\ firmware_buffer_ptr \in Nat
      /\ firmware_write_offset + firmware_buffer_ptr <= FLASH_SIZE /\ FLASH_SIZE \in Nat
  BY FirmwareUpdateAssumption DEF flash_write_block, IInv, TypeOK, ControlInv
<1>2. flash' = Written(firmware_buffer_ptr) /\ UNCHANGED bufferVars
  BY DEF flash_write_block
<1>3. \A a \in DataCells : flash'[a] = firmware_buffer[a - firmware_write_offset]
  BY <1>1, <1>2 DEF Written, DataCells, Offsets
<1>. QED  BY <1>2, <1>3 DEF flash_verify_block, DataCells, bufferVars

LEMMA DoneWorks ==
  ASSUME IInv, QuietInv, RequestInv, node_pc \in {"done1", "done2"}
  PROVE  Works
<1>1. request_file_name \in Files
  BY DEF IInv, TypeOK, ControlInv, RequestInv, Names
<1>2. Holds(request_file_name, FileSize[request_file_name])
  BY DEF IInv, DoneMeansInstalled, QuietInv
<1>. QED  BY <1>1, <1>2 DEF Works

LEMMA WorksKept ==
  ASSUME Works, flash' = flash
  PROVE  Works'
BY DEF Works, Holds

LEMMA ImageInv_node ==
  ASSUME ~FlashFaults, IInv, QuietInv, RequestInv, ImageInv, NodeThread
  PROVE  ImageInv'
<1>1. CASE RequestMore \/ VerifyPage
  <2>1. /\ FirmwareUpdate /\ UNCHANGED FirmwareUpdate
        /\ node_pc' \in {"loop", "fault", "done1", "erase"}
    BY <1>1 DEF RequestMore, VerifyPage, processing, PageInFlash, flagVars
  <2>. QED  BY <2>1 DEF ImageInv
<1>2. CASE flash_erase_page
  BY <1>2 DEF flash_erase_page, IInv, ControlInv, ImageInv, flagVars
<1>3. CASE flash_write_block
  <2>1. FirmwareUpdate /\ UNCHANGED FirmwareUpdate /\ node_pc' = "check"
    BY <1>3 DEF flash_write_block, flagVars, IInv, ControlInv
  <2>. QED  BY <1>3, <2>1, WriteVerifies DEF ImageInv
<1>4. CASE CheckPage
  <2>1. /\ FirmwareUpdate /\ UNCHANGED FirmwareUpdate
        /\ node_pc' \in {"loop", "done1"}
    BY <1>4 DEF CheckPage, PageInFlash, flagVars, IInv, ControlInv, ImageInv
  <2>. QED  BY <2>1 DEF ImageInv
<1>5. CASE ForgetRequest
  BY <1>5, DoneWorks, WorksKept DEF ForgetRequest, ImageInv
<1>6. CASE EndUpdate
  BY <1>6, DoneWorks, WorksKept DEF EndUpdate, ImageInv
<1>7. CASE FailUpdate \/ ForgetFailedRequest
  BY <1>7 DEF FailUpdate, ForgetFailedRequest, ImageInv
<1>. QED  BY <1>1, <1>2, <1>3, <1>4, <1>5, <1>6, <1>7 DEF NodeThread

LEMMA ImageInv_reset ==
  ASSUME IInv, QuietInv, RequestInv, ImageInv, NodeRestart \/ WatchdogReset
  PROVE  ImageInv'
<1>1. Reset
  BY DEF NodeRestart, WatchdogReset
<1>2. /\ node_pc' = "loop"
      /\ FirmwareUpdate' = (magic /\ node_id # 0 /\ Stored)
      /\ node_pc # "write" => flash' = flash
  BY <1>1 DEF Reset, BootloaderStart, ResetStatics, commandVars, requestVars, Stored
<1>3. CASE FirmwareUpdate /\ node_pc # "done2"
  <2>1. magic /\ node_id # 0 /\ Stored
    BY <1>3 DEF RequestInv
  <2>. QED  BY <1>2, <2>1 DEF ImageInv
<1>4. CASE node_pc = "done2"
  BY <1>2, <1>4, DoneWorks, WorksKept DEF ImageInv
<1>5. CASE ~FirmwareUpdate
  <2>1. Works /\ node_pc # "write"
    BY <1>5 DEF ImageInv, IInv, ControlInv
  <2>. QED  BY <1>2, <2>1, WorksKept DEF ImageInv
<1>. QED  BY <1>3, <1>4, <1>5

LEMMA ImageInv_step ==
  ASSUME ~BootloaderRequests, ~PowerCuts, ~FlashFaults,
         IInv, QuietInv, TestInv, RequestInv, ImageInv, [BootNext]_vars
  PROVE  ImageInv'
<1>1. CASE \/ Tick \/ MainCheck \/ MainSleep \/ onRestartNode \/ app_onRestartNode
           \/ AppStart \/ BootLose
           \/ \E node \in RequestNodes, f \in Names : app_onBeginFirmwareUpdate(node, f)
           \/ UNCHANGED vars
  <2>1. UNCHANGED <<flash, bufferVars, FirmwareUpdate, node_pc>>
    BY <1>1 DEF Tick, MainCheck, MainSleep, onRestartNode, app_onRestartNode, AppStart,
                BootLose, Lose, app_onBeginFirmwareUpdate, StoreRequest, vars, fuVars,
                flagVars
  <2>. QED
    BY <2>1, WorksKept DEF ImageInv, flash_verify_block, DataCells, bufferVars
<1>2. CASE BootAnswer
  <2>1. UNCHANGED <<flash, FirmwareUpdate, node_pc>>
    BY <1>2 DEF BootAnswer, Answer, flagVars
  <2>2. node_pc = "check" => UNCHANGED bufferVars
    BY <1>2 DEF BootAnswer, Answer, onFileRead, IInv, ControlInv
  <2>. QED
    BY <2>1, <2>2, WorksKept DEF ImageInv, flash_verify_block, DataCells, bufferVars
<1>3. CASE boot_application
  <2>1. ~FirmwareUpdate /\ node_pc = "loop"
    BY <1>3 DEF boot_application, TestInv, RequestInv
  <2>2. Works /\ flash' = flash /\ node_pc' = "loop"
    BY <1>3, <2>1 DEF boot_application, ResetStatics, ImageInv
  <2>. QED  BY <2>2, WorksKept DEF ImageInv
<1>4. CASE BootNodeThread
  BY <1>4, ImageInv_node DEF BootNodeThread
<1>5. CASE NodeRestart \/ WatchdogReset
  BY <1>5, ImageInv_reset
<1>. QED
  BY <1>1, <1>2, <1>3, <1>4, <1>5 DEF BootNext, onBeginFirmwareUpdate, PowerCut

(* BootsWorkingImage: however often and wherever the node is reset, the    *)
(* bootloader never starts an image that is half written.                  *)
THEOREM NeverBootsHalfAnImage ==
  ASSUME ~BootloaderRequests, ~PowerCuts, ~FlashFaults, ~ServerErrors, ~LateAnswers
  PROVE  BootSpec => []BootsWorkingImage
<1>1. BootInit => ImageInv
  BY DEF BootInit, Init, ImageInv, Works
<1>2. /\ IInv /\ QuietInv /\ TestInv /\ RequestInv /\ ImageInv /\ [BootNext]_vars
      => ImageInv'
  BY ImageInv_step
<1>3. HandedInv /\ ImageInv => BootsWorkingImage
  BY DEF HandedInv, ImageInv, BootsWorkingImage
<1>4. BootSpec => []QuietInv
  BY RunsTheUpdate, QuietInvariant, PTL DEF ImplementsFirmwareUpdate
<1>. QED
  BY <1>1, <1>2, <1>3, <1>4, BootUpdateInvariant, TestInvariant, HandedInvariant,
     RequestInvariant, PTL
     DEF BootSpec

-----------------------------------------------------------------------------
(* What the node has of its update *)

(* DoneMeansInstalled, RequestFollowsBuffer and InstalledStays of the whole *)
(* node, whatever main(), the services and resets do to the update.         *)
THEOREM NodeKeepsWhatItInstalled ==
  BootSpec => []DoneMeansInstalled /\ []RequestFollowsBuffer /\ InstalledStays
BY RunsTheUpdate, SuccessInstalls, OffsetsAgree, NothingUndone, PTL
   DEF ImplementsFirmwareUpdate

(* ImplementsImageInstall of the whole node: with a server that does not   *)
(* fail and no late answers, each of its updates installs the image of the *)
(* file that was asked for, or fails.                                      *)
THEOREM NodeInstallsImages ==
  ASSUME ~ServerErrors, ~LateAnswers
  PROVE  BootSpec => ImplementsImageInstall
BY RunsTheUpdate, IsAnInstall, PTL DEF ImplementsFirmwareUpdate

=============================================================================

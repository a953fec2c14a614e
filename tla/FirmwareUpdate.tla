--------------------------- MODULE FirmwareUpdate ---------------------------
(***************************************************************************)
(* The firmware update of the bootloader: firmware_update.c, the flash     *)
(* driver it calls, the part of node.c that starts and ends an update, and *)
(* the file server it reads the image from.                                *)
(*                                                                         *)
(* Two threads work on the update.  The receive thread (HIGHPRIO) runs     *)
(* onBeginFirmwareUpdate and onFileRead and can preempt the node thread    *)
(* between any two steps; the node thread runs processFirmwareUpdate, here *)
(* one action per access to the flash or to a variable both threads write. *)
(* The file server is external: it answers reads in the order they were    *)
(* sent, any read may be lost, and an answer may come very late.           *)
(***************************************************************************)
EXTENDS Integers, Sequences

CONSTANTS
  CHUNK,            \* bytes of a FileRead answer that is not the last (256)
  FLASH_PAGE_SIZE,  \* bytes of a flash page (2048)
  FLASH_SIZE,       \* bytes of flash behind __application_flash_base__
  Files,            \* the images the server has
  FileSize,         \* their sizes in bytes
  NoFile,           \* an empty file name, of which the server has no data
  ServerNode,       \* the node id of the file server
  Erased,           \* content of an erased flash cell
  Foreign,          \* content of a cell that is of none of the images
  ServerErrors,     \* may the server answer with an error?
  LateAnswers,      \* may an answer outlive a restart of the node?
  Losses,           \* may a request or an answer be lost?
  FlashFaults,      \* may a page fail to take what is written to it?
  MaxReads,         \* bound: reads outstanding at the server
  NoInstall         \* of ImageInstall: no image is being installed

ASSUME FirmwareUpdateAssumption ==
  /\ CHUNK \in Nat \ {0}
  /\ FLASH_PAGE_SIZE \in Nat \ {0} /\ FLASH_PAGE_SIZE % CHUNK = 0
  /\ FLASH_SIZE \in Nat /\ FLASH_SIZE % FLASH_PAGE_SIZE = 0
  /\ FileSize \in [Files \cup {NoFile} -> Nat]
  /\ NoFile \notin Files /\ FileSize[NoFile] = 0
  /\ NoInstall \notin Files \cup {NoFile}
  /\ ServerNode \in 1..127
  /\ {Erased, Foreign} \cap ((Files \cup {NoFile}) \X Nat) = {}
  /\ {ServerErrors, LateAnswers, Losses, FlashFaults} \subseteq BOOLEAN
  /\ MaxReads \in Nat \ {0}

VARIABLES
  FirmwareUpdate,         \* node.c: an update is running
  node_health,            \* node.c
  request_from_node_id,   \* bootloader_interface, kept over a reset
  request_file_name,      \* bootloader_interface, kept over a reset
  file_request_ptr,       \* firmware_update.c: offset of the next read
  file_request_pending,
  file_eof,
  firmware_buffer,
  firmware_buffer_ptr,
  firmware_write_offset,
  flash,                  \* the application flash
  node_pc,                \* where the node thread is in its loop
  file_reads,             \* reads sent and not yet answered or lost
  mixed                   \* history: the update took an answer that was not
                          \* the data it asked for

requestVars == <<request_from_node_id, request_file_name>>
fileVars    == <<file_request_ptr, file_request_pending, file_eof>>
bufferVars  == <<firmware_buffer, firmware_buffer_ptr, firmware_write_offset>>
flagVars    == <<FirmwareUpdate, node_health>>

fuVars == <<flagVars, requestVars, fileVars, bufferVars, flash, node_pc,
            file_reads, mixed>>

-----------------------------------------------------------------------------

(* What a request may name: a file or none, the server or node 0.  (One    *)
(* that names a node without files is one whose reads are lost.)           *)
Names        == Files \cup {NoFile}
RequestNodes == {0, ServerNode}

(* A byte of an image is named by the file and its offset in it. *)
Byte == Names \X Nat
Cell == Byte \cup {Erased, Foreign}

Offsets    == 0 .. FLASH_SIZE - 1
BufferIdx  == 0 .. FLASH_PAGE_SIZE - 1
Request    == [file : Names, offset : Nat]

NodePc == {"loop", "erase", "write", "check", "done1", "done2",
           "failed1", "failed2", "fault"}

TypeOK ==
  /\ FirmwareUpdate \in BOOLEAN
  /\ node_health \in {"OK", "CRITICAL"}
  /\ request_from_node_id \in RequestNodes
  /\ request_file_name \in Names
  /\ file_request_ptr \in Nat
  /\ file_request_pending \in BOOLEAN
  /\ file_eof \in BOOLEAN
  /\ firmware_buffer \in [BufferIdx -> Cell]
  /\ firmware_buffer_ptr \in Nat
  /\ firmware_write_offset \in Nat
  /\ flash \in [Offsets -> Cell]
  /\ node_pc \in NodePc
  /\ file_reads \in Seq(Request)
  /\ mixed \in BOOLEAN

Init ==
  /\ FirmwareUpdate = FALSE
  /\ node_health = "OK"
  /\ request_from_node_id = 0
  /\ request_file_name = NoFile
  /\ file_request_ptr = 0
  /\ file_request_pending = FALSE
  /\ file_eof = FALSE
  /\ firmware_buffer = [i \in BufferIdx |-> Foreign]
  /\ firmware_buffer_ptr = 0
  /\ firmware_write_offset = 0
  /\ flash = [a \in Offsets |-> Foreign]
  /\ node_pc = "loop"
  /\ file_reads = << >>
  /\ mixed = FALSE

-----------------------------------------------------------------------------
(* Receive thread *)

(* onBeginFirmwareUpdate, when it answers 0: the request is stored and the *)
(* update is on, whatever node and file it names.  The file_ variables are *)
(* those initGlobals left.                                                 *)
AcceptBeginFirmwareUpdate(node, f) ==
  /\ ~FirmwareUpdate
  /\ request_from_node_id' = node
  /\ request_file_name' = f
  /\ FirmwareUpdate' = TRUE
  /\ mixed' = FALSE
  /\ UNCHANGED <<node_health, fileVars, bufferVars, flash, node_pc, file_reads>>

(* What the server has of file f from an offset on, at most CHUNK bytes. *)
AnswerLength(f, offset) ==
  LET left == FileSize[f] - offset
  IN  IF left >= CHUNK THEN CHUNK ELSE IF left > 0 THEN left ELSE 0

(* onFileRead: the answer's bytes are appended, whatever they are of.  The *)
(* error field is decoded and not looked at; an error answer has no data.  *)
onFileRead(read, error) ==
  LET chunk_length == IF error THEN 0
                      ELSE AnswerLength(read.file, read.offset)
  IN  IF ~file_request_pending
      THEN UNCHANGED <<fileVars, bufferVars, mixed>>
      ELSE
        /\ firmware_buffer' =
             [i \in BufferIdx |->
                IF i \in firmware_buffer_ptr .. firmware_buffer_ptr + chunk_length - 1
                THEN <<read.file, read.offset + (i - firmware_buffer_ptr)>>
                ELSE firmware_buffer[i]]
        /\ firmware_buffer_ptr' = firmware_buffer_ptr + chunk_length
        /\ file_request_pending' = FALSE
        /\ file_eof' = (file_eof \/ chunk_length # CHUNK)
        /\ mixed' = (\/ mixed
                     \/ error
                     \/ read.file # request_file_name
                     \/ read.offset # file_request_ptr - CHUNK)
        /\ UNCHANGED <<file_request_ptr, firmware_write_offset>>

(* The server answers the oldest read and the answer reaches the node. *)
Answer ==
  /\ file_reads # << >>
  /\ \E error \in IF ServerErrors THEN BOOLEAN ELSE {FALSE} :
       onFileRead(Head(file_reads), error)
  /\ file_reads' = Tail(file_reads)
  /\ UNCHANGED <<flagVars, requestVars, flash, node_pc>>

(* A read or its answer is lost: frames dropped, pool exhausted, no server. *)
Lose ==
  /\ Losses
  /\ file_reads # << >>
  /\ file_reads' = Tail(file_reads)
  /\ UNCHANGED <<flagVars, requestVars, fileVars, bufferVars, flash, node_pc, mixed>>

-----------------------------------------------------------------------------
(* The application's onBeginFirmwareUpdate, no bootloader running: it only *)
(* stores the request, complete or not, for the bootloader to find.        *)
StoreRequest(node, f) ==
  /\ ~FirmwareUpdate
  /\ node_pc = "loop"
  /\ request_from_node_id' = node
  /\ request_file_name' = f
  /\ UNCHANGED <<flagVars, fileVars, bufferVars, flash, node_pc, file_reads, mixed>>

-----------------------------------------------------------------------------
(* Node thread: CanNodeThread calls processFirmwareUpdate *)

(* Variants: goes on without waiting for the answer; one chunk too many. *)
processing_eager == FirmwareUpdate /\ node_pc = "loop"
enoughData_late  == file_eof \/ firmware_buffer_ptr > FLASH_PAGE_SIZE

processing == FirmwareUpdate /\ node_pc = "loop" /\ ~file_request_pending
enoughData == file_eof \/ firmware_buffer_ptr = FLASH_PAGE_SIZE

(* requestFileRead.  A read sent to node 0 gets no answer. *)
requestFileRead(offset) ==
  \/ /\ request_from_node_id = ServerNode
     /\ Len(file_reads) < MaxReads
     /\ file_reads' = Append(file_reads, [file   |-> request_file_name,
                                          offset |-> offset])
  \/ /\ \/ request_from_node_id # ServerNode
        \/ Len(file_reads) >= MaxReads
     /\ UNCHANGED file_reads

RequestMore ==
  /\ processing
  /\ ~enoughData
  /\ requestFileRead(file_request_ptr)
  /\ file_request_ptr' = file_request_ptr + CHUNK
  /\ file_request_pending' = TRUE
  /\ UNCHANGED <<flagVars, requestVars, file_eof, bufferVars, flash, node_pc, mixed>>

initGlobals ==
  /\ firmware_buffer_ptr' = 0
  /\ file_eof' = FALSE
  /\ file_request_ptr' = 0
  /\ firmware_write_offset' = 0
  /\ UNCHANGED <<file_request_pending, firmware_buffer>>

(* Variant: always the first page. *)
PageBase_first == 0

(* The flash page firmware_write_offset is in, and the cells the buffer is *)
(* for.                                                                    *)
PageBase  == firmware_write_offset - (firmware_write_offset % FLASH_PAGE_SIZE)
PageCells == PageBase .. PageBase + FLASH_PAGE_SIZE - 1
DataCells == firmware_write_offset .. firmware_write_offset + firmware_buffer_ptr - 1

(* Variant: len / 2 where (len + 1) / 2 is meant, the last byte is left out. *)
flash_verify_block_short ==
  \A a \in DataCells \ {firmware_write_offset + firmware_buffer_ptr - 1} :
    flash[a] = firmware_buffer[a - firmware_write_offset]

flash_verify_block ==
  \A a \in DataCells : flash[a] = firmware_buffer[a - firmware_write_offset]

(* The page is in the flash: the update ends at the end of the file, or    *)
(* goes on with the next page.                                             *)
PageInFlash ==
  IF file_eof
  THEN initGlobals /\ node_pc' = "done1"
  ELSE /\ firmware_write_offset' = firmware_write_offset + firmware_buffer_ptr
       /\ firmware_buffer_ptr' = 0
       /\ node_pc' = "loop"
       /\ UNCHANGED <<fileVars, firmware_buffer>>

(* The first flash_verify_block; behind the end of the flash it faults.    *)
VerifyPage ==
  /\ processing
  /\ enoughData
  /\ \/ /\ firmware_write_offset + firmware_buffer_ptr > FLASH_SIZE
        /\ node_pc' = "fault"
        /\ UNCHANGED <<fileVars, bufferVars>>
     \/ /\ firmware_write_offset + firmware_buffer_ptr <= FLASH_SIZE
        /\ flash_verify_block
        /\ PageInFlash
     \/ /\ firmware_write_offset + firmware_buffer_ptr <= FLASH_SIZE
        /\ ~flash_verify_block
        /\ node_pc' = "erase"
        /\ UNCHANGED <<fileVars, bufferVars>>
  /\ UNCHANGED <<flagVars, requestVars, flash, file_reads, mixed>>

flash_erase_page ==
  /\ node_pc = "erase"
  /\ flash' = [a \in Offsets |-> IF a \in PageCells THEN Erased ELSE flash[a]]
  /\ node_pc' = "write"
  /\ UNCHANGED <<flagVars, requestVars, fileVars, bufferVars, file_reads, mixed>>

(* The flash once the first n bytes of the buffer are written. *)
Written(n) ==
  [a \in Offsets |->
     IF a \in firmware_write_offset .. firmware_write_offset + n - 1
     THEN firmware_buffer[a - firmware_write_offset]
     ELSE flash[a]]

flash_write_block ==
  /\ node_pc = "write"
  /\ \/ flash' = Written(firmware_buffer_ptr)
     \/ /\ FlashFaults
        /\ \E bad \in PageCells :
             flash' = [a \in Offsets |->
                         IF a = bad THEN Foreign ELSE Written(firmware_buffer_ptr)[a]]
  /\ node_pc' = "check"
  /\ UNCHANGED <<flagVars, requestVars, fileVars, bufferVars, file_reads, mixed>>

(* Variant: what was written is not verified. *)
CheckPage_trusting ==
  /\ node_pc = "check"
  /\ PageInFlash
  /\ UNCHANGED <<flagVars, requestVars, flash, file_reads, mixed>>

(* Variant: a page that does not take the data is tried again. *)
CheckPage_retries ==
  /\ node_pc = "check"
  /\ IF flash_verify_block
     THEN PageInFlash
     ELSE UNCHANGED <<fileVars, bufferVars>> /\ node_pc' = "erase"
  /\ UNCHANGED <<flagVars, requestVars, flash, file_reads, mixed>>

(* The second flash_verify_block. *)
CheckPage ==
  /\ node_pc = "check"
  /\ IF flash_verify_block
     THEN PageInFlash
     ELSE initGlobals /\ node_pc' = "failed1"
  /\ UNCHANGED <<flagVars, requestVars, flash, file_reads, mixed>>

(* Variants: the request is kept; the flag is kept. *)
ForgetRequest_keeps ==
  /\ node_pc = "done1"
  /\ node_pc' = "done2"
  /\ UNCHANGED <<flagVars, requestVars, fileVars, bufferVars, flash, file_reads,
                 mixed>>

EndUpdate_keepsFlag ==
  /\ node_pc = "done2"
  /\ node_pc' = "loop"
  /\ UNCHANGED <<flagVars, requestVars, fileVars, bufferVars, flash, file_reads,
                 mixed>>

(* CanNodeThread after FIRMWARE_UPDATE_DONE_SUCCESS *)
ForgetRequest ==
  /\ node_pc = "done1"
  /\ request_from_node_id' = 0
  /\ node_pc' = "done2"
  /\ UNCHANGED <<flagVars, request_file_name, fileVars, bufferVars, flash,
                 file_reads, mixed>>

EndUpdate ==
  /\ node_pc = "done2"
  /\ FirmwareUpdate' = FALSE
  /\ node_pc' = "loop"
  /\ UNCHANGED <<node_health, requestVars, fileVars, bufferVars, flash,
                 file_reads, mixed>>

(* CanNodeThread after FIRMWARE_UPDATE_ERR_FLASH_FAILED, in its own order *)
FailUpdate ==
  /\ node_pc = "failed1"
  /\ node_health' = "CRITICAL"
  /\ FirmwareUpdate' = FALSE
  /\ node_pc' = "failed2"
  /\ UNCHANGED <<requestVars, fileVars, bufferVars, flash, file_reads, mixed>>

ForgetFailedRequest ==
  /\ node_pc = "failed2"
  /\ request_from_node_id' = 0
  /\ node_pc' = "loop"
  /\ UNCHANGED <<flagVars, request_file_name, fileVars, bufferVars, flash,
                 file_reads, mixed>>

NodeThread ==
  \/ RequestMore \/ VerifyPage \/ flash_erase_page \/ flash_write_block
  \/ CheckPage \/ ForgetRequest \/ EndUpdate \/ FailUpdate \/ ForgetFailedRequest

-----------------------------------------------------------------------------

(* The statics after a reset.  A reset in flash_write_block leaves a part   *)
(* of the page written.                                                     *)
ResetStatics ==
  /\ node_health' = "OK"
  /\ file_request_ptr' = 0
  /\ file_request_pending' = FALSE
  /\ file_eof' = FALSE
  /\ firmware_buffer' = [i \in BufferIdx |-> Foreign]
  /\ firmware_buffer_ptr' = 0
  /\ firmware_write_offset' = 0
  /\ node_pc' = "loop"
  /\ mixed' = FALSE
  /\ \/ UNCHANGED flash
     \/ /\ node_pc = "write"
        /\ \E n \in 1 .. firmware_buffer_ptr : flash' = Written(n)
  /\ \/ LateAnswers /\ UNCHANGED file_reads
     \/ file_reads' = << >>

(* The node resets, or leaves the bootloader for the application.  After a *)
(* power cut the request may be anything.  An update runs only if there is *)
(* a request; whether the bootloader trusts it is decided in Bootloader.   *)
Restart ==
  /\ request_from_node_id' \in RequestNodes
  /\ request_file_name' \in Names
  /\ \/ FirmwareUpdate' = FALSE
     \/ /\ request_from_node_id' # 0 /\ request_file_name' # NoFile
        /\ FirmwareUpdate' = TRUE
  /\ ResetStatics

Next ==
  \/ \E node \in RequestNodes, f \in Names :
       AcceptBeginFirmwareUpdate(node, f) \/ StoreRequest(node, f)
  \/ Answer
  \/ Lose
  \/ NodeThread
  \/ Restart

Spec == Init /\ [][Next]_fuVars

(* The node thread is polled at least every 100 ms, and a server that is   *)
(* there answers.                                                          *)
FairSpec == Spec /\ WF_fuVars(NodeThread) /\ WF_fuVars(Answer)

-----------------------------------------------------------------------------
(* Properties *)

(* The first n bytes of the application flash are the first n of file f.   *)
Holds(f, n) == \A a \in 0 .. n - 1 : a \in Offsets /\ flash[a] = <<f, a>>

(* The page buffer is never overrun: it holds at most a page, and while a  *)
(* read is pending there is room for the largest answer (onFileRead        *)
(* appends without looking at the size of firmware_buffer).                *)
BufferBounded ==
  /\ firmware_buffer_ptr <= FLASH_PAGE_SIZE
  /\ file_request_pending => firmware_buffer_ptr + CHUNK <= FLASH_PAGE_SIZE

(* The three offsets agree: until the end of the file, the next read asks  *)
(* for the byte after those in the flash, in the buffer and on their way.  *)
RequestFollowsBuffer ==
  FirmwareUpdate /\ ~file_eof =>
    file_request_ptr = firmware_write_offset + firmware_buffer_ptr
                         + (IF file_request_pending THEN CHUNK ELSE 0)

(* While an update runs on the answers it asked for, everything before     *)
(* firmware_write_offset is the image, whatever was there before and       *)
(* whichever page an earlier reset left half written.                      *)
PrefixInstalled ==
  FirmwareUpdate /\ ~mixed => Holds(request_file_name, firmware_write_offset)

(* Success means the image is in the flash: when processFirmwareUpdate has *)
(* returned FIRMWARE_UPDATE_DONE_SUCCESS and every answer was the data     *)
(* asked for, the flash begins with the whole requested file.              *)
DoneMeansInstalled ==
  node_pc \in {"done1", "done2"} /\ ~mixed =>
    Holds(request_file_name, FileSize[request_file_name])

(* The one flag file_request_pending keeps answers and offsets together:   *)
(* with a server that does not fail and whose answers do not outlive a     *)
(* reset, no update ever takes data of another offset or file.             *)
AnswersInOrder == ~mixed

(* Nobody clears the request of an update that was accepted: one that has  *)
(* a server to read from keeps it until it ends.                           *)
UpdateKeepsServer ==
  [][(/\ FirmwareUpdate /\ FirmwareUpdate' /\ node_pc' # "done2"
      /\ request_from_node_id = ServerNode)
       => request_from_node_id' = ServerNode]_fuVars

(* No step of an update touches a cell before firmware_write_offset, be it *)
(* fed with wrong data, or reset in the middle of a write and begun again: *)
(* a page that is done is left alone, whatever becomes of the next one.    *)
InstalledStays ==
  [][\A a \in Offsets :
       (FirmwareUpdate /\ FirmwareUpdate' /\ a < firmware_write_offset)
         => flash'[a] = flash[a]]_fuVars

(* The only thing that can hang an update is a read that got no answer: it *)
(* is not repeated.  Otherwise, once the node is no longer reset, every    *)
(* update ends, with success or failure, however often pages are bad.      *)
ReadUnanswered == file_request_pending /\ file_reads = << >>

UpdateEnds ==
  <>[][~Restart]_fuVars => (FirmwareUpdate ~> ~FirmwareUpdate \/ ReadUnanswered)

(* firmware_update.c, on a FileRead: "Only less when EOF is reached".  So  *)
(* an update that succeeds has read the whole file.                        *)
ShortAnswerIsEOF ==
  node_pc = "done1" => Holds(request_file_name, FileSize[request_file_name])

(* Implementation: the update as an install of an image.  An install ends  *)
(* where processFirmwareUpdate returns, before node.c drops the request.   *)
target == IF FirmwareUpdate /\ node_pc \notin {"done1", "done2", "failed1"}
          THEN request_file_name ELSE NoInstall
result == CASE node_pc \in {"done1", "done2"}     -> "installed"
            [] node_pc \in {"failed1", "failed2"} -> "failed"
            [] OTHER                             -> "none"

Abstract == INSTANCE ImageInstall
              WITH Files <- Names, target <- target, result <- result

(* With a server that does not fail and no answer that outlives a reset,   *)
(* the update is an install: pages in order, success only when complete.   *)
ImplementsImageInstall == Abstract!Spec

-----------------------------------------------------------------------------
(* The inductive invariant *)

globalsInitial ==
  /\ file_request_ptr = 0
  /\ ~file_eof
  /\ firmware_buffer_ptr = 0
  /\ firmware_write_offset = 0

ControlInv ==
  /\ ~FirmwareUpdate => node_pc \in {"loop", "failed2"}
  /\ ~FirmwareUpdate \/ node_pc # "loop" \/ file_eof => ~file_request_pending
  /\ ~FirmwareUpdate \/ node_pc \in {"done1", "done2", "failed1", "failed2"}
       => globalsInitial
  /\ node_pc \in {"erase", "write", "check"} =>
       enoughData /\ firmware_write_offset + firmware_buffer_ptr <= FLASH_SIZE

(* Pages are written whole and aligned, the buffer grows by whole chunks.  *)
OffsetInv ==
  /\ firmware_write_offset % FLASH_PAGE_SIZE = 0
  /\ ~file_eof => firmware_buffer_ptr % CHUNK = 0

ContentInv ==
  FirmwareUpdate /\ ~mixed =>
    LET f == request_file_name
        got == firmware_write_offset + firmware_buffer_ptr
    IN  /\ \A i \in 0 .. firmware_buffer_ptr - 1 :
             firmware_buffer[i] = <<f, firmware_write_offset + i>>
        /\ got <= FileSize[f]
        /\ file_eof => got = FileSize[f]

IInv ==
  /\ TypeOK /\ ControlInv /\ OffsetInv /\ ContentInv
  /\ BufferBounded /\ RequestFollowsBuffer /\ PrefixInstalled /\ DoneMeansInstalled

=============================================================================

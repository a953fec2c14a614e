------------------------ MODULE FirmwareUpdate_proofs ------------------------
(***************************************************************************)
(* Proofs about FirmwareUpdate, for all sizes of chunks, pages, flash and  *)
(* images, and for every environment (errors, late answers, losses, flash  *)
(* faults, any number of resets).                                          *)
(***************************************************************************)
EXTENDS FirmwareUpdate, TLAPS

-----------------------------------------------------------------------------
(* Arithmetic of chunks and pages *)

(* A multiple of P strictly between -P and P is 0. *)
LEMMA SmallMultiple ==
  ASSUME NEW P \in Nat \ {0}, NEW q \in Int, NEW r \in Int,
         0 <= r, r < P, P * q = r
  PROVE  q = 0
<1>1. CASE q >= 1
  <2>1. P * q >= P * 1  BY <1>1
  <2>. QED  BY <2>1
<1>2. CASE q <= -1
  <2>1. P * q <= P * (-1)  BY <1>2
  <2>. QED  BY <2>1
<1>. QED  BY <1>1, <1>2

(* The next multiple of P after a is a + P. *)
LEMMA NextMultiple ==
  ASSUME NEW P \in Nat \ {0}, NEW a \in Nat, a % P = 0
  PROVE  (a + P) % P = 0
<1>. DEFINE q == a \div P
            s == (a + P) \div P
            r == (a + P) % P
<1>1. q \in Int /\ s \in Int /\ r \in Int /\ 0 <= r /\ r < P  OBVIOUS
<1>2. a = P * q + (a % P)  OBVIOUS
<1>3. a + P = P * s + r  OBVIOUS
<1>. HIDE DEF q, s, r
<1>4. P * (q + 1 - s) = r
  <2>1. P * (q + 1) = P * s + r  BY <1>1, <1>2, <1>3
  <2>2. P * (q + 1 - s) = P * (q + 1) - P * s  BY <1>1
  <2>. QED  BY <2>1, <2>2, <1>1
<1>5. q + 1 - s = 0
  <2>1. q + 1 - s \in Int  BY <1>1
  <2>. QED  BY <1>1, <1>4, <2>1, SmallMultiple
<1>6. r = 0  BY <1>1, <1>4, <1>5
<1>. QED  BY <1>6 DEF r

(* Between two multiples of P there is room for P. *)
LEMMA RoomForOne ==
  ASSUME NEW P \in Nat \ {0}, NEW a \in Nat, NEW b \in Nat,
         a % P = 0, b % P = 0, a < b
  PROVE  a + P <= b
<1>. DEFINE q == a \div P
            s == b \div P
<1>1. q \in Int /\ s \in Int  OBVIOUS
<1>2. a = P * q + (a % P) /\ b = P * s + (b % P)  OBVIOUS
<1>. HIDE DEF q, s
<1>3. a = P * q /\ b = P * s  BY <1>1, <1>2
<1>4. q < s
  <2>1. ASSUME s <= q  PROVE FALSE
    <3>1. P * s <= P * q  BY <2>1, <1>1
    <3>. QED  BY <3>1, <1>3
  <2>. QED  BY <2>1, <1>1
<1>5. P * (q + 1) <= P * s
  <2>1. q + 1 <= s  BY <1>4, <1>1
  <2>. QED  BY <2>1, <1>1
<1>6. P * (q + 1) = P * q + P  BY <1>1
<1>. QED  BY <1>3, <1>5, <1>6, <1>1

-----------------------------------------------------------------------------
(* What the server has behind an offset of a file: never more than a chunk, *)
(* never more than is left, and less than a chunk only at the end.          *)
LEMMA AnswerLengthFacts ==
  ASSUME NEW f \in Names, NEW offset \in Nat
  PROVE  /\ AnswerLength(f, offset) \in 0 .. CHUNK
         /\ offset <= FileSize[f] =>
              /\ offset + AnswerLength(f, offset) <= FileSize[f]
              /\ AnswerLength(f, offset) # CHUNK =>
                   offset + AnswerLength(f, offset) = FileSize[f]
<1>1. FileSize[f] \in Nat /\ CHUNK \in Nat
  BY FirmwareUpdateAssumption DEF Names
<1>. QED  BY <1>1 DEF AnswerLength

(* The page being written begins at firmware_write_offset. *)
LEMMA PageBaseIsOffset ==
  ASSUME TypeOK, OffsetInv
  PROVE  PageBase = firmware_write_offset
BY FirmwareUpdateAssumption DEF TypeOK, OffsetInv, PageBase

LEMMA PageBaseInt ==
  ASSUME TypeOK
  PROVE  PageBase \in Int
BY FirmwareUpdateAssumption DEF TypeOK, PageBase

-----------------------------------------------------------------------------
(* Every variable keeps its type. *)

LEMMA TypeOK_Answer == TypeOK /\ Answer => TypeOK'
<1>. SUFFICES ASSUME TypeOK, Answer  PROVE TypeOK'
  OBVIOUS
<1>. USE FirmwareUpdateAssumption
<1>1. file_reads' \in Seq(Request)
  BY DEF TypeOK, Answer
<1>. DEFINE read == Head(file_reads)
<1>2. read \in Request
  BY DEF TypeOK, Answer
<1>3. PICK error \in BOOLEAN : onFileRead(read, error)
  BY DEF Answer
<1>. DEFINE len == IF error THEN 0 ELSE AnswerLength(read.file, read.offset)
<1>4. read.file \in Names /\ read.offset \in Nat /\ len \in 0 .. CHUNK
  BY <1>2, AnswerLengthFacts DEF Request
<1>. HIDE DEF read
<1>5. CASE ~file_request_pending
  <2>1. UNCHANGED <<fileVars, bufferVars, mixed>>
    BY <1>3, <1>5 DEF onFileRead
  <2>. QED
    BY <1>1, <2>1 DEF Answer, TypeOK, flagVars, requestVars, fileVars, bufferVars
<1>6. CASE file_request_pending
  <2>1. /\ firmware_buffer' =
             [i \in BufferIdx |->
                IF i \in firmware_buffer_ptr .. firmware_buffer_ptr + len - 1
                THEN <<read.file, read.offset + (i - firmware_buffer_ptr)>>
                ELSE firmware_buffer[i]]
        /\ firmware_buffer_ptr' = firmware_buffer_ptr + len
        /\ file_request_pending' = FALSE
        /\ UNCHANGED <<file_request_ptr, firmware_write_offset>>
    BY <1>3, <1>6 DEF onFileRead
  <2>2. file_eof' \in BOOLEAN /\ mixed' \in BOOLEAN
    BY <1>3, <1>6 DEF onFileRead
  <2>. HIDE DEF len
  <2>3. firmware_buffer_ptr' \in Nat
    BY <1>4, <2>1 DEF TypeOK
  <2>4. firmware_buffer' \in [BufferIdx -> Cell]
    <3>. SUFFICES ASSUME NEW i \in BufferIdx,
                         i \in firmware_buffer_ptr .. firmware_buffer_ptr + len - 1
                  PROVE  <<read.file, read.offset + (i - firmware_buffer_ptr)>> \in Cell
      BY <2>1 DEF TypeOK
    <3>1. read.offset + (i - firmware_buffer_ptr) \in Nat
      BY <1>4 DEF TypeOK, BufferIdx
    <3>. QED  BY <1>4, <3>1 DEF Cell, Byte
  <2>. QED
    BY <1>1, <2>1, <2>2, <2>3, <2>4 DEF Answer, TypeOK, flagVars, requestVars
<1>. QED  BY <1>5, <1>6

LEMMA TypeOK_PageInFlash ==
  ASSUME TypeOK, PageInFlash
  PROVE  /\ file_request_ptr' \in Nat
         /\ file_request_pending' \in BOOLEAN
         /\ file_eof' \in BOOLEAN
         /\ firmware_buffer' \in [BufferIdx -> Cell]
         /\ firmware_buffer_ptr' \in Nat
         /\ firmware_write_offset' \in Nat
         /\ node_pc' \in NodePc
<1>1. CASE file_eof
  <2>1. initGlobals /\ node_pc' = "done1"
    BY <1>1 DEF PageInFlash
  <2>. QED  BY <2>1 DEF initGlobals, TypeOK, NodePc
<1>2. CASE ~file_eof
  <2>1. /\ firmware_write_offset' = firmware_write_offset + firmware_buffer_ptr
        /\ firmware_buffer_ptr' = 0
        /\ node_pc' = "loop"
        /\ UNCHANGED <<fileVars, firmware_buffer>>
    BY <1>2 DEF PageInFlash
  <2>. QED  BY <2>1 DEF TypeOK, NodePc, fileVars
<1>. QED  BY <1>1, <1>2

(* What flash_write_block leaves in the flash are cells of images. *)
LEMMA WrittenType ==
  ASSUME TypeOK, NEW n \in Nat, n <= firmware_buffer_ptr,
         firmware_buffer_ptr <= FLASH_PAGE_SIZE
  PROVE  Written(n) \in [Offsets -> Cell]
<1>. SUFFICES ASSUME NEW a \in Offsets,
                     a \in firmware_write_offset .. firmware_write_offset + n - 1
              PROVE  firmware_buffer[a - firmware_write_offset] \in Cell
  BY DEF Written, TypeOK
<1>1. a - firmware_write_offset \in BufferIdx
  BY FirmwareUpdateAssumption DEF TypeOK, BufferIdx, Offsets
<1>. QED  BY <1>1 DEF TypeOK

LEMMA TypeOK_Restart ==
  ASSUME TypeOK, BufferBounded, Restart
  PROVE  TypeOK'
<1>. USE FirmwareUpdateAssumption
<1>1. flash' \in [Offsets -> Cell]
  <2>1. CASE UNCHANGED flash
    BY <2>1 DEF TypeOK
  <2>2. ASSUME NEW n \in 1 .. firmware_buffer_ptr, flash' = Written(n)
        PROVE  flash' \in [Offsets -> Cell]
    BY <2>2, WrittenType DEF TypeOK, BufferBounded
  <2>. QED  BY <2>1, <2>2 DEF Restart, ResetStatics
<1>2. file_reads' \in Seq(Request)
  <2>1. CASE UNCHANGED file_reads
    BY <2>1 DEF TypeOK
  <2>2. CASE file_reads' = << >>
    BY <2>2
  <2>. QED  BY <2>1, <2>2 DEF Restart, ResetStatics
<1>3. firmware_buffer' \in [BufferIdx -> Cell]
  BY DEF Restart, ResetStatics, Cell
<1>. QED
  BY <1>1, <1>2, <1>3 DEF Restart, ResetStatics, TypeOK, NodePc

LEMMA TypeOK_step == TypeOK /\ BufferBounded /\ [Next]_fuVars => TypeOK'
<1>. SUFFICES ASSUME TypeOK, BufferBounded, [Next]_fuVars  PROVE TypeOK'
  OBVIOUS
<1>. USE FirmwareUpdateAssumption
<1>1. ASSUME NEW node \in RequestNodes, NEW f \in Names,
             AcceptBeginFirmwareUpdate(node, f)
      PROVE  TypeOK'
  BY <1>1 DEF AcceptBeginFirmwareUpdate, TypeOK, fileVars, bufferVars
<1>12. ASSUME NEW node \in RequestNodes, NEW f \in Names, StoreRequest(node, f)
       PROVE  TypeOK'
  BY <1>12 DEF StoreRequest, TypeOK, flagVars, fileVars, bufferVars
<1>2. CASE Answer
  BY <1>2, TypeOK_Answer
<1>3. CASE Lose
  BY <1>3 DEF Lose, TypeOK, flagVars, requestVars, fileVars, bufferVars
<1>4. CASE RequestMore
  <2>1. CASE UNCHANGED file_reads
    BY <1>4, <2>1 DEF RequestMore, TypeOK, flagVars, requestVars, bufferVars
  <2>2. CASE file_reads' = Append(file_reads, [file   |-> request_file_name,
                                              offset |-> file_request_ptr])
    <3>1. [file |-> request_file_name, offset |-> file_request_ptr] \in Request
      BY <2>2 DEF TypeOK, Request
    <3>2. file_reads' \in Seq(Request)
      BY <2>2, <3>1 DEF TypeOK
    <3>. QED
      BY <1>4, <3>2 DEF RequestMore, TypeOK, flagVars, requestVars, bufferVars
  <2>. QED  BY <1>4, <2>1, <2>2 DEF RequestMore, requestFileRead
<1>5. CASE VerifyPage
  <2>1. CASE PageInFlash
    BY <1>5, <2>1, TypeOK_PageInFlash DEF VerifyPage, TypeOK, flagVars, requestVars
  <2>2. CASE UNCHANGED <<fileVars, bufferVars>> /\ node_pc' \in {"fault", "erase"}
    BY <1>5, <2>2 DEF VerifyPage, TypeOK, NodePc, flagVars, requestVars,
                      fileVars, bufferVars
  <2>. QED  BY <1>5, <2>1, <2>2 DEF VerifyPage
<1>6. CASE flash_erase_page
  BY <1>6 DEF flash_erase_page, TypeOK, NodePc, Cell, flagVars, requestVars,
              fileVars, bufferVars
<1>7. CASE flash_write_block
  <2>1. Written(firmware_buffer_ptr) \in [Offsets -> Cell]
    BY WrittenType DEF TypeOK, BufferBounded
  <2>2. flash' \in [Offsets -> Cell]
    BY <1>7, <2>1 DEF flash_write_block, Cell
  <2>. QED
    BY <1>7, <2>2 DEF flash_write_block, TypeOK, NodePc, flagVars, requestVars,
                      fileVars, bufferVars
<1>8. CASE CheckPage
  <2>1. CASE PageInFlash
    BY <1>8, <2>1, TypeOK_PageInFlash DEF CheckPage, TypeOK, flagVars, requestVars
  <2>2. CASE initGlobals /\ node_pc' = "failed1"
    BY <1>8, <2>2 DEF CheckPage, TypeOK, NodePc, flagVars, requestVars, initGlobals
  <2>. QED  BY <1>8, <2>1, <2>2 DEF CheckPage
<1>9. CASE ForgetRequest \/ EndUpdate \/ FailUpdate \/ ForgetFailedRequest
  BY <1>9 DEF ForgetRequest, EndUpdate, FailUpdate, ForgetFailedRequest,
              TypeOK, NodePc, RequestNodes, flagVars, requestVars, fileVars, bufferVars
<1>10. CASE Restart
  BY <1>10, TypeOK_Restart
<1>11. CASE UNCHANGED fuVars
  BY <1>11 DEF fuVars, TypeOK, flagVars, requestVars, fileVars, bufferVars
<1>. QED
  BY <1>1, <1>2, <1>3, <1>4, <1>5, <1>6, <1>7, <1>8, <1>9, <1>10, <1>11,
     <1>12
     DEF Next, NodeThread

-----------------------------------------------------------------------------
(* The inductive invariant, one lemma per action that disturbs it. *)

Safe == ControlInv /\ OffsetInv /\ ContentInv /\ BufferBounded
          /\ RequestFollowsBuffer /\ PrefixInstalled /\ DoneMeansInstalled

LEMMA Safe_Accept ==
  ASSUME IInv, NEW node \in RequestNodes, NEW f \in Names,
         AcceptBeginFirmwareUpdate(node, f)
  PROVE  Safe'
<1>. USE FirmwareUpdateAssumption DEF AcceptBeginFirmwareUpdate, fileVars, bufferVars
<1>1. globalsInitial /\ ~file_request_pending /\ node_pc \in {"loop", "failed2"}
  BY DEF IInv, ControlInv
<1>2. ControlInv'
  BY <1>1 DEF ControlInv, globalsInitial
<1>3. OffsetInv' /\ BufferBounded'
  BY <1>1 DEF IInv, OffsetInv, BufferBounded
<1>4. ContentInv'
  BY <1>1 DEF ContentInv, globalsInitial, Names
<1>5. RequestFollowsBuffer'
  BY <1>1 DEF RequestFollowsBuffer, globalsInitial
<1>6. PrefixInstalled' /\ DoneMeansInstalled'
  BY <1>1 DEF PrefixInstalled, DoneMeansInstalled, globalsInitial, Holds
<1>. QED  BY <1>2, <1>3, <1>4, <1>5, <1>6 DEF Safe

(* An answer is appended behind the bytes before it, or it is not of the   *)
(* range asked for and the update is mixed.                                *)
LEMMA Safe_Answer ==
  ASSUME IInv, Answer
  PROVE  Safe'
<1>. USE FirmwareUpdateAssumption
<1>. DEFINE read == Head(file_reads)
<1>1. read \in Request
  BY DEF IInv, TypeOK, Answer
<1>2. PICK error \in BOOLEAN : onFileRead(read, error)
  BY DEF Answer
<1>3. UNCHANGED <<flagVars, requestVars, flash, node_pc>>
  BY DEF Answer
<1>. DEFINE len == IF error THEN 0 ELSE AnswerLength(read.file, read.offset)
<1>4. CASE ~file_request_pending
  <2>1. UNCHANGED <<fileVars, bufferVars, mixed>>
    BY <1>2, <1>4 DEF onFileRead
  <2>. QED
    BY <1>3, <2>1 DEF IInv, Safe, ControlInv, OffsetInv, ContentInv, BufferBounded,
         RequestFollowsBuffer, PrefixInstalled, DoneMeansInstalled, Holds,
         globalsInitial, enoughData, flagVars, requestVars, fileVars, bufferVars
<1>5. CASE file_request_pending
  <2>1. FirmwareUpdate /\ node_pc = "loop" /\ ~file_eof /\ request_file_name \in Names
    BY <1>5 DEF IInv, ControlInv, TypeOK
  <2>2. /\ firmware_buffer' =
             [i \in BufferIdx |->
                IF i \in firmware_buffer_ptr .. firmware_buffer_ptr + len - 1
                THEN <<read.file, read.offset + (i - firmware_buffer_ptr)>>
                ELSE firmware_buffer[i]]
        /\ firmware_buffer_ptr' = firmware_buffer_ptr + len
        /\ file_request_pending' = FALSE
        /\ UNCHANGED <<file_request_ptr, firmware_write_offset>>
    BY <1>2, <1>5 DEF onFileRead
  <2>3. file_eof' <=> len # CHUNK
    BY <1>2, <1>5, <2>1 DEF onFileRead
  <2>4. ~mixed' => /\ ~mixed /\ ~error
                   /\ read.file = request_file_name
                   /\ read.offset = file_request_ptr - CHUNK
    BY <1>2, <1>5 DEF onFileRead
  <2>5. len \in 0 .. CHUNK
    BY <1>1, AnswerLengthFacts DEF Request
  <2>6. /\ firmware_buffer_ptr \in Nat /\ firmware_write_offset \in Nat
        /\ firmware_buffer_ptr + CHUNK <= FLASH_PAGE_SIZE
        /\ file_request_ptr = firmware_write_offset + firmware_buffer_ptr + CHUNK
        /\ firmware_buffer_ptr % CHUNK = 0
        /\ firmware_write_offset % FLASH_PAGE_SIZE = 0
    BY <1>5, <2>1 DEF IInv, TypeOK, BufferBounded, RequestFollowsBuffer, OffsetInv
  <2>7. ~mixed' => len = AnswerLength(request_file_name,
                                      firmware_write_offset + firmware_buffer_ptr)
    BY <2>4, <2>6
  <2>. HIDE DEF len, read
  <2>8. ControlInv'
    BY <1>3, <2>1, <2>2 DEF ControlInv, flagVars, requestVars
  <2>9. OffsetInv'
    <3>1. (firmware_buffer_ptr + CHUNK) % CHUNK = 0
      BY <2>6, NextMultiple
    <3>. QED  BY <2>2, <2>3, <2>6, <3>1 DEF OffsetInv
  <2>10. BufferBounded'
    BY <2>2, <2>5, <2>6 DEF BufferBounded
  <2>11. RequestFollowsBuffer'
    BY <2>2, <2>3, <2>6 DEF RequestFollowsBuffer
  <2>12. ContentInv'
    <3>. SUFFICES ASSUME ~mixed'
                  PROVE  LET f == request_file_name'
                             got == firmware_write_offset' + firmware_buffer_ptr'
                         IN  /\ \A i \in 0 .. firmware_buffer_ptr' - 1 :
                                   firmware_buffer'[i] = <<f, firmware_write_offset' + i>>
                             /\ got <= FileSize[f]
                             /\ file_eof' => got = FileSize[f]
      BY DEF ContentInv
    <3>. DEFINE f == request_file_name
                off == firmware_write_offset + firmware_buffer_ptr
    <3>1. /\ \A i \in 0 .. firmware_buffer_ptr - 1 :
               firmware_buffer[i] = <<f, firmware_write_offset + i>>
          /\ off <= FileSize[f]
      BY <2>1, <2>4 DEF IInv, ContentInv
    <3>2. off + len <= FileSize[f] /\ (len # CHUNK => off + len = FileSize[f])
      <4>1. off \in Nat  BY <2>6
      <4>. QED  BY <2>1, <2>7, <3>1, <4>1, AnswerLengthFacts
    <3>3. ASSUME NEW i \in 0 .. firmware_buffer_ptr + len - 1
          PROVE  firmware_buffer'[i] = <<f, firmware_write_offset + i>>
      <4>1. i \in BufferIdx
        BY <2>5, <2>6 DEF BufferIdx
      <4>2. CASE i < firmware_buffer_ptr
        <5>1. firmware_buffer'[i] = firmware_buffer[i]
          BY <2>2, <2>6, <4>1, <4>2
        <5>. QED  BY <3>1, <4>2, <5>1, <2>6
      <4>3. CASE i >= firmware_buffer_ptr
        <5>1. firmware_buffer'[i] = <<read.file, read.offset + (i - firmware_buffer_ptr)>>
          BY <2>2, <2>5, <2>6, <4>1, <4>3
        <5>2. read.offset + (i - firmware_buffer_ptr) = firmware_write_offset + i
          BY <2>4, <2>6
        <5>. QED  BY <5>1, <5>2, <2>4
      <4>. QED  BY <4>2, <4>3, <2>6
    <3>. QED
      BY <1>3, <2>2, <2>3, <2>5, <2>6, <3>2, <3>3 DEF requestVars
  <2>13. PrefixInstalled' /\ DoneMeansInstalled'
    <3>1. ~mixed' => Holds(request_file_name, firmware_write_offset)
      BY <2>1, <2>4 DEF IInv, PrefixInstalled
    <3>. QED
      BY <1>3, <2>1, <2>2, <3>1 DEF PrefixInstalled, DoneMeansInstalled, Holds,
                                    flagVars, requestVars
  <2>. QED  BY <2>8, <2>9, <2>10, <2>11, <2>12, <2>13 DEF Safe
<1>. QED  BY <1>4, <1>5

LEMMA Safe_RequestMore ==
  ASSUME IInv, RequestMore
  PROVE  Safe'
<1>. USE FirmwareUpdateAssumption
<1>1. /\ FirmwareUpdate /\ node_pc = "loop" /\ ~file_request_pending
      /\ ~file_eof /\ firmware_buffer_ptr # FLASH_PAGE_SIZE
      /\ file_request_pending' = TRUE
      /\ file_request_ptr' = file_request_ptr + CHUNK
      /\ UNCHANGED <<flagVars, requestVars, file_eof, bufferVars, flash, node_pc, mixed>>
  BY DEF RequestMore, processing, enoughData
<1>2. firmware_buffer_ptr \in Nat /\ firmware_write_offset \in Nat
      /\ file_request_ptr \in Nat
  BY DEF IInv, TypeOK
<1>3. firmware_buffer_ptr + CHUNK <= FLASH_PAGE_SIZE
  <2>1. firmware_buffer_ptr % CHUNK = 0 /\ firmware_buffer_ptr < FLASH_PAGE_SIZE
    BY <1>1, <1>2 DEF IInv, OffsetInv, BufferBounded
  <2>. QED  BY <1>2, <2>1, RoomForOne
<1>4. BufferBounded' /\ RequestFollowsBuffer'
  BY <1>1, <1>2, <1>3 DEF IInv, BufferBounded, RequestFollowsBuffer, bufferVars
<1>5. ControlInv' /\ OffsetInv'
  BY <1>1 DEF IInv, ControlInv, OffsetInv, flagVars, requestVars, bufferVars
<1>6. ContentInv'
  BY <1>1 DEF IInv, ContentInv, flagVars, requestVars, bufferVars
<1>7. PrefixInstalled' /\ DoneMeansInstalled'
  BY <1>1 DEF IInv, PrefixInstalled, DoneMeansInstalled, Holds,
              flagVars, requestVars, bufferVars
<1>. QED  BY <1>4, <1>5, <1>6, <1>7 DEF Safe

(* The buffer is in the flash: either the image is complete, or one more   *)
(* whole page of it is installed.                                          *)
LEMMA Safe_PageInFlash ==
  ASSUME IInv, PageInFlash, flash_verify_block, enoughData,
         FirmwareUpdate, ~file_request_pending,
         firmware_write_offset + firmware_buffer_ptr <= FLASH_SIZE,
         UNCHANGED <<flagVars, requestVars, flash, mixed>>
  PROVE  Safe'
<1>. USE FirmwareUpdateAssumption
<1>1. /\ firmware_buffer_ptr \in Nat /\ firmware_write_offset \in Nat
      /\ file_request_ptr \in Nat /\ firmware_buffer_ptr <= FLASH_PAGE_SIZE
      /\ firmware_write_offset % FLASH_PAGE_SIZE = 0
      /\ request_file_name \in Names
      /\ FLASH_SIZE \in Nat
  BY DEF IInv, TypeOK, BufferBounded, OffsetInv, ControlInv
<1>. DEFINE f == request_file_name
            got == firmware_write_offset + firmware_buffer_ptr
<1>2. ASSUME ~mixed  PROVE Holds(f, got)
  <2>1. Holds(f, firmware_write_offset)
    BY <1>2 DEF IInv, PrefixInstalled
  <2>2. \A k \in 0 .. firmware_buffer_ptr - 1 :
          firmware_buffer[k] = <<f, firmware_write_offset + k>>
    BY <1>2 DEF IInv, ContentInv
  <2>. SUFFICES ASSUME NEW a \in 0 .. got - 1
                PROVE  a \in Offsets /\ flash[a] = <<f, a>>
    BY DEF Holds
  <2>3. a \in Offsets
    BY <1>1 DEF Offsets
  <2>4. CASE a < firmware_write_offset
    BY <2>1, <2>3, <2>4, <1>1 DEF Holds
  <2>5. CASE a >= firmware_write_offset
    <3>1. a \in DataCells /\ a - firmware_write_offset \in 0 .. firmware_buffer_ptr - 1
      BY <1>1, <2>5 DEF DataCells
    <3>2. flash[a] = firmware_buffer[a - firmware_write_offset]
      BY <3>1 DEF flash_verify_block
    <3>3. firmware_write_offset + (a - firmware_write_offset) = a
      BY <1>1
    <3>. QED  BY <2>2, <2>3, <3>1, <3>2, <3>3
  <2>. QED  BY <2>4, <2>5, <1>1
<1>3. CASE file_eof
  <2>1. initGlobals /\ node_pc' = "done1"
    BY <1>3 DEF PageInFlash
  <2>2. ControlInv'
    BY <1>1, <2>1 DEF ControlInv, initGlobals, globalsInitial, flagVars, requestVars
  <2>3. OffsetInv' /\ BufferBounded'
    BY <2>1 DEF OffsetInv, BufferBounded, initGlobals
  <2>4. ContentInv' /\ RequestFollowsBuffer' /\ PrefixInstalled'
    <3>1. FileSize[f] \in Nat
      BY <1>1 DEF Names
    <3>. QED
      BY <2>1, <3>1 DEF ContentInv, RequestFollowsBuffer, PrefixInstalled, Holds,
                        initGlobals, requestVars, flagVars
  <2>5. DoneMeansInstalled'
    <3>1. ~mixed => got = FileSize[f]
      BY <1>3 DEF IInv, ContentInv
    <3>. QED  BY <1>2, <3>1 DEF DoneMeansInstalled, Holds, requestVars
  <2>. QED  BY <2>2, <2>3, <2>4, <2>5 DEF Safe
<1>4. CASE ~file_eof
  <2>1. /\ firmware_write_offset' = firmware_write_offset + firmware_buffer_ptr
        /\ firmware_buffer_ptr' = 0
        /\ node_pc' = "loop"
        /\ UNCHANGED <<fileVars, firmware_buffer>>
    BY <1>4 DEF PageInFlash
  <2>2. firmware_buffer_ptr = FLASH_PAGE_SIZE
    BY <1>4 DEF enoughData
  <2>3. ControlInv'
    BY <1>1, <1>4, <2>1 DEF ControlInv, flagVars, requestVars, fileVars
  <2>4. OffsetInv' /\ BufferBounded'
    <3>1. (firmware_write_offset + FLASH_PAGE_SIZE) % FLASH_PAGE_SIZE = 0
      BY <1>1, NextMultiple
    <3>2. firmware_write_offset' % FLASH_PAGE_SIZE = 0
      BY <2>1, <2>2, <3>1
    <3>. QED
      BY <2>1, <3>2 DEF OffsetInv, BufferBounded, fileVars
  <2>5. RequestFollowsBuffer'
    BY <1>1, <1>4, <2>1 DEF IInv, RequestFollowsBuffer, fileVars
  <2>6. ContentInv'
    <3>1. ~mixed => got <= FileSize[f]
      BY DEF IInv, ContentInv
    <3>. QED  BY <1>1, <1>4, <2>1, <3>1 DEF ContentInv, fileVars, requestVars
  <2>7. PrefixInstalled' /\ DoneMeansInstalled'
    BY <1>2, <2>1 DEF PrefixInstalled, DoneMeansInstalled, Holds, requestVars
  <2>. QED  BY <2>3, <2>4, <2>5, <2>6, <2>7 DEF Safe
<1>. QED  BY <1>3, <1>4

LEMMA Safe_VerifyPage ==
  ASSUME IInv, VerifyPage
  PROVE  Safe'
<1>1. UNCHANGED <<flagVars, requestVars, flash, file_reads, mixed>> /\ processing
      /\ enoughData
  BY DEF VerifyPage
<1>2. CASE flash_verify_block /\ PageInFlash
           /\ firmware_write_offset + firmware_buffer_ptr <= FLASH_SIZE
  BY <1>1, <1>2, Safe_PageInFlash DEF processing
<1>3. CASE /\ UNCHANGED <<fileVars, bufferVars>>
           /\ \/ node_pc' = "fault"
              \/ /\ node_pc' = "erase"
                 /\ firmware_write_offset + firmware_buffer_ptr <= FLASH_SIZE
  BY <1>1, <1>3 DEF IInv, Safe, ControlInv, OffsetInv, ContentInv, BufferBounded,
       RequestFollowsBuffer, PrefixInstalled, DoneMeansInstalled, Holds, processing,
       globalsInitial, enoughData, flagVars, requestVars, fileVars, bufferVars
<1>. QED  BY <1>2, <1>3 DEF VerifyPage

(* Erasing and writing the page at firmware_write_offset leaves the prefix *)
(* before it alone.                                                        *)
LEMMA Safe_FlashStep ==
  ASSUME IInv, node_pc \in {"erase", "write"}, node_pc' \in {"write", "check"},
         UNCHANGED <<flagVars, requestVars, fileVars, bufferVars, mixed>>,
         \A a \in Offsets : a < firmware_write_offset => flash'[a] = flash[a]
  PROVE  Safe'
<1>. USE FirmwareUpdateAssumption
<1>1. ControlInv' /\ OffsetInv' /\ ContentInv' /\ BufferBounded' /\ RequestFollowsBuffer'
  BY DEF IInv, ControlInv, OffsetInv, ContentInv, BufferBounded, RequestFollowsBuffer,
         globalsInitial, enoughData, flagVars, requestVars, fileVars, bufferVars
<1>2. PrefixInstalled'
  <2>1. firmware_write_offset \in Nat
    BY DEF IInv, TypeOK
  <2>. QED
    BY <2>1 DEF IInv, PrefixInstalled, Holds, flagVars, requestVars, bufferVars
<1>3. DoneMeansInstalled'
  BY DEF DoneMeansInstalled
<1>. QED  BY <1>1, <1>2, <1>3 DEF Safe

LEMMA Safe_Erase ==
  ASSUME IInv, flash_erase_page
  PROVE  Safe'
<1>. USE FirmwareUpdateAssumption
<1>1. PageBase = firmware_write_offset /\ firmware_write_offset \in Nat
  BY PageBaseIsOffset DEF IInv, TypeOK
<1>2. ASSUME NEW a \in Offsets, a < firmware_write_offset
      PROVE  flash'[a] = flash[a]
  BY <1>1, <1>2 DEF flash_erase_page, PageCells, Offsets
<1>. QED  BY <1>2, Safe_FlashStep DEF flash_erase_page

LEMMA Safe_Write ==
  ASSUME IInv, flash_write_block
  PROVE  Safe'
<1>. USE FirmwareUpdateAssumption
<1>1. PageBase = firmware_write_offset /\ firmware_write_offset \in Nat
  BY PageBaseIsOffset DEF IInv, TypeOK
<1>2. ASSUME NEW a \in Offsets, a < firmware_write_offset
      PROVE  flash'[a] = flash[a]
  <2>1. Written(firmware_buffer_ptr)[a] = flash[a]
    BY <1>1, <1>2 DEF Written, Offsets
  <2>2. a \notin PageCells
    BY <1>1, <1>2 DEF PageCells
  <2>. QED  BY <2>1, <2>2 DEF flash_write_block
<1>. QED  BY <1>2, Safe_FlashStep DEF flash_write_block

LEMMA Safe_CheckPage ==
  ASSUME IInv, CheckPage
  PROVE  Safe'
<1>. USE FirmwareUpdateAssumption
<1>1. /\ FirmwareUpdate /\ ~file_request_pending /\ enoughData
      /\ firmware_write_offset + firmware_buffer_ptr <= FLASH_SIZE
      /\ UNCHANGED <<flagVars, requestVars, flash, file_reads, mixed>>
  BY DEF IInv, ControlInv, CheckPage
<1>2. CASE flash_verify_block
  BY <1>1, <1>2, Safe_PageInFlash DEF CheckPage
<1>3. CASE ~flash_verify_block
  <2>1. initGlobals /\ node_pc' = "failed1"
    BY <1>3 DEF CheckPage
  <2>2. ControlInv' /\ OffsetInv' /\ BufferBounded' /\ RequestFollowsBuffer'
    BY <1>1, <2>1 DEF IInv, ControlInv, OffsetInv, BufferBounded, RequestFollowsBuffer,
                      initGlobals, globalsInitial, flagVars, requestVars
  <2>3. ContentInv' /\ PrefixInstalled' /\ DoneMeansInstalled'
    <3>1. FileSize[request_file_name] \in Nat
      BY DEF IInv, TypeOK, Names
    <3>. QED
      BY <1>1, <2>1, <3>1 DEF ContentInv, PrefixInstalled, DoneMeansInstalled, Holds,
                         initGlobals, flagVars, requestVars
  <2>. QED  BY <2>2, <2>3 DEF Safe
<1>. QED  BY <1>2, <1>3

LEMMA Safe_End ==
  ASSUME IInv, ForgetRequest \/ EndUpdate \/ FailUpdate \/ ForgetFailedRequest
  PROVE  Safe'
BY DEF ForgetRequest, EndUpdate, FailUpdate, ForgetFailedRequest, IInv, Safe,
       ControlInv, OffsetInv, ContentInv, BufferBounded, RequestFollowsBuffer,
       PrefixInstalled, DoneMeansInstalled, Holds, globalsInitial, enoughData,
       flagVars, requestVars, fileVars, bufferVars

LEMMA Safe_Restart ==
  ASSUME Restart
  PROVE  Safe'
<1>. USE FirmwareUpdateAssumption
<1>1. /\ file_request_ptr' = 0 /\ ~file_request_pending' /\ ~file_eof'
      /\ firmware_buffer_ptr' = 0 /\ firmware_write_offset' = 0 /\ node_pc' = "loop"
      /\ request_file_name' \in Names
  BY DEF Restart, ResetStatics
<1>2. ControlInv' /\ OffsetInv' /\ BufferBounded' /\ RequestFollowsBuffer'
  BY <1>1 DEF ControlInv, OffsetInv, BufferBounded, RequestFollowsBuffer, globalsInitial
<1>3. ContentInv' /\ PrefixInstalled' /\ DoneMeansInstalled'
  BY <1>1 DEF ContentInv, PrefixInstalled, DoneMeansInstalled, Holds, Names
<1>. QED  BY <1>2, <1>3 DEF Safe

LEMMA Safe_StoreRequest ==
  ASSUME IInv, NEW node \in RequestNodes, NEW f \in Names, StoreRequest(node, f)
  PROVE  Safe'
BY DEF StoreRequest, IInv, Safe, ControlInv, OffsetInv, ContentInv, BufferBounded,
       RequestFollowsBuffer, PrefixInstalled, DoneMeansInstalled, Holds,
       globalsInitial, enoughData, flagVars, fileVars, bufferVars

LEMMA Safe_Unchanged ==
  ASSUME IInv, Lose \/ UNCHANGED fuVars
  PROVE  Safe'
BY DEF Lose, fuVars, IInv, Safe, ControlInv, OffsetInv, ContentInv, BufferBounded,
       RequestFollowsBuffer, PrefixInstalled, DoneMeansInstalled, Holds,
       globalsInitial, enoughData, flagVars, requestVars, fileVars, bufferVars

-----------------------------------------------------------------------------

LEMMA IInv_init == Init => IInv
<1>. SUFFICES ASSUME Init  PROVE IInv
  OBVIOUS
<1>. USE FirmwareUpdateAssumption DEF Init
<1>1. TypeOK
  <2>1. file_reads \in Seq(Request)
    <3>1. file_reads = << >>  BY DEF Init
    <3>. QED  BY <3>1
  <2>2. /\ firmware_buffer \in [BufferIdx -> Cell]
        /\ flash \in [Offsets -> Cell]
    BY DEF Cell
  <2>. QED  BY <2>1, <2>2 DEF TypeOK, NodePc, RequestNodes, Names
<1>2. Safe
  BY DEF Safe, ControlInv, OffsetInv, ContentInv, BufferBounded, globalsInitial,
         RequestFollowsBuffer, PrefixInstalled, DoneMeansInstalled
<1>. QED  BY <1>1, <1>2 DEF IInv, Safe

LEMMA IInv_step == IInv /\ [Next]_fuVars => IInv'
<1>. SUFFICES ASSUME IInv, [Next]_fuVars  PROVE IInv'
  OBVIOUS
<1>1. TypeOK'
  BY TypeOK_step DEF IInv
<1>2. Safe'
  <2>1. ASSUME NEW node \in RequestNodes, NEW f \in Names,
               AcceptBeginFirmwareUpdate(node, f)
        PROVE  Safe'
    BY <2>1, Safe_Accept
  <2>2. CASE Answer         BY <2>2, Safe_Answer
  <2>3. CASE RequestMore    BY <2>3, Safe_RequestMore
  <2>4. CASE VerifyPage     BY <2>4, Safe_VerifyPage
  <2>5. CASE flash_erase_page   BY <2>5, Safe_Erase
  <2>6. CASE flash_write_block  BY <2>6, Safe_Write
  <2>7. CASE CheckPage      BY <2>7, Safe_CheckPage
  <2>8. CASE ForgetRequest \/ EndUpdate \/ FailUpdate \/ ForgetFailedRequest
    BY <2>8, Safe_End
  <2>9. CASE Restart        BY <2>9, Safe_Restart
  <2>10. CASE Lose \/ UNCHANGED fuVars  BY <2>10, Safe_Unchanged
  <2>11. ASSUME NEW node \in RequestNodes, NEW f \in Names, StoreRequest(node, f)
         PROVE  Safe'
    BY <2>11, Safe_StoreRequest
  <2>. QED
    BY <2>1, <2>2, <2>3, <2>4, <2>5, <2>6, <2>7, <2>8, <2>9, <2>10, <2>11
       DEF Next, NodeThread
<1>. QED  BY <1>1, <1>2 DEF IInv, Safe

(* The inductive invariant holds of every behaviour. *)
THEOREM UpdateInvariant == Spec => []IInv
<1>. QED  BY IInv_init, IInv_step, PTL DEF Spec

(* Every variable of the update keeps its type. *)
THEOREM TypeCorrect == Spec => []TypeOK
<1>1. IInv => TypeOK  BY DEF IInv
<1>. QED  BY <1>1, UpdateInvariant, PTL

(* onFileRead never writes behind firmware_buffer, for any page and chunk  *)
(* size and any sequence of answers and resets.                            *)
THEOREM NoOverrun == Spec => []BufferBounded
<1>1. IInv => BufferBounded  BY DEF IInv
<1>. QED  BY <1>1, UpdateInvariant, PTL

(* An update that reports FIRMWARE_UPDATE_DONE_SUCCESS, and took only the  *)
(* data it asked for, has the whole image in the flash.                    *)
THEOREM SuccessInstalls == Spec => []DoneMeansInstalled
<1>1. IInv => DoneMeansInstalled  BY DEF IInv
<1>. QED  BY <1>1, UpdateInvariant, PTL

(* The next read always asks for the byte after those in the flash, in the *)
(* buffer and on their way (requestFileRead, processFirmwareUpdate).       *)
THEOREM OffsetsAgree == Spec => []RequestFollowsBuffer
<1>1. IInv => RequestFollowsBuffer  BY DEF IInv
<1>. QED  BY <1>1, UpdateInvariant, PTL

(* While an update runs, and took only the data it asked for, all of the   *)
(* flash before firmware_write_offset is the image, whatever resets and    *)
(* half-written pages came before.                                         *)
THEOREM BeginningInstalled == Spec => []PrefixInstalled
<1>1. IInv => PrefixInstalled  BY DEF IInv
<1>. QED  BY <1>1, UpdateInvariant, PTL

-----------------------------------------------------------------------------
(* What is installed stays installed; and with a server that does not fail *)
(* and no answer that outlives a reset, the update takes its answers in    *)
(* order and implements ImageInstall.                                      *)

-----------------------------------------------------------------------------
(* Steps that change the flash *)

(* The page being replaced begins at firmware_write_offset. *)
LEMMA PageBegins ==
  ASSUME IInv
  PROVE  PageCells = firmware_write_offset .. firmware_write_offset + FLASH_PAGE_SIZE - 1
<1>1. firmware_write_offset % FLASH_PAGE_SIZE = 0 /\ firmware_write_offset \in Nat
  BY DEF IInv, OffsetInv, TypeOK
<1>2. PageBase = firmware_write_offset
  BY <1>1 DEF PageBase
<1>. QED  BY <1>2 DEF PageCells

(* Only cells of the page at firmware_write_offset ever change. *)
LEMMA FlashStep ==
  ASSUME IInv, [Next]_fuVars
  PROVE  \/ flash' = flash
         \/ /\ FirmwareUpdate /\ node_pc \in {"erase", "write"}
            /\ \A a \in Offsets : a \notin PageCells => flash'[a] = flash[a]
<1>. USE FirmwareUpdateAssumption
<1>1. /\ firmware_write_offset \in Nat /\ firmware_buffer_ptr \in Nat
      /\ firmware_buffer_ptr <= FLASH_PAGE_SIZE /\ FLASH_PAGE_SIZE \in Nat
      /\ node_pc \in {"erase", "write"} => FirmwareUpdate
  BY DEF IInv, TypeOK, BufferBounded, ControlInv
<1>2. ASSUME NEW n \in 0 .. firmware_buffer_ptr, NEW a \in Offsets, a \notin PageCells
      PROVE  Written(n)[a] = flash[a]
  <2>1. a \notin firmware_write_offset .. firmware_write_offset + n - 1
    BY <1>1, <1>2, PageBegins
  <2>. QED  BY <2>1 DEF Written
<1>3. CASE flash_erase_page
  BY <1>1, <1>3 DEF flash_erase_page
<1>4. CASE flash_write_block
  <2>1. ASSUME NEW a \in Offsets, a \notin PageCells
        PROVE  flash'[a] = flash[a]
    <3>1. Written(firmware_buffer_ptr)[a] = flash[a]
      BY <1>1, <1>2, <2>1
    <3>. QED  BY <1>4, <2>1, <3>1 DEF flash_write_block
  <2>. QED  BY <1>1, <1>4, <2>1 DEF flash_write_block
<1>5. CASE Restart
  <2>1. CASE UNCHANGED flash  BY <2>1
  <2>2. CASE node_pc = "write" /\ \E n \in 1 .. firmware_buffer_ptr : flash' = Written(n)
    BY <1>1, <1>2, <2>2
  <2>. QED  BY <1>5, <2>1, <2>2 DEF Restart, ResetStatics
<1>6. CASE \/ \E node \in RequestNodes, f \in Names :
                AcceptBeginFirmwareUpdate(node, f) \/ StoreRequest(node, f)
           \/ Answer \/ Lose \/ RequestMore \/ VerifyPage \/ CheckPage
           \/ ForgetRequest \/ EndUpdate \/ FailUpdate \/ ForgetFailedRequest
           \/ UNCHANGED fuVars
  BY <1>6 DEF AcceptBeginFirmwareUpdate, StoreRequest, Answer, Lose, RequestMore,
              VerifyPage, CheckPage, ForgetRequest, EndUpdate, FailUpdate,
              ForgetFailedRequest, fuVars
<1>. QED  BY <1>3, <1>4, <1>5, <1>6 DEF Next, NodeThread

(* No step of a running update touches a page that is done: not even one   *)
(* taken with wrong data, or a reset in the middle of a write.             *)
THEOREM NothingUndone == Spec => InstalledStays
<1>1. IInv /\ [Next]_fuVars =>
        [\A a \in Offsets :
           (FirmwareUpdate /\ FirmwareUpdate' /\ a < firmware_write_offset)
             => flash'[a] = flash[a]]_fuVars
  <2>. SUFFICES ASSUME IInv, [Next]_fuVars,
                       NEW a \in Offsets, a < firmware_write_offset
                PROVE  flash'[a] = flash[a]
    OBVIOUS
  <2>1. a \notin PageCells
    <3>1. firmware_write_offset \in Nat /\ a \in Int
      BY FirmwareUpdateAssumption DEF IInv, TypeOK, Offsets
    <3>. QED  BY <3>1, PageBegins, FirmwareUpdateAssumption
  <2>. QED  BY <2>1, FlashStep
<1>. QED  BY <1>1, UpdateInvariant, PTL DEF Spec, InstalledStays

-----------------------------------------------------------------------------
(* Answers in order *)

(* The read that is pending is the only one there is. *)
QuietInv ==
  /\ ~mixed
  /\ ~file_request_pending => file_reads = << >>
  /\ file_request_pending =>
       file_reads \in {<< >>, <<[file   |-> request_file_name,
                                 offset |-> file_request_ptr - CHUNK]>>}

LEMMA OneElement ==
  ASSUME NEW S, NEW e \in S
  PROVE  <<e>> # << >> /\ Head(<<e>>) = e /\ Tail(<<e>>) = << >>
<1>1. <<e>> \in Seq(S) /\ Len(<<e>>) = 1  OBVIOUS
<1>2. Tail(<<e>>) \in Seq(S) /\ Len(Tail(<<e>>)) = 0  BY <1>1
<1>3. Tail(<<e>>) = << >>  BY <1>2
<1>. QED  BY <1>3

LEMMA QuietInv_step ==
  ASSUME ~ServerErrors, ~LateAnswers, IInv, QuietInv, [Next]_fuVars
  PROVE  QuietInv'
<1>1. /\ ~FirmwareUpdate \/ node_pc # "loop" => ~file_request_pending
      /\ file_request_ptr \in Nat
  BY DEF IInv, ControlInv, TypeOK
<1>2. ASSUME NEW node \in RequestNodes, NEW f \in Names,
             AcceptBeginFirmwareUpdate(node, f) \/ StoreRequest(node, f)
      PROVE  QuietInv'
  BY <1>1, <1>2 DEF AcceptBeginFirmwareUpdate, StoreRequest, QuietInv, fileVars
<1>3. CASE Answer
  <2>. DEFINE read  == Head(file_reads)
              asked == [file |-> request_file_name, offset |-> file_request_ptr - CHUNK]
  <2>1. /\ file_request_pending /\ file_reads' = << >>
        /\ read = asked
    <3>1. file_request_pending /\ file_reads = <<asked>> /\ file_reads' = Tail(file_reads)
      BY <1>3 DEF Answer, QuietInv
    <3>. HIDE DEF asked
    <3>. QED  BY <3>1, OneElement
  <2>2. onFileRead(read, FALSE)
    BY <1>3 DEF Answer
  <2>3. ~file_request_pending' /\ ~mixed'
    BY <2>1, <2>2 DEF onFileRead, QuietInv
  <2>. QED  BY <2>1, <2>3 DEF QuietInv
<1>4. CASE Lose
  <2>1. file_reads' = << >> /\ file_request_pending
    <3>. DEFINE asked == [file |-> request_file_name, offset |-> file_request_ptr - CHUNK]
    <3>1. file_request_pending /\ file_reads = <<asked>> /\ file_reads' = Tail(file_reads)
      BY <1>4 DEF Lose, QuietInv
    <3>. HIDE DEF asked
    <3>. QED  BY <3>1, OneElement
  <2>. QED  BY <1>4, <2>1 DEF Lose, QuietInv, fileVars
<1>5. CASE RequestMore
  <2>1. file_reads = << >> /\ file_request_pending' /\ UNCHANGED request_file_name
    BY <1>5 DEF RequestMore, processing, QuietInv, requestVars
  <2>2. file_request_ptr' - CHUNK = file_request_ptr
    BY <1>1, <1>5, FirmwareUpdateAssumption DEF RequestMore
  <2>3. file_reads' \in {<< >>, <<[file   |-> request_file_name,
                                  offset |-> file_request_ptr]>>}
    BY <1>5, <2>1 DEF RequestMore, requestFileRead
  <2>. QED  BY <1>5, <2>1, <2>2, <2>3 DEF RequestMore, QuietInv
<1>6. CASE VerifyPage \/ CheckPage
  <2>1. /\ ~file_request_pending
        /\ UNCHANGED <<file_request_pending, file_reads, mixed>>
    BY <1>1, <1>6 DEF VerifyPage, CheckPage, PageInFlash, initGlobals, processing,
                      fileVars
  <2>. QED  BY <2>1 DEF QuietInv
<1>7. CASE \/ flash_erase_page \/ flash_write_block \/ ForgetRequest \/ EndUpdate
           \/ FailUpdate \/ ForgetFailedRequest \/ UNCHANGED fuVars
  BY <1>7 DEF flash_erase_page, flash_write_block, ForgetRequest, EndUpdate,
              FailUpdate, ForgetFailedRequest, fuVars, fileVars, requestVars, QuietInv
<1>8. CASE Restart
  BY <1>8 DEF Restart, ResetStatics, QuietInv
<1>. QED
  BY <1>2, <1>3, <1>4, <1>5, <1>6, <1>7, <1>8 DEF Next, NodeThread

LEMMA QuietInvariant ==
  ASSUME ~ServerErrors, ~LateAnswers
  PROVE  Spec => []QuietInv
<1>1. Init => QuietInv
  BY DEF Init, QuietInv
<1>2. IInv /\ QuietInv /\ [Next]_fuVars => QuietInv'
  BY QuietInv_step
<1>. QED  BY <1>1, <1>2, UpdateInvariant, PTL DEF Spec

(* With a server that does not fail and no answer that outlives a reset,   *)
(* the flag file_request_pending is enough to keep every answer with the   *)
(* request it belongs to, whatever is lost.                                *)
THEOREM InOrder ==
  ASSUME ~ServerErrors, ~LateAnswers
  PROVE  Spec => []AnswersInOrder
<1>1. QuietInv => AnswersInOrder  BY DEF QuietInv, AnswersInOrder
<1>. QED  BY <1>1, QuietInvariant, PTL

-----------------------------------------------------------------------------
(* The update is an install *)

(* A multiple of P below another is a page number times P. *)
LEMMA PageNumber ==
  ASSUME NEW P \in Nat \ {0}, NEW w \in Nat, NEW size \in Nat,
         w % P = 0, size % P = 0, w < size
  PROVE  \E p \in 0 .. (size \div P) - 1 : p * P = w /\ (p + 1) * P = w + P
<1>. DEFINE p == w \div P
            s == size \div P
<1>1. p \in Int /\ s \in Int  OBVIOUS
<1>2. w = P * p + (w % P) /\ size = P * s + (size % P)  OBVIOUS
<1>. HIDE DEF p, s
<1>3. w = P * p /\ size = P * s  BY <1>1, <1>2
<1>4. p < s
  <2>1. ASSUME s <= p  PROVE FALSE
    <3>1. P * s <= P * p  BY <2>1, <1>1
    <3>. QED  BY <3>1, <1>3
  <2>. QED  BY <2>1, <1>1
<1>5. p >= 0
  <2>1. ASSUME p <= -1  PROVE FALSE
    <3>1. P * p <= P * (-1)  BY <2>1, <1>1
    <3>. QED  BY <3>1, <1>3
  <2>. QED  BY <2>1, <1>1
<1>6. p * P = w /\ (p + 1) * P = w + P  BY <1>1, <1>3
<1>7. p \in 0 .. s - 1  BY <1>1, <1>4, <1>5
<1>. QED  BY <1>6, <1>7 DEF s

(* Whatever changes the flash, also a reset in the middle, changes one page *)
(* and finds the image in all pages before it.                              *)
LEMMA PageStep ==
  ASSUME IInv, IInv', QuietInv, [Next]_fuVars, flash' # flash
  PROVE  /\ FirmwareUpdate /\ node_pc \in {"erase", "write"}
         /\ target = request_file_name /\ target # NoInstall
         /\ \E p \in Abstract!Pages :
              /\ Abstract!Installed(target, p * FLASH_PAGE_SIZE)
              /\ \A a \in Offsets \ Abstract!PageOf(p) : flash'[a] = flash[a]
<1>. USE FirmwareUpdateAssumption
<1>1. /\ FirmwareUpdate /\ node_pc \in {"erase", "write"}
      /\ \A a \in Offsets : a \notin PageCells => flash'[a] = flash[a]
  BY FlashStep
<1>2. /\ request_file_name \in Names /\ firmware_write_offset \in Nat
      /\ firmware_write_offset % FLASH_PAGE_SIZE = 0
      /\ flash \in [Offsets -> Cell] /\ flash' \in [Offsets -> Cell]
      /\ Holds(request_file_name, firmware_write_offset)
  BY <1>1 DEF IInv, ControlInv, TypeOK, OffsetInv, PrefixInstalled, QuietInv
<1>3. target = request_file_name /\ target # NoInstall
  BY <1>1, <1>2 DEF target, Names
<1>4. firmware_write_offset < FLASH_SIZE
  <2>1. PICK a \in Offsets : flash'[a] # flash[a]
    BY <1>2
  <2>2. a \in PageCells
    BY <1>1, <2>1
  <2>. QED  BY <1>2, <2>1, <2>2, PageBegins DEF Offsets
<1>5. PICK p \in 0 .. (FLASH_SIZE \div FLASH_PAGE_SIZE) - 1 :
        /\ p * FLASH_PAGE_SIZE = firmware_write_offset
        /\ (p + 1) * FLASH_PAGE_SIZE = firmware_write_offset + FLASH_PAGE_SIZE
  BY <1>2, <1>4, PageNumber
<1>6. p \in Abstract!Pages
  BY <1>5 DEF Abstract!Pages
<1>7. Abstract!Installed(target, p * FLASH_PAGE_SIZE)
  BY <1>2, <1>3, <1>5 DEF Abstract!Installed, Abstract!Offsets, Holds, Offsets
<1>8. Abstract!PageOf(p) = PageCells
  BY <1>5, PageBegins DEF Abstract!PageOf
<1>. QED  BY <1>1, <1>3, <1>6, <1>7, <1>8

LEMMA InstallStep ==
  ASSUME IInv, IInv', QuietInv, QuietInv', [Next]_fuVars
  PROVE  Abstract!Next \/ UNCHANGED Abstract!vars
<1>. USE FirmwareUpdateAssumption DEF target, result, flagVars, requestVars
<1>1. /\ ~FirmwareUpdate => node_pc \in {"loop", "failed2"}
      /\ request_file_name \in Names /\ request_file_name # NoInstall
  BY DEF IInv, ControlInv, TypeOK, Names
<1>2. ASSUME NEW node \in RequestNodes, NEW f \in Names,
             AcceptBeginFirmwareUpdate(node, f)
      PROVE  Abstract!Begin(f)
  BY <1>1, <1>2 DEF AcceptBeginFirmwareUpdate, Abstract!Begin
<1>3. ASSUME NEW node \in RequestNodes, NEW f \in Names, StoreRequest(node, f)
      PROVE  UNCHANGED Abstract!vars
  BY <1>1, <1>3 DEF StoreRequest, Abstract!vars
<1>4. CASE Answer \/ Lose \/ RequestMore \/ UNCHANGED fuVars
  <2>1. UNCHANGED <<flash, FirmwareUpdate, node_pc, request_file_name>>
    BY <1>4 DEF Answer, Lose, RequestMore, fuVars
  <2>. QED  BY <2>1 DEF Abstract!vars
<1>5. CASE VerifyPage \/ CheckPage
  <2>1. /\ FirmwareUpdate /\ node_pc \in {"loop", "check"}
        /\ UNCHANGED <<flash, FirmwareUpdate, request_file_name>>
        /\ node_pc' \in {"fault", "erase", "loop", "done1", "failed1"}
    BY <1>1, <1>5 DEF VerifyPage, CheckPage, PageInFlash, processing
  <2>2. CASE node_pc' = "done1"
    <3>1. Holds(request_file_name, FileSize[request_file_name])'
      BY <2>2 DEF IInv, DoneMeansInstalled, QuietInv
    <3>2. Abstract!Installed(target, FileSize[target])
      BY <2>1, <3>1 DEF Holds, Abstract!Installed, Offsets, Abstract!Offsets
    <3>3. Abstract!Finish
      BY <1>1, <2>1, <2>2, <3>2 DEF Abstract!Finish
    <3>. QED  BY <3>3 DEF Abstract!Next
  <2>3. CASE node_pc' = "failed1"
    <3>1. Abstract!Fail
      BY <1>1, <2>1, <2>3 DEF Abstract!Fail
    <3>. QED  BY <3>1 DEF Abstract!Next
  <2>4. CASE node_pc' \in {"fault", "erase", "loop"}
    BY <2>1, <2>4 DEF Abstract!vars
  <2>. QED  BY <2>1, <2>2, <2>3, <2>4
<1>6. CASE flash_erase_page \/ flash_write_block
  <2>1. /\ UNCHANGED <<FirmwareUpdate, request_file_name>>
        /\ node_pc \in {"erase", "write"} /\ node_pc' \in {"write", "check"}
    BY <1>6 DEF flash_erase_page, flash_write_block
  <2>2. UNCHANGED <<target, result>>
    BY <2>1
  <2>3. CASE flash' = flash
    BY <2>2, <2>3 DEF Abstract!vars
  <2>4. CASE flash' # flash
    <3>1. PICK p \in Abstract!Pages : Abstract!Program(p)
      BY <2>2, <2>4, PageStep DEF Abstract!Program, Offsets, Abstract!Offsets
    <3>. QED  BY <3>1 DEF Abstract!Next
  <2>. QED  BY <2>3, <2>4
<1>7. CASE ForgetRequest \/ FailUpdate
  BY <1>1, <1>7 DEF ForgetRequest, FailUpdate, Abstract!vars
<1>8. CASE EndUpdate \/ ForgetFailedRequest
  <2>1. Abstract!Acknowledge
    BY <1>1, <1>8 DEF EndUpdate, ForgetFailedRequest, Abstract!Acknowledge
  <2>. QED  BY <2>1 DEF Abstract!Next
<1>9. CASE Restart
  <2>1. target' \in Names \cup {NoInstall} /\ result' = "none"
    BY <1>9 DEF Restart, ResetStatics
  <2>2. Abstract!Reset
    <3>1. CASE flash' = flash
      BY <2>1, <3>1 DEF Abstract!Reset
    <3>2. CASE flash' # flash
      BY <2>1, <3>2, PageStep DEF Abstract!Reset, Offsets, Abstract!Offsets
    <3>. QED  BY <3>1, <3>2
  <2>. QED  BY <2>2 DEF Abstract!Next
<1>. QED
  BY <1>2, <1>3, <1>4, <1>5, <1>6, <1>7, <1>8, <1>9
     DEF Next, NodeThread, Abstract!Next

(* With a server that does not fail and no answer that outlives a reset,   *)
(* the update implements ImageInstall: it replaces pages in ascending      *)
(* order, never one that is done, and reports success only when complete.  *)
THEOREM IsAnInstall ==
  ASSUME ~ServerErrors, ~LateAnswers
  PROVE  Spec => ImplementsImageInstall
<1>1. Init => Abstract!Init
  BY DEF Init, Abstract!Init, target, result, Offsets, Abstract!Offsets
<1>2. IInv /\ IInv' /\ QuietInv /\ QuietInv' /\ [Next]_fuVars
        => [Abstract!Next]_(Abstract!vars)
  BY InstallStep
<1>. QED
  BY <1>1, <1>2, UpdateInvariant, QuietInvariant, PTL
     DEF Spec, ImplementsImageInstall, Abstract!Spec

=============================================================================

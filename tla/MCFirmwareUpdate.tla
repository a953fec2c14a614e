-------------------------- MODULE MCFirmwareUpdate --------------------------
(* Two images of a two-page flash: one ends in the middle of its second    *)
(* page, one fills its only page, so that the end of the file is an answer *)
(* without data.                                                           *)
EXTENDS FirmwareUpdate

CONSTANTS short, whole

MCFiles == {short, whole}
MCFileSize == [f \in Files \cup {NoFile} |->
                CASE f = short -> FLASH_PAGE_SIZE + 1
                  [] f = whole -> FLASH_PAGE_SIZE
                  [] OTHER     -> 0]

=============================================================================

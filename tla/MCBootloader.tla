---------------------------- MODULE MCBootloader ----------------------------
(* Two images, as in MCFirmwareUpdate, so that a node can be left between  *)
(* an old and a new application.                                           *)
EXTENDS Bootloader

CONSTANTS short, whole

MCFiles == {short, whole}
MCFileSize == [f \in Files \cup {NoFile} |->
                CASE f = short -> FLASH_PAGE_SIZE + 1
                  [] f = whole -> FLASH_PAGE_SIZE
                  [] OTHER     -> 0]

=============================================================================

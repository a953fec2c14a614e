----------------------------- MODULE ImageInstall -----------------------------
(***************************************************************************)
(* What a firmware update promises, without reads, buffers or threads: the *)
(* pages of one image at a time are put into the flash in ascending order, *)
(* and success is only reported of an image that is there in full.         *)
(***************************************************************************)
EXTENDS Integers

CONSTANTS FLASH_PAGE_SIZE, FLASH_SIZE, Files, FileSize, NoInstall, Erased, Foreign

VARIABLES
  flash,    \* content of the application flash
  target,   \* the image being installed, or NoInstall
  result    \* of the last install: "none", "installed" or "failed"

vars == <<flash, target, result>>

Offsets == 0 .. FLASH_SIZE - 1
Pages   == 0 .. (FLASH_SIZE \div FLASH_PAGE_SIZE) - 1
PageOf(p) == p * FLASH_PAGE_SIZE .. (p + 1) * FLASH_PAGE_SIZE - 1

Installed(f, n) == \A a \in 0 .. n - 1 : a \in Offsets /\ flash[a] = <<f, a>>

Init ==
  /\ flash = [a \in Offsets |-> Foreign]
  /\ target = NoInstall
  /\ result = "none"

Begin(f) ==
  /\ target = NoInstall
  /\ target' = f
  /\ UNCHANGED <<flash, result>>

(* Page p is erased or written; the pages before it hold the image. *)
Program(p) ==
  /\ target # NoInstall
  /\ Installed(target, p * FLASH_PAGE_SIZE)
  /\ \A a \in Offsets \ PageOf(p) : flash'[a] = flash[a]
  /\ UNCHANGED <<target, result>>

Finish ==
  /\ target # NoInstall
  /\ Installed(target, FileSize[target])
  /\ target' = NoInstall
  /\ result' = "installed"
  /\ UNCHANGED flash

Fail ==
  /\ target # NoInstall
  /\ target' = NoInstall
  /\ result' = "failed"
  /\ UNCHANGED flash

(* The result has been taken note of; an install may already be running. *)
Acknowledge ==
  /\ result' = "none"
  /\ UNCHANGED <<flash, target>>

(* A reset: an install is given up or begun again, and the page that was   *)
(* being written stays as it is then.                                      *)
Reset ==
  /\ target' \in Files \cup {NoInstall}
  /\ result' = "none"
  /\ \/ UNCHANGED flash
     \/ \E p \in Pages :
          /\ target # NoInstall
          /\ Installed(target, p * FLASH_PAGE_SIZE)
          /\ \A a \in Offsets \ PageOf(p) : flash'[a] = flash[a]

Next ==
  \/ \E f \in Files : Begin(f)
  \/ \E p \in Pages : Program(p)
  \/ Finish \/ Fail \/ Acknowledge \/ Reset

Spec == Init /\ [][Next]_vars

=============================================================================

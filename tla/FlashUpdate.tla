---------------------------- MODULE FlashUpdate ----------------------------
(***************************************************************************)
(* What a caller of BootReflashAndReset is promised, without chips, loops  *)
(* or retries: the request is either refused with the flash untouched, or  *)
(* the flash is rewritten and the console is rebooted only when it holds   *)
(* the new image; otherwise the loader stops for good.                     *)
(***************************************************************************)

VARIABLES
  state,    \* of the update
  content   \* of the flash: as before, the new image, or neither

vars == <<state, content>>

Init == state = "idle" /\ content \in {"old", "new"}

Refuse == state = "idle" /\ state' = "refused" /\ UNCHANGED content

Begin == state = "idle" /\ state' = "writing" /\ UNCHANGED content

Write == state = "writing" /\ content' \in {"old", "mixed", "new"} /\ UNCHANGED state

Reboot == state = "writing" /\ content = "new" /\ state' = "rebooted" /\ UNCHANGED content

\* The write that fails may still have changed the flash.
Halt == state = "writing" /\ state' = "halted" /\ content' \in {"old", "mixed", "new"}

Next == Refuse \/ Begin \/ Write \/ Reboot \/ Halt

Safety == Init /\ [][Next]_vars

\* The update is decided in the end.
Decided == <>(state \in {"refused", "rebooted", "halted"})

Spec == Safety /\ Decided
=============================================================================

------------------------------ MODULE FlashRead ------------------------------
(***************************************************************************)
(* Flash_Read: the state machine that is to see one read of the flash      *)
(* through. It tests data_Valid for low, so it ends before the data comes. *)
(***************************************************************************)
VARIABLE flash_state

FlashState == {"idle", "check_read", "slave_ready", "wait_read", "finished"}

FlashInit == flash_state = "idle"

flash_finish == flash_state = "finished"

FlashBranch(from, cond, to) ==
  /\ flash_state = from
  /\ flash_state' = IF cond THEN to ELSE from

(* A bug: start is not tested. *)
StartsUnasked(start) == FlashBranch("idle", TRUE, "check_read")

FlashStarts(start) == FlashBranch("idle", start, "check_read")

(* A bug: the answer of waitrequest is not waited for. *)
ReadyUnasked(wait_Request) == FlashBranch("slave_ready", TRUE, "wait_read")

SlaveReady(wait_Request) == FlashBranch("slave_ready", ~wait_Request, "wait_read")

FlashReadStep(start, read, wait_Request, data_Valid) ==
  \/ FlashStarts(start)
  \/ FlashBranch("check_read", read, "slave_ready")
  \/ SlaveReady(wait_Request)
  \/ FlashBranch("wait_read", ~data_Valid, "finished")
  \/ FlashBranch("finished", TRUE, "idle")
=============================================================================

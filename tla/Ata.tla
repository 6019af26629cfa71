---------------------------------- MODULE Ata ----------------------------------
(***************************************************************************)
(* The ATA PIO driver, kernel/ata.c, and the drive it polls.               *)
(*                                                                         *)
(* Every read of the status register is a step of its own, and between     *)
(* two of them the drive may move on.  A sector is Words words long (256   *)
(* in the code); the word at place w of sector s of a transfer is <<s, w>>.*)
(* The transfer itself is "rep insw".  Its asm statement names rdi and rcx *)
(* as inputs only, though the instruction advances the one and clears the  *)
(* other: what the loop of ata_read finds in them afterwards is undefined, *)
(* and in the build of the Makefile it finds the changed registers.        *)
(***************************************************************************)
EXTENDS Integers, Sequences

CONSTANTS
  Words,             \* words in a sector
  Timeout,           \* polls ata_identify makes before it gives up (100000)
  MaxSectors         \* bound on the length of a read, for TLC

ASSUME AtaAssumption ==
  Words \in Nat \ {0} /\ Timeout \in Nat \ {0} /\ MaxSectors \in Nat \ {0}

VARIABLES
  present,           \* there is a drive; without one the status reads as all zeros or all ones
  bsy, drq,          \* status bits
  left,              \* sectors of the command in progress the drive has still to send
  sent,              \* words of the current sector already taken out of the drive
  pc,                \* where the driver is
  timeout,           \* polls left
  sectors,           \* argument of the ata_read in progress
  rdi, rcx,          \* the registers of rep insw; rdi counts words from buf
  buf,               \* the caller's buffer: what was stored at which place
  result             \* what ata_identify returned

drive == <<present, bsy, drq, left, sent>>
driver == <<pc, timeout, sectors, rdi, rcx, buf, result>>
ataVars == <<drive, driver>>

NoData == [i \in {} |-> <<0, 0>>]

AtaInit ==
  /\ \/ present = TRUE /\ bsy = FALSE /\ drq = FALSE
     \/ present = FALSE /\ bsy \in BOOLEAN /\ drq = bsy
  /\ left = 0 /\ sent = 0
  /\ pc = "identify" /\ timeout = Timeout /\ sectors = 1
  /\ rdi = 0 /\ rcx = Words /\ buf = NoData /\ result = 1

------------------------------------------------------------------------------
(* The drive, external to the code.  A command makes it busy; it may stay  *)
(* so forever, have the next sector ready, or end the command with an      *)
(* error (ERR set, DRQ not), which the driver never looks at.  While a     *)
(* drive is busy its other status bits mean nothing: DRQ reads as anything.*)

Accept(n) ==
  \/ present /\ bsy' = TRUE /\ drq' \in BOOLEAN /\ left' = n /\ sent' = 0 /\ UNCHANGED present
  \/ ~present /\ UNCHANGED drive

SectorReady ==
  /\ present /\ bsy
  /\ bsy' = FALSE /\ drq' = TRUE
  /\ UNCHANGED <<present, left, sent, driver>>

Abort ==
  /\ present /\ bsy
  /\ bsy' = FALSE /\ drq' = FALSE /\ left' = 0
  /\ UNCHANGED <<present, sent, driver>>

(* Mutant: the count is loaded anew for every sector, rdi still advances   *)
(* twice.                                                                  *)
RepInsw_Reloads ==
  /\ buf' = [i \in DOMAIN buf \cup rdi .. (rdi + rcx - 1) |->
               IF i < rdi THEN buf[i] ELSE <<left, sent + (i - rdi)>>]
  /\ sent' = 0 /\ drq' \in {FALSE, left > 1}
  /\ left' = left - 1 /\ bsy' = (left > 1)
  /\ UNCHANGED <<rcx, present>>

(* rep insw: rcx words go from the data register to buf + rdi.  Behind     *)
(* the last word of a sector the drive fetches the next one.               *)
RepInsw ==
  /\ buf' = [i \in DOMAIN buf \cup rdi .. (rdi + rcx - 1) |->
               IF i < rdi THEN buf[i] ELSE <<left, sent + (i - rdi)>>]
  /\ rcx' = 0
  /\ \/ sent + rcx < Words /\ sent' = sent + rcx /\ UNCHANGED <<bsy, drq, left>>
     \/ /\ sent + rcx = Words
        /\ sent' = 0 /\ drq' \in {FALSE, left > 1}
        /\ left' = left - 1 /\ bsy' = (left > 1)
  /\ UNCHANGED present

------------------------------------------------------------------------------
(* ata_identify, called by ata_init *)

(* The command; a status of 0 right after it means there is no drive.      *)
IdentifyCommand ==
  /\ pc = "identify"
  /\ Accept(1)
  /\ \/ (present \/ bsy) /\ pc' = "id_busy" /\ timeout' = Timeout /\ UNCHANGED result
     \/ ~present /\ ~bsy /\ pc' = "init_done" /\ result' = -1 /\ UNCHANGED timeout
  /\ UNCHANGED <<sectors, rdi, rcx, buf>>

(* Mutants: while (cond && timeout--), which ends at -1; a poll that does  *)
(* not count; one that goes on after its last try.                         *)
Poll_PostDecrement(here, cond, next) ==
  /\ pc = here
  /\ \/ (~cond \/ timeout < 0) /\ pc' = next /\ UNCHANGED timeout
     \/ cond /\ timeout >= 0 /\ timeout' = timeout - 1 /\ UNCHANGED pc
  /\ UNCHANGED <<drive, sectors, rdi, rcx, buf, result>>

Poll_Uncounted(here, cond, next) ==
  /\ pc = here
  /\ pc' = IF cond THEN here ELSE next
  /\ UNCHANGED <<drive, timeout, sectors, rdi, rcx, buf, result>>

Poll_FailsOpen(here, cond, next) ==
  /\ pc = here
  /\ \/ (~cond \/ timeout = 1) /\ pc' = next /\ timeout' = Timeout
     \/ cond /\ timeout > 1 /\ timeout' = timeout - 1 /\ UNCHANGED pc
  /\ UNCHANGED <<drive, sectors, rdi, rcx, buf, result>>

(* while (cond && --timeout): one poll. *)
Poll(here, cond, next) ==
  /\ pc = here
  /\ \/ ~cond /\ pc' = next /\ timeout' = Timeout /\ UNCHANGED result
     \/ cond /\ timeout > 1 /\ timeout' = timeout - 1 /\ UNCHANGED <<pc, result>>
     \/ cond /\ timeout = 1 /\ timeout' = 0 /\ pc' = "init_done" /\ result' = -1
  /\ UNCHANGED <<drive, sectors, rdi, rcx, buf>>

PollBusy == Poll("id_busy", bsy, "id_drq")
PollData == Poll("id_drq", ~drq, "id_insw")

IdentifyTransfer ==
  /\ pc = "id_insw"
  /\ RepInsw /\ rdi' = rdi + rcx
  /\ result' = 0 /\ pc' = "init_done"
  /\ UNCHANGED <<timeout, sectors>>

------------------------------------------------------------------------------
(* ata_read(lba, buf, n), for a caller with a buffer of n sectors *)

Call(n) ==
  /\ pc \in {"init_done", "returned"}
  /\ pc' = "rd_idle" /\ sectors' = n
  /\ rdi' = 0 /\ rcx' = Words /\ buf' = NoData
  /\ UNCHANGED <<drive, timeout, result>>

(* while (cond): one poll, without a limit. *)
Wait(here, cond, next) ==
  /\ pc = here
  /\ pc' = IF cond THEN here ELSE next
  /\ UNCHANGED <<drive, timeout, sectors, rdi, rcx, buf, result>>

WaitIdle  == Wait("rd_idle", bsy, "rd_command")
WaitBusy  == Wait("rd_busy", bsy, "rd_drq")
WaitData  == Wait("rd_drq", ~drq, "loop_busy")
LoopBusy  == Wait("loop_busy", bsy, "loop_drq")
LoopData  == Wait("loop_drq", ~drq, "loop_insw")

ReadCommand ==
  /\ pc = "rd_command"
  /\ Accept(sectors)
  /\ pc' = "rd_busy"
  /\ UNCHANGED <<timeout, sectors, rdi, rcx, buf, result>>

(* rep insw; buf += 256; i < sectors.  The build keeps buf in rdi and      *)
(* compares it with the end of the buffer instead of counting i.           *)
LoopTransfer ==
  /\ pc = "loop_insw"
  /\ RepInsw
  /\ rdi' = rdi + rcx + Words
  /\ pc' = IF rdi' = sectors * Words THEN "returned" ELSE "loop_busy"
  /\ UNCHANGED <<timeout, sectors, result>>

------------------------------------------------------------------------------

Identify == IdentifyCommand \/ PollBusy \/ PollData \/ IdentifyTransfer

(* Mutant: in front of a sector DRQ is waited for first, then BSY. *)
ata_read_Swapped ==
  \/ WaitIdle \/ ReadCommand \/ WaitBusy \/ WaitData
  \/ Wait("loop_busy", ~drq, "loop_drq") \/ Wait("loop_drq", bsy, "loop_insw")
  \/ LoopTransfer

ata_read ==
  \/ WaitIdle \/ ReadCommand \/ WaitBusy \/ WaitData
  \/ LoopBusy \/ LoopData \/ LoopTransfer

Drive == SectorReady \/ Abort

AtaNext == Identify \/ ata_read \/ Drive \/ \E n \in 1..MaxSectors : Call(n)

(* The processor goes on executing; the drive owes nothing. *)
AtaSpec == AtaInit /\ [][AtaNext]_ataVars /\ WF_ataVars(Identify)

(* A drive that answers every command without an error, and in time. *)
WorkingNext == Identify \/ ata_read \/ SectorReady \/ \E n \in 1..MaxSectors : Call(n)

WorkingSpec ==
  /\ AtaInit /\ present = TRUE /\ [][WorkingNext]_ataVars
  /\ WF_ataVars(Identify) /\ WF_ataVars(ata_read) /\ WF_ataVars(SectorReady)

------------------------------------------------------------------------------
(* Properties *)

AtaTypeOK ==
  /\ {present, bsy, drq} \subseteq BOOLEAN
  /\ left \in 0..MaxSectors
  /\ sent \in 0..(Words - 1)
  /\ pc \in {"identify", "id_busy", "id_drq", "id_insw", "init_done", "rd_idle", "rd_command",
             "rd_busy", "rd_drq", "loop_busy", "loop_drq", "loop_insw", "returned"}
  /\ timeout \in 0..Timeout
  /\ sectors \in 1..MaxSectors
  /\ rcx \in 0..Words /\ rdi \in Nat
  /\ result \in {-1, 0, 1}
  /\ \A i \in DOMAIN buf : i \in Nat

(* ata_init always ends, with a drive that never answers too: both polls   *)
(* are limited (ata.c:37-42), so the shell comes up.                       *)
IdentifyEnds == <>(pc = "init_done")

(* 0 is returned only with a whole sector in buf, in order: the model and  *)
(* the size are never taken from a buffer nobody filled (ata.c:9-26, 43).  *)
IdentifySound ==
  [][result' = 0 /\ result # 0 =>
       \A w \in 0..(Words - 1) : w \in DOMAIN buf' /\ buf'[w] = <<1, w>>]_ataVars

(* rep insw never stores outside the caller's buffer (ata.c:68-72). *)
InBuffer == \A i \in DOMAIN buf : i < sectors * Words

(* Data are taken from the drive only while it offers them, in             *)
(* identification and in every round of a read, though DRQ may be read as  *)
(* set before the drive means it (ata.c:38-43, 63-68).                     *)
OnlyOffered == pc \in {"id_insw", "loop_insw"} => present /\ drq /\ ~bsy

(* "ATA PIO disk driver (IDENTIFY and sector reads)" (README.md:16): a     *)
(* read returns with the sectors asked for in buf.                         *)
ReadDelivers ==
  pc = "returned" =>
    \A i \in 0..(sectors * Words - 1) :
      i \in DOMAIN buf /\ buf[i] = <<sectors - (i \div Words), i % Words>>

(* ... and it does return, on a drive that works. *)
ReadReturns == pc = "rd_idle" ~> pc = "returned"

===============================================================================

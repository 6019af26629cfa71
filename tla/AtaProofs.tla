------------------------------- MODULE AtaProofs -------------------------------
(***************************************************************************)
(* Theorems about Ata for every length of a sector, every number of polls  *)
(* and every length of a read.                                             *)
(***************************************************************************)
EXTENDS Ata, TLAPS

(* A drive that is there is busy or offers data only while it has sectors  *)
(* to send; without one the status reads as all ones or all zeros.  The    *)
(* driver takes whole sectors or nothing.                                  *)
DriveOK ==
  /\ sent = 0
  /\ present => (bsy \/ drq => left >= 1)
  /\ ~present => (drq <=> bsy)

(* The registers as rep insw leaves them: after the first sector the count *)
(* stays zero, so that only the first sector of the buffer is written.     *)
Registers ==
  /\ \/ rcx = Words /\ rdi = 0
     \/ rcx = 0 /\ rdi >= Words
  /\ DOMAIN buf \subseteq 0..(Words - 1)
  /\ buf = [i \in DOMAIN buf |-> buf[i]]

(* Without a drive, a status of all ones keeps the driver in its first     *)
(* loop, and one of all zeros in the second.  Behind a wait for BSY the    *)
(* drive stays idle up to the transfer, so that the DRQ seen then is meant.*)
Offered ==
  /\ pc \in {"id_drq", "rd_drq", "loop_drq", "id_insw", "loop_insw"} => ~bsy
  /\ ~present /\ bsy => pc \in {"identify", "id_busy", "init_done", "rd_idle"}
  /\ pc \in {"id_insw", "loop_insw"} => present /\ drq

Identifying ==
  pc \in {"identify", "id_busy", "id_drq", "id_insw"} =>
    rdi = 0 /\ rcx = Words /\ DOMAIN buf = {} /\ left <= 1

AtaInv == AtaTypeOK /\ DriveOK /\ Registers /\ Offered /\ Identifying

LEMMA Constants == Words \in Nat /\ Words >= 1 /\ Timeout \in Nat /\ Timeout >= 1
                   /\ MaxSectors \in Nat /\ MaxSectors >= 1
BY AtaAssumption

LEMMA AtaInitInv == AtaInit => AtaInv
<1> SUFFICES ASSUME AtaInit PROVE AtaInv
  OBVIOUS
<1> USE Constants DEF AtaInit
<1>1. DOMAIN NoData = {} /\ NoData = [i \in DOMAIN NoData |-> NoData[i]]
  BY DEF NoData
<1>2. AtaTypeOK
  <2>1. {present, bsy, drq} \subseteq BOOLEAN
    OBVIOUS
  <2>2. /\ left \in 0..MaxSectors /\ sent \in 0..(Words - 1) /\ timeout \in 0..Timeout
        /\ sectors \in 1..MaxSectors /\ rcx \in 0..Words /\ rdi \in Nat
        /\ result \in {-1, 0, 1} /\ \A i \in DOMAIN buf : i \in Nat
    BY <1>1
  <2>3. pc = "identify"
    OBVIOUS
  <2>4. QED
    BY <2>1, <2>2, <2>3, Zenon DEF AtaTypeOK
<1>3. DriveOK /\ Registers /\ Offered /\ Identifying
  BY <1>1 DEF DriveOK, Registers, Offered, Identifying
<1>4. QED
  BY <1>2, <1>3 DEF AtaInv

(* What rep insw does to the buffer: a whole sector into an empty one, or  *)
(* nothing at all.                                                         *)
SectorTaken ==
  /\ rcx = Words /\ rdi = 0
  /\ \A i \in 0..(Words - 1) : i \in DOMAIN buf' /\ buf'[i] = <<left, i>>
  /\ sent' = 0 /\ drq' \in {FALSE, left > 1} /\ left' = left - 1 /\ bsy' = (left > 1)

NothingTaken ==
  rcx = 0 /\ rdi >= Words /\ buf' = buf /\ UNCHANGED drive

LEMMA TransferFacts ==
  ASSUME AtaInv, RepInsw
  PROVE  /\ SectorTaken \/ NothingTaken
         /\ DOMAIN buf' \subseteq 0..(Words - 1)
         /\ buf' = [i \in DOMAIN buf' |-> buf'[i]]
         /\ rcx' = 0 /\ present' = present
<1> USE Constants DEF AtaInv
<1>1. /\ buf' = [i \in DOMAIN buf \cup rdi .. (rdi + rcx - 1) |->
                   IF i < rdi THEN buf[i] ELSE <<left, sent + (i - rdi)>>]
      /\ rcx' = 0 /\ present' = present
      /\ \/ sent + rcx < Words /\ sent' = sent + rcx /\ UNCHANGED <<bsy, drq, left>>
         \/ /\ sent + rcx = Words
            /\ sent' = 0 /\ drq' \in {FALSE, left > 1}
            /\ left' = left - 1 /\ bsy' = (left > 1)
  BY DEF RepInsw
<1>2. /\ sent = 0 /\ DOMAIN buf \subseteq 0..(Words - 1) /\ buf = [i \in DOMAIN buf |-> buf[i]]
      /\ (rcx = Words /\ rdi = 0) \/ (rcx = 0 /\ rdi >= Words)
      /\ rdi \in Nat
  BY DEF DriveOK, Registers, AtaTypeOK
<1>3. CASE rcx = Words /\ rdi = 0
  <2>1. DOMAIN buf \cup rdi .. (rdi + rcx - 1) = 0..(Words - 1)
    BY <1>2, <1>3
  <2>2. buf' = [i \in 0..(Words - 1) |->
                  IF i < rdi THEN buf[i] ELSE <<left, sent + (i - rdi)>>]
    BY <1>1, <2>1
  <2>3. \A i \in 0..(Words - 1) : buf'[i] = <<left, i>>
    <3>1. TAKE i \in 0..(Words - 1)
    <3>2. ~(i < rdi) /\ sent + (i - rdi) = i
      BY <1>2, <1>3
    <3>3. QED
      BY <2>2, <3>2
  <2>4. DOMAIN buf' = 0..(Words - 1) /\ buf' = [i \in DOMAIN buf' |-> buf'[i]]
    BY <2>2
  <2>5. sent' = 0 /\ drq' \in {FALSE, left > 1} /\ left' = left - 1 /\ bsy' = (left > 1)
    <3>1. ~(sent + rcx < Words)
      BY <1>2, <1>3
    <3>2. QED
      BY <1>1, <3>1, Zenon
  <2>6. SectorTaken
    BY <1>3, <2>3, <2>4, <2>5 DEF SectorTaken
  <2>7. QED
    BY <1>1, <2>4, <2>6
<1>4. CASE rcx = 0 /\ rdi >= Words
  <2>1. DOMAIN buf \cup rdi .. (rdi + rcx - 1) = DOMAIN buf
    BY <1>2, <1>4
  <2>2. \A i \in DOMAIN buf : i < rdi
    BY <1>2, <1>4
  <2>3. buf' = [i \in DOMAIN buf |-> buf[i]]
    BY <1>1, <2>1, <2>2
  <2>4. buf' = buf
    BY <1>2, <2>3
  <2>5. UNCHANGED drive
    <3>1. sent + rcx # Words /\ sent + rcx = sent
      BY <1>2, <1>4
    <3>2. QED
      BY <1>1, <3>1, Zenon DEF drive
  <2>6. NothingTaken
    BY <1>4, <2>4, <2>5 DEF NothingTaken
  <2>7. QED
    BY <1>1, <1>2, <2>4, <2>6
<1>5. QED
  BY <1>2, <1>3, <1>4


------------------------------------------------------------------------------
(* The steps. *)

Places == {"identify", "id_busy", "id_drq", "id_insw", "init_done", "rd_idle", "rd_command",
           "rd_busy", "rd_drq", "loop_busy", "loop_drq", "loop_insw", "returned"}

EarlyPlaces == {"identify", "id_busy", "id_drq", "id_insw"}

(* A poll of the status register changes nothing but where the driver is.  *)
LEMMA PollStep ==
  ASSUME AtaInv, UNCHANGED <<drive, sectors, rdi, rcx, buf>>,
         pc' \in Places, timeout' \in 0..Timeout, result' \in {-1, 0, 1},
         pc' \in EarlyPlaces => pc \in EarlyPlaces, Offered'
  PROVE  AtaInv'
<1>1. UNCHANGED <<present, bsy, drq, left, sent, sectors, rdi, rcx, buf>>
  BY DEF drive
<1>2. AtaTypeOK'
  BY <1>1 DEF AtaInv, AtaTypeOK, Places
<1>3. DriveOK' /\ Registers' /\ Identifying'
  BY <1>1 DEF AtaInv, DriveOK, Registers, Identifying, EarlyPlaces
<1>4. QED
  BY <1>2, <1>3 DEF AtaInv

LEMMA WaitStep ==
  ASSUME AtaInv, WaitIdle \/ WaitBusy \/ WaitData \/ LoopBusy \/ LoopData
  PROVE  AtaInv'
<1>1. UNCHANGED <<drive, timeout, sectors, rdi, rcx, buf, result>>
  BY DEF WaitIdle, WaitBusy, WaitData, LoopBusy, LoopData, Wait
<1>2. /\ pc \notin EarlyPlaces /\ pc' \in Places \ EarlyPlaces
      /\ (~present /\ bsy) /\ pc = "rd_idle" => pc' = "rd_idle"
      /\ pc' = "loop_insw" => drq /\ pc = "loop_drq"
      /\ pc' \in {"rd_drq", "loop_drq"} => ~bsy \/ pc = pc'
      /\ pc' \notin {"id_drq", "id_insw"}
  BY DEF WaitIdle, WaitBusy, WaitData, LoopBusy, LoopData, Wait, Places, EarlyPlaces
<1>3. UNCHANGED <<present, bsy, drq>>
  BY <1>1 DEF drive
<1>4. ~present => (drq <=> bsy)
  BY DEF AtaInv, DriveOK
<1>5. Offered'
  <2>1. ASSUME ~present, bsy PROVE pc = "rd_idle" /\ pc' = "rd_idle"
    <3>1. pc \in {"identify", "id_busy", "init_done", "rd_idle"}
      BY <2>1 DEF AtaInv, Offered
    <3>2. pc # "init_done"
      BY DEF WaitIdle, WaitBusy, WaitData, LoopBusy, LoopData, Wait
    <3>3. QED
      BY <1>2, <2>1, <3>1, <3>2 DEF EarlyPlaces
  <2>2. ASSUME pc' = "loop_insw" PROVE present /\ drq
    BY <1>2, <1>4, <2>1, <2>2
  <2>3. pc' \in {"id_drq", "rd_drq", "loop_drq", "id_insw", "loop_insw"} => ~bsy
    BY <1>2 DEF AtaInv, Offered
  <2>4. QED
    BY <1>2, <1>3, <2>1, <2>2, <2>3 DEF Offered, EarlyPlaces
<1>6. timeout \in 0..Timeout /\ result \in {-1, 0, 1}
  BY DEF AtaInv, AtaTypeOK
<1>7. QED
  BY <1>1, <1>2, <1>5, <1>6, PollStep

LEMMA IdentifyPollStep ==
  ASSUME AtaInv, PollBusy \/ PollData
  PROVE  AtaInv'
<1>1. UNCHANGED <<drive, sectors, rdi, rcx, buf>>
  BY DEF PollBusy, PollData, Poll
<1>2. /\ pc \in EarlyPlaces /\ pc' \in Places
      /\ result' \in {-1, 0, 1}
      /\ pc = "id_busy" /\ bsy => pc' \in {"id_busy", "init_done"}
      /\ pc' = "id_insw" => pc = "id_drq" /\ drq
      /\ pc' \notin {"rd_drq", "loop_drq", "loop_insw"}
      /\ pc' = "id_drq" => ~bsy \/ pc = "id_drq"
  BY DEF PollBusy, PollData, Poll, Places, EarlyPlaces, AtaInv, AtaTypeOK
<1>3. timeout' \in 0..Timeout
  <2>1. timeout \in 0..Timeout
    BY DEF AtaInv, AtaTypeOK
  <2>2. timeout' = Timeout \/ (timeout > 1 /\ timeout' = timeout - 1) \/ timeout' = 0
    BY DEF PollBusy, PollData, Poll
  <2>3. QED
    BY <2>1, <2>2, Constants
<1>4. UNCHANGED <<present, bsy, drq>>
  BY <1>1 DEF drive
<1>5. Offered'
  <2>1. ~present => (drq <=> bsy)
    BY DEF AtaInv, DriveOK
  <2>2. ASSUME ~present, bsy PROVE pc = "id_busy" /\ pc' \in {"id_busy", "init_done"}
    <3>1. pc \in {"id_busy", "id_drq"}
      BY DEF PollBusy, PollData, Poll
    <3>2. QED
      BY <1>2, <2>2, <3>1 DEF AtaInv, Offered
  <2>3. ASSUME pc' = "id_insw" PROVE present /\ drq
    BY <1>2, <2>1, <2>2, <2>3
  <2>4. pc' \in {"id_drq", "rd_drq", "loop_drq", "id_insw", "loop_insw"} => ~bsy
    BY <1>2 DEF AtaInv, Offered
  <2>5. QED
    BY <1>2, <1>4, <2>2, <2>3, <2>4 DEF Offered
<1>6. QED
  BY <1>1, <1>2, <1>3, <1>5, PollStep


LEMMA CommandStep ==
  ASSUME AtaInv, IdentifyCommand \/ ReadCommand
  PROVE  AtaInv'
<1>1. /\ UNCHANGED <<sectors, rdi, rcx, buf>>
      /\ \/ pc = "identify" /\ pc' \in {"id_busy", "init_done"}
         \/ pc = "rd_command" /\ pc' = "rd_busy"
      /\ present' = present
      /\ pc' = "init_done" => ~present /\ ~bsy
  BY DEF IdentifyCommand, ReadCommand, Accept, drive
<1>2. PICK n \in 1..MaxSectors : /\ Accept(n)
                                 /\ pc = "identify" => n = 1
  <2>1. sectors \in 1..MaxSectors /\ 1 \in 1..MaxSectors
    BY Constants DEF AtaInv, AtaTypeOK
  <2>2. CASE IdentifyCommand
    BY <2>1, <2>2 DEF IdentifyCommand
  <2>3. CASE ReadCommand
    BY <2>1, <2>3 DEF ReadCommand
  <2>4. QED
    BY <2>2, <2>3
<1>3. /\ timeout' \in 0..Timeout /\ result' \in {-1, 0, 1} /\ pc' \in Places
  BY <1>1, Constants DEF IdentifyCommand, ReadCommand, AtaInv, AtaTypeOK, Places
<1>4. CASE ~present /\ UNCHANGED drive
  <2>1. Offered'
    BY <1>1, <1>4 DEF drive, AtaInv, Offered
  <2>2. QED
    BY <1>1, <1>3, <1>4, <2>1, PollStep DEF EarlyPlaces
<1>5. CASE present /\ bsy' = TRUE /\ drq' \in BOOLEAN /\ left' = n /\ sent' = 0
  <2>1. {present', bsy', drq'} \subseteq BOOLEAN
    BY <1>1, <1>5
  <2>2. AtaTypeOK'
    <3>1. /\ left' \in 0..MaxSectors /\ sent' \in 0..(Words - 1)
      BY <1>2, <1>5, Constants
    <3>2. /\ sectors' \in 1..MaxSectors /\ rcx' \in 0..Words /\ rdi' \in Nat
          /\ \A i \in DOMAIN buf' : i \in Nat
      BY <1>1 DEF AtaInv, AtaTypeOK
    <3>3. QED
      BY <1>3, <2>1, <3>1, <3>2 DEF AtaTypeOK, Places
  <2>3. DriveOK'
    BY <1>1, <1>2, <1>5 DEF DriveOK
  <2>4. Registers' /\ Offered'
    BY <1>1, <1>5 DEF AtaInv, Registers, Offered
  <2>5. Identifying'
    BY <1>1, <1>2, <1>5 DEF AtaInv, Identifying
  <2>6. QED
    BY <2>2, <2>3, <2>4, <2>5 DEF AtaInv
<1>6. QED
  BY <1>2, <1>4, <1>5 DEF Accept

LEMMA TransferStep ==
  ASSUME AtaInv, IdentifyTransfer \/ LoopTransfer
  PROVE  AtaInv'
<1>1. /\ RepInsw /\ pc \in {"id_insw", "loop_insw"} /\ pc' \in {"init_done", "returned", "loop_busy"}
      /\ rdi' = rdi + rcx \/ rdi' = rdi + rcx + Words
      /\ UNCHANGED <<timeout, sectors>> /\ result' \in {0, result}
      /\ pc = "id_insw" => pc' = "init_done"
  BY DEF IdentifyTransfer, LoopTransfer
<1>2. /\ SectorTaken \/ NothingTaken
      /\ DOMAIN buf' \subseteq 0..(Words - 1)
      /\ buf' = [i \in DOMAIN buf' |-> buf'[i]]
      /\ rcx' = 0 /\ present' = present
  BY <1>1, TransferFacts
<1>3. /\ present /\ drq /\ ~bsy /\ left >= 1 /\ left \in 0..MaxSectors /\ sent = 0
  BY <1>1 DEF AtaInv, Offered, DriveOK, AtaTypeOK
<1>4. rdi' \in Nat /\ rdi' >= Words
  <2>1. (rcx = Words /\ rdi = 0) \/ (rcx = 0 /\ rdi >= Words)
    BY DEF AtaInv, Registers
  <2>2. rdi \in Nat
    BY DEF AtaInv, AtaTypeOK
  <2>3. QED
    BY <1>1, <2>1, <2>2, Constants
<1>5. /\ left' \in 0..MaxSectors /\ sent' = 0
      /\ bsy' \in BOOLEAN /\ drq' \in BOOLEAN
      /\ (bsy' \/ drq' => left' >= 1)
  <2>1. CASE SectorTaken
    <3>1. sent' = 0 /\ drq' \in {FALSE, left > 1} /\ left' = left - 1 /\ bsy' = (left > 1)
      BY <2>1 DEF SectorTaken
    <3>2. left' \in 0..MaxSectors /\ (left > 1 => left' >= 1)
      BY <1>3, <3>1, Constants
    <3>3. /\ bsy' \in BOOLEAN /\ drq' \in BOOLEAN
          /\ (bsy' \/ drq' => left > 1)
      <4>1. (drq' = FALSE \/ drq' = (left > 1)) /\ bsy' = (left > 1)
        BY <3>1, Zenon
      <4>2. CASE left > 1
        <5>1. (left > 1) = TRUE
          BY <4>2
        <5>2. bsy' = TRUE /\ (drq' = FALSE \/ drq' = TRUE)
          BY <4>1, <5>1, Zenon
        <5>3. QED
          BY <4>2, <5>2, Zenon
      <4>3. CASE ~(left > 1)
        <5>1. (left > 1) = FALSE
          BY <4>3
        <5>2. bsy' = FALSE /\ drq' = FALSE
          BY <4>1, <5>1, Zenon
        <5>3. QED
          BY <5>2, Zenon
      <4>4. QED
        BY <4>2, <4>3
    <3>4. QED
      BY <3>1, <3>2, <3>3, Zenon
  <2>2. CASE NothingTaken
    BY <1>3, <2>2 DEF NothingTaken, drive, AtaInv, AtaTypeOK
  <2>3. QED
    BY <1>2, <2>1, <2>2
<1>6. AtaTypeOK'
  <2>1. {present', bsy', drq'} \subseteq BOOLEAN
    BY <1>2, <1>3, <1>5
  <2>2. sent' \in 0..(Words - 1) /\ rcx' \in 0..Words
    BY <1>2, <1>5, Constants
  <2>3. /\ timeout' \in 0..Timeout /\ sectors' \in 1..MaxSectors /\ result' \in {-1, 0, 1}
    BY <1>1 DEF AtaInv, AtaTypeOK
  <2>4. \A i \in DOMAIN buf' : i \in Nat
    BY <1>2
  <2>5. QED
    BY <1>1, <1>4, <1>5, <2>1, <2>2, <2>3, <2>4 DEF AtaTypeOK
<1>7. DriveOK' /\ Registers'
  BY <1>2, <1>3, <1>4, <1>5 DEF DriveOK, Registers
<1>8. Offered' /\ Identifying'
  BY <1>1, <1>2, <1>3 DEF Offered, Identifying
<1>9. QED
  BY <1>6, <1>7, <1>8 DEF AtaInv

LEMMA CallStep ==
  ASSUME AtaInv, NEW n \in 1..MaxSectors, Call(n)
  PROVE  AtaInv'
<1>1. /\ pc \in {"init_done", "returned"} /\ pc' = "rd_idle" /\ sectors' = n
      /\ rdi' = 0 /\ rcx' = Words /\ buf' = NoData
      /\ UNCHANGED <<present, bsy, drq, left, sent, timeout, result>>
  BY DEF Call, drive
<1>2. DOMAIN NoData = {} /\ NoData = [i \in DOMAIN NoData |-> NoData[i]]
  BY DEF NoData
<1>3. AtaTypeOK'
  BY <1>1, <1>2, Constants DEF AtaInv, AtaTypeOK
<1>4. DriveOK' /\ Registers' /\ Offered' /\ Identifying'
  BY <1>1, <1>2, Constants DEF AtaInv, DriveOK, Registers, Offered, Identifying
<1>5. QED
  BY <1>3, <1>4 DEF AtaInv

LEMMA DriveStep ==
  ASSUME AtaInv, SectorReady \/ Abort
  PROVE  AtaInv'
<1>1. /\ present /\ bsy /\ bsy' = FALSE /\ UNCHANGED <<present, sent, driver>>
      /\ (drq' = TRUE /\ left' = left) \/ (drq' = FALSE /\ left' = 0)
  BY DEF SectorReady, Abort
<1>2. UNCHANGED <<pc, timeout, sectors, rdi, rcx, buf, result>>
  BY <1>1 DEF driver
<1>3. AtaTypeOK'
  <2>1. {present', bsy', drq'} \subseteq BOOLEAN
    BY <1>1
  <2>2. left' \in 0..MaxSectors
    BY <1>1, Constants DEF AtaInv, AtaTypeOK
  <2>3. QED
    BY <1>1, <1>2, <2>1, <2>2 DEF AtaInv, AtaTypeOK
<1>4. DriveOK' /\ Registers'
  BY <1>1, <1>2 DEF AtaInv, DriveOK, Registers
<1>5. Offered' /\ Identifying'
  BY <1>1, <1>2 DEF AtaInv, DriveOK, Offered, Identifying
<1>6. QED
  BY <1>3, <1>4, <1>5 DEF AtaInv


LEMMA AtaNextInv == AtaInv /\ [AtaNext]_ataVars => AtaInv'
<1> SUFFICES ASSUME AtaInv, [AtaNext]_ataVars PROVE AtaInv'
  OBVIOUS
<1>1. CASE Identify
  BY <1>1, CommandStep, IdentifyPollStep, TransferStep DEF Identify
<1>2. CASE ata_read
  BY <1>2, CommandStep, WaitStep, TransferStep DEF ata_read
<1>3. CASE Drive
  BY <1>3, DriveStep DEF Drive
<1>4. ASSUME NEW n \in 1..MaxSectors, Call(n) PROVE AtaInv'
  BY <1>4, CallStep
<1>5. CASE UNCHANGED ataVars
  <2>1. UNCHANGED <<drive, driver>>
    BY <1>5 DEF ataVars
  <2>2. pc \in Places /\ timeout \in 0..Timeout /\ result \in {-1, 0, 1}
    BY DEF AtaInv, AtaTypeOK, Places
  <2>3. Offered'
    BY <2>1 DEF drive, driver, AtaInv, Offered
  <2>4. QED
    BY <2>1, <2>2, <2>3, PollStep DEF driver
<1>6. QED
  BY <1>1, <1>2, <1>3, <1>4, <1>5 DEF AtaNext

LEMMA AtaSpecInv == AtaSpec => []AtaInv
<1>1. QED
  BY AtaInitInv, AtaNextInv, PTL DEF AtaSpec

------------------------------------------------------------------------------
(* Theorems. *)

(* The polls never count below zero, and the registers and the drive stay  *)
(* in their ranges, with a drive, without one, and with one that answers   *)
(* with errors (ata.c:28-78).                                              *)
THEOREM AtaTypes == AtaSpec => []AtaTypeOK
<1>1. AtaInv => AtaTypeOK
  BY DEF AtaInv
<1>2. QED
  BY <1>1, AtaSpecInv, PTL

(* For every length of a read, rep insw stores inside the caller's buffer, *)
(* even though it runs with registers the driver did not load again        *)
(* (ata.c:66-76).                                                          *)
THEOREM StoresInBuffer == AtaSpec => []InBuffer
<1>1. ASSUME AtaInv PROVE InBuffer
  <2>1. sectors \in Nat /\ sectors >= 1 /\ Words \in Nat
    BY <1>1, Constants DEF AtaInv, AtaTypeOK
  <2>2. Words <= sectors * Words
    BY <2>1
  <2>3. sectors * Words \in Nat
    BY <2>1
  <2>4. \A i \in DOMAIN buf : i \in 0..(Words - 1)
    BY <1>1 DEF AtaInv, Registers
  <2>5. QED
    BY <2>1, <2>2, <2>3, <2>4 DEF InBuffer
<1>2. QED
  BY <1>1, AtaSpecInv, PTL

(* Data are taken only while the drive offers them, in identification and  *)
(* in every round of a read, whatever DRQ reads as while the drive is busy *)
(* (ata.c:38-43, 63-68).                                                   *)
THEOREM TakesOnlyOffered == AtaSpec => []OnlyOffered
<1>1. AtaInv => OnlyOffered
  BY DEF AtaInv, Offered, OnlyOffered
<1>2. QED
  BY <1>1, AtaSpecInv, PTL

(* ata_identify reports success only with the drive's whole first sector   *)
(* in its buffer, in order (ata.c:28-47).                                  *)
THEOREM IdentifyReadsSector == AtaSpec => IdentifySound
<1>1. ASSUME AtaInv, [AtaNext]_ataVars, result' = 0, result # 0
      PROVE  \A w \in 0..(Words - 1) : w \in DOMAIN buf' /\ buf'[w] = <<1, w>>
  <2>1. IdentifyTransfer
    BY <1>1 DEF AtaNext, Identify, ata_read, Drive, SectorReady, Abort, Call,
                IdentifyCommand, ReadCommand, PollBusy, PollData, Poll, LoopTransfer,
                WaitIdle, WaitBusy, WaitData, LoopBusy, LoopData, Wait, ataVars, driver
  <2>2. RepInsw /\ pc = "id_insw"
    BY <2>1 DEF IdentifyTransfer
  <2>3. rcx = Words /\ left = 1
    BY <1>1, <2>2 DEF AtaInv, Identifying, Offered, DriveOK, AtaTypeOK
  <2>4. SectorTaken
    <3>1. rcx # 0
      BY <2>3, Constants
    <3>2. QED
      BY <1>1, <2>2, <3>1, TransferFacts DEF NothingTaken
  <2>5. QED
    BY <2>3, <2>4 DEF SectorTaken
<1>2. ASSUME AtaInv, [AtaNext]_ataVars
      PROVE  [result' = 0 /\ result # 0 =>
                \A w \in 0..(Words - 1) : w \in DOMAIN buf' /\ buf'[w] = <<1, w>>]_ataVars
  BY <1>1, <1>2
<1>3. QED
  BY <1>2, AtaSpecInv, PTL DEF AtaSpec, IdentifySound

================================================================================

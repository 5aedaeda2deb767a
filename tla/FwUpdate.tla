------------------------------ MODULE FwUpdate ------------------------------
(***************************************************************************)
(* The PLDM task: the firmware update state machine (DSP0267), the image   *)
(* it writes to the inactive slot, the authentication it waits for, and    *)
(* the background copy of the running image to that slot.                  *)
(*                                                                         *)
(* The update agent (UA) sends commands and answers the device's own       *)
(* requests; the task handles a message, an expired timer or an event at a *)
(* time, so each handler is one action.  A timer that expired leaves its   *)
(* bit set until the task looks at it, whatever the timer does meanwhile.  *)
(* Image data is counted in units of the smallest transfer (32 bytes), the *)
(* durations of the timers are left open, and commands that are refused    *)
(* and change nothing are left out.                                        *)
(***************************************************************************)
EXTENDS Integers, Sequences

CONSTANTS Components,    (* identifiers of the firmware components         *)
          Mcu,           (* the one whose slots the bootloader chooses from *)
          FwSize,        (* Fw_Size, in units                              *)
          BufSize,       (* length of Fw_Data_Buffer, in units             *)
          SectorSize,    (* what the flash erases at once, in units        *)
          TransferSizes, (* the transfer sizes a UA asks for, in units     *)
          MetadataAt,    (* the unit that completes the metadata           *)
          Images,        (* images other than the one the device came with *)
          MaxRequests,   (* bound on UpdateComponent and copy commands     *)
          MaxMishaps     (* bound on failures, late answers and restarts   *)

PN1          == 3        (* PLDMFW_TIMEING_PN1                             *)
MaxVerified  == 3        (* MAX_PASS_COMPONENT_ID_NUM                      *)
Units        == 0 .. FwSize - 1

(* Transfer sizes are rounded down to a power of 2: the buffer, which has  *)
(* the length of a page, and a sector are multiples.                       *)
ASSUME UpdateConstants ==
    /\ Mcu \in Components
    /\ FwSize \in Nat \ {0}
    /\ BufSize \in Nat \ {0}
    /\ SectorSize \in Nat \ {0}
    /\ TransferSizes \subseteq Nat \ {0}
    /\ \A t \in TransferSizes : t >= BufSize \/ BufSize % t = 0
    /\ \A t \in TransferSizes \cup {BufSize} : SectorSize % t = 0
    /\ MetadataAt \in Units
    /\ Images \in Nat \ {0}
    /\ MaxRequests \in Nat
    /\ MaxMishaps \in Nat

(* What a unit of flash or of the buffer holds.                            *)
Cell(i, u) == [img |-> i, at |-> u]
Cells      == [img : Int, at : Int]
Erased     == Cell(-1, 0)
Junk       == Cell(-1, 1)
Image(i)   == [u \in Units |-> Cell(i, u)]

NoAnswer   == [img |-> -1, at |-> -1, len |-> 0]
EmptyBuf   == [k \in 0 .. BufSize - 1 |-> Junk]

VARIABLES
    state,     (* Pldm_State                                               *)
    slot,      (* Slot_State                                               *)
    retry,     (* Req_Retry                                                *)
    timer,     (* the timer runs                                           *)
    tbit,      (* TimerBit: it expired and the task has not looked yet     *)
    ts,        (* Max_Transfer_Size                                        *)
    comp,      (* Comp_Id                                                  *)
    img,       (* the image the UA offers for it                           *)
    offset,    (* Fw_Current_Offset                                        *)
    addr,      (* Wr_Spi_Addr, from the start of the slot                  *)
    lastLen,   (* Last_Transfer_Size                                       *)
    metaDone,  (* Is_Metadata_Check_Done                                   *)
    spi,       (* Spi_Flash_Retry is over Write_Fail_Retry, which is 0     *)
    buf, cur,  (* Fw_Data_Buffer: Data and Cur_Size                        *)
    passed,    (* Pass_Comp_Size                                           *)
    verified,  (* Verify_Comp_Size                                         *)
    flash,     (* the slot an update of each component is written to       *)
    fwState,   (* PdsUpdateState, or the state of the other component      *)
    switched,  (* PdsUpdateSlot is the slot the device runs from           *)
    bootable,  (* the inactive slot is marked bootable                     *)
    allow,     (* NpdsAllowInitBackgroundCopy                              *)
    running,   (* the image the device runs                                *)
    copying,   (* Is_Backup_In_Progress                                    *)
    copy,      (* the flash task's background copy                         *)
    bits,      (* BgStartBit, BgEndBit                                     *)
    auth,      (* authentications requested and not finished               *)
    asked,     (* the data the last request asked for, not yet answered    *)
    late,      (* an answer that arrives again, or after another request   *)
    requests, mishaps, (* what happened so far, for the bounds             *)
    tainted,   (* the download met one of the cases listed at WholeImage   *)
    judged,    (* components that got a verdict, whatever it was, since    *)
               (* the last RequestUpdate                                   *)
    blind,     (* the task was reset while a copy ran                      *)
    unmarked   (* the MCU's slot was, or may be, written or erased while   *)
               (* it is marked bootable                                    *)

fsm   == <<state, slot, retry, timer, tbit>>
plan  == <<ts, comp, img>>
place == <<offset, addr, lastLen, metaDone, spi, buf, cur>>
lists == <<passed, verified>>
pds   == <<fwState, switched, bootable, allow>>
bg    == <<copying, copy, bits>>
net   == <<asked, late>>
count == <<requests, mishaps>>
hist  == <<tainted, judged, blind, unmarked>>
vars  == <<fsm, plan, place, lists, flash, pds, running, bg, auth, net, count,
           hist>>

States     == {"IDLE", "LC", "RDY_XFER", "DL", "VERIFY", "APPLY"}
SlotStates == {"Init", "Trans_Comp", "Trans_Error", "Sec_Ver_Fail",
               "Spiflash_Error", "Auth_Success", "Auth_Fail"}
FwStates   == {"Invalid", "InProgress", "Complete", "Stage"}

Listed == {verified[k] : k \in DOMAIN verified}
Mishap  == mishaps < MaxMishaps /\ mishaps' = mishaps + 1
Request == requests < MaxRequests /\ requests' = requests + 1

Init ==
    /\ state = "IDLE" /\ slot = "Init" /\ retry = 0
    /\ ts = 0 /\ comp = Mcu /\ img = 0
    /\ offset = 0 /\ addr = 0 /\ lastLen = 0 /\ metaDone = FALSE /\ spi = FALSE
    /\ buf = EmptyBuf /\ cur = 0
    /\ passed = {} /\ verified = <<>> /\ copying = FALSE
    /\ timer = FALSE /\ tbit = FALSE
    /\ flash = [c \in Components |-> Image(0)]
    /\ fwState = [c \in Components |-> "Invalid"]
    /\ switched = FALSE /\ bootable = TRUE /\ allow = FALSE /\ running = 0
    /\ copy = "Idle" /\ bits = {} /\ auth = <<>>
    /\ asked = NoAnswer /\ late = NoAnswer
    /\ requests = 0 /\ mishaps = 0
    /\ tainted = "No" /\ judged = {} /\ blind = FALSE /\ unmarked = FALSE

-----------------------------------------------------------------------------
(* Defect: a change of state only clears the timer. *)
ChangeStateClears(s) == state' = s /\ timer' = FALSE

(* Pldmfw_Change_State: IDLE clears the timer, any other state sets it. *)
ChangeState(s) == state' = s /\ timer' = (s # "IDLE")

(* Pldmfw_Send_Request_Fw_Data for the next data after `o' written and `n'  *)
(* buffered units; less than a unit is asked for as a whole one.           *)
Remaining(o, n) == IF o + n >= FwSize THEN 1 ELSE FwSize - o - n
TransferLen(o, n) == IF Remaining(o, n) > ts THEN ts ELSE Remaining(o, n)
AskData(i, o, n) ==
    /\ lastLen' = TransferLen(o, n)
    /\ asked' = [img |-> i, at |-> o + n, len |-> TransferLen(o, n)]
    /\ timer' = TRUE

(* pldm_update_pds for the components of `cs', where it fails for those of  *)
(* `half': the mark of the MCU's inactive slot, which only a completed     *)
(* update leaves alone, the slot and the state are written in this order.  *)
Mark(cs, half, s) ==
    LET left == IF s = "Complete" THEN bootable ELSE FALSE
    IN  /\ fwState' = [c \in Components |-> IF c \in cs THEN s ELSE fwState[c]]
        /\ allow' = (allow \/ (Mcu \in cs \cup half /\ s = "InProgress"))
        /\ \/ Mcu \notin cs /\ UNCHANGED <<switched, bootable>>
           \/ Mcu \in half /\ bootable' = left /\ switched' \in {switched, FALSE}
           \/ Mcu \in cs /\ bootable' = left /\ switched' = FALSE

-----------------------------------------------------------------------------
(* Commands of the update agent. *)

(* Defect: an update may begin while the background copy runs. *)
RequestUpdateWhileCopying(t) ==
    /\ state = "IDLE"
    /\ ts' = t
    /\ passed' = {}
    /\ ChangeState("LC")
    /\ judged' = {}
    /\ UNCHANGED <<slot, retry, tbit, comp, img, place, verified, flash, pds,
                   running, bg, auth, net, count, tainted, blind, unmarked>>

RequestUpdate(t) ==
    /\ state = "IDLE"
    /\ ~copying
    /\ ts' = t
    /\ passed' = {}
    /\ ChangeState("LC")
    /\ judged' = {}
    /\ UNCHANGED <<slot, retry, tbit, comp, img, place, verified, flash, pds,
                   running, bg, auth, net, count, tainted, blind, unmarked>>

(* Defect: the components verified in an earlier update stay listed. *)
PassComponentKeepsList(c, last) ==
    /\ state = "LC"
    /\ passed' = passed \cup {c}
    /\ IF last THEN ChangeState("RDY_XFER") ELSE UNCHANGED <<state, timer>>
    /\ UNCHANGED <<slot, retry, tbit, plan, place, verified, flash, pds, running,
                   bg, auth, net, count, hist>>

(* Pldmfw_Cmd_Pass_Component_Table; `last' is the transfer flag's end. *)
PassComponent(c, last) ==
    /\ state = "LC"
    /\ passed' = passed \cup {c}
    /\ verified' = <<>>
    /\ IF last THEN ChangeState("RDY_XFER") ELSE UNCHANGED <<state, timer>>
    /\ UNCHANGED <<slot, retry, tbit, plan, place, flash, pds, running, bg, auth,
                   net, count, hist>>

(* What Pldmfw_Cmd_Update_Component sets before it looks at the component; *)
(* the buffer is not emptied.                                              *)
BeginComponent(c, i) ==
    /\ state = "RDY_XFER"
    /\ Request
    /\ comp' = c
    /\ img' = i
    /\ offset' = 0
    /\ metaDone' = FALSE
    /\ slot' = "Init"
    /\ spi' = FALSE
    /\ tainted' = (IF cur = 0 THEN "No" ELSE "Yes")
    /\ UNCHANGED <<tbit, ts, buf, cur, lists, flash, pds, running, bg, auth,
                   late, mishaps, judged, blind, unmarked>>

UpdateComponent(c, i) ==
    /\ BeginComponent(c, i)
    /\ c \in passed
    /\ addr' = 0
    /\ state' = "DL"
    /\ retry' = 0
    /\ AskData(i, 0, cur)

(* The component was not passed, or its version is no newer. *)
UpdateRefused(c, i) ==
    /\ BeginComponent(c, i)
    /\ addr' = IF c \in passed THEN 0 ELSE addr
    /\ UNCHANGED <<state, retry, timer, lastLen, asked>>

(* Pldmfw_Cmd_Activate_Fw; marking the components of `failed' fails, and   *)
(* the last of the list decides whether the update ends.                   *)
Activate(failed) ==
    /\ state = "RDY_XFER"
    /\ verified # <<>>
    /\ failed \subseteq Listed
    /\ IF failed = {} THEN UNCHANGED mishaps ELSE Mishap
    /\ Mark(Listed \ failed, failed, "Complete")
    /\ verified' = <<>>
    /\ IF verified[Len(verified)] \in failed THEN UNCHANGED <<state, timer>>
                                             ELSE ChangeState("IDLE")
    /\ UNCHANGED <<slot, retry, tbit, plan, place, passed, flash, running, bg,
                   auth, net, requests, hist>>

CancelUpdateComponent ==
    /\ state \in {"DL", "VERIFY", "APPLY"}
    /\ ChangeState("RDY_XFER")
    /\ UNCHANGED <<slot, retry, tbit, plan, place, lists, flash, pds, running,
                   bg, auth, net, count, hist>>

CancelUpdate ==
    /\ state # "IDLE"
    /\ ChangeState("IDLE")
    /\ UNCHANGED <<slot, retry, tbit, plan, place, lists, flash, pds, running,
                   bg, auth, net, count, hist>>

-----------------------------------------------------------------------------
(* The answer to a request for data: the expected one, or a late one. *)
Msg(k)     == IF k = "asked" THEN asked ELSE late
Consume(k) == late' = IF k = "late" THEN NoAnswer ELSE late
Forget(k)  == asked' = IF k = "asked" THEN NoAnswer ELSE asked

(* An answer the device takes; a second one for data it wrote, or one of   *)
(* another length than the last request's, is dropped.                     *)
Fits(m)    == m.at >= offset /\ m.len = lastLen
Answered(k) ==
    /\ state = "DL"
    /\ Msg(k) # NoAnswer
    /\ Fits(Msg(k))
    /\ Consume(k)
    /\ retry' = 0

FwDataDropped(k) ==
    /\ state = "DL"
    /\ Msg(k) # NoAnswer
    /\ ~Fits(Msg(k))
    /\ Consume(k)
    /\ Forget(k)
    /\ retry' = 0
    /\ timer' = TRUE
    /\ UNCHANGED <<state, slot, tbit, plan, place, lists, flash, pds, running,
                   bg, auth, count, hist>>

(* A completion code other than success. *)
BadAnswer ==
    /\ state = "DL"
    /\ asked # NoAnswer
    /\ asked' = NoAnswer
    /\ retry' = 0
    /\ slot' = "Trans_Error"
    /\ timer' = TRUE
    /\ UNCHANGED <<state, tbit, plan, place, lists, flash, pds, running, bg,
                   auth, late, count, hist>>

(* The UA asks the device to repeat its request later. *)
RetryAnswer ==
    /\ state = "DL"
    /\ asked # NoAnswer
    /\ asked' = NoAnswer
    /\ retry' = 0
    /\ spi' = FALSE
    /\ timer' = TRUE
    /\ UNCHANGED <<state, slot, tbit, plan, offset, addr, lastLen, metaDone, buf,
                   cur, lists, flash, pds, running, bg, auth, late, count, hist>>

(* The answer to a request arrives once more, whenever it likes. *)
Straggle ==
    /\ asked # NoAnswer
    /\ Mishap
    /\ late' = asked
    /\ UNCHANGED <<fsm, plan, place, lists, flash, pds, running, bg, auth, asked,
                   requests, hist>>

(* The metadata of the image comes first, and the image again after it. *)
AllMetadata == offset <= MetadataAt /\ MetadataAt < offset + ts

CollectMetadata(k) ==
    /\ Answered(k)
    /\ ~metaDone
    /\ ~AllMetadata
    /\ offset' = offset + ts
    /\ AskData(img, offset + ts, cur)
    /\ UNCHANGED <<state, slot, tbit, plan, addr, metaDone, spi, buf, cur, lists,
                   flash, pds, running, bg, auth, count, hist>>

(* Another SKU, or a component staged before: not older, nor the same. *)
MetadataRefused(k, s) ==
    /\ Answered(k)
    /\ ~metaDone
    /\ AllMetadata
    /\ \/ s = "Sec_Ver_Fail"
       \/ /\ s = "Trans_Comp"
          /\ fwState[comp] = "Stage"
          /\ flash[comp][MetadataAt] = Cell(img, MetadataAt)
    /\ metaDone' = TRUE
    /\ slot' = s
    /\ timer' = TRUE
    /\ Forget(k)
    /\ UNCHANGED <<state, tbit, plan, offset, addr, lastLen, spi, buf, cur,
                   lists, flash, pds, running, bg, auth, count, hist>>

(* Recording that the component is being updated fails, before or after    *)
(* the slot is marked not bootable.                                        *)
MetadataNotMarked(k) ==
    /\ Answered(k)
    /\ ~metaDone
    /\ AllMetadata
    /\ Mishap
    /\ metaDone' = TRUE
    /\ timer' = TRUE
    /\ Forget(k)
    /\ Mark({}, {comp}, "InProgress")
    /\ unmarked' = (unmarked \/ (comp = Mcu /\ bootable'))
    /\ tainted' = IF offset = 0 THEN tainted ELSE "Yes"
    /\ UNCHANGED <<state, slot, tbit, plan, offset, addr, lastLen, spi, buf, cur,
                   lists, flash, running, bg, auth, requests, judged,
                   blind>>

MetadataAccepted(k) ==
    /\ Answered(k)
    /\ ~metaDone
    /\ AllMetadata
    /\ offset # 0
    /\ metaDone' = TRUE
    /\ Mark({comp}, {}, "InProgress")
    /\ offset' = 0
    /\ AskData(img, 0, cur)
    /\ UNCHANGED <<state, slot, tbit, plan, addr, spi, buf, cur, lists, flash,
                   running, bg, auth, count, hist>>

-----------------------------------------------------------------------------
(* Writing the image. *)

(* Image_Write of `n' units of `data' at `a': the MCU's slot is erased a    *)
(* sector at a time, another component at its start.                       *)
ErasedAt(c, a) ==
    IF c = Mcu THEN IF a % SectorSize = 0 THEN a .. a + SectorSize - 1 ELSE {}
               ELSE IF a = 0 THEN Units ELSE {}
Program(f, c, a, data, n) ==
    LET blank(u) == f[c][u] = Erased \/ u \in ErasedAt(c, a)
    IN  [f EXCEPT ![c] = [u \in Units |->
            IF u \in a .. a + n - 1
            THEN IF blank(u) THEN data[u - a] ELSE Junk
            ELSE IF u \in ErasedAt(c, a) THEN Erased ELSE f[c][u]]]
Spoilt(n) == [j \in 0 .. n - 1 |-> Junk]

(* A transfer shorter than a page is collected in the buffer, which is     *)
(* written when it is full.                                                *)
Buffered     == ts < BufSize
Payload(m)   == [j \in 0 .. m.len - 1 |-> Cell(m.img, m.at + j)]
Filled(m)    == [j \in 0 .. BufSize - 1 |->
                    IF j \in cur .. cur + m.len - 1
                    THEN Cell(m.img, m.at + j - cur) ELSE buf[j]]
FillsPage(m) == Buffered /\ cur + m.len = BufSize
Writes(m)    == ~Buffered \/ FillsPage(m)

(* The place after the chunk `m' is stored. *)
Kept(m)  == IF ~Buffered THEN cur ELSE IF FillsPage(m) THEN 0 ELSE cur + m.len
Moved(m) == IF ~Buffered THEN m.len ELSE IF FillsPage(m) THEN BufSize ELSE 0
KeptBuf(m) == IF ~Buffered THEN buf ELSE IF FillsPage(m) THEN EmptyBuf
              ELSE Filled(m)
Written(m) == IF ~Writes(m) THEN flash
              ELSE Program(flash, comp, addr,
                           IF Buffered THEN Filled(m) ELSE Payload(m), Moved(m))
IsLast(m)  == offset + Moved(m) + Kept(m) >= FwSize

(* A chunk that goes to the image: the metadata is complete, now or before. *)
(* A chunk past the end of the buffer is left out.                          *)
ToStore(k) ==
    /\ Answered(k)
    /\ metaDone \/ (AllMetadata /\ offset = 0)
    /\ Buffered => cur + Msg(k).len <= BufSize
    /\ metaDone' = TRUE
    /\ IF metaDone THEN UNCHANGED pds ELSE Mark({comp}, {}, "InProgress")
    /\ unmarked' = (unmarked \/ (comp = Mcu /\ slot # "Init"))

(* The chunk is the image's next one and nothing failed before it. *)
Taint(m) == IF \/ tainted = "Failed" \/ slot # "Init"
               \/ m.img # img \/ m.at # offset + cur
            THEN "Yes" ELSE tainted

StoreChunk(k) ==
    /\ ToStore(k)
    /\ ~IsLast(Msg(k))
    /\ flash' = Written(Msg(k))
    /\ offset' = offset + Moved(Msg(k))
    /\ addr' = addr + Moved(Msg(k))
    /\ buf' = KeptBuf(Msg(k))
    /\ cur' = Kept(Msg(k))
    /\ spi' = FALSE
    /\ AskData(img, offset + Moved(Msg(k)), Kept(Msg(k)))
    /\ tainted' = Taint(Msg(k))
    /\ UNCHANGED <<state, slot, tbit, plan, lists, running, bg, auth, count,
                   judged, blind>>

(* Defect: what is left in the buffer after the last chunk is not written. *)
StoreLastUnflushed(k) ==
    /\ ToStore(k)
    /\ IsLast(Msg(k))
    /\ flash' = Written(Msg(k))
    /\ offset' = FwSize
    /\ addr' = addr + Moved(Msg(k)) + Kept(Msg(k))
    /\ buf' = EmptyBuf
    /\ cur' = 0
    /\ spi' = FALSE
    /\ slot' = "Trans_Comp"
    /\ timer' = TRUE
    /\ Forget(k)
    /\ tainted' = Taint(Msg(k))
    /\ UNCHANGED <<state, tbit, plan, lastLen, lists, running, bg, auth, count,
                   judged, blind>>

(* The last chunk, and what is left in the buffer after it. *)
StoreLast(k) ==
    /\ ToStore(k)
    /\ IsLast(Msg(k))
    /\ flash' = IF Kept(Msg(k)) = 0 THEN Written(Msg(k))
                ELSE Program(Written(Msg(k)), comp, addr + Moved(Msg(k)),
                             KeptBuf(Msg(k)), Kept(Msg(k)))
    /\ offset' = FwSize
    /\ addr' = addr + Moved(Msg(k)) + Kept(Msg(k))
    /\ buf' = EmptyBuf
    /\ cur' = 0
    /\ spi' = FALSE
    /\ slot' = "Trans_Comp"
    /\ timer' = TRUE
    /\ Forget(k)
    /\ tainted' = Taint(Msg(k))
    /\ UNCHANGED <<state, tbit, plan, lastLen, lists, running, bg, auth, count,
                   judged, blind>>

(* The write of a chunk fails; the buffer stays full. *)
StoreFails(k) ==
    /\ ToStore(k)
    /\ Writes(Msg(k))
    /\ Mishap
    /\ flash' = Program(flash, comp, addr, Spoilt(Moved(Msg(k))), Moved(Msg(k)))
    /\ buf' = IF Buffered THEN Filled(Msg(k)) ELSE buf
    /\ cur' = IF Buffered THEN cur + Msg(k).len ELSE cur
    /\ spi' = TRUE
    /\ timer' = TRUE
    /\ Forget(k)
    /\ tainted' = IF Taint(Msg(k)) = "Yes" THEN "Yes" ELSE "Failed"
    /\ UNCHANGED <<state, slot, tbit, plan, offset, addr, lastLen, lists, running,
                   bg, auth, requests, judged, blind>>

(* The write of what is left after the last chunk fails. *)
FlushFails(k) ==
    /\ ToStore(k)
    /\ IsLast(Msg(k))
    /\ Kept(Msg(k)) # 0
    /\ Mishap
    /\ flash' = Program(Written(Msg(k)), comp, addr + Moved(Msg(k)),
                        Spoilt(Kept(Msg(k))), Kept(Msg(k)))
    /\ offset' = offset + Moved(Msg(k))
    /\ addr' = addr + Moved(Msg(k))
    /\ buf' = KeptBuf(Msg(k))
    /\ cur' = Kept(Msg(k))
    /\ spi' = FALSE
    /\ timer' = FALSE
    /\ Forget(k)
    /\ tainted' = IF Taint(Msg(k)) = "Yes" THEN "Yes" ELSE "Failed"
    /\ UNCHANGED <<state, slot, tbit, plan, lastLen, lists, running, bg, auth,
                   requests, judged, blind>>

-----------------------------------------------------------------------------
(* The replies to TransferComplete, VerifyComplete and ApplyComplete; a     *)
(* slot that failed waits a last time-out before the task goes idle.       *)
TransferReply ==
    /\ state = "DL"
    /\ slot \in {"Trans_Comp", "Sec_Ver_Fail", "Trans_Error"}
    /\ IF slot = "Trans_Error"
       THEN retry' = PN1 /\ timer' = TRUE /\ UNCHANGED state
       ELSE retry' = 0 /\ ChangeState("VERIFY")
    /\ auth' = IF slot = "Trans_Comp" THEN Append(auth, comp) ELSE auth
    /\ UNCHANGED <<slot, tbit, plan, place, lists, flash, pds, running, bg, net,
                   count, hist>>

(* A request for authentication the queue does not take is lost. *)
LoseVerdict ==
    /\ auth # <<>>
    /\ Mishap
    /\ auth' = Tail(auth)
    /\ UNCHANGED <<fsm, plan, place, lists, flash, pds, running, bg, net, requests,
                   hist>>

(* Pldmfw_Authenticate_Handler: the verdict on the oldest request, taken    *)
(* for the component under verification.                                   *)
AuthFinish(ok) ==
    /\ auth # <<>>
    /\ auth' = Tail(auth)
    /\ IF state = "VERIFY"
       THEN /\ slot' = (IF ok THEN "Auth_Success" ELSE "Auth_Fail")
            /\ verified' = IF Len(verified) < MaxVerified
                           THEN Append(verified, comp) ELSE verified
            /\ judged' = judged \cup {comp}
            /\ timer' = TRUE
       ELSE UNCHANGED <<slot, verified, judged, timer>>
    /\ UNCHANGED <<state, retry, tbit, plan, place, passed, flash, pds, running,
                   bg, net, count, tainted, blind, unmarked>>

VerifyReply ==
    /\ state = "VERIFY"
    /\ slot = "Trans_Comp" => retry > 0
    /\ IF slot = "Auth_Success" THEN retry' = 0 /\ ChangeState("APPLY")
       ELSE IF slot = "Trans_Comp" THEN retry' = 0 /\ UNCHANGED <<state, timer>>
       ELSE retry' = PN1 /\ timer' = TRUE /\ UNCHANGED state
    /\ UNCHANGED <<slot, tbit, plan, place, lists, flash, pds, running, bg, auth,
                   net, count, hist>>

ApplyReply ==
    /\ state = "APPLY"
    /\ retry' = 0
    /\ ChangeState("RDY_XFER")
    /\ UNCHANGED <<slot, tbit, plan, place, lists, flash, pds, running, bg, auth,
                   net, count, hist>>

-----------------------------------------------------------------------------
(* Time. *)
TimerExpires ==
    /\ timer
    /\ timer' = FALSE
    /\ tbit' = TRUE
    /\ UNCHANGED <<state, slot, retry, plan, place, lists, flash, pds, running,
                   bg, auth, net, count, hist>>

(* Pldmfw_Timeout_Handler, by state. *)
TimeoutIdle ==
    /\ state = "IDLE"
    /\ timer' = FALSE
    /\ UNCHANGED <<state, slot, retry, lastLen, asked, verified, pds, mishaps>>

TimeoutLc ==
    /\ state = "LC"
    /\ ChangeState("IDLE")
    /\ UNCHANGED <<slot, retry, lastLen, asked, verified, pds, mishaps>>

(* The UA did not activate what was verified: it is staged, and a failure   *)
(* to record that is ignored.                                              *)
TimeoutRdyXfer ==
    /\ state = "RDY_XFER"
    /\ \E failed \in SUBSET Listed :
          /\ IF failed = {} THEN UNCHANGED mishaps ELSE Mishap
          /\ Mark(Listed \ failed, failed, "Stage")
    /\ verified' = <<>>
    /\ ChangeState("IDLE")
    /\ UNCHANGED <<slot, retry, lastLen, asked>>

(* The device repeats its own request, waits a last time, then gives up. *)
GivesUpLate == retry > PN1      (* defect: one repetition too many *)
GivesUp     == retry + 1 > PN1
TimeoutDl ==
    /\ state = "DL"
    /\ retry' = retry + 1
    /\ IF GivesUp
       THEN ChangeState("IDLE") /\ UNCHANGED <<slot, lastLen, asked>>
       ELSE IF retry + 1 < PN1 /\ spi
       THEN slot' = "Spiflash_Error" /\ ChangeState("IDLE")
            /\ UNCHANGED <<lastLen, asked>>
       ELSE IF retry + 1 = PN1 \/ slot # "Init"
       THEN timer' = TRUE /\ UNCHANGED <<state, slot, lastLen, asked>>
       ELSE AskData(img, offset, cur) /\ UNCHANGED <<state, slot>>
    /\ UNCHANGED <<verified, pds, mishaps>>

TimeoutRepeats ==               (* defect: the repetitions are not counted *)
    /\ state \in {"VERIFY", "APPLY"}
    /\ timer' = TRUE
    /\ UNCHANGED <<state, slot, retry, lastLen, asked, verified, pds, mishaps>>

TimeoutVerifyApply ==
    /\ state \in {"VERIFY", "APPLY"}
    /\ retry' = retry + 1
    /\ IF GivesUp THEN ChangeState("IDLE")
                  ELSE timer' = TRUE /\ UNCHANGED state
    /\ UNCHANGED <<slot, lastLen, asked, verified, pds, mishaps>>

(* A bit set before the timer was stopped or set again acts all the same. *)
Timeout ==
    /\ tbit
    /\ tbit' = FALSE
    /\ \/ TimeoutIdle
       \/ TimeoutLc
       \/ TimeoutRdyXfer
       \/ TimeoutDl
       \/ TimeoutVerifyApply
    /\ UNCHANGED <<plan, offset, addr, metaDone, spi, buf, cur, passed, flash,
                   running, bg, auth, late, requests, hist>>

-----------------------------------------------------------------------------
(* The background copy, and the ends of the task. *)

(* pldm_bg_start, by a command another task takes. *)
CopyRequest ==
    /\ allow
    /\ Request
    /\ bits' = bits \cup {"Start"}
    /\ UNCHANGED <<fsm, plan, place, lists, flash, pds, running, copying, copy,
                   auth, net, mishaps, hist>>

(* The copy is started, which erases the slot; then the mark, the state and *)
(* the slot of the update are cleared, and a failure to do so is ignored.  *)
(* PdsUpdateSlot 0 may be the slot the device runs from.  A loss of power  *)
(* in between is a failure of what was to come, and a Reboot.              *)
CopyBegins ==
    /\ copy' = "InProgress"
    /\ copying' = TRUE
    /\ flash' = [flash EXCEPT ![Mcu][0] = Junk]
    /\ bootable' \in {FALSE, bootable}
    /\ fwState' \in {fwState, [fwState EXCEPT ![Mcu] = "Invalid"]}
    /\ switched' \in {FALSE} \cup {fwState'[Mcu] = "Complete"}
    /\ allow' \in {FALSE, allow}
    /\ bits' = {"End"}
    /\ unmarked' = (unmarked \/ bootable')
    /\ IF bootable' \/ allow' \/ fwState'[Mcu] # "Invalid"
       THEN Mishap ELSE UNCHANGED mishaps

(* The request to start is not taken: the permission is spent. *)
CopyRefused ==
    /\ Mishap
    /\ bits' = bits \ {"Start"}
    /\ allow' = FALSE
    /\ UNCHANGED <<copy, copying, flash, bootable, fwState, switched, unmarked>>

(* BgStartBit; `automatic' is a setting of the product. *)
BgStart(automatic) ==
    /\ "Start" \in bits
    /\ IF /\ fwState[Mcu] # "Stage"
          /\ state = "IDLE"
          /\ automatic \/ allow
          /\ copy # "InProgress"
       THEN CopyBegins \/ CopyRefused
       ELSE /\ bits' = bits \ {"Start"}
            /\ allow' = (allow \/ ~automatic)
            /\ UNCHANGED <<copy, copying, flash, bootable, fwState, switched,
                           mishaps, unmarked>>
    /\ UNCHANGED <<fsm, plan, place, lists, running, auth, net, requests, tainted,
                   judged, blind>>

(* The flash task ends the copy. *)
CopyFinish ==
    /\ copy = "InProgress"
    /\ copy' = "Done"
    /\ flash' = [flash EXCEPT ![Mcu] = Image(running)]
    /\ UNCHANGED <<fsm, plan, place, lists, pds, running, copying, bits, auth,
                   net, count, hist>>

CopyFails ==
    /\ copy = "InProgress"
    /\ Mishap
    /\ copy' = "Failed"
    /\ UNCHANGED <<fsm, plan, place, lists, flash, pds, running, copying, bits,
                   auth, net, requests, hist>>

(* Defect: any end of the copy makes the slot bootable. *)
BgEndUnchecked ==
    /\ "End" \in bits
    /\ copy \in {"Done", "Failed"}
    /\ bits' = bits \ {"End"}
    /\ copying' = FALSE
    /\ bootable' = TRUE
    /\ UNCHANGED <<fsm, plan, place, lists, flash, fwState, switched, allow,
                   running, copy, auth, net, count, hist>>

(* BgEndBit, polled; a failure to set the mark is ignored. *)
BgEnd ==
    /\ "End" \in bits
    /\ copy = "Done"
    /\ bits' = bits \ {"End"}
    /\ copying' = FALSE
    /\ bootable' \in {TRUE, bootable}
    /\ IF bootable' THEN UNCHANGED mishaps ELSE Mishap
    /\ UNCHANGED <<fsm, plan, place, lists, flash, fwState, switched, allow,
                   running, copy, auth, net, requests, hist>>

(* What a reset of the task and a restart of the device have in common. *)
ContextReset ==
    /\ Mishap
    /\ state' = "IDLE" /\ slot' = "Init" /\ retry' = 0 /\ tbit' = FALSE
    /\ ts' = 0 /\ comp' = Mcu /\ img' = 0
    /\ offset' = 0 /\ addr' = 0 /\ lastLen' = 0 /\ metaDone' = FALSE
    /\ spi' = FALSE /\ buf' = EmptyBuf /\ cur' = 0
    /\ passed' = {} /\ verified' = <<>> /\ copying' = FALSE
    /\ allow' = FALSE
    /\ asked' = NoAnswer /\ late' = NoAnswer
    /\ tainted' = "No" /\ judged' = {}
    /\ UNCHANGED <<requests, unmarked>>

(* ProtocolResetBit: the queues are emptied, perhaps of a verdict as well,  *)
(* and the timer starts again; the copy goes on without the flag that says *)
(* so.                                                                      *)
ProtocolReset ==
    /\ ContextReset
    /\ timer' = TRUE
    /\ bits' = bits \ {"Start"}
    /\ blind' = (blind \/ "End" \in bits)
    /\ auth' = auth \/ (auth # <<>> /\ auth' = Tail(auth))
    /\ UNCHANGED <<flash, fwState, switched, bootable, running, copy>>

(* The bootloader, started by the FMC, which authenticates both slots: it  *)
(* switches to an updated slot that is whole, marks the one it left        *)
(* bootable, and has the task copy when a copy is due.                     *)
Whole(f)  == \E i \in 0 .. Images : f = Image(i)
CanSwitch == fwState[Mcu] = "Complete" /\ ~switched /\ Whole(flash[Mcu])
CopyDue   == (fwState[Mcu] = "Complete" /\ switched') \/ ~bootable'
Reboot(switches) ==
    /\ ContextReset
    /\ IF switches
       THEN /\ CanSwitch
            /\ running' = flash[Mcu][0].img
            /\ flash' = [flash EXCEPT ![Mcu] = Image(running)]
            /\ switched' = TRUE
            /\ bootable' = TRUE
       ELSE UNCHANGED <<running, flash, switched, bootable>>
    /\ timer' = FALSE
    /\ copy' = "Idle"
    /\ auth' = <<>>
    /\ blind' = (blind /\ ~switches /\ bootable)
    /\ bits' = IF CopyDue THEN {"Start"} ELSE {}
    /\ UNCHANGED fwState

-----------------------------------------------------------------------------
Command ==
    \/ \E t \in TransferSizes : RequestUpdate(t)
    \/ \E c \in Components, last \in BOOLEAN : PassComponent(c, last)
    \/ \E c \in Components, i \in 1 .. Images :
          UpdateComponent(c, i) \/ UpdateRefused(c, i)
    \/ \E failed \in SUBSET Components : Activate(failed)
    \/ CancelUpdateComponent
    \/ CancelUpdate

Answer ==
    \/ \E k \in {"asked", "late"} :
          \/ FwDataDropped(k)
          \/ CollectMetadata(k)
          \/ \E s \in {"Sec_Ver_Fail", "Trans_Comp"} : MetadataRefused(k, s)
          \/ MetadataNotMarked(k)
          \/ MetadataAccepted(k)
          \/ StoreChunk(k)
          \/ StoreLast(k)
          \/ StoreFails(k)
          \/ FlushFails(k)
    \/ BadAnswer
    \/ RetryAnswer
    \/ Straggle
    \/ TransferReply
    \/ VerifyReply
    \/ ApplyReply

Authentication == LoseVerdict \/ \E ok \in BOOLEAN : AuthFinish(ok)

Copying ==
    \/ CopyRequest
    \/ \E automatic \in BOOLEAN : BgStart(automatic)
    \/ CopyFinish
    \/ CopyFails
    \/ BgEnd

Restart == ProtocolReset \/ \E switches \in BOOLEAN : Reboot(switches)

Next == Command \/ Answer \/ Authentication \/ TimerExpires \/ Timeout
        \/ Copying \/ Restart

Spec     == Init /\ [][Next]_vars
FairSpec == Spec /\ WF_vars(TimerExpires) /\ WF_vars(Timeout)

-----------------------------------------------------------------------------
TypeOK ==
    /\ state \in States /\ slot \in SlotStates /\ retry \in 0 .. PN1 + 1
    /\ timer \in BOOLEAN /\ tbit \in BOOLEAN
    /\ ts \in TransferSizes \cup {0} /\ comp \in Components
    /\ img \in 0 .. Images
    /\ offset \in Nat /\ addr \in Nat /\ lastLen \in Nat
    /\ metaDone \in BOOLEAN /\ spi \in BOOLEAN
    /\ buf \in [0 .. BufSize - 1 -> Cells] /\ cur \in 0 .. BufSize
    /\ passed \subseteq Components /\ verified \in Seq(Components)
    /\ flash \in [Components -> [Units -> Cells]]
    /\ fwState \in [Components -> FwStates]
    /\ switched \in BOOLEAN /\ bootable \in BOOLEAN /\ allow \in BOOLEAN
    /\ running \in 0 .. Images
    /\ copying \in BOOLEAN /\ copy \in {"Idle", "InProgress", "Done", "Failed"}
    /\ bits \subseteq {"Start", "End"} /\ auth \in Seq(Components)
    /\ asked \in [img : Int, at : Int, len : Nat]
    /\ late \in [img : Int, at : Int, len : Nat]
    /\ requests \in 0 .. MaxRequests /\ mishaps \in 0 .. MaxMishaps
    /\ tainted \in {"No", "Failed", "Yes"} /\ judged \subseteq Components
    /\ blind \in BOOLEAN /\ unmarked \in BOOLEAN

(* An image the device reports as transferred is in flash unit by unit, in *)
(* spite of buffering, repeated and dropped answers and retried requests.  *)
(* Left out, because the code has no defence: a chunk taken out of place   *)
(* (a late answer, a buffer another download left), writing after a write  *)
(* that failed, and a copy the task forgot.                                *)
WholeImage ==
    slot = "Trans_Comp" /\ offset = FwSize /\ state \in {"DL", "VERIFY"}
    /\ tainted # "Yes" /\ ~blind
        => flash[comp] = Image(img)

(* The bootloader may fall back to the inactive slot whenever it is marked *)
(* bootable: it holds a whole image, through updates, copies, failures and *)
(* restarts.  Left out (unmarked): a failing write of the mark itself,     *)
(* after which the download goes on, or before which the copy has begun,   *)
(* and an answer taken after the image was refused; and a copy the task    *)
(* forgot (blind).                                                         *)
BootableIntact == bootable /\ ~blind /\ ~unmarked => Whole(flash[Mcu])

(* No update runs while the background copy writes the same slot: the two  *)
(* start by separate events and check each other's flag.                   *)
OneWriter == copy = "InProgress" /\ ~blind => state = "IDLE"

(* A component is activated or staged only when an authentication finished *)
(* for it since the update began: the list Verify_Comp_Size outlives an    *)
(* update that is cancelled.  The verdict may be a failure, which puts the *)
(* component on the list like a success; that Activate then completes it   *)
(* is what the code does, and not what the property forbids.               *)
SessionScoped ==
    [][\A c \in Components :
        fwState'[c] \in {"Complete", "Stage"} /\ fwState'[c] # fwState[c]
            => c \in judged]_vars

(* A device in an update is never without a timer that ends it, except     *)
(* after the final flush of the buffer failed.                             *)
Unflushed   == state = "DL" /\ metaDone /\ cur # 0 /\ offset + cur >= FwSize
TimerGuards == state # "IDLE" => timer \/ tbit \/ Unflushed

(* When the UA falls silent the device leaves the update by itself.        *)
ReturnsToIdle ==
    <>[][TimerExpires \/ Timeout \/ Authentication]_vars
        => []<>(state = "IDLE" \/ Unflushed)

(* pdk-pldm-fwupdate-cmd.adb:1259 "check iid offset list for UA retry      *)
(* protection", "has already written drop pkt": no unit of the image is    *)
(* stored twice.                                                           *)
NoRepeatStored ==
    \A c \in Components, u, v \in Units :
        u # v /\ flash[c][u] = flash[c][v] => flash[c][u] \in {Erased, Junk}
=============================================================================

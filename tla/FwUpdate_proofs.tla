--------------------------- MODULE FwUpdate_proofs ---------------------------
(***************************************************************************)
(* The safety of the firmware update for any components, images, sizes and *)
(* bounds: the slot the bootloader may fall back to stays whole, the copy  *)
(* and an update exclude each other, an update always has a timer, and     *)
(* what is activated or staged got a verdict in the same update, whatever  *)
(* it was.  Each is an inductive invariant that every action is shown to   *)
(* keep.                                                                   *)
(***************************************************************************)
EXTENDS FwUpdate, TLAPS

(* BootableIntact and OneWriter. *)

(* What the steps below need of the types. *)
Shape  ==
    /\ flash = [c \in Components |-> flash[c]] /\ running \in 0 .. Images
    /\ bootable \in BOOLEAN /\ unmarked \in BOOLEAN /\ blind \in BOOLEAN
    /\ copying \in BOOLEAN /\ metaDone \in BOOLEAN

(* A copy that runs has its end polled. *)
Polled == copy = "InProgress" => "End" \in bits

(* Until then the task is idle and knows of it; a copy that is done is     *)
(* whole.                                                                  *)
Ended  == "End" \in bits /\ ~blind =>
              /\ copying /\ state = "IDLE"
              /\ copy = "Done" => Whole(flash[Mcu])

(* The mark is gone before the first unit is stored. *)
Marked == state = "DL" /\ metaDone /\ slot = "Init" /\ comp = Mcu /\ ~blind
              => ~bootable \/ unmarked

Intact == Shape /\ Polled /\ Ended /\ Marked /\ BootableIntact

(* A write changes no other component. *)
Elsewhere(f, c) ==
    /\ f = [d \in Components |-> f[d]]
    /\ \A d \in Components : d # c => f[d] = flash[d]

LEMMA ProgramElsewhere ==
    ASSUME NEW f, NEW c, NEW a, NEW data, NEW n, Elsewhere(f, c)
    PROVE  Elsewhere(Program(f, c, a, data, n), c)
<1> DEFINE g == [u \in Units |->
                  IF u \in a .. a + n - 1
                  THEN IF f[c][u] = Erased \/ u \in ErasedAt(c, a)
                       THEN data[u - a] ELSE Junk
                  ELSE IF u \in ErasedAt(c, a) THEN Erased ELSE f[c][u]]
<1>1. Program(f, c, a, data, n) = [f EXCEPT ![c] = g]
  BY DEF Program
<1> HIDE DEF g
<1> QED
  BY <1>1 DEF Elsewhere

LEMMA WrittenElsewhere ==
    ASSUME NEW m, Shape
    PROVE  Elsewhere(Written(m), comp)
<1>1. Elsewhere(flash, comp)
  BY DEF Elsewhere, Shape
<1> QED
  BY <1>1, ProgramElsewhere DEF Written

(* Recording an update's state never sets the mark of the slot, and clears *)
(* it but for a failure and a complete update.                             *)
LEMMA MarkOnlyClears ==
    ASSUME NEW cs, NEW half, NEW s, Mark(cs, half, s), bootable \in BOOLEAN
    PROVE  bootable' \in BOOLEAN /\ (bootable' => bootable)
BY DEF Mark

LEMMA IntactNext == UpdateConstants /\ Intact /\ [Next]_vars => Intact'
<1> SUFFICES ASSUME UpdateConstants, Intact, [Next]_vars PROVE Intact'
  OBVIOUS
<1> USE DEF Shape, Polled, Ended, Marked, Intact, BootableIntact,
            vars, fsm, plan, place, lists, pds, bg, net, count, hist
<1>1. ASSUME NEW t, RequestUpdate(t) PROVE Intact'
  BY <1>1 DEF RequestUpdate, ChangeState
<1>2. ASSUME NEW c, NEW last, PassComponent(c, last) PROVE Intact'
  BY <1>2 DEF PassComponent, ChangeState
<1>3. ASSUME NEW c, NEW i, UpdateComponent(c, i) PROVE Intact'
  BY <1>3 DEF UpdateComponent, BeginComponent, AskData
<1>4. ASSUME NEW c, NEW i, UpdateRefused(c, i) PROVE Intact'
  BY <1>4 DEF UpdateRefused, BeginComponent
<1>5. ASSUME NEW failed, Activate(failed) PROVE Intact'
  BY <1>5, MarkOnlyClears DEF Activate, ChangeState
<1>6. ASSUME CancelUpdateComponent PROVE Intact'
  BY <1>6 DEF CancelUpdateComponent, ChangeState
<1>7. ASSUME CancelUpdate PROVE Intact'
  BY <1>7 DEF CancelUpdate, ChangeState
<1>8. ASSUME NEW k, FwDataDropped(k) PROVE Intact'
  BY <1>8 DEF FwDataDropped
<1>9. ASSUME NEW k, CollectMetadata(k) PROVE Intact'
  BY <1>9 DEF CollectMetadata, Answered, AskData
<1>10. ASSUME NEW k, NEW s, MetadataRefused(k, s) PROVE Intact'
  BY <1>10 DEF MetadataRefused, Answered
<1>11. ASSUME NEW k, MetadataNotMarked(k)
    PROVE Intact'
  <2>1. bootable' \in BOOLEAN /\ (bootable' => bootable)
    BY <1>11, MarkOnlyClears DEF MetadataNotMarked
  <2>2. /\ unmarked' = (unmarked \/ (comp = Mcu /\ bootable'))
        /\ metaDone' = TRUE
        /\ UNCHANGED <<state, slot, comp, flash, running, bg, blind>>
    BY <1>11 DEF MetadataNotMarked
  <2> QED
    BY <2>1, <2>2
<1>12. ASSUME NEW k, MetadataAccepted(k) PROVE Intact'
  <2>1. bootable' \in BOOLEAN /\ (bootable' => bootable)
    BY <1>12, MarkOnlyClears DEF MetadataAccepted
  <2>2. comp = Mcu => bootable' = FALSE
    BY <1>12 DEF MetadataAccepted, Mark
  <2>3. metaDone' = TRUE /\ UNCHANGED <<state, slot, comp, flash, running, bg,
                                       blind, unmarked>>
    BY <1>12 DEF MetadataAccepted
  <2> QED
    BY <2>1, <2>2, <2>3
<1>13. ASSUME NEW k, StoreChunk(k) PROVE Intact'
  <2>1. Elsewhere(flash', comp)
    BY <1>13, WrittenElsewhere DEF StoreChunk, Shape
  <2>2. Mcu \in Components
    BY DEF UpdateConstants
  <2>3. state = "DL" /\ ("End" \notin bits \/ blind)
    BY <1>13 DEF StoreChunk, ToStore, Answered
  <2> QED
    BY <1>13, <2>1, <2>2, <2>3 DEF StoreChunk, ToStore, Answered, Mark,
        AskData, Elsewhere
<1>14. ASSUME NEW k, StoreLast(k) PROVE Intact'
  <2>1. Elsewhere(flash', comp)
    BY <1>14, WrittenElsewhere, ProgramElsewhere DEF StoreLast, Shape
  <2>2. Mcu \in Components
    BY DEF UpdateConstants
  <2>3. state = "DL" /\ ("End" \notin bits \/ blind)
    BY <1>14 DEF StoreLast, ToStore, Answered
  <2> QED
    BY <1>14, <2>1, <2>2, <2>3 DEF StoreLast, ToStore, Answered, Mark, AskData,
        Elsewhere
<1>15. ASSUME NEW k, StoreFails(k) PROVE Intact'
  <2>1. Elsewhere(flash', comp)
    BY <1>15, ProgramElsewhere DEF StoreFails, Elsewhere, Shape
  <2>2. Mcu \in Components
    BY DEF UpdateConstants
  <2>3. state = "DL" /\ ("End" \notin bits \/ blind)
    BY <1>15 DEF StoreFails, ToStore, Answered
  <2> QED
    BY <1>15, <2>1, <2>2, <2>3 DEF StoreFails, ToStore, Answered, Mark,
        AskData, Elsewhere
<1>16. ASSUME NEW k, FlushFails(k) PROVE Intact'
  <2>1. Elsewhere(flash', comp)
    BY <1>16, WrittenElsewhere, ProgramElsewhere DEF FlushFails, Shape
  <2>2. Mcu \in Components
    BY DEF UpdateConstants
  <2>3. state = "DL" /\ ("End" \notin bits \/ blind)
    BY <1>16 DEF FlushFails, ToStore, Answered
  <2> QED
    BY <1>16, <2>1, <2>2, <2>3 DEF FlushFails, ToStore, Answered, Mark,
        AskData, Elsewhere
<1>17. ASSUME BadAnswer PROVE Intact'
  BY <1>17 DEF BadAnswer
<1>18. ASSUME RetryAnswer PROVE Intact'
  BY <1>18 DEF RetryAnswer
<1>19. ASSUME Straggle PROVE Intact'
  BY <1>19 DEF Straggle
<1>20. ASSUME TransferReply PROVE Intact'
  BY <1>20 DEF TransferReply, ChangeState
<1>21. ASSUME VerifyReply PROVE Intact'
  BY <1>21 DEF VerifyReply, ChangeState
<1>22. ASSUME ApplyReply PROVE Intact'
  BY <1>22 DEF ApplyReply, ChangeState
<1>23. ASSUME LoseVerdict PROVE Intact'
  BY <1>23 DEF LoseVerdict
<1>24. ASSUME NEW ok \in BOOLEAN, AuthFinish(ok) PROVE Intact'
  BY <1>24 DEF AuthFinish
<1>25. ASSUME TimerExpires PROVE Intact'
  BY <1>25 DEF TimerExpires
<1>26. ASSUME Timeout PROVE Intact'
  <2>1. CASE TimeoutIdle \/ TimeoutLc
    BY <1>26, <2>1 DEF Timeout, TimeoutIdle, TimeoutLc, ChangeState
  <2>4. CASE TimeoutRdyXfer
    <3>1. state = "RDY_XFER" /\ state' = "IDLE" /\ (bootable' => bootable)
          /\ bootable' \in BOOLEAN
      BY <2>4, MarkOnlyClears DEF TimeoutRdyXfer, ChangeState
    <3>2. UNCHANGED <<flash, running, bg, metaDone, comp, blind, unmarked,
        slot>>
      BY <1>26, <2>4 DEF Timeout, TimeoutRdyXfer
    <3> QED
      BY <3>1, <3>2
  <2>2. CASE TimeoutDl
    BY <1>26, <2>2 DEF Timeout, TimeoutDl, ChangeState, AskData
  <2>3. CASE TimeoutVerifyApply
    BY <1>26, <2>3 DEF Timeout, TimeoutVerifyApply, ChangeState
  <2> QED
    BY <1>26, <2>1, <2>2, <2>3, <2>4 DEF Timeout
<1>27. ASSUME CopyRequest PROVE Intact'
  BY <1>27 DEF CopyRequest
<1>28. ASSUME NEW automatic \in BOOLEAN, BgStart(automatic) PROVE Intact'
  BY <1>28 DEF BgStart, CopyBegins, CopyRefused, Mishap
<1>29. ASSUME CopyFinish PROVE Intact'
  BY <1>29 DEF CopyFinish, UpdateConstants, Whole
<1>30. ASSUME CopyFails PROVE Intact'
  BY <1>30 DEF CopyFails
<1>31. ASSUME BgEnd PROVE Intact'
  BY <1>31 DEF BgEnd, Mishap
<1>32. ASSUME ProtocolReset PROVE Intact'
  BY <1>32 DEF ProtocolReset, ContextReset
<1>33. ASSUME NEW switches \in BOOLEAN, Reboot(switches) PROVE Intact'
  <2>1. CASE switches
    <3>1. PICK i \in 0 .. Images : flash[Mcu] = Image(i)
      BY <1>33, <2>1 DEF Reboot, CanSwitch, Whole
    <3>2. 0 \in Units
      BY DEF UpdateConstants, Units
    <3>3. flash[Mcu][0].img = i
      BY <3>1, <3>2 DEF Image, Cell
    <3> QED
      BY <1>33, <2>1, <3>3 DEF Reboot, ContextReset, CopyDue, UpdateConstants,
          Whole
  <2>2. CASE ~switches
    <3>1. UNCHANGED <<flash, running, bootable, unmarked>> /\ copy' = "Idle"
          /\ "End" \notin bits' /\ state' = "IDLE" /\ metaDone' = FALSE
          /\ copying' = FALSE
      BY <1>33, <2>2 DEF Reboot, ContextReset
    <3>2. blind' \in BOOLEAN /\ (bootable /\ blind => blind')
      BY <1>33, <2>2 DEF Reboot
    <3> QED
      BY <3>1, <3>2
  <2> QED
    BY <2>1, <2>2
<1> QED
  BY <1>1, <1>2, <1>3, <1>4, <1>5, <1>6, <1>7, <1>8, <1>9, <1>10, <1>11, <1>12,
      <1>13, <1>14, <1>15, <1>16, <1>17, <1>18, <1>19, <1>20, <1>21, <1>22,
      <1>23, <1>24, <1>25, <1>26, <1>27, <1>28, <1>29, <1>30, <1>31, <1>32,
      <1>33 DEF Next, Command, Answer, Authentication, Copying, Restart

LEMMA IntactInit == UpdateConstants /\ Init => Intact
<1> SUFFICES ASSUME UpdateConstants, Init PROVE Intact
  OBVIOUS
<1>1. Mcu \in Components /\ 0 \in 0 .. Images
  BY DEF UpdateConstants
<1>2. flash[Mcu] = Image(0)
  BY <1>1 DEF Init
<1>3. Whole(flash[Mcu])
  BY <1>1, <1>2 DEF Whole
<1> QED
  BY <1>1, <1>3 DEF Init, Intact, Shape, Polled, Ended, Marked, BootableIntact

LEMMA IntactAlways == Spec => []Intact
<1>1. Init => Intact
  BY IntactInit, UpdateConstants
<1>2. Intact /\ [Next]_vars => Intact'
  BY IntactNext, UpdateConstants
<1> QED
  BY <1>1, <1>2, PTL DEF Spec

(* A slot marked bootable holds a whole image (set_inactive_bootable, and  *)
(* the mark pldm_update_pds clears before the first write).                *)
THEOREM BootableIntactAlways == Spec => []BootableIntact
<1>1. Intact => BootableIntact
  BY DEF Intact
<1> QED
  BY <1>1, IntactAlways, PTL

(* No update is under way while the background copy writes the slot        *)
(* (Is_Backup_In_Progress in Request_Update, pldm_state in BgStartBit).    *)
THEOREM OneWriterAlways == Spec => []OneWriter
<1>1. Intact => OneWriter
  BY DEF Intact, Polled, Ended, OneWriter
<1> QED
  BY <1>1, IntactAlways, PTL

-----------------------------------------------------------------------------
(* TimerGuards. *)

Guarded == timer \in BOOLEAN /\ tbit \in BOOLEAN /\ TimerGuards

LEMMA GuardedNext == UpdateConstants /\ Guarded /\ [Next]_vars => Guarded'
<1> SUFFICES ASSUME UpdateConstants, Guarded, [Next]_vars PROVE Guarded'
  OBVIOUS
<1> USE DEF Guarded, TimerGuards, Unflushed,
            vars, fsm, plan, place, lists, pds, bg, net, count, hist
<1>1. ASSUME NEW t, RequestUpdate(t) PROVE Guarded'
  BY <1>1 DEF RequestUpdate, ChangeState
<1>2. ASSUME NEW c, NEW last, PassComponent(c, last) PROVE Guarded'
  BY <1>2 DEF PassComponent, ChangeState
<1>3. ASSUME NEW c \in Components, NEW i, UpdateComponent(c, i) PROVE Guarded'
  BY <1>3 DEF UpdateComponent, BeginComponent, AskData
<1>4. ASSUME NEW c \in Components, NEW i, UpdateRefused(c, i) PROVE Guarded'
  BY <1>4 DEF UpdateRefused, BeginComponent
<1>5. ASSUME NEW failed, Activate(failed) PROVE Guarded'
  BY <1>5 DEF Activate, ChangeState
<1>6. ASSUME CancelUpdateComponent PROVE Guarded'
  BY <1>6 DEF CancelUpdateComponent, ChangeState
<1>7. ASSUME CancelUpdate PROVE Guarded'
  BY <1>7 DEF CancelUpdate, ChangeState
<1>8. ASSUME NEW k, FwDataDropped(k) PROVE Guarded'
  BY <1>8 DEF FwDataDropped
<1>9. ASSUME NEW k, CollectMetadata(k) PROVE Guarded'
  BY <1>9 DEF CollectMetadata, Answered, AskData
<1>10. ASSUME NEW k, NEW s, MetadataRefused(k, s) PROVE Guarded'
  BY <1>10 DEF MetadataRefused, Answered
<1>11. ASSUME NEW k, MetadataNotMarked(k) PROVE Guarded'
  BY <1>11 DEF MetadataNotMarked, Answered
<1>12. ASSUME NEW k, MetadataAccepted(k) PROVE Guarded'
  BY <1>12 DEF MetadataAccepted, Answered, AskData
<1>13. ASSUME NEW k, StoreChunk(k) PROVE Guarded'
  BY <1>13 DEF StoreChunk, ToStore, Answered, AskData
<1>14. ASSUME NEW k, StoreLast(k) PROVE Guarded'
  BY <1>14 DEF StoreLast, ToStore, Answered
<1>15. ASSUME NEW k, StoreFails(k) PROVE Guarded'
  BY <1>15 DEF StoreFails, ToStore, Answered
<1>16. ASSUME NEW k, FlushFails(k) PROVE Guarded'
  BY <1>16 DEF FlushFails, ToStore, Answered, IsLast
<1>17. ASSUME BadAnswer PROVE Guarded'
  BY <1>17 DEF BadAnswer
<1>18. ASSUME RetryAnswer PROVE Guarded'
  BY <1>18 DEF RetryAnswer
<1>19. ASSUME Straggle PROVE Guarded'
  BY <1>19 DEF Straggle
<1>20. ASSUME TransferReply PROVE Guarded'
  BY <1>20 DEF TransferReply, ChangeState
<1>21. ASSUME VerifyReply PROVE Guarded'
  BY <1>21 DEF VerifyReply, ChangeState
<1>22. ASSUME ApplyReply PROVE Guarded'
  BY <1>22 DEF ApplyReply, ChangeState
<1>23. ASSUME LoseVerdict PROVE Guarded'
  BY <1>23 DEF LoseVerdict
<1>24. ASSUME NEW ok, AuthFinish(ok) PROVE Guarded'
  BY <1>24 DEF AuthFinish
<1>25. ASSUME TimerExpires PROVE Guarded'
  BY <1>25 DEF TimerExpires
<1>26. ASSUME Timeout PROVE Guarded'
  BY <1>26 DEF Timeout, TimeoutIdle, TimeoutLc, TimeoutRdyXfer, TimeoutDl,
      TimeoutVerifyApply, ChangeState, AskData
<1>27. ASSUME CopyRequest PROVE Guarded'
  BY <1>27 DEF CopyRequest
<1>28. ASSUME NEW automatic, BgStart(automatic) PROVE Guarded'
  BY <1>28 DEF BgStart, CopyBegins, CopyRefused, Mishap
<1>29. ASSUME CopyFinish PROVE Guarded'
  BY <1>29 DEF CopyFinish
<1>30. ASSUME CopyFails PROVE Guarded'
  BY <1>30 DEF CopyFails
<1>31. ASSUME BgEnd PROVE Guarded'
  BY <1>31 DEF BgEnd, Mishap
<1>32. ASSUME ProtocolReset PROVE Guarded'
  BY <1>32 DEF ProtocolReset, ContextReset
<1>33. ASSUME NEW switches, Reboot(switches) PROVE Guarded'
  BY <1>33 DEF Reboot, ContextReset
<1>34. CASE UNCHANGED vars
  BY <1>34
<1> QED
  BY <1>1, <1>2, <1>3, <1>4, <1>5, <1>6, <1>7, <1>8, <1>9, <1>10, <1>11, <1>12,
      <1>13, <1>14, <1>15, <1>16, <1>17, <1>18, <1>19, <1>20, <1>21, <1>22,
      <1>23, <1>24, <1>25, <1>26, <1>27, <1>28, <1>29, <1>30, <1>31, <1>32,
      <1>33, <1>34
  DEF Next, Command, Answer, Authentication, Copying, Restart

(* An update in progress has a timer, an expiry to be handled, or a flush  *)
(* that failed (Pldmfw_Change_State and every handler of an answer).       *)
THEOREM TimerGuardsAlways == Spec => []TimerGuards
<1>1. Init => Guarded
  BY DEF Init, Guarded, TimerGuards
<1>2. Guarded /\ [Next]_vars => Guarded'
  BY GuardedNext, UpdateConstants
<1>3. Guarded => TimerGuards
  BY DEF Guarded
<1> QED
  BY <1>1, <1>2, <1>3, PTL DEF Spec

-----------------------------------------------------------------------------
(* SessionScoped. *)

(* What is listed as verified was judged in this update; the list itself   *)
(* may be an older one until PassComponentTable clears it.                 *)
Judged ==
    /\ verified \in Seq(Components) /\ comp \in Components
    /\ fwState = [c \in Components |-> fwState[c]]
    /\ state \notin {"IDLE", "LC"} => Listed \subseteq judged

Scoped ==
    \A c \in Components :
        fwState'[c] \in {"Complete", "Stage"} /\ fwState'[c] # fwState[c]
            => c \in judged

LEMMA JudgedNext == UpdateConstants /\ Judged /\ [Next]_vars => Judged' /\
    Scoped
<1> SUFFICES ASSUME UpdateConstants, Judged, [Next]_vars PROVE Judged' /\
    Scoped
  OBVIOUS
<1> USE DEF Judged, Listed, Scoped,
            vars, fsm, plan, place, lists, pds, bg, net, count, hist
<1>1. ASSUME NEW t, RequestUpdate(t) PROVE Judged' /\ Scoped
  BY <1>1 DEF RequestUpdate, ChangeState
<1>2. ASSUME NEW c, NEW last, PassComponent(c, last) PROVE Judged' /\ Scoped
  BY <1>2 DEF PassComponent, ChangeState
<1>3. ASSUME NEW c \in Components, NEW i, UpdateComponent(c, i) PROVE Judged'
    /\ Scoped
  BY <1>3 DEF UpdateComponent, BeginComponent, AskData
<1>4. ASSUME NEW c \in Components, NEW i, UpdateRefused(c, i) PROVE Judged' /\
    Scoped
  BY <1>4 DEF UpdateRefused, BeginComponent
<1>5. ASSUME NEW failed, Activate(failed) PROVE Judged' /\ Scoped
  BY <1>5 DEF Activate, ChangeState, Mark
<1>6. ASSUME CancelUpdateComponent PROVE Judged' /\ Scoped
  BY <1>6 DEF CancelUpdateComponent, ChangeState
<1>7. ASSUME CancelUpdate PROVE Judged' /\ Scoped
  BY <1>7 DEF CancelUpdate, ChangeState
<1>8. ASSUME NEW k, FwDataDropped(k) PROVE Judged' /\ Scoped
  BY <1>8 DEF FwDataDropped
<1>9. ASSUME NEW k, CollectMetadata(k) PROVE Judged' /\ Scoped
  BY <1>9 DEF CollectMetadata, Answered, AskData
<1>10. ASSUME NEW k, NEW s, MetadataRefused(k, s) PROVE Judged' /\ Scoped
  BY <1>10 DEF MetadataRefused, Answered
<1>11. ASSUME NEW k, MetadataNotMarked(k) PROVE Judged'
    /\ Scoped
  <2>1. fwState' = [c \in Components |-> fwState[c]]
    BY <1>11 DEF MetadataNotMarked, Mark
  <2>2. UNCHANGED <<verified, comp, state, judged>>
    BY <1>11 DEF MetadataNotMarked
  <2> QED
    BY <2>1, <2>2
<1>12. ASSUME NEW k, MetadataAccepted(k) PROVE Judged' /\ Scoped
  BY <1>12 DEF MetadataAccepted, Answered, AskData, Mark
<1>13. ASSUME NEW k, StoreChunk(k) PROVE Judged' /\ Scoped
  BY <1>13 DEF StoreChunk, ToStore, Answered, AskData, Mark
<1>14. ASSUME NEW k, StoreLast(k) PROVE Judged' /\ Scoped
  BY <1>14 DEF StoreLast, ToStore, Answered, Mark
<1>15. ASSUME NEW k, StoreFails(k) PROVE Judged' /\ Scoped
  BY <1>15 DEF StoreFails, ToStore, Answered, Mark
<1>16. ASSUME NEW k, FlushFails(k) PROVE Judged' /\ Scoped
  BY <1>16 DEF FlushFails, ToStore, Answered, IsLast, Mark
<1>17. ASSUME BadAnswer PROVE Judged' /\ Scoped
  BY <1>17 DEF BadAnswer
<1>18. ASSUME RetryAnswer PROVE Judged' /\ Scoped
  BY <1>18 DEF RetryAnswer
<1>19. ASSUME Straggle PROVE Judged' /\ Scoped
  BY <1>19 DEF Straggle
<1>20. ASSUME TransferReply PROVE Judged' /\ Scoped
  BY <1>20 DEF TransferReply, ChangeState
<1>21. ASSUME VerifyReply PROVE Judged' /\ Scoped
  BY <1>21 DEF VerifyReply, ChangeState
<1>22. ASSUME ApplyReply PROVE Judged' /\ Scoped
  BY <1>22 DEF ApplyReply, ChangeState
<1>23. ASSUME LoseVerdict PROVE Judged' /\ Scoped
  BY <1>23 DEF LoseVerdict
<1>24. ASSUME NEW ok, AuthFinish(ok) PROVE Judged' /\ Scoped
  <2>1. CASE state = "VERIFY" /\ Len(verified) < MaxVerified
    <3>1. verified' = Append(verified, comp) /\ judged' = judged \cup {comp}
          /\ UNCHANGED <<comp, fwState, state>>
      BY <1>24, <2>1 DEF AuthFinish
    <3>2. verified' \in Seq(Components)
      BY <3>1
    <3>3. \A k \in DOMAIN verified' :
            (k \in DOMAIN verified /\ verified'[k] = verified[k])
            \/ verified'[k] = comp
      BY <3>1
    <3> QED
      BY <2>1, <3>1, <3>2, <3>3
  <2>2. CASE ~(state = "VERIFY" /\ Len(verified) < MaxVerified)
    <3>1. UNCHANGED <<comp, fwState, state, verified>> /\ judged \subseteq
        judged'
      BY <1>24, <2>2 DEF AuthFinish
    <3> QED
      BY <3>1
  <2> QED
    BY <2>1, <2>2
<1>25. ASSUME TimerExpires PROVE Judged' /\ Scoped
  BY <1>25 DEF TimerExpires
<1>26. ASSUME Timeout PROVE Judged' /\ Scoped
  <2>1. CASE TimeoutRdyXfer
    BY <1>26, <2>1 DEF Timeout, TimeoutRdyXfer, ChangeState, Mark
  <2>2. CASE TimeoutIdle \/ TimeoutLc
    BY <1>26, <2>2 DEF Timeout, TimeoutIdle, TimeoutLc, ChangeState
  <2>3. CASE TimeoutDl
    BY <1>26, <2>3 DEF Timeout, TimeoutDl, ChangeState, AskData
  <2>4. CASE TimeoutVerifyApply
    BY <1>26, <2>4 DEF Timeout, TimeoutVerifyApply, ChangeState
  <2> QED
    BY <1>26, <2>1, <2>2, <2>3, <2>4 DEF Timeout
<1>27. ASSUME CopyRequest PROVE Judged' /\ Scoped
  BY <1>27 DEF CopyRequest
<1>28. ASSUME NEW automatic, BgStart(automatic) PROVE Judged' /\ Scoped
  BY <1>28 DEF BgStart, CopyBegins, CopyRefused, Mishap
<1>29. ASSUME CopyFinish PROVE Judged' /\ Scoped
  BY <1>29 DEF CopyFinish
<1>30. ASSUME CopyFails PROVE Judged' /\ Scoped
  BY <1>30 DEF CopyFails
<1>31. ASSUME BgEnd PROVE Judged' /\ Scoped
  BY <1>31 DEF BgEnd, Mishap
<1>32. ASSUME ProtocolReset PROVE Judged' /\ Scoped
  BY <1>32 DEF ProtocolReset, ContextReset
<1>33. ASSUME NEW switches, Reboot(switches) PROVE Judged' /\ Scoped
  BY <1>33 DEF Reboot, ContextReset
<1>34. CASE UNCHANGED vars
  BY <1>34
<1> QED
  BY <1>1, <1>2, <1>3, <1>4, <1>5, <1>6, <1>7, <1>8, <1>9, <1>10, <1>11, <1>12,
      <1>13, <1>14, <1>15, <1>16, <1>17, <1>18, <1>19, <1>20, <1>21, <1>22,
      <1>23, <1>24, <1>25, <1>26, <1>27, <1>28, <1>29, <1>30, <1>31, <1>32,
      <1>33, <1>34
  DEF Next, Command, Answer, Authentication, Copying, Restart


(* Activate and the T1 time-out complete or stage only components that got *)
(* a verdict, a failure or not, since RequestUpdate.                       *)
THEOREM SessionScopedAlways == Spec => SessionScoped
<1>1. Init => Judged
  BY UpdateConstants DEF Init, Judged, Listed, UpdateConstants
<1>2. Judged /\ [Next]_vars => Judged' /\ Scoped
  BY JudgedNext, UpdateConstants
<1>3. Judged /\ [Next]_vars => [Scoped]_vars
  BY <1>2
<1>4. SessionScoped <=> [][Scoped]_vars
  BY DEF SessionScoped, Scoped
<1> QED
  BY <1>1, <1>2, <1>3, <1>4, PTL DEF Spec

-----------------------------------------------------------------------------
(* TypeOK. *)

Chunks == [img : Int, at : Int, len : Nat]
Buffers == [0 .. BufSize - 1 -> Cells]
Slots == [Components -> [Units -> Cells]]

(* The types of each part of the state; no more repetitions are counted    *)
(* than a request may have.                                                *)
FsmTyped ==
    /\ state \in States /\ slot \in SlotStates /\ retry \in 0 .. PN1 + 1
    /\ timer \in BOOLEAN /\ tbit \in BOOLEAN
    /\ state \in {"DL", "VERIFY", "APPLY"} => retry <= PN1
PlanTyped == ts \in TransferSizes \cup {0} /\ comp \in Components /\ img \in 0 .. Images
PlaceTyped ==
    /\ offset \in Nat /\ addr \in Nat /\ lastLen \in Nat
    /\ metaDone \in BOOLEAN /\ spi \in BOOLEAN
    /\ buf \in Buffers /\ cur \in 0 .. BufSize
ListsTyped == passed \subseteq Components /\ verified \in Seq(Components)
FlashTyped == flash \in Slots
PdsTyped ==
    /\ fwState \in [Components -> FwStates]
    /\ switched \in BOOLEAN /\ bootable \in BOOLEAN /\ allow \in BOOLEAN
RunningTyped == running \in 0 .. Images
BgTyped ==
    /\ copying \in BOOLEAN /\ copy \in {"Idle", "InProgress", "Done", "Failed"}
    /\ bits \subseteq {"Start", "End"}
AuthTyped  == auth \in Seq(Components)
NetTyped   == asked \in Chunks /\ late \in Chunks
CountTyped == requests \in 0 .. MaxRequests /\ mishaps \in 0 .. MaxMishaps
HistTyped ==
    /\ tainted \in {"No", "Failed", "Yes"} /\ judged \subseteq Components
    /\ blind \in BOOLEAN /\ unmarked \in BOOLEAN

Typed ==
    /\ FsmTyped /\ PlanTyped /\ PlaceTyped /\ ListsTyped /\ FlashTyped /\ PdsTyped
    /\ RunningTyped /\ BgTyped /\ AuthTyped /\ NetTyped /\ CountTyped /\ HistTyped

(* A part that does not change keeps its type.                             *)
LEMMA TypesKept ==
  ASSUME Typed
  PROVE  /\ UNCHANGED fsm => FsmTyped'
         /\ UNCHANGED plan => PlanTyped'
         /\ UNCHANGED place => PlaceTyped'
         /\ UNCHANGED lists => ListsTyped'
         /\ UNCHANGED flash => FlashTyped'
         /\ UNCHANGED pds => PdsTyped'
         /\ UNCHANGED running => RunningTyped'
         /\ UNCHANGED bg => BgTyped'
         /\ UNCHANGED auth => AuthTyped'
         /\ UNCHANGED net => NetTyped'
         /\ UNCHANGED count => CountTyped'
         /\ UNCHANGED hist => HistTyped'
<1> USE DEF Typed
<1>1. UNCHANGED fsm => FsmTyped'
  BY DEF fsm, FsmTyped
<1>2. UNCHANGED plan => PlanTyped'
  BY DEF plan, PlanTyped
<1>3. UNCHANGED place => PlaceTyped'
  BY DEF place, PlaceTyped
<1>4. UNCHANGED lists => ListsTyped'
  BY DEF lists, ListsTyped
<1>5. UNCHANGED flash => FlashTyped'
  BY DEF FlashTyped
<1>6. UNCHANGED pds => PdsTyped'
  BY DEF pds, PdsTyped
<1>7. UNCHANGED running => RunningTyped'
  BY DEF RunningTyped
<1>8. UNCHANGED bg => BgTyped'
  BY DEF bg, BgTyped
<1>9. UNCHANGED auth => AuthTyped'
  BY DEF AuthTyped
<1>10. UNCHANGED net => NetTyped'
  BY DEF net, NetTyped
<1>11. UNCHANGED count => CountTyped'
  BY DEF count, CountTyped
<1>12. UNCHANGED hist => HistTyped'
  BY DEF hist, HistTyped
<1> QED
  BY <1>1, <1>2, <1>3, <1>4, <1>5, <1>6, <1>7, <1>8, <1>9, <1>10, <1>11, <1>12

LEMMA Sizes ==
  /\ Mcu \in Components /\ FwSize \in Nat /\ FwSize > 0
  /\ BufSize \in Nat /\ BufSize > 0 /\ SectorSize \in Nat /\ SectorSize > 0
  /\ TransferSizes \subseteq Nat /\ Images \in Nat /\ Images > 0
  /\ Units = 0 .. FwSize - 1 /\ 0 \in Units
  /\ MaxRequests \in Nat /\ MaxMishaps \in Nat /\ PN1 = 3
  BY UpdateConstants DEF UpdateConstants, Units, PN1

LEMMA CellTyped ==
  /\ \A i, u \in Int : Cell(i, u) \in Cells
  /\ Erased \in Cells /\ Junk \in Cells /\ EmptyBuf \in Buffers
  /\ \A i \in Int : Image(i) \in [Units -> Cells]
<1>1. \A i, u \in Int : Cell(i, u) \in Cells
  BY DEF Cell, Cells
<1>2. Erased \in Cells /\ Junk \in Cells
  BY <1>1 DEF Erased, Junk
<1>3. EmptyBuf \in Buffers
  BY <1>2 DEF EmptyBuf, Buffers
<1>4. \A i \in Int : Image(i) \in [Units -> Cells]
  BY <1>1, Sizes DEF Image
<1> QED
  BY <1>1, <1>2, <1>3, <1>4

(* What is written stays a slot's content, wherever it goes.               *)
LEMMA ProgramTyped ==
  ASSUME NEW f \in Slots, NEW c \in Components,
         NEW a \in Nat, NEW n \in Nat, NEW data, \A j \in 0 .. n - 1 : data[j] \in Cells
  PROVE  Program(f, c, a, data, n) \in Slots
<1> DEFINE g == [u \in Units |->
                  IF u \in a .. a + n - 1
                  THEN IF f[c][u] = Erased \/ u \in ErasedAt(c, a)
                       THEN data[u - a] ELSE Junk
                  ELSE IF u \in ErasedAt(c, a) THEN Erased ELSE f[c][u]]
<1>1. Program(f, c, a, data, n) = [f EXCEPT ![c] = g]
  BY DEF Program
<1>2. \A u \in Units : u \in a .. a + n - 1 => u - a \in 0 .. n - 1
  BY Sizes
<1>3. g \in [Units -> Cells]
  BY <1>2, CellTyped DEF Slots
<1> HIDE DEF g
<1> QED
  BY <1>1, <1>3 DEF Slots

(* The buffer, the place and the flash after a chunk.                      *)
LEMMA ChunkTyped ==
  ASSUME Typed, NEW m \in Chunks, Buffered => cur + m.len <= BufSize
  PROVE  /\ Filled(m) \in Buffers /\ KeptBuf(m) \in Buffers
         /\ Kept(m) \in 0 .. BufSize /\ Moved(m) \in Nat
         /\ Written(m) \in Slots
         /\ \A j \in 0 .. Kept(m) - 1 : KeptBuf(m)[j] \in Cells
<1>0. /\ cur \in 0 .. BufSize /\ buf \in Buffers
      /\ m.img \in Int /\ m.at \in Int /\ m.len \in Nat
      /\ flash \in Slots /\ comp \in Components
      /\ addr \in Nat
  BY DEF Typed, PlanTyped, PlaceTyped, FlashTyped, Chunks
<1>1. Filled(m) \in Buffers
  <2>1. \A j \in 0 .. BufSize - 1 : Cell(m.img, m.at + j - cur) \in Cells
    BY <1>0, Sizes, CellTyped
  <2> QED
    BY <1>0, <2>1 DEF Filled, Buffers
<1>3. KeptBuf(m) \in Buffers
  BY <1>0, <1>1, CellTyped DEF KeptBuf
<1>4. Kept(m) \in 0 .. BufSize /\ Moved(m) \in Nat
  BY <1>0, Sizes DEF Kept, Moved, FillsPage
<1>5. Written(m) \in Slots
  <2>1. CASE Buffered /\ Writes(m)
    <3>1. Moved(m) = BufSize
      BY <2>1 DEF Moved, Writes
    <3>2. \A j \in 0 .. Moved(m) - 1 : Filled(m)[j] \in Cells
      BY <1>1, <3>1 DEF Buffers
    <3> QED
      BY <1>0, <1>4, <2>1, <3>2, ProgramTyped DEF Written
  <2>2. CASE ~Buffered
    <3>1. Moved(m) = m.len
      BY <2>2 DEF Moved
    <3>2. \A j \in 0 .. Moved(m) - 1 : Payload(m)[j] \in Cells
      BY <1>0, <3>1, CellTyped DEF Payload
    <3> QED
      BY <1>0, <1>4, <2>2, <3>2, ProgramTyped DEF Written, Writes
  <2>3. CASE ~Writes(m)
    BY <1>0, <2>3 DEF Written
  <2> QED
    BY <2>1, <2>2, <2>3
<1>6. \A j \in 0 .. Kept(m) - 1 : KeptBuf(m)[j] \in Cells
  BY <1>3, <1>4, Sizes DEF Buffers
<1> QED
  BY <1>1, <1>3, <1>4, <1>5, <1>6

LEMMA SpoiltTyped ==
  ASSUME NEW n \in Nat
  PROVE  \A j \in 0 .. n - 1 : Spoilt(n)[j] \in Cells
  BY CellTyped DEF Spoilt

(* What is asked for next has a length.                                    *)
LEMMA AskTyped ==
  ASSUME Typed, NEW i \in Int, NEW o \in Nat, NEW n \in Nat, AskData(i, o, n)
  PROVE  lastLen' \in Nat /\ asked' \in Chunks /\ timer' = TRUE
<1>1. ts \in Nat
  BY Sizes DEF Typed, PlanTyped
<1>2. TransferLen(o, n) \in Nat
  BY <1>1, Sizes DEF TransferLen, Remaining
<1> QED
  BY <1>2 DEF AskData, Chunks

LEMMA MarkTyped ==
  ASSUME Typed, NEW cs, NEW half, NEW s \in FwStates, Mark(cs, half, s)
  PROVE  PdsTyped'
<1>1. fwState' \in [Components -> FwStates]
  BY DEF Typed, PdsTyped, Mark
<1>2. switched' \in BOOLEAN /\ bootable' \in BOOLEAN /\ allow' \in BOOLEAN
  BY DEF Mark, Typed, PdsTyped
<1> QED
  BY <1>1, <1>2 DEF PdsTyped

LEMMA NoAnswerTyped == NoAnswer \in Chunks
  BY DEF NoAnswer, Chunks

LEMMA AnswerTyped ==
  ASSUME NetTyped, NEW k \in {"asked", "late"}
  PROVE  /\ Msg(k) \in Chunks
         /\ Consume(k) => late' \in Chunks
         /\ Forget(k) => asked' \in Chunks
  BY NoAnswerTyped DEF Msg, Consume, Forget, NetTyped

LEMMA TypedInit == Init => Typed
<1> SUFFICES ASSUME Init PROVE Typed
  OBVIOUS
<1>1. FsmTyped
  <2>1. /\ state = "IDLE" /\ slot = "Init" /\ retry = 0
        /\ timer \in BOOLEAN /\ tbit \in BOOLEAN
    BY DEF Init
  <2> QED
    BY <2>1 DEF FsmTyped, States, SlotStates, PN1
<1>2. PlanTyped
  BY Sizes DEF Init, PlanTyped
<1>3. PlaceTyped
  <2>1. /\ offset = 0 /\ addr = 0 /\ lastLen = 0 /\ buf = EmptyBuf /\ cur = 0
        /\ metaDone \in BOOLEAN /\ spi \in BOOLEAN
    BY DEF Init
  <2> QED
    BY <2>1, Sizes, CellTyped DEF PlaceTyped
<1>4. ListsTyped
  BY DEF Init, ListsTyped
<1>5. FlashTyped
  BY CellTyped DEF Init, FlashTyped, Slots
<1>6. PdsTyped
  BY DEF Init, PdsTyped, FwStates
<1>7. RunningTyped /\ CountTyped
  BY Sizes DEF Init, RunningTyped, CountTyped
<1>8. BgTyped
  BY DEF Init, BgTyped
<1>9. AuthTyped
  BY DEF Init, AuthTyped
<1>10. NetTyped
  BY NoAnswerTyped DEF Init, NetTyped
<1>11. HistTyped
  BY DEF Init, HistTyped
<1> QED
  BY <1>1, <1>2, <1>3, <1>4, <1>5, <1>6, <1>7, <1>8, <1>9, <1>10, <1>11 DEF Typed

LEMMA CountSteps ==
  ASSUME CountTyped
  PROVE  /\ Mishap => mishaps' \in 0 .. MaxMishaps
         /\ Request => requests' \in 0 .. MaxRequests
  BY Sizes DEF CountTyped, Mishap, Request

(* An answer that was taken resets the count of repetitions.               *)
LEMMA FsmAnswered ==
  ASSUME FsmTyped, UNCHANGED <<state, tbit>>, retry' = 0, timer' \in BOOLEAN,
         slot' = slot \/ slot' = "Trans_Comp"
  PROVE  FsmTyped'
  BY DEF FsmTyped, SlotStates, PN1

LEMMA ResetTyped ==
  ASSUME CountTyped, ContextReset, timer' \in BOOLEAN
  PROVE  FsmTyped' /\ PlanTyped' /\ PlaceTyped' /\ ListsTyped' /\ NetTyped' /\ CountTyped'
<1>1. FsmTyped'
  <2>1. state' = "IDLE" /\ slot' = "Init" /\ retry' = 0 /\ tbit' \in BOOLEAN
    BY DEF ContextReset
  <2> QED
    BY <2>1 DEF FsmTyped, States, SlotStates, PN1
<1>2. PlanTyped'
  BY Sizes DEF ContextReset, PlanTyped
<1>3. PlaceTyped'
  <2>1. /\ offset' = 0 /\ addr' = 0 /\ lastLen' = 0 /\ metaDone' \in BOOLEAN
        /\ spi' \in BOOLEAN /\ buf' = EmptyBuf /\ cur' = 0
    BY DEF ContextReset
  <2> QED
    BY <2>1, Sizes, CellTyped DEF PlaceTyped
<1>4. ListsTyped'
  BY DEF ContextReset, ListsTyped
<1>5. NetTyped'
  BY NoAnswerTyped DEF ContextReset, NetTyped
<1>6. CountTyped'
  BY CountSteps DEF ContextReset, CountTyped
<1> QED
  BY <1>1, <1>2, <1>3, <1>4, <1>5, <1>6

LEMMA TypedNext == Typed /\ [Next]_vars => Typed'
<1> SUFFICES ASSUME Typed, [Next]_vars PROVE Typed'
  OBVIOUS
<1> USE DEF Typed
<1>n. cur \in Nat /\ img \in Int /\ offset \in Nat /\ ts \in Nat /\ running \in Int
  BY Sizes DEF PlaceTyped, PlanTyped, RunningTyped
<1>1. ASSUME NEW t \in TransferSizes, RequestUpdate(t)
     PROVE  Typed'
  <2>1. FsmTyped'
    BY <1>1 DEF RequestUpdate, FsmTyped, States, ChangeState
  <2>2. PlanTyped'
    BY <1>1 DEF RequestUpdate, PlanTyped
  <2>3. ListsTyped'
    BY <1>1 DEF RequestUpdate, ListsTyped
  <2>4. HistTyped'
    BY <1>1 DEF RequestUpdate, HistTyped
  <2> QED
    BY <1>1, TypesKept, <2>1, <2>2, <2>3, <2>4 DEF RequestUpdate
<1>2. ASSUME NEW c \in Components, NEW last \in BOOLEAN, PassComponent(c, last)
     PROVE  Typed'
  <2>1. FsmTyped'
    BY <1>2 DEF PassComponent, FsmTyped, States, SlotStates, PN1, ChangeState
  <2>2. ListsTyped'
    BY <1>2 DEF PassComponent, ListsTyped
  <2> QED
    BY <1>2, TypesKept, <2>1, <2>2 DEF PassComponent
<1>3. ASSUME NEW c \in Components, NEW i \in 1 .. Images, UpdateComponent(c, i)
     PROVE  Typed'
  <2>1. lastLen' \in Nat /\ asked' \in Chunks /\ timer' = TRUE
    <3>1. i \in Int /\ 0 \in Nat
      OBVIOUS
    <3> QED
      BY <1>3, <3>1, <1>n, AskTyped DEF UpdateComponent
  <2>2. FsmTyped'
    BY <1>3, <2>1 DEF UpdateComponent, BeginComponent, FsmTyped, States, SlotStates, PN1
  <2>3. PlanTyped'
    BY <1>3 DEF UpdateComponent, BeginComponent, PlanTyped
  <2>4. PlaceTyped'
    BY <1>3, <2>1 DEF UpdateComponent, BeginComponent, PlaceTyped
  <2>5. NetTyped'
    BY <1>3, <2>1 DEF UpdateComponent, BeginComponent, NetTyped
  <2>6. CountTyped'
    BY <1>3, CountSteps DEF UpdateComponent, BeginComponent, CountTyped
  <2>7. HistTyped'
    BY <1>3 DEF UpdateComponent, BeginComponent, HistTyped
  <2> QED
    BY <1>3, TypesKept, <2>2, <2>3, <2>4, <2>5, <2>6, <2>7 DEF UpdateComponent, BeginComponent
<1>4. ASSUME NEW c \in Components, NEW i \in 1 .. Images, UpdateRefused(c, i)
     PROVE  Typed'
  <2>1. FsmTyped'
    BY <1>4 DEF UpdateRefused, BeginComponent, FsmTyped, States, SlotStates, PN1
  <2>2. PlanTyped'
    BY <1>4 DEF UpdateRefused, BeginComponent, PlanTyped
  <2>3. PlaceTyped'
    BY <1>4 DEF UpdateRefused, BeginComponent, PlaceTyped
  <2>4. NetTyped'
    BY <1>4 DEF UpdateRefused, BeginComponent, NetTyped
  <2>5. CountTyped'
    BY <1>4, CountSteps DEF UpdateRefused, BeginComponent, CountTyped
  <2>6. HistTyped'
    BY <1>4 DEF UpdateRefused, BeginComponent, HistTyped
  <2> QED
    BY <1>4, TypesKept, <2>1, <2>2, <2>3, <2>4, <2>5, <2>6 DEF UpdateRefused, BeginComponent
<1>5. ASSUME NEW failed \in SUBSET Components, Activate(failed)
     PROVE  Typed'
  <2>1. FsmTyped'
    BY <1>5 DEF Activate, FsmTyped, States, SlotStates, PN1, ChangeState
  <2>2. ListsTyped'
    BY <1>5 DEF Activate, ListsTyped
  <2>3. PdsTyped'
    BY <1>5, MarkTyped DEF Activate, PdsTyped, FwStates
  <2>4. CountTyped'
    BY <1>5, CountSteps DEF Activate, CountTyped
  <2> QED
    BY <1>5, TypesKept, <2>1, <2>2, <2>3, <2>4 DEF Activate
<1>6. ASSUME CancelUpdateComponent
     PROVE  Typed'
  <2>1. FsmTyped'
    BY <1>6 DEF CancelUpdateComponent, FsmTyped, States, SlotStates, PN1, ChangeState
  <2> QED
    BY <1>6, TypesKept, <2>1 DEF CancelUpdateComponent
<1>7. ASSUME CancelUpdate
     PROVE  Typed'
  <2>1. FsmTyped'
    BY <1>7 DEF CancelUpdate, FsmTyped, States, SlotStates, PN1, ChangeState
  <2> QED
    BY <1>7, TypesKept, <2>1 DEF CancelUpdate
<1>8. ASSUME NEW k \in {"asked", "late"}, FwDataDropped(k)
     PROVE  Typed'
  <2>1. FsmTyped'
    BY <1>8 DEF FwDataDropped, FsmTyped, PN1
  <2>2. NetTyped'
    BY <1>8, AnswerTyped DEF FwDataDropped, NetTyped
  <2> QED
    BY <1>8, TypesKept, <2>1, <2>2 DEF FwDataDropped
<1>9. ASSUME NEW k \in {"asked", "late"}, CollectMetadata(k)
     PROVE  Typed'
  <2>1. offset + ts \in Nat
    BY <1>n
  <2>2. lastLen' \in Nat /\ asked' \in Chunks /\ timer' = TRUE
    BY <1>9, <1>n, <2>1, AskTyped DEF CollectMetadata
  <2>3. FsmTyped'
    BY <1>9, <2>2 DEF CollectMetadata, Answered, FsmTyped, PN1
  <2>4. PlaceTyped'
    BY <1>9, <2>1, <2>2 DEF CollectMetadata, Answered, PlaceTyped
  <2>5. NetTyped'
    BY <1>9, <2>2, AnswerTyped DEF CollectMetadata, Answered, NetTyped
  <2> QED
    BY <1>9, TypesKept, <2>3, <2>4, <2>5 DEF CollectMetadata, Answered
<1>10. ASSUME NEW k \in {"asked", "late"}, NEW s \in {"Sec_Ver_Fail", "Trans_Comp"},
              MetadataRefused(k, s)
     PROVE  Typed'
  <2>1. FsmTyped'
    BY <1>10 DEF MetadataRefused, Answered, FsmTyped, States, SlotStates, PN1
  <2>2. PlaceTyped'
    BY <1>10 DEF MetadataRefused, Answered, PlaceTyped
  <2>3. NetTyped'
    BY <1>10, AnswerTyped DEF MetadataRefused, Answered, NetTyped
  <2> QED
    BY <1>10, TypesKept, <2>1, <2>2, <2>3 DEF MetadataRefused, Answered
<1>11. ASSUME NEW k \in {"asked", "late"}, MetadataNotMarked(k)
     PROVE  Typed'
  <2>1. FsmTyped'
    BY <1>11 DEF MetadataNotMarked, Answered, FsmTyped, PN1
  <2>2. PlaceTyped'
    BY <1>11 DEF MetadataNotMarked, Answered, PlaceTyped
  <2>3. PdsTyped'
    BY <1>11, MarkTyped DEF MetadataNotMarked, PdsTyped, FwStates
  <2>4. NetTyped'
    BY <1>11, AnswerTyped DEF MetadataNotMarked, Answered, NetTyped
  <2>5. CountTyped'
    BY <1>11, CountSteps DEF MetadataNotMarked, Answered, CountTyped
  <2>6. HistTyped'
    BY <1>11 DEF MetadataNotMarked, Answered, HistTyped
  <2> QED
    BY <1>11, TypesKept, <2>1, <2>2, <2>3, <2>4, <2>5, <2>6 DEF MetadataNotMarked, Answered
<1>12. ASSUME NEW k \in {"asked", "late"}, MetadataAccepted(k)
     PROVE  Typed'
  <2>1. lastLen' \in Nat /\ asked' \in Chunks /\ timer' = TRUE
    BY <1>12, <1>n, AskTyped DEF MetadataAccepted
  <2>2. FsmTyped'
    BY <1>12, <2>1 DEF MetadataAccepted, Answered, FsmTyped, PN1
  <2>3. PlaceTyped'
    BY <1>12, <2>1 DEF MetadataAccepted, Answered, PlaceTyped
  <2>4. PdsTyped'
    BY <1>12, MarkTyped DEF MetadataAccepted, Answered, PdsTyped, FwStates
  <2>5. NetTyped'
    BY <1>12, <2>1, AnswerTyped DEF MetadataAccepted, Answered, NetTyped
  <2> QED
    BY <1>12, TypesKept, <2>2, <2>3, <2>4, <2>5 DEF MetadataAccepted, Answered
<1>a. ASSUME NEW k \in {"asked", "late"}, ToStore(k)
      PROVE  /\ PdsTyped' /\ metaDone' = TRUE /\ unmarked' \in BOOLEAN
             /\ retry' = 0 /\ late' \in Chunks /\ Msg(k) \in Chunks
             /\ Buffered => cur + Msg(k).len <= BufSize
             /\ Taint(Msg(k)) \in {"No", "Failed", "Yes"}
             /\ Filled(Msg(k)) \in Buffers /\ KeptBuf(Msg(k)) \in Buffers
             /\ Kept(Msg(k)) \in 0 .. BufSize /\ Kept(Msg(k)) \in Nat
             /\ Moved(Msg(k)) \in Nat
             /\ offset + Moved(Msg(k)) \in Nat /\ addr + Moved(Msg(k)) \in Nat
             /\ addr + Moved(Msg(k)) + Kept(Msg(k)) \in Nat
             /\ Written(Msg(k)) \in Slots
             /\ \A j \in 0 .. Kept(Msg(k)) - 1 : KeptBuf(Msg(k))[j] \in Cells
  <2>1. metaDone' = TRUE /\ unmarked' \in BOOLEAN /\ retry' = 0
    BY <1>a DEF ToStore, Answered, HistTyped
  <2>2. PdsTyped'
    BY <1>a, TypesKept, MarkTyped DEF ToStore, FwStates
  <2>3. late' \in Chunks /\ Msg(k) \in Chunks
    BY <1>a, AnswerTyped DEF ToStore, Answered
  <2>4. Buffered => cur + Msg(k).len <= BufSize
    BY <1>a DEF ToStore
  <2>5. Taint(Msg(k)) \in {"No", "Failed", "Yes"}
    BY DEF Taint, HistTyped
  <2>6. /\ Filled(Msg(k)) \in Buffers /\ KeptBuf(Msg(k)) \in Buffers
        /\ Kept(Msg(k)) \in 0 .. BufSize /\ Moved(Msg(k)) \in Nat
        /\ Written(Msg(k)) \in Slots
        /\ \A j \in 0 .. Kept(Msg(k)) - 1 : KeptBuf(Msg(k))[j] \in Cells
    BY <2>3, <2>4, ChunkTyped
  <2>7. /\ offset + Moved(Msg(k)) \in Nat /\ addr + Moved(Msg(k)) \in Nat
        /\ addr + Moved(Msg(k)) + Kept(Msg(k)) \in Nat
    BY <2>6, Sizes DEF PlaceTyped
  <2>8. Kept(Msg(k)) \in Nat
    BY <2>6, Sizes
  <2> QED
    BY <2>1, <2>2, <2>3, <2>4, <2>5, <2>6, <2>7, <2>8
<1>13. ASSUME NEW k \in {"asked", "late"}, StoreChunk(k)
     PROVE  Typed'
  <2>1. ToStore(k)
    BY <1>13 DEF StoreChunk
  <2>2. lastLen' \in Nat /\ asked' \in Chunks /\ timer' = TRUE
    BY <1>13, <1>a, <1>n, <2>1, AskTyped DEF StoreChunk
  <2>3. FsmTyped'
    <3>1. UNCHANGED <<state, slot, tbit>> /\ timer' \in BOOLEAN
      BY <1>13, <2>2 DEF StoreChunk
    <3> QED
      BY <1>a, <2>1, <3>1, FsmAnswered
  <2>4. PlaceTyped'
    BY <1>13, <1>a, <2>1, <2>2 DEF StoreChunk, PlaceTyped
  <2>5. FlashTyped'
    BY <1>13, <1>a, <2>1 DEF StoreChunk, FlashTyped
  <2>6. PdsTyped'
    BY <1>a, <2>1
  <2>7. NetTyped'
    BY <1>13, <1>a, <2>1, <2>2 DEF StoreChunk, NetTyped
  <2>8. HistTyped'
    BY <1>13, <1>a, <2>1 DEF StoreChunk, HistTyped
  <2> QED
    BY <1>13, TypesKept, <2>3, <2>4, <2>5, <2>6, <2>7, <2>8 DEF StoreChunk
<1>14. ASSUME NEW k \in {"asked", "late"}, StoreLast(k)
     PROVE  Typed'
  <2>1. ToStore(k)
    BY <1>14 DEF StoreLast
  <2>2. asked' \in Chunks
    BY <1>14, AnswerTyped DEF StoreLast
  <2>3. FwSize \in Nat /\ EmptyBuf \in Buffers /\ 0 \in 0 .. BufSize /\ comp \in Components
    BY Sizes, CellTyped DEF PlanTyped
  <2>4. FsmTyped'
    <3>1. UNCHANGED <<state, tbit>> /\ slot' = "Trans_Comp" /\ timer' \in BOOLEAN
      BY <1>14 DEF StoreLast
    <3> QED
      BY <1>a, <2>1, <3>1, FsmAnswered
  <2>5. PlaceTyped'
    BY <1>14, <1>a, <2>1, <2>3 DEF StoreLast, PlaceTyped
  <2>6. FlashTyped'
    BY <1>14, <1>a, <2>1, <2>3, ProgramTyped DEF StoreLast, FlashTyped
  <2>7. PdsTyped'
    BY <1>a, <2>1
  <2>8. NetTyped'
    BY <1>14, <1>a, <2>1, <2>2 DEF StoreLast, NetTyped
  <2>9. HistTyped'
    BY <1>14, <1>a, <2>1 DEF StoreLast, HistTyped
  <2> QED
    BY <1>14, TypesKept, <2>4, <2>5, <2>6, <2>7, <2>8, <2>9 DEF StoreLast
<1>15. ASSUME NEW k \in {"asked", "late"}, StoreFails(k)
     PROVE  Typed'
  <2>1. ToStore(k)
    BY <1>15 DEF StoreFails
  <2>2. asked' \in Chunks
    BY <1>15, AnswerTyped DEF StoreFails
  <2>3. buf' \in Buffers /\ cur' \in 0 .. BufSize
    <3>1. /\ buf' = IF Buffered THEN Filled(Msg(k)) ELSE buf
          /\ cur' = IF Buffered THEN cur + Msg(k).len ELSE cur
      BY <1>15 DEF StoreFails
    <3>2. Buffered => cur + Msg(k).len \in 0 .. BufSize
      <4>1. Msg(k).len \in Nat
        BY <1>a, <2>1 DEF Chunks
      <4>2. Buffered => cur + Msg(k).len <= BufSize
        BY <1>a, <2>1
      <4> QED
        BY <1>n, <4>1, <4>2, Sizes
    <3> QED
      BY <1>a, <2>1, <3>1, <3>2 DEF PlaceTyped
  <2>4. comp \in Components /\ addr \in Nat
    BY DEF PlanTyped, PlaceTyped
  <2>5. FsmTyped'
    <3>1. UNCHANGED <<state, slot, tbit>> /\ timer' \in BOOLEAN
      BY <1>15 DEF StoreFails
    <3> QED
      BY <1>a, <2>1, <3>1, FsmAnswered
  <2>6. PlaceTyped'
    BY <1>15, <1>a, <2>1, <2>3 DEF StoreFails, PlaceTyped
  <2>7. FlashTyped'
    BY <1>15, <1>a, <2>1, <2>4, SpoiltTyped, ProgramTyped DEF StoreFails, FlashTyped
  <2>8. PdsTyped'
    BY <1>a, <2>1
  <2>9. NetTyped'
    BY <1>15, <1>a, <2>1, <2>2 DEF StoreFails, NetTyped
  <2>10. CountTyped'
    BY <1>15, <1>a, <2>1, CountSteps DEF StoreFails, CountTyped
  <2>11. HistTyped'
    BY <1>15, <1>a, <2>1 DEF StoreFails, HistTyped
  <2> QED
    BY <1>15, TypesKept, <2>5, <2>6, <2>7, <2>8, <2>9, <2>10, <2>11 DEF StoreFails
<1>16. ASSUME NEW k \in {"asked", "late"}, FlushFails(k)
     PROVE  Typed'
  <2>1. ToStore(k)
    BY <1>16 DEF FlushFails
  <2>2. asked' \in Chunks
    BY <1>16, AnswerTyped DEF FlushFails
  <2>3. comp \in Components
    BY DEF PlanTyped
  <2>4. FsmTyped'
    <3>1. UNCHANGED <<state, slot, tbit>> /\ timer' \in BOOLEAN
      BY <1>16 DEF FlushFails
    <3> QED
      BY <1>a, <2>1, <3>1, FsmAnswered
  <2>5. PlaceTyped'
    BY <1>16, <1>a, <2>1 DEF FlushFails, PlaceTyped
  <2>6. FlashTyped'
    BY <1>16, <1>a, <2>1, <2>3, SpoiltTyped, ProgramTyped DEF FlushFails, FlashTyped
  <2>7. PdsTyped'
    BY <1>a, <2>1
  <2>8. NetTyped'
    BY <1>16, <1>a, <2>1, <2>2 DEF FlushFails, NetTyped
  <2>9. CountTyped'
    BY <1>16, <1>a, <2>1, CountSteps DEF FlushFails, CountTyped
  <2>10. HistTyped'
    BY <1>16, <1>a, <2>1 DEF FlushFails, HistTyped
  <2> QED
    BY <1>16, TypesKept, <2>4, <2>5, <2>6, <2>7, <2>8, <2>9, <2>10 DEF FlushFails
<1>17. ASSUME BadAnswer
     PROVE  Typed'
  <2>1. FsmTyped'
    BY <1>17 DEF BadAnswer, FsmTyped, PN1, SlotStates
  <2>2. NetTyped'
    BY <1>17, NoAnswerTyped DEF BadAnswer, NetTyped
  <2> QED
    BY <1>17, TypesKept, <2>1, <2>2 DEF BadAnswer
<1>18. ASSUME RetryAnswer
     PROVE  Typed'
  <2>1. FsmTyped'
    BY <1>18 DEF RetryAnswer, FsmTyped, PN1
  <2>2. PlaceTyped'
    BY <1>18 DEF RetryAnswer, PlaceTyped
  <2>3. NetTyped'
    BY <1>18, NoAnswerTyped DEF RetryAnswer, NetTyped
  <2> QED
    BY <1>18, TypesKept, <2>1, <2>2, <2>3 DEF RetryAnswer
<1>19. ASSUME Straggle
     PROVE  Typed'
  <2>1. NetTyped'
    BY <1>19 DEF Straggle, NetTyped
  <2>2. CountTyped'
    BY <1>19, CountSteps DEF Straggle, CountTyped
  <2> QED
    BY <1>19, TypesKept, <2>1, <2>2 DEF Straggle
<1>20. ASSUME TransferReply
     PROVE  Typed'
  <2>1. /\ retry' \in {0, PN1} /\ state' \in {state, "VERIFY"} /\ timer' \in BOOLEAN
        /\ UNCHANGED <<slot, tbit>>
    BY <1>20 DEF TransferReply, ChangeState, FsmTyped
  <2>2. FsmTyped'
    BY <2>1 DEF FsmTyped, States, PN1
  <2>3. AuthTyped'
    BY <1>20 DEF TransferReply, AuthTyped, PlanTyped
  <2> QED
    BY <1>20, TypesKept, <2>2, <2>3 DEF TransferReply
<1>21. ASSUME VerifyReply
     PROVE  Typed'
  <2>1. /\ retry' \in {0, PN1} /\ state' \in {state, "APPLY"} /\ timer' \in BOOLEAN
        /\ UNCHANGED <<slot, tbit>>
    BY <1>21 DEF VerifyReply, ChangeState, FsmTyped
  <2>2. FsmTyped'
    BY <2>1 DEF FsmTyped, States, PN1
  <2> QED
    BY <1>21, TypesKept, <2>2 DEF VerifyReply
<1>22. ASSUME ApplyReply
     PROVE  Typed'
  <2>1. FsmTyped'
    BY <1>22 DEF ApplyReply, FsmTyped, States, SlotStates, PN1, ChangeState
  <2> QED
    BY <1>22, TypesKept, <2>1 DEF ApplyReply
<1>23. ASSUME LoseVerdict
     PROVE  Typed'
  <2>1. AuthTyped'
    BY <1>23 DEF LoseVerdict, AuthTyped
  <2>2. CountTyped'
    BY <1>23, CountSteps DEF LoseVerdict, CountTyped
  <2> QED
    BY <1>23, TypesKept, <2>1, <2>2 DEF LoseVerdict
<1>24. ASSUME NEW ok \in BOOLEAN, AuthFinish(ok)
     PROVE  Typed'
  <2>1. FsmTyped'
    BY <1>24 DEF AuthFinish, FsmTyped, SlotStates
  <2>2. ListsTyped'
    BY <1>24 DEF AuthFinish, ListsTyped, PlanTyped
  <2>3. AuthTyped'
    BY <1>24 DEF AuthFinish, AuthTyped
  <2>4. HistTyped'
    BY <1>24 DEF AuthFinish, HistTyped, PlanTyped
  <2> QED
    BY <1>24, TypesKept, <2>1, <2>2, <2>3, <2>4 DEF AuthFinish
<1>25. ASSUME TimerExpires
     PROVE  Typed'
  <2>1. FsmTyped'
    BY <1>25 DEF TimerExpires, FsmTyped
  <2> QED
    BY <1>25, TypesKept, <2>1 DEF TimerExpires
<1>26. ASSUME Timeout PROVE Typed'
  <2>u. UNCHANGED <<plan, passed, flash, running, bg, auth, late, hist>>
        /\ UNCHANGED <<offset, addr, metaDone, spi, buf, cur>>
        /\ UNCHANGED requests /\ tbit' = FALSE
    BY <1>26 DEF Timeout
  <2>a. ASSUME FsmTyped', lastLen' \in Nat, asked' \in Chunks, verified' \in Seq(Components),
               PdsTyped', mishaps' \in 0 .. MaxMishaps
        PROVE  Typed'
    <3>1. PlaceTyped'
      BY <2>u, <2>a DEF PlaceTyped
    <3>2. NetTyped'
      BY <2>u, <2>a DEF NetTyped
    <3>3. ListsTyped'
      BY <2>u, <2>a DEF ListsTyped
    <3>4. CountTyped'
      BY <2>u, <2>a DEF CountTyped
    <3> QED
      BY TypesKept, <2>u, <2>a, <3>1, <3>2, <3>3, <3>4
  <2>b. /\ lastLen \in Nat /\ asked \in Chunks /\ verified \in Seq(Components)
        /\ mishaps \in 0 .. MaxMishaps
    BY DEF PlaceTyped, NetTyped, ListsTyped, CountTyped
  <2>1. CASE TimeoutIdle \/ TimeoutLc
    <3>1. FsmTyped'
      BY <2>1, <2>u DEF TimeoutIdle, TimeoutLc, ChangeState, FsmTyped, States
    <3> QED
      BY TypesKept, <2>1, <2>a, <2>b, <3>1 DEF TimeoutIdle, TimeoutLc
  <2>2. CASE TimeoutRdyXfer
    <3>1. PICK failed \in SUBSET Listed :
            /\ IF failed = {} THEN UNCHANGED mishaps ELSE Mishap
            /\ Mark(Listed \ failed, failed, "Stage")
      BY <2>2 DEF TimeoutRdyXfer
    <3>2. PdsTyped'
      BY <3>1, MarkTyped DEF FwStates
    <3>3. mishaps' \in 0 .. MaxMishaps
      BY <3>1, CountSteps DEF CountTyped
    <3>4. FsmTyped'
      BY <2>2, <2>u DEF TimeoutRdyXfer, ChangeState, FsmTyped, States
    <3>5. verified' \in Seq(Components) /\ UNCHANGED <<lastLen, asked>>
      BY <2>2 DEF TimeoutRdyXfer
    <3> QED
      BY <2>a, <2>b, <3>2, <3>3, <3>4, <3>5
  <2>3. CASE TimeoutDl
    <3>1. lastLen' \in Nat /\ asked' \in Chunks /\ timer' \in BOOLEAN
      <4>1. AskData(img, offset, cur) => lastLen' \in Nat /\ asked' \in Chunks /\ timer' = TRUE
        BY <1>n, AskTyped
      <4> QED
        BY <2>3, <2>b, <4>1 DEF TimeoutDl, ChangeState
    <3>2. retry' \in 0 .. PN1 + 1 /\ (state' # "IDLE" => retry' <= PN1)
      BY <2>3, Sizes DEF TimeoutDl, ChangeState, GivesUp, FsmTyped
    <3>3. state' \in {"DL", "IDLE"} /\ slot' \in {slot, "Spiflash_Error"}
      BY <2>3 DEF TimeoutDl, ChangeState
    <3>4. FsmTyped'
      BY <2>u, <3>1, <3>2, <3>3 DEF FsmTyped, States, SlotStates
    <3> QED
      BY TypesKept, <2>3, <2>a, <2>b, <3>1, <3>4 DEF TimeoutDl
  <2>4. CASE TimeoutVerifyApply
    <3>1. retry' \in 0 .. PN1 + 1 /\ (state' # "IDLE" => retry' <= PN1)
      BY <2>4, Sizes DEF TimeoutVerifyApply, ChangeState, GivesUp, FsmTyped
    <3>2. state' \in {state, "IDLE"} /\ timer' \in BOOLEAN
      BY <2>4 DEF TimeoutVerifyApply, ChangeState
    <3>3. FsmTyped'
      BY <2>4, <2>u, <3>1, <3>2 DEF TimeoutVerifyApply, FsmTyped, States
    <3> QED
      BY TypesKept, <2>4, <2>a, <2>b, <3>3 DEF TimeoutVerifyApply
  <2> QED
    BY <1>26, <2>1, <2>2, <2>3, <2>4 DEF Timeout
<1>27. ASSUME CopyRequest PROVE Typed'
  <2>1. BgTyped'
    BY <1>27 DEF CopyRequest, BgTyped
  <2>2. CountTyped'
    BY <1>27, CountSteps DEF CopyRequest, CountTyped
  <2> QED
    BY <1>27, TypesKept, <2>1, <2>2 DEF CopyRequest
<1>28. ASSUME NEW automatic \in BOOLEAN, BgStart(automatic) PROVE Typed'
  <2>1. FlashTyped'
    <3>1. [flash EXCEPT ![Mcu][0] = Junk] \in Slots
      BY Sizes, CellTyped DEF FlashTyped, Slots
    <3> QED
      BY <1>28, <3>1 DEF BgStart, CopyBegins, CopyRefused, Mishap, FlashTyped
  <2>2. PdsTyped'
    <3>1. [fwState EXCEPT ![Mcu] = "Invalid"] \in [Components -> FwStates]
      BY DEF FwStates, PdsTyped
    <3> QED
      BY <1>28, <3>1 DEF BgStart, CopyBegins, CopyRefused, Mishap, PdsTyped
  <2>3. BgTyped'
    BY <1>28 DEF BgStart, CopyBegins, CopyRefused, BgTyped
  <2>4. CountTyped'
    BY <1>28, CountSteps DEF BgStart, CopyBegins, CopyRefused, CountTyped
  <2>5. HistTyped'
    BY <1>28, <2>2 DEF BgStart, CopyBegins, CopyRefused, HistTyped, PdsTyped
  <2> QED
    BY <1>28, TypesKept, <2>1, <2>2, <2>3, <2>4, <2>5 DEF BgStart
<1>b. \A i \in Int : [flash EXCEPT ![Mcu] = Image(i)] \in Slots
  BY CellTyped DEF FlashTyped, Slots
<1>29. ASSUME CopyFinish PROVE Typed'
  <2>1. FlashTyped'
    BY <1>29, <1>b, <1>n DEF CopyFinish, FlashTyped
  <2>2. BgTyped'
    BY <1>29 DEF CopyFinish, BgTyped
  <2> QED
    BY <1>29, TypesKept, <2>1, <2>2 DEF CopyFinish
<1>30. ASSUME CopyFails PROVE Typed'
  <2>1. BgTyped'
    BY <1>30 DEF CopyFails, BgTyped
  <2>2. CountTyped'
    BY <1>30, CountSteps DEF CopyFails, CountTyped
  <2> QED
    BY <1>30, TypesKept, <2>1, <2>2 DEF CopyFails
<1>31. ASSUME BgEnd PROVE Typed'
  <2>1. BgTyped'
    BY <1>31 DEF BgEnd, BgTyped
  <2>2. PdsTyped'
    BY <1>31 DEF BgEnd, PdsTyped
  <2>3. CountTyped'
    BY <1>31, CountSteps DEF BgEnd, CountTyped
  <2> QED
    BY <1>31, TypesKept, <2>1, <2>2, <2>3 DEF BgEnd
<1>32. ASSUME ProtocolReset PROVE Typed'
  <2>1. ContextReset /\ timer' \in BOOLEAN
    BY <1>32 DEF ProtocolReset
  <2>2. HistTyped'
    BY <1>32 DEF ProtocolReset, ContextReset, HistTyped
  <2>3. BgTyped'
    BY <1>32 DEF ProtocolReset, ContextReset, BgTyped
  <2>4. AuthTyped'
    BY <1>32 DEF ProtocolReset, AuthTyped
  <2>5. PdsTyped'
    BY <1>32 DEF ProtocolReset, ContextReset, PdsTyped
  <2> QED
    BY <1>32, ResetTyped, TypesKept, <2>1, <2>2, <2>3, <2>4, <2>5 DEF ProtocolReset
<1>33. ASSUME NEW switches \in BOOLEAN, Reboot(switches) PROVE Typed'
  <2>1. ContextReset /\ timer' \in BOOLEAN
    BY <1>33 DEF Reboot
  <2>2. FlashTyped' /\ RunningTyped'
    <3>1. CASE switches
      <4>1. PICK i \in 0 .. Images : flash[Mcu] = Image(i)
        BY <1>33, <3>1 DEF Reboot, CanSwitch, Whole
      <4>2. flash[Mcu][0].img = i
        BY <4>1, Sizes DEF Image, Cell
      <4> QED
        BY <1>33, <3>1, <4>2, <1>b DEF Reboot, FlashTyped, RunningTyped
    <3>2. CASE ~switches
      BY <1>33, <3>2, TypesKept DEF Reboot
    <3> QED
      BY <3>1, <3>2
  <2>3. HistTyped'
    <3>1. blind' \in BOOLEAN
      BY <1>33 DEF Reboot
    <3> QED
      BY <2>1, <3>1 DEF ContextReset, HistTyped
  <2>4. BgTyped'
    BY <1>33, <2>1 DEF Reboot, ContextReset, BgTyped
  <2>5. AuthTyped'
    BY <1>33 DEF Reboot, AuthTyped
  <2>6. PdsTyped'
    BY <1>33, <2>1 DEF Reboot, ContextReset, PdsTyped
  <2> QED
    BY <2>1, <2>2, <2>3, <2>4, <2>5, <2>6, ResetTyped
<1>34. CASE UNCHANGED vars
  BY <1>34, TypesKept DEF vars
<1> QED
  BY <1>1, <1>2, <1>3, <1>4, <1>5, <1>6, <1>7, <1>8, <1>9, <1>10, <1>11, <1>12,
     <1>13, <1>14, <1>15, <1>16, <1>17, <1>18, <1>19, <1>20, <1>21, <1>22, <1>23,
     <1>24, <1>25, <1>26, <1>27, <1>28, <1>29, <1>30, <1>31, <1>32, <1>33, <1>34
     DEF Next, Command, Answer, Authentication, Copying, Restart

LEMMA TypedAlways == Spec => []Typed
  BY TypedInit, TypedNext, PTL DEF Spec

(* Every variable of the task keeps its type, for any components, images   *)
(* and sizes: no write leaves the buffer or the slot, and no request is    *)
(* repeated more often than PLDMFW_TIMEING_PN1 allows.                     *)
THEOREM FwTypeCorrect == Spec => []TypeOK
<1>1. Typed => TypeOK
  BY DEF Typed, TypeOK, FsmTyped, PlanTyped, PlaceTyped, ListsTyped, FlashTyped,
         PdsTyped, RunningTyped, BgTyped, AuthTyped, NetTyped, CountTyped, HistTyped,
         Chunks, Buffers, Slots
<1> QED
  BY <1>1, TypedAlways, PTL
=============================================================================

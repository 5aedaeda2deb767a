-------------------------- MODULE LogStream_proofs --------------------------
(***************************************************************************)
(* What a download sends: while no entry has been dropped since the        *)
(* session started, the page that was read ahead is what flash holds, for  *)
(* any sizes of the ring and the pages and whatever is stored meanwhile.   *)
(***************************************************************************)
EXTENDS LogRing_proofs

LEMMA RingMod ==
  ASSUME NEW h \in Indices, NEW i \in Indices
  PROVE  (h + Distance(h, i)) % Size = i
<1>0. Size \in Nat /\ Size > 0 /\ h \in Nat /\ i \in Nat /\ i < Size
  BY SizePositive
<1>1. CASE h <= i
  <2>1. h + Distance(h, i) = i
    BY <1>0, <1>1 DEF Distance
  <2> QED
    BY <1>0, <2>1
<1>2. CASE h > i
  <2>1. h + Distance(h, i) = i + Size
    BY <1>0, <1>2 DEF Distance
  <2> QED
    BY <1>0, <2>1
<1> QED
  BY <1>0, <1>1, <1>2

(* A page that was just read holds the entries from its start on.          *)
LEMMA PageHolds ==
  ASSUME NEW h \in Indices, NEW i \in Indices, Distance(h, i) < PageEntries
  PROVE  Page(h)[Distance(h, i)] = entry[i]
<1>1. Distance(h, i) \in 0 .. PageEntries - 1
  <2>1. Distance(h, i) \in Nat
    BY SizePositive, DistanceTyped
  <2> QED
    BY <2>1, DownloadConstants
<1>2. (h + Distance(h, i)) % Size = i
  BY RingMod
<1> QED
  BY <1>1, <1>2 DEF Page

(* The place of the next entry to send moves on in the window.             *)
LEMMA WindowAdvances ==
  ASSUME NEW p \in Indices, NEW t \in Indices, After(p) # t, p # t
  PROVE  /\ Window(After(p), t) \subseteq Window(p, t)
         /\ \A i \in Window(After(p), t) : Distance(p, i) = Distance(After(p), i) + 1
  BY SizePositive DEF Window, After, Distance

LEMMA StaysInWindow ==
  ASSUME NEW h \in Indices, NEW t \in Indices, NEW p \in Window(h, t), After(p) # t
  PROVE  After(p) \in Window(h, t)
  BY SizePositive DEF Window, After

LEMMA WindowWithin ==
  ASSUME NEW h \in Indices, NEW t \in Indices, NEW p \in Window(h, t)
  PROVE  p \in Window(p, t) /\ Window(p, t) \subseteq Window(h, t) /\ Distance(p, p) = 0
  BY SizePositive DEF Window, Distance

LEMMA WindowExtends ==
  ASSUME NEW h \in Indices, NEW t \in Indices, After(t) # h
  PROVE  Window(h, t) \subseteq Window(h, After(t)) /\ t \notin Window(h, t)
  BY SizePositive DEF Window, After

-----------------------------------------------------------------------------
(* A session that sends entries of the log. *)
Streaming == dl.state = "Event" /\ dl.size # 0 /\ ~moved

(* What it has still to send is part of the log and not what is stored at  *)
(* the moment; as far as the page reaches, the page holds the same.        *)
Streams == Streaming =>
    /\ pc \in {"Loop", "EraseNext"} \/ StorePhase
    /\ dl.ptr \in Window(head, dl.tail)
    /\ Window(head, dl.tail) \subseteq Window(head, tail)
    /\ StorePhase => Before(tail) \notin Window(head, dl.tail)
    /\ dl.chunk < PageEntries
    /\ \A i \in Window(dl.ptr, dl.tail) :
         dl.chunk + Distance(dl.ptr, i) < PageEntries
           => dl.page[dl.chunk + Distance(dl.ptr, i)] = entry[i]

LEMMA FaultStates ==
  ASSUME NEW d \in DlType, NEW ok \in BOOLEAN, d.state # "Event", FetchFault(d, ok)
  PROVE  dl'.state # "Event"
<1>1. CASE d.fatal = 0 \/ Fetched(d).ptr = d.fatal * FaultParts
  BY <1>1, StateSteps DEF FetchFault
<1>2. CASE ~(d.fatal = 0 \/ Fetched(d).ptr = d.fatal * FaultParts)
  <2>1. CASE ~PageDone(Fetched(d))
    BY <1>2, <2>1, StateSteps DEF FetchFault
  <2>2. CASE PageDone(Fetched(d))
    <3>1. dl' = [Fetched(d) EXCEPT !.chunk = 0, !.state = IF ok THEN @ ELSE "End"]
      BY <1>2, <2>2 DEF FetchFault
    <3>2. dl'.state \in {d.state, "End"}
      BY <3>1, StateSteps
    <3> QED
      BY <3>2
  <2> QED
    BY <2>1, <2>2
<1> QED
  BY <1>1, <1>2

(* The log's own steps change nothing that is still to be sent.            *)
LEMMA StreamsLog ==
  ASSUME RingInv, DlFine, Streams, LogGoesOn
  PROVE  Streams'
<1> SUFFICES ASSUME Streaming' PROVE Streams'
  BY DEF Streams
<1> USE DEF StorePhase, inFlash, pointers, control, history, bounds
<1>a. /\ UNCHANGED dl /\ LogStep
      /\ head' = head /\ ~(caller' = "Clean" /\ pc' = "EraseMeta") /\ Streaming
  BY DEF LogGoesOn, Streaming, DlFine
<1>b. /\ head \in Indices /\ tail \in Indices /\ dl.tail \in Indices /\ entry \in Entries
      /\ caller \in {"Store", "Clean", "Load"}
      /\ resume \in {"Init", "Loop", "Handled"}
  BY DEF RingInv, TypeOK, DlFine, DlType, Entries
<1>c. /\ pc \in {"Loop", "EraseNext"} \/ StorePhase
      /\ dl.ptr \in Window(head, dl.tail)
      /\ Window(head, dl.tail) \subseteq Window(head, tail)
      /\ StorePhase => Before(tail) \notin Window(head, dl.tail)
      /\ dl.chunk < PageEntries
      /\ Window(dl.ptr, dl.tail) \subseteq Window(head, dl.tail)
      /\ \A i \in Window(dl.ptr, dl.tail) :
           dl.chunk + Distance(dl.ptr, i) < PageEntries
             => dl.page[dl.chunk + Distance(dl.ptr, i)] = entry[i]
  BY <1>a, <1>b, WindowWithin DEF Streams
<1>d. ASSUME \A i \in Window(head, dl.tail) : entry'[i] = entry[i],
             pc' \in {"Loop", "EraseNext"} \/ StorePhase',
             UNCHANGED tail, StorePhase' => StorePhase
      PROVE  Streams'
  BY <1>a, <1>c, <1>d DEF Streams
<1>1. CASE LoadPointers \/ LoadNothing \/ LoadFails
  BY <1>1, <1>c DEF LoadPointers, LoadNothing, LoadFails
<1>2. CASE EraseFirst \/ KeepFirst \/ ReadTail \/ ReadTailFails
  BY <1>2, <1>c DEF EraseFirst, KeepFirst, ReadTail, ReadTailFails
<1>3. CASE EraseMeta
  BY <1>3, <1>c, <1>d DEF EraseMeta
<1>4. CASE EraseMetaFails
  BY <1>4, <1>c, <1>d, Returns DEF EraseMetaFails
<1>5. CASE WriteMeta
  BY <1>5, <1>c, <1>d, Returns DEF WriteMeta
<1>6. CASE WriteMetaFails
  BY <1>6, <1>c, <1>d, Returns DEF WriteMetaFails
<1>7. CASE Store
  <2>1. /\ tail' = After(tail) /\ StorePhase' /\ UNCHANGED entry
        /\ head' = Oldest(head, After(tail))
    BY <1>7 DEF Store, Update, Oldest
  <2>2. After(tail) # head
    BY <1>a, <1>b, <2>1, RingSteps, OldestTyped
  <2>3. /\ Window(head, tail) \subseteq Window(head, After(tail))
        /\ tail \notin Window(head, tail) /\ Before(After(tail)) = tail
    BY <1>b, <2>2, WindowExtends, AfterBefore
  <2> QED
    BY <1>a, <1>c, <2>1, <2>3 DEF Streams
<1>8. CASE WriteEntry
  <2>1. /\ StorePhase /\ UNCHANGED tail /\ pc' \in {"Loop", "EraseNext"}
        /\ entry' = [entry EXCEPT ![Before(tail)] = stored]
    BY <1>8, <1>c DEF WriteEntry
  <2>2. \A i \in Window(head, dl.tail) : i # Before(tail) /\ i \in Indices
    BY <1>c, <2>1 DEF Window
  <2>3. \A i \in Window(head, dl.tail) : entry'[i] = entry[i]
    BY <1>b, <2>1, <2>2 DEF Entries
  <2> QED
    BY <1>d, <2>1, <2>3
<1>9. CASE WriteEntryFails
  BY <1>9, <1>d DEF WriteEntryFails
<1>10. CASE EraseNext
  <2>1. /\ pc = "EraseNext" /\ UNCHANGED tail /\ pc' = "Loop"
        /\ entry' = EraseSector(tail) \/ UNCHANGED entry
    BY <1>10 DEF EraseNext
  <2>2. Aligned(head) /\ Aligned(tail)
    BY <2>1 DEF RingInv, Heads
  <2>3. \A i \in Window(head, tail) : i \notin SectorOf(tail) /\ i \in Indices
    BY <1>b, <2>2, WindowNotErased DEF Window
  <2>4. \A i \in Window(head, dl.tail) : entry'[i] = entry[i]
    BY <1>c, <2>1, <2>3 DEF EraseSector
  <2> QED
    BY <1>d, <2>1, <2>4
<1>11. CASE EraseZero \/ EraseFaults \/ AddFault
  BY <1>11, <1>c DEF EraseZero, EraseFaults, AddFault
<1>12. CASE CleanRequest \/ HandleError
  BY <1>12, <1>a DEF CleanRequest, HandleError, Clean
<1>13. CASE NextRound
  BY <1>13, <1>d DEF NextRound
<1> QED
  BY <1>a, <1>1, <1>2, <1>3, <1>4, <1>5, <1>6, <1>7, <1>8, <1>9, <1>10, <1>11,
     <1>12, <1>13 DEF LogStep

-----------------------------------------------------------------------------
(* A new session starts at the head, with the page read there.             *)
LEMMA StreamsStart ==
  ASSUME RingInv, DlFine, StartDownload
  PROVE  Streams'
<1> SUFFICES ASSUME Streaming' PROVE Streams'
  BY DEF Streams
<1>1. PICK ok \in BOOLEAN :
        dl' = [state |-> IF ok THEN "Event" ELSE "End",
               session |-> (dl.session + 1) % SessionMax,
               ptr |-> head, tail |-> tail, size |-> Distance(head, tail),
               fatal |-> faults, chunk |-> 0,
               page |-> IF ok THEN Page(head) ELSE dl.page]
  BY DEF StartDownload
<1>2. /\ pc = "Loop" /\ pc' = "Loop"
      /\ UNCHANGED <<entry, head, tail, caller>>
  BY DEF StartDownload, Ask, inFlash, pointers
<1>3. ok /\ Distance(head, tail) # 0
  BY <1>1 DEF Streaming
<1>4. head \in Indices /\ tail \in Indices
  BY DEF RingInv, TypeOK
<1>5. head # tail
  BY <1>3, <1>4, SizePositive DEF Distance
<1>6. head \in Window(head, tail)
  BY <1>4, <1>5, SizePositive DEF Window
<1>7. /\ dl'.ptr = head /\ dl'.tail = tail /\ dl'.chunk = 0 /\ dl'.page = Page(head)
  BY <1>1, <1>3
<1>8. \A i \in Window(head, tail) :
        Distance(head, i) < PageEntries => Page(head)[0 + Distance(head, i)] = entry[i]
  <2> SUFFICES ASSUME NEW i \in Window(head, tail), Distance(head, i) < PageEntries
               PROVE  Page(head)[0 + Distance(head, i)] = entry[i]
    OBVIOUS
  <2>1. i \in Indices
    BY DEF Window
  <2>2. 0 + Distance(head, i) = Distance(head, i)
    BY <1>4, <2>1, SizePositive, DistanceTyped
  <2> QED
    BY <1>4, <2>1, <2>2, PageHolds
<1>9. ~StorePhase'
  BY <1>2 DEF StorePhase
<1>10. 0 < PageEntries /\ Window(head, tail) \subseteq Window(head, tail)
  BY DownloadConstants
<1>11. \A i \in Window(dl'.ptr, dl'.tail) :
        dl'.chunk + Distance(dl'.ptr, i) < PageEntries
          => dl'.page[dl'.chunk + Distance(dl'.ptr, i)] = entry'[i]
  <2>1. Window(dl'.ptr, dl'.tail) = Window(head, tail)
    BY <1>7
  <2>2. \A i : Distance(dl'.ptr, i) = Distance(head, i)
    BY <1>7
  <2> SUFFICES ASSUME NEW i \in Window(head, tail), Distance(head, i) < PageEntries,
                      0 + Distance(head, i) = Distance(head, i)
               PROVE  dl'.page[0 + Distance(head, i)] = entry[i]
    <3>1. \A i \in Window(head, tail) : 0 + Distance(head, i) = Distance(head, i)
      BY <1>4, SizePositive, DistanceTyped DEF Window
    <3> QED
      BY <1>2, <1>7, <2>1, <2>2, <3>1
  <2> QED
    BY <1>7, <1>8
<1> QED
  BY <1>2, <1>6, <1>7, <1>9, <1>10, <1>11 DEF Streams

(* After an entry the next one is in turn, from the page read ahead or     *)
(* from a page that is read now.                                           *)
LEMMA StreamsEntry ==
  ASSUME RingInv, DlFine, Streams, FetchEntry
  PROVE  Streams'
<1> SUFFICES ASSUME Streaming' PROVE Streams'
  BY DEF Streams
<1> DEFINE next == [dl EXCEPT !.ptr = After(@), !.chunk = @ + 1]
           last == next.ptr = dl.tail
<1>1. PICK ok \in BOOLEAN :
        dl' = IF last THEN ToFatal(next, ok)
              ELSE IF ~PageDone(next) THEN next
              ELSE IF ok THEN [next EXCEPT !.chunk = 0, !.page = Page(next.ptr)]
              ELSE [next EXCEPT !.chunk = 0, !.state = "End"]
  BY DEF FetchEntry
<1>2. /\ pc = "Loop" /\ pc' = "Loop"
      /\ UNCHANGED <<entry, head, tail, caller>> /\ UNCHANGED moved
      /\ dl.state = "Event" /\ dl.size # 0
  BY DEF FetchEntry, Ask, inFlash, pointers
<1>3. Streaming
  BY <1>2 DEF Streaming
<1>4. dl \in DlType /\ head \in Indices /\ tail \in Indices /\ dl.tail \in Indices
      /\ dl.chunk \in Nat /\ PageEntries \in Nat \ {0}
  BY DownloadConstants DEF RingInv, TypeOK, DlFine, DlType
<1>5. /\ next.ptr = After(dl.ptr) /\ next.chunk = dl.chunk + 1
      /\ next.tail = dl.tail /\ next.page = dl.page
  BY <1>4 DEF DlType
<1>6. ~last
  <2>1. SUFFICES ASSUME last PROVE FALSE
    OBVIOUS
  <2>2. dl' = ToFatal(next, ok)
    BY <1>1, <2>1
  <2>3. dl'.state \in {"Fatal", "End"}
    BY <1>4, <2>2 DEF ToFatal, DlType
  <2> QED
    BY <2>3 DEF Streaming
<1>7. /\ dl.ptr \in Window(head, dl.tail) /\ dl.ptr \in Indices
      /\ Window(head, dl.tail) \subseteq Window(head, tail)
      /\ \A i \in Window(dl.ptr, dl.tail) :
           dl.chunk + Distance(dl.ptr, i) < PageEntries
             => dl.page[dl.chunk + Distance(dl.ptr, i)] = entry[i]
  BY <1>3 DEF Streams, Window
<1>8. /\ After(dl.ptr) \in Window(head, dl.tail) /\ After(dl.ptr) # dl.tail
      /\ After(dl.ptr) \in Indices /\ dl.ptr # dl.tail
  <2>1. After(dl.ptr) # dl.tail
    BY <1>5, <1>6
  <2>2. dl.ptr # dl.tail
    BY <1>4, <1>7, SizePositive DEF Window
  <2> QED
    BY <1>4, <1>7, <2>1, <2>2, StaysInWindow, RingSteps
<1>9. ~StorePhase'
  BY <1>2 DEF StorePhase
<1>10. CASE ~PageDone(next)
  <2>1. dl' = next /\ dl.chunk + 1 < PageEntries
    BY <1>1, <1>4, <1>5, <1>6, <1>10 DEF PageDone
  <2>2. /\ Window(After(dl.ptr), dl.tail) \subseteq Window(dl.ptr, dl.tail)
        /\ \A i \in Window(After(dl.ptr), dl.tail) :
             Distance(dl.ptr, i) = Distance(After(dl.ptr), i) + 1
    BY <1>4, <1>7, <1>8, WindowAdvances
  <2>3. \A i \in Window(After(dl.ptr), dl.tail) :
          dl.chunk + 1 + Distance(After(dl.ptr), i) = dl.chunk + Distance(dl.ptr, i)
    <3> TAKE i \in Window(After(dl.ptr), dl.tail)
    <3>1. Distance(After(dl.ptr), i) \in Nat /\ Distance(dl.ptr, i) = Distance(After(dl.ptr), i) + 1
      <4>1. i \in Indices
        BY DEF Window
      <4>2. Distance(After(dl.ptr), i) \in 0 .. Size - 1
        BY <1>8, <4>1, DistanceTyped
      <4> QED
        BY <2>2, <4>2, SizePositive
    <3> QED
      BY <1>4, <2>2, <3>1
  <2>4. \A i \in Window(After(dl.ptr), dl.tail) :
          dl.chunk + 1 + Distance(After(dl.ptr), i) < PageEntries
            => dl.page[dl.chunk + 1 + Distance(After(dl.ptr), i)] = entry[i]
    BY <1>7, <2>2, <2>3
  <2>5. /\ dl'.ptr = After(dl.ptr) /\ dl'.chunk = dl.chunk + 1
        /\ dl'.tail = dl.tail /\ dl'.page = dl.page
    BY <1>5, <2>1
  <2> HIDE DEF next
  <2> QED
    BY <1>2, <1>7, <1>8, <1>9, <2>1, <2>4, <2>5 DEF Streams
<1>11. CASE PageDone(next) /\ ok
  <2>1. dl' = [next EXCEPT !.chunk = 0, !.page = Page(next.ptr)]
    BY <1>1, <1>6, <1>11
  <2>2. /\ dl'.ptr = After(dl.ptr) /\ dl'.chunk = 0
        /\ dl'.tail = dl.tail /\ dl'.page = Page(After(dl.ptr))
    BY <1>4, <1>5, <2>1 DEF DlType
  <2>3. \A i \in Window(After(dl.ptr), dl.tail) :
          0 + Distance(After(dl.ptr), i) < PageEntries
            => Page(After(dl.ptr))[0 + Distance(After(dl.ptr), i)] = entry[i]
    <3> TAKE i \in Window(After(dl.ptr), dl.tail)
    <3>1. i \in Indices
      BY DEF Window
    <3>2. 0 + Distance(After(dl.ptr), i) = Distance(After(dl.ptr), i)
      BY <1>8, <3>1, SizePositive, DistanceTyped
    <3> QED
      BY <1>8, <3>1, <3>2, PageHolds
  <2> HIDE DEF next
  <2> QED
    BY <1>2, <1>4, <1>7, <1>8, <1>9, <2>2, <2>3 DEF Streams
<1>12. CASE PageDone(next) /\ ~ok
  <2>1. dl' = [next EXCEPT !.chunk = 0, !.state = "End"]
    BY <1>1, <1>6, <1>12
  <2>2. dl'.state = "End"
    BY <1>4, <2>1 DEF DlType
  <2> QED
    BY <2>2 DEF Streaming
<1> QED
  BY <1>10, <1>11, <1>12

(* The other requests send nothing of the log.                             *)
LEMMA StreamsOther ==
  ASSUME DlFine, Streams,
         RefuseRequest \/ FetchNoEntry \/ FetchFatal \/ FetchPerf \/ EndDownload \/ Reset
  PROVE  Streams'
<1>0. dl \in DlType
  BY DEF DlFine
<1>1. CASE RefuseRequest
  BY <1>1 DEF RefuseRequest, Ask, inFlash, pointers, Streams, Streaming, StorePhase
<1>2. SUFFICES ASSUME ~RefuseRequest PROVE dl'.state # "Event"
  BY <1>1 DEF Streams, Streaming
<1>3. CASE FetchNoEntry
  <2>1. PICK ok \in BOOLEAN : FetchFault(ToFatal(dl, ok), TRUE)
    BY <1>3 DEF FetchNoEntry
  <2>2. ToFatal(dl, ok) \in DlType /\ ToFatal(dl, ok).state # "Event"
    BY <1>0, FetchTyped, StateSteps
  <2> QED
    BY <2>1, <2>2, FaultStates
<1>4. CASE FetchFatal
  <2>1. PICK ok \in BOOLEAN : FetchFault(dl, ok)
    BY <1>4 DEF FetchFatal
  <2> QED
    BY <1>0, <1>4, <2>1, FaultStates DEF FetchFatal
<1>5. CASE FetchPerf
  BY <1>0, <1>5 DEF FetchPerf, Fetched, DlType
<1>6. CASE EndDownload
  BY <1>6 DEF EndDownload
<1>7. CASE Reset
  BY <1>7 DEF Reset, NoSession
<1> QED
  BY <1>2, <1>3, <1>4, <1>5, <1>6, <1>7

LEMMA StreamsStep ==
  RingInv /\ DlFine /\ Streams /\ [DownloadNext]_allVars => Streams'
<1> SUFFICES ASSUME RingInv, DlFine, Streams, [DownloadNext]_allVars
             PROVE  Streams'
  OBVIOUS
<1>1. CASE UNCHANGED allVars
  BY <1>1 DEF allVars, dlVars, logVars, inFlash, pointers, control, Streams, Streaming,
              StorePhase
<1> QED
  BY <1>1, StreamsLog, StreamsStart, StreamsEntry, StreamsOther DEF DownloadNext

(* While no entry has been dropped since the session started, the entry    *)
(* that is sent next is one of the log and the page that was read ahead    *)
(* is not stale, for any sizes of ring and page, with stores, failures of  *)
(* the flash and requests in any order.                                    *)
THEOREM SendsTheLogAlways == DownloadSpec => []SendsTheLog
<1>1. DownloadInit => Streams
  BY DEF DownloadInit, NoSession, Streams, Streaming
<1>2. RingInv /\ DlFine /\ Streams => SendsTheLog
  <2> SUFFICES ASSUME RingInv, DlFine, Streams, Streaming
               PROVE  dl.ptr \in Window(head, tail) /\ dl.page[dl.chunk] = entry[dl.ptr]
    BY DEF SendsTheLog, Streaming
  <2>1. dl.ptr \in Window(head, dl.tail) /\ dl.ptr \in Window(head, tail)
    BY DEF Streams
  <2>2. /\ head \in Indices /\ dl.tail \in Indices /\ dl.chunk \in Nat
        /\ dl.chunk < PageEntries
    BY DownloadConstants DEF RingInv, TypeOK, DlFine, DlType, Streams
  <2>3. dl.ptr \in Window(dl.ptr, dl.tail) /\ Distance(dl.ptr, dl.ptr) = 0
    BY <2>1, <2>2, WindowWithin
  <2>4. dl.chunk + Distance(dl.ptr, dl.ptr) = dl.chunk
    BY <2>2, <2>3
  <2>5. dl.page[dl.chunk + Distance(dl.ptr, dl.ptr)] = entry[dl.ptr]
    BY <2>2, <2>3, <2>4 DEF Streams
  <2> QED
    BY <2>1, <2>4, <2>5
<1> QED
  BY <1>1, <1>2, StreamsStep, RingAlways, SessionAlways, PTL DEF DownloadSpec
=============================================================================

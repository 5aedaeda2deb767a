------------------------- MODULE MctpReceive_proofs -------------------------
(* Proofs about MctpReceive: its type invariant, that a message whose      *)
(* packets arrive one right after the other is handed on, and that what is *)
(* handed on is a whole message.                                           *)
EXTENDS MctpReceive, TLAPS

(* What s sent last is a packet of its own. *)
CurrentOK == \A s \in Senders : current[s] # None => /\ current[s].from = s
                                                     /\ current[s].index <= current[s].len

(* The composer assembles only between a start and an end. *)
ComposerOK == /\ somRecv => ~completed
              /\ overflowed => ~completed

(* heard is the start of one message, and its sender is not behind it. *)
HeardOK ==
    heard # <<>> =>
        /\ \A n \in 1 .. Len(heard) :
             /\ heard[n].index = n
             /\ heard[n].from = heard[1].from /\ heard[n].no = heard[1].no
             /\ heard[n].len = heard[1].len /\ heard[n].type = heard[1].type
             /\ heard[n].vendor = heard[1].vendor
        /\ Len(heard) <= heard[1].len
        /\ LET c == current[heard[1].from]
           IN  /\ c # None /\ heard[1].no <= c.no
               /\ c.no = heard[1].no => /\ c.len = heard[1].len /\ c.type = heard[1].type
                                     /\ c.vendor = heard[1].vendor

(* The validator and the composer follow what is heard. *)
Following ==
    (heard # <<>> /\ Len(heard) < heard[1].len /\ Assembled(heard[1])) =>
        /\ eid = Eid(heard[1]) /\ tag = Tag(heard[1])
        /\ seq = (Len(heard) - 1) % 4
        /\ somRecv
        /\ Len(heard) <= Capacity =>
             /\ ~overflowed
             /\ size = Len(heard)
             /\ \A n \in 1 .. size : buf[n] = heard[n]

Inv == TypeOK /\ CurrentOK /\ ComposerOK /\ HeardOK /\ Following /\ HeardIsHandedOn

LEMMA PacketNotNone == ASSUME NEW p \in Packets PROVE p # None
  <1>1. DOMAIN p = {"from", "no", "type", "vendor", "len", "index"} BY DEF Packets
  <1>2. DOMAIN None = {"from"} BY DEF None
  <1> QED BY <1>1, <1>2

(* A packet that can be sent is the first of a message or the successor of *)
(* the packet sent last.                                                   *)
LEMMA NextPacket ==
    ASSUME TypeOK, CurrentOK, NEW s \in Senders, NEW p \in NextPackets(s)
    PROVE  /\ p \in Packets /\ p # None /\ p.from = s /\ p.index <= p.len
           /\ \/ Som(p) /\ (current[s] # None => p.no = current[s].no + 1)
              \/ /\ ~Som(p) /\ current[s] # None
                 /\ p.no = current[s].no /\ p.type = current[s].type
                 /\ p.vendor = current[s].vendor
                 /\ p.len = current[s].len /\ p.index = current[s].index + 1
  <1>1. CASE current[s] # None /\ ~Eom(current[s])
    <2>1. current[s] \in Packets BY <1>1 DEF TypeOK, PacketOrNone
    <2>2. p = [current[s] EXCEPT !.index = @ + 1] BY <1>1 DEF NextPackets
    <2>3. current[s].from = s /\ current[s].index < current[s].len
      BY <1>1, <2>1 DEF CurrentOK, Eom, Packets
    <2>4. p \in Packets BY <2>1, <2>2 DEF Packets
    <2> QED BY <1>1, <2>1, <2>2, <2>3, <2>4, PacketNotNone DEF Packets, Som
  <1>2. CASE ~(current[s] # None /\ ~Eom(current[s]))
    <2> DEFINE no == IF current[s] = None THEN 1 ELSE current[s].no + 1
    <2>1. no \in Nat BY DEF TypeOK, PacketOrNone, Packets
    <2>2. PICK shape \in Shapes : p = First(s, no, shape) BY <1>2 DEF NextPackets
    <2>3. /\ shape[1] \in Types /\ shape[2] \in Nat \ {0}
          /\ shape[3] \in SUBSET Nat
      BY MctpConstants
    <2>4. p \in Packets BY <2>1, <2>2, <2>3 DEF First, Packets
    <2> QED BY <2>1, <2>2, <2>3, <2>4, PacketNotNone DEF First, Packets, Som
  <1> QED BY <1>1, <1>2

LEMMA InitInv == Init => Inv
  <1> SUFFICES ASSUME Init PROVE Inv OBVIOUS
  <1>1. handed \in Seq(PacketOrNone) /\ heard \in Seq(Packets) BY DEF Init
  <1>2. buf \in [1 .. Capacity -> PacketOrNone] /\ current \in [Senders -> PacketOrNone]
    BY DEF Init, PacketOrNone
  <1>3. /\ seq \in 0 .. 3 /\ tag \in 0 .. 7 /\ eid \in Nat
        /\ size \in 0 .. Capacity /\ losses \in 0 .. MaxLosses
    BY MctpConstants DEF Init
  <1>4. /\ completed \in BOOLEAN /\ somRecv \in BOOLEAN /\ overflowed \in BOOLEAN
        /\ seen \subseteq {"single", "untracked"}
    BY DEF Init
  <1>5. TypeOK BY <1>1, <1>2, <1>3, <1>4 DEF TypeOK
  <1>6. CurrentOK /\ ComposerOK /\ HeardOK /\ Following /\ HeardIsHandedOn
    BY DEF Init, CurrentOK, ComposerOK, HeardOK, Following, HeardIsHandedOn
  <1> QED BY <1>5, <1>6 DEF Inv

(* What one packet does to the validator keeps its types. *)
LEMMA ValidatorTyped ==
    ASSUME TypeOK, NEW p \in Packets,
           ValidateStart(p) \/ ValidateNext(p) \/ Reject(p)
    PROVE  seq' \in 0 .. 3 /\ tag' \in 0 .. 7 /\ eid' \in Nat
  <1>1. Tag(p) \in 0 .. 7 /\ Eid(p) \in Nat BY MctpConstants DEF Tag, Eid, Packets
  <1>2. Seq4(p) \in 0 .. 3 BY DEF Seq4, Packets
  <1>3. (seq + 1) % 4 \in 0 .. 3 BY DEF TypeOK
  <1> QED BY <1>1, <1>2, <1>3
       DEF TypeOK, ValidateStart, ValidateNext, Reject, Remember, Successor, CountOn,
           AcceptVendor, validator

LEMMA TypeStep == ASSUME TypeOK, CurrentOK, [Next]_vars PROVE TypeOK'
  <1>1. CASE UNCHANGED vars
    BY <1>1 DEF TypeOK, vars, validator, composer, history
  <1>2. ASSUME NEW s \in Senders, NEW p \in NextPackets(s), Lose(p) PROVE TypeOK'
    <2>1. p \in Packets /\ p.from = s BY <1>2, NextPacket
    <2>2. current' \in [Senders -> PacketOrNone] BY <1>2, <2>1 DEF TypeOK, PacketOrNone, Lose
    <2>3. losses' \in 0 .. MaxLosses BY <1>2, MctpConstants DEF TypeOK, Lose
    <2> QED BY <1>2, <2>2, <2>3 DEF TypeOK, Lose, validator, composer, history
  <1>3. ASSUME NEW s \in Senders, NEW p \in NextPackets(s), Receive(p) PROVE TypeOK'
    <2>1. p \in Packets /\ p.from = s BY <1>3, NextPacket
    <2>2. current' \in [Senders -> PacketOrNone] /\ losses' \in 0 .. MaxLosses
      BY <1>3, <2>1 DEF Receive, TypeOK, PacketOrNone
    <2>3. heard' \in Seq(Packets) /\ seen' \subseteq {"single", "untracked"}
      BY <1>3, <2>1 DEF Receive, Witness, TypeOK
    <2>4. seq' \in 0 .. 3 /\ tag' \in 0 .. 7 /\ eid' \in Nat
      <3>1. ValidateStart(p) \/ ValidateNext(p) \/ Reject(p)
        BY <1>3 DEF Receive, HandOnSingle, Start, DropUnknown, Overflow,
                    AppendMiddle, AppendLast, SkipOverflowed, EndOverflowed
      <3> QED BY <2>1, <3>1, ValidatorTyped
    <2>5. /\ completed' \in BOOLEAN /\ somRecv' \in BOOLEAN /\ overflowed' \in BOOLEAN
          /\ size' \in 0 .. Capacity
          /\ buf' \in [1 .. Capacity -> PacketOrNone] /\ handed' \in Seq(PacketOrNone)
      <3> USE MctpConstants, <2>1 DEF TypeOK, PacketOrNone
      <3>1. CASE Reject(p) BY <3>1 DEF Reject, composer
      <3>2. CASE HandOnSingle(p) BY <3>2 DEF HandOnSingle, composer
      <3>3. CASE Start(p)
        <4>1. overflowed' \in BOOLEAN BY <3>3, Zenon DEF Start
        <4>2. size' \in 0 .. Capacity BY <3>3 DEF Start
        <4> QED BY <3>3, <4>1, <4>2 DEF Start
      <3>4. CASE DropUnknown(p) BY <3>4 DEF DropUnknown, composer
      <3>5. CASE Overflow(p) BY <3>5 DEF Overflow
      <3>6. CASE AppendMiddle(p) BY <3>6 DEF AppendMiddle
      <3>7. CASE AppendLast(p)
        <4>1. buf' \in [1 .. Capacity -> PacketOrNone] BY <3>7 DEF AppendLast
        <4>2. size + 1 \in 1 .. Capacity BY <3>7 DEF AppendLast
        <4>3. handed' = [n \in 1 .. size + 1 |-> buf'[n]] BY <3>7 DEF AppendLast
        <4>4. \A n \in 1 .. size + 1 : buf'[n] \in PacketOrNone BY <4>1, <4>2
        <4>5. handed' \in Seq(PacketOrNone)
          <5> HIDE DEF PacketOrNone
          <5> QED BY <4>2, <4>3, <4>4
        <4>6. size' \in 0 .. Capacity BY <3>7, <4>2 DEF AppendLast, Cleared
        <4> HIDE DEF TypeOK, PacketOrNone
        <4>7. completed' \in BOOLEAN /\ somRecv' \in BOOLEAN /\ overflowed' \in BOOLEAN
          BY <3>7 DEF AppendLast
        <4> QED BY <4>1, <4>5, <4>6, <4>7
      <3>8. CASE SkipOverflowed(p) BY <3>8 DEF SkipOverflowed, composer
      <3>9. CASE EndOverflowed(p)
        <4>1. handed' \in Seq(PacketOrNone) /\ buf' = buf BY <3>9 DEF EndOverflowed
        <4>2. size' \in 0 .. Capacity BY <3>9 DEF EndOverflowed
        <4>3. completed' \in BOOLEAN /\ somRecv' \in BOOLEAN /\ overflowed' \in BOOLEAN
          BY <3>9 DEF EndOverflowed
        <4> QED BY <4>1, <4>2, <4>3
      <3> QED BY <1>3, <3>1, <3>2, <3>3, <3>4, <3>5, <3>6, <3>7, <3>8, <3>9
           DEF Receive
    <2> QED BY <2>2, <2>3, <2>4, <2>5 DEF TypeOK
  <1> QED BY <1>1, <1>2, <1>3 DEF Next

LEMMA CurrentStep == ASSUME TypeOK, CurrentOK, [Next]_vars PROVE CurrentOK'
  <1>1. CASE UNCHANGED vars BY <1>1 DEF CurrentOK, vars
  <1>2. ASSUME NEW s \in Senders, NEW p \in NextPackets(s), Receive(p) \/ Lose(p)
        PROVE  CurrentOK'
    <2>1. p.from = s /\ p.index <= p.len BY <1>2, NextPacket
    <2>2. current' = [current EXCEPT ![s] = p] BY <1>2, <2>1 DEF Receive, Lose
    <2> QED BY <2>1, <2>2 DEF CurrentOK, TypeOK
  <1> QED BY <1>1, <1>2 DEF Next

LEMMA ComposerStep == ASSUME TypeOK, ComposerOK, [Next]_vars PROVE ComposerOK'
  <1> USE DEF ComposerOK
  <1>1. CASE UNCHANGED vars BY <1>1 DEF vars, composer
  <1>2. ASSUME NEW s \in Senders, NEW p \in NextPackets(s), Lose(p) PROVE ComposerOK'
    BY <1>2 DEF Lose, composer
  <1>3. ASSUME NEW s \in Senders, NEW p \in NextPackets(s), Receive(p) PROVE ComposerOK'
    BY <1>3 DEF Receive, Reject, HandOnSingle, Start, DropUnknown, Overflow,
         AppendMiddle, AppendLast, SkipOverflowed, EndOverflowed, composer, TypeOK
  <1> QED BY <1>1, <1>2, <1>3 DEF Next

(* A packet that follows what is heard is of the same message. *)
LEMMA FollowerIsNext ==
    ASSUME TypeOK, CurrentOK, HeardOK,
           NEW s \in Senders, NEW p \in NextPackets(s), ~Som(p), Follows(p)
    PROVE  /\ p.from = heard[1].from /\ p.no = heard[1].no
           /\ p.len = heard[1].len /\ p.type = heard[1].type
           /\ p.vendor = heard[1].vendor
           /\ p.index = Len(heard) + 1 /\ p.index <= p.len
  <1>1. p.from = s /\ p.index <= p.len BY NextPacket
  <1>2. /\ p.no = current[s].no /\ p.type = current[s].type /\ p.len = current[s].len
        /\ p.vendor = current[s].vendor
    BY NextPacket
  <1> QED BY <1>1, <1>2 DEF Follows, HeardOK

LEMMA HeardStep == ASSUME TypeOK, CurrentOK, HeardOK, [Next]_vars PROVE HeardOK'
  <1>1. CASE UNCHANGED vars BY <1>1 DEF HeardOK, vars, history
  <1>2. ASSUME NEW s \in Senders, NEW p \in NextPackets(s), Receive(p) \/ Lose(p)
        PROVE  HeardOK'
    <2>1. /\ p \in Packets /\ p # None /\ p.from = s /\ p.index <= p.len
          /\ current[s] # None => current[s].no <= p.no
          /\ (current[s] # None /\ p.no = current[s].no) =>
               /\ p.type = current[s].type /\ p.len = current[s].len
               /\ p.vendor = current[s].vendor
      <3>1. current[s] # None => current[s].no \in Nat
        BY DEF TypeOK, PacketOrNone, Packets
      <3> QED BY <1>2, <3>1, NextPacket
    <2>2. current' = [current EXCEPT ![s] = p] BY <1>2, <2>1 DEF Receive, Lose
    <2>3. heard \in Seq(Packets) BY DEF TypeOK
    <2>4. CASE heard' = heard
      <3> SUFFICES ASSUME heard # <<>> PROVE HeardOK' BY <2>4 DEF HeardOK
      <3>1. heard[1] \in Packets BY <2>3
      <3>2. heard[1].from \in Senders /\ heard[1].no \in Nat BY <3>1 DEF Packets
      <3>3. CASE heard[1].from = s
        <4>1. current[s] # None /\ heard[1].no <= current[s].no
              /\ (current[s].no = heard[1].no =>
                   /\ current[s].len = heard[1].len /\ current[s].type = heard[1].type
                   /\ current[s].vendor = heard[1].vendor)
          BY <3>3 DEF HeardOK
        <4>2. current[s].no \in Nat /\ p.no \in Nat
          BY <4>1, <2>1 DEF TypeOK, PacketOrNone, Packets
        <4>3. current'[heard[1].from] = p BY <2>2, <3>3 DEF TypeOK
        <4>4. heard[1].no <= p.no BY <4>1, <4>2, <2>1, <3>2
        <4>5. p.no = heard[1].no => /\ p.len = heard[1].len /\ p.type = heard[1].type
                                    /\ p.vendor = heard[1].vendor
          BY <4>1, <4>2, <2>1, <3>2
        <4> QED BY <4>3, <4>4, <4>5, <2>1, <2>4 DEF HeardOK
      <3>4. CASE heard[1].from # s
        <4>1. current'[heard[1].from] = current[heard[1].from]
          BY <2>2, <3>2, <3>4 DEF TypeOK
        <4> QED BY <4>1, <2>4 DEF HeardOK
      <3> QED BY <3>3, <3>4
    <2>5. CASE heard' = <<p>> /\ Som(p)
      <3>1. current'[s] = p BY <2>2 DEF TypeOK
      <3> QED BY <2>1, <2>5, <3>1 DEF HeardOK, Som, Packets
    <2>6. CASE heard' = Append(heard, p) /\ ~Som(p) /\ Follows(p)
      <3>1. /\ p.from = heard[1].from /\ p.no = heard[1].no
            /\ p.len = heard[1].len /\ p.type = heard[1].type
            /\ p.vendor = heard[1].vendor
            /\ p.index = Len(heard) + 1 /\ p.index <= p.len
        BY <2>6, FollowerIsNext
      <3>2. heard # <<>> /\ Len(heard) \in Nat /\ Len(heard) >= 1
        BY <2>3, <2>6 DEF Follows
      <3>3. /\ Len(heard') = Len(heard) + 1
            /\ heard'[Len(heard) + 1] = p
            /\ \A n \in 1 .. Len(heard) : heard'[n] = heard[n]
        BY <2>1, <2>3, <2>6, <3>2
      <3>4. heard'[1] = heard[1] BY <3>2, <3>3
      <3>5. \A n \in 1 .. Len(heard') :
              /\ heard'[n].index = n
              /\ heard'[n].from = heard'[1].from /\ heard'[n].no = heard'[1].no
              /\ heard'[n].len = heard'[1].len /\ heard'[n].type = heard'[1].type
              /\ heard'[n].vendor = heard'[1].vendor
        <4> SUFFICES ASSUME NEW n \in 1 .. Len(heard) + 1
                     PROVE  /\ heard'[n].index = n
                            /\ heard'[n].from = heard[1].from
                            /\ heard'[n].no = heard[1].no
                            /\ heard'[n].len = heard[1].len
                            /\ heard'[n].type = heard[1].type
                            /\ heard'[n].vendor = heard[1].vendor
          BY <3>3, <3>4
        <4>1. CASE n = Len(heard) + 1 BY <4>1, <3>1, <3>3
        <4>2. CASE n \in 1 .. Len(heard) BY <4>2, <3>2, <3>3 DEF HeardOK
        <4> QED BY <3>2, <4>1, <4>2
      <3>6. current'[s] = p BY <2>2 DEF TypeOK
      <3>7. p.no \in Nat BY <2>1 DEF Packets
      <3> QED BY <2>1, <3>1, <3>3, <3>4, <3>5, <3>6, <3>7 DEF HeardOK
    <2>7. CASE heard' = <<>> BY <2>7 DEF HeardOK
    <2> QED BY <1>2, <2>4, <2>5, <2>6, <2>7 DEF Receive, Lose, Witness, history
  <1> QED BY <1>1, <1>2 DEF Next

(* A start: it is handed on if it is the whole message, and otherwise      *)
(* remembered by the validator and put in the buffer.                      *)
LEMMA StartHeard ==
    ASSUME Inv, NEW s \in Senders, NEW p \in NextPackets(s), Receive(p), Som(p)
    PROVE  Following' /\ HeardIsHandedOn'
  <1>1. p \in Packets /\ p.index = 1 BY NextPacket DEF Inv, Som
  <1>2. heard' = <<p>> BY DEF Receive, Witness
  <1>3. heard' # <<>> /\ Len(heard') = 1 /\ heard'[1] = p BY <1>1, <1>2
  <1>4. ~ValidateNext(p) BY DEF ValidateNext
  <1> DEFINE Taken == \/ Reject(p) \/ HandOnSingle(p) \/ Start(p)
  <1>5. Taken
    BY <1>4 DEF Receive, DropUnknown, Overflow, AppendMiddle, AppendLast,
                SkipOverflowed, EndOverflowed
  <1>6. ASSUME Assembled(p) PROVE ~Reject(p)
    <2>1. p.len = 1 => p.type \notin {"Other", "Refused"}
      BY <1>6 DEF Assembled
    <2>2. p.len # 1 => p.type \in {"Pldm", "Spdm", "VendorIani"}
      BY <1>6 DEF Assembled
    <2>3. ~Compared(p)
      BY <1>1, <2>1 DEF Compared, Eom
    <2>4. ~Refused(p)
      BY <1>1, <2>1, <2>2 DEF Refused, Eom, ReadsVendor
    <2> QED BY <2>3, <2>4 DEF Reject
  <1>7. CASE Eom(p)
    <2>1. p.len = 1 BY <1>1, <1>7 DEF Eom
    <2>2. Assembled(p) => HandOnSingle(p) BY <1>5, <1>6, <1>7 DEF Start
    <2>3. HeardIsHandedOn' BY <1>2, <1>3, <2>2 DEF HandOnSingle, HeardIsHandedOn
    <2>4. Following' BY <1>3, <2>1 DEF Following
    <2> QED BY <2>3, <2>4
  <1>8. CASE ~Eom(p)
    <2>1. HeardIsHandedOn' BY <1>3, <1>8 DEF HeardIsHandedOn, Eom
    <2>2. CASE ~Assembled(p) BY <1>3, <2>1, <2>2 DEF Following
    <2>3. CASE Assembled(p)
      <3>1. Start(p) BY <1>5, <1>6, <1>8, <2>3 DEF HandOnSingle
      <3>2. p.type \in {"Pldm", "Spdm", "VendorIani"}
        BY <1>1, <1>8, <2>3 DEF Assembled, Eom
      <3>3. eid' = Eid(p) /\ tag' = Tag(p) /\ seq' = Seq4(p)
        BY <1>8, <3>1, <3>2 DEF Start, ValidateStart, Remembered, Remember, Successor, Compared
      <3>4. seq' = (Len(heard') - 1) % 4 BY <1>1, <1>3, <3>3 DEF Seq4
      <3>5. somRecv' /\ ~overflowed' /\ size' = 1
        BY <3>1 DEF Start, Inv, ComposerOK
      <3>6. buf'[1] = p BY <3>1, MctpConstants DEF Start, Inv, TypeOK
      <3>7. \A n \in 1 .. size' : buf'[n] = heard'[n] BY <1>3, <3>5, <3>6
      <3>8. Following'
        BY <1>3, <3>3, <3>4, <3>5, <3>7 DEF Following, Eid, Tag
      <3> QED BY <2>1, <3>8
    <2> QED BY <2>2, <2>3
  <1> QED BY <1>7, <1>8

(* The successor of what is heard: it has the sequence number the          *)
(* validator expects and is put in the buffer behind its predecessor.      *)
LEMMA SuccessorHeard ==
    ASSUME Inv, NEW s \in Senders, NEW p \in NextPackets(s), Receive(p),
           ~Som(p), Follows(p)
    PROVE  Following' /\ HeardIsHandedOn'
  <1> DEFINE h == Len(heard)
  <1>1. /\ p.from = heard[1].from /\ p.len = heard[1].len /\ p.type = heard[1].type
        /\ p.vendor = heard[1].vendor
        /\ p.index = h + 1 /\ p.index <= p.len
    BY FollowerIsNext DEF Inv
  <1>2. p \in Packets BY NextPacket DEF Inv
  <1>3. heard \in Seq(Packets) /\ heard # <<>> BY DEF Inv, TypeOK, Follows
  <1>4. h \in Nat /\ h >= 1 BY <1>3
  <1>5. heard' = Append(heard, p) BY DEF Receive, Witness
  <1>6. /\ heard' # <<>> /\ Len(heard') = h + 1 /\ heard'[h + 1] = p
        /\ \A n \in 1 .. h : heard'[n] = heard[n]
    BY <1>2, <1>3, <1>5
  <1>7. heard'[1] = heard[1] BY <1>4, <1>6
  <1>8. heard[1].len \in Nat /\ p.len \in Nat BY <1>1, <1>2 DEF Packets
  <1> HIDE DEF h
  <1>9. CASE ~Assembled(heard[1])
    <2>1. Following' BY <1>7, <1>9 DEF Following
    <2>2. HeardIsHandedOn' BY <1>7, <1>9 DEF HeardIsHandedOn
    <2> QED BY <2>1, <2>2
  <1>10. CASE Assembled(heard[1])
    <2>1. /\ eid = Eid(heard[1]) /\ tag = Tag(heard[1])
          /\ seq = (h - 1) % 4
          /\ somRecv
          /\ h <= Capacity => /\ ~overflowed /\ size = h
                              /\ \A n \in 1 .. size : buf[n] = heard[n]
      BY <1>1, <1>3, <1>4, <1>8, <1>10 DEF Inv, Following, h
    <2>2. (seq + 1) % 4 = h % 4 BY <1>4, <2>1
    <2>3. Seq4(p) = h % 4 BY <1>1, <1>4 DEF Seq4
    <2>4. eid = Eid(p) /\ tag = Tag(p) BY <1>1, <2>1 DEF Eid, Tag
    <2>5. ~ReadsVendor(p) /\ ~Reject(p)
      <3>1. p.len # 1 BY <1>1, <1>4, <1>8
      <3>2. p.vendor = {} BY <1>1, <1>10, <3>1 DEF Assembled
      <3>3. ~ReadsVendor(p) BY <3>2 DEF ReadsVendor
      <3>4. ~Refused(p) BY <3>3 DEF Refused
      <3> QED BY <2>2, <2>3, <2>4, <3>3, <3>4 DEF Reject, CountOn, Known
    <2>6. ~ValidateStart(p) BY DEF ValidateStart
    <2>7. \/ Overflow(p) \/ AppendMiddle(p) \/ AppendLast(p)
          \/ SkipOverflowed(p) \/ EndOverflowed(p)
      BY <2>1, <2>5, <2>6 DEF Receive, HandOnSingle, Start, DropUnknown
    <2>8. seq' = h % 4 /\ eid' = eid /\ tag' = tag
      BY <2>2, <2>5, <2>7 DEF Overflow, AppendMiddle, AppendLast, SkipOverflowed,
                              EndOverflowed, ValidateNext, AcceptVendor, Successor, CountOn
    <2>9. ASSUME h + 1 <= Capacity PROVE AppendMiddle(p) \/ AppendLast(p)
      <3>1. ~overflowed /\ size = h BY <1>4, <2>1, <2>9, MctpConstants
      <3>2. ~(size + 1 > Capacity) BY <1>4, <2>9, <3>1, MctpConstants
      <3> QED BY <2>7, <3>1, <3>2 DEF Overflow, SkipOverflowed, EndOverflowed
    <2>10. ASSUME h + 1 <= Capacity
           PROVE  /\ size = h /\ h + 1 \in 1 .. Capacity
                  /\ \A n \in 1 .. h + 1 : buf'[n] = heard'[n]
      <3>1. size = h /\ \A n \in 1 .. h : buf[n] = heard[n]
        BY <1>4, <2>1, <2>10, MctpConstants
      <3>2. h + 1 \in 1 .. Capacity BY <1>4, <2>10, MctpConstants
      <3>3. buf' = [buf EXCEPT ![h + 1] = p]
        BY <2>9, <2>10, <3>1 DEF AppendMiddle, AppendLast
      <3>4. DOMAIN buf = 1 .. Capacity BY DEF Inv, TypeOK
      <3>5. buf'[h + 1] = p BY <3>2, <3>3, <3>4
      <3>6. \A n \in 1 .. h : buf'[n] = buf[n]
        BY <1>4, <3>2, <3>3, <3>4, MctpConstants
      <3>7. \A n \in 1 .. h : buf'[n] = heard'[n] BY <1>6, <3>1, <3>6
      <3> QED BY <1>4, <1>6, <3>1, <3>2, <3>5, <3>7
    <2>11. HeardIsHandedOn'
      <3> SUFFICES ASSUME Eom(p), h + 1 <= Capacity PROVE handed' = heard'
        BY <1>6 DEF HeardIsHandedOn, Eom
      <3>1. AppendLast(p) BY <2>9 DEF AppendMiddle
      <3>2. handed' = [n \in 1 .. h + 1 |-> buf'[n]]
        BY <2>10, <3>1 DEF AppendLast
      <3>3. heard' \in Seq(Packets) BY <1>2, <1>3, <1>5
      <3>4. heard' = [n \in 1 .. h + 1 |-> heard'[n]] BY <1>6, <3>3
      <3> QED BY <2>10, <3>2, <3>4
    <2>12. Following'
      <3> SUFFICES ASSUME h + 1 < heard[1].len PROVE Following'
        BY <1>6, <1>7 DEF Following
      <3>1. ~Eom(p) BY <1>1, <1>4, <1>8 DEF Eom
      <3>2. somRecv'
        BY <2>1, <2>7, <3>1 DEF Overflow, AppendMiddle, AppendLast, SkipOverflowed,
                                EndOverflowed, composer
      <3>3. ASSUME h + 1 <= Capacity
            PROVE  /\ ~overflowed' /\ size' = h + 1
                   /\ \A n \in 1 .. size' : buf'[n] = heard'[n]
        <4>1. AppendMiddle(p) BY <2>9, <3>1, <3>3 DEF AppendLast
        <4>2. ~overflowed' /\ size' = h + 1 BY <2>10, <3>3, <4>1 DEF AppendMiddle
        <4> QED BY <2>10, <3>3, <4>2
      <3>4. seq' = (Len(heard') - 1) % 4 BY <1>4, <1>6, <2>8
      <3>5. eid' = Eid(heard'[1]) /\ tag' = Tag(heard'[1]) BY <1>7, <2>1, <2>8
      <3> QED BY <1>6, <1>7, <3>2, <3>3, <3>4, <3>5 DEF Following, Eid, Tag
    <2> QED BY <2>11, <2>12
  <1> QED BY <1>9, <1>10

LEMMA FollowingStep == ASSUME Inv, [Next]_vars PROVE Following' /\ HeardIsHandedOn'
  <1>1. CASE UNCHANGED vars
    BY <1>1 DEF Inv, Following, HeardIsHandedOn, vars, validator, composer, history
  <1>2. ASSUME NEW s \in Senders, NEW p \in NextPackets(s), Lose(p)
        PROVE  Following' /\ HeardIsHandedOn'
    BY <1>2 DEF Inv, Following, HeardIsHandedOn, Lose, validator, composer, history
  <1>3. ASSUME NEW s \in Senders, NEW p \in NextPackets(s), Receive(p)
        PROVE  Following' /\ HeardIsHandedOn'
    <2>1. CASE Som(p) BY <1>3, <2>1, StartHeard
    <2>2. CASE ~Som(p) /\ Follows(p) BY <1>3, <2>2, SuccessorHeard
    <2>3. CASE ~Som(p) /\ ~Follows(p)
      <3>1. heard' = <<>> BY <1>3, <2>3 DEF Receive, Witness
      <3> QED BY <3>1 DEF Following, HeardIsHandedOn
    <2> QED BY <2>1, <2>2, <2>3
  <1> QED BY <1>1, <1>2, <1>3 DEF Next

LEMMA Invariance == Spec => []Inv
  <1>1. Inv /\ [Next]_vars => Inv'
    BY TypeStep, CurrentStep, ComposerStep, HeardStep, FollowingStep DEF Inv
  <1> QED BY InitInv, <1>1, PTL DEF Spec

(* The state of the validator, of the composer (_completed, _som_recv,     *)
(* _overflowed, _full_packet_size) and of the buffer keeps its types; in   *)
(* particular the composer never counts beyond its buffer.                 *)
THEOREM TypeCorrect == Spec => []TypeOK
  <1>1. Inv => TypeOK BY DEF Inv
  <1> QED BY <1>1, Invariance, PTL

(* on_receive() hands on every message whose packets arrive one right      *)
(* after the other, that fits the buffer and is one Assembled names (of a  *)
(* type whose start validate() remembers, with no later packet that reads  *)
(* as a vendor header): for any number of senders, tags and endpoint IDs,  *)
(* any losses and any messages before it, untracked ones included.         *)
THEOREM HeardIsHandedOnAlways == Spec => []HeardIsHandedOn
  <1>1. Inv => HeardIsHandedOn BY DEF Inv
  <1> QED BY <1>1, Invariance, PTL

-----------------------------------------------------------------------------
(* WholeMessages, for senders that differ in their tag or their endpoint.  *)
ToldApart == \A s, t \in Senders : TagOf[s] = TagOf[t] /\ EidOf[s] = EidOf[t] => s = t

(* The validator has the tag and the endpoint of s. *)
Mine(s)   == tag = TagOf[s] /\ eid = EidOf[s]
Midway(s) == current[s] # None /\ ~Eom(current[s])

(* The composer has all that s has sent of its message, or as much as fits. *)
Tracked(s) ==
    /\ seq = Seq4(current[s])
    /\ somRecv
    /\ IF overflowed THEN current[s].index > Capacity
       ELSE /\ size = current[s].index
            /\ \A n \in 1 .. size : buf[n] = [current[s] EXCEPT !.index = n]

(* A packet of s was lost: the validator expects the one sent last.        *)
Behind(s) == (seq + 1) % 4 = Seq4(current[s])

(* Only the sender the validator remembers can add to the open message,    *)
(* and it does so with the next packet, or is rejected up to its end.      *)
Tracking ==
    "untracked" \notin seen =>
        /\ losses = 0 =>
             \A s \in Senders : Mine(s) =>
                 IF Midway(s) THEN Tracked(s) ELSE "single" \in seen \/ ~somRecv
        /\ losses = 1 /\ "single" \notin seen =>
             \A s \in Senders : Mine(s) /\ somRecv =>
                 current[s] # None /\ (Midway(s) => Tracked(s) \/ Behind(s))

Basis == TypeOK /\ CurrentOK /\ ComposerOK

(* The composer and the validator do not change what they have of others.  *)
LEMMA OtherSender ==
  ASSUME TypeOK, NEW s \in Senders, NEW t \in Senders, t # s,
         NEW p, current' = [current EXCEPT ![s] = p],
         UNCHANGED <<tag, eid, seq, composer, buf>>
  PROVE  /\ Mine(t)' = Mine(t) /\ Midway(t)' = Midway(t) /\ Tracked(t)' = Tracked(t)
         /\ Behind(t)' = Behind(t) /\ current'[t] = current[t]
<1>1. current'[t] = current[t]
  BY DEF TypeOK
<1> QED
  BY <1>1 DEF Mine, Midway, Tracked, Behind, composer

(* A start of several packets: the validator and the composer follow it.   *)
LEMMA StartTracks ==
  ASSUME ToldApart, Basis, NEW s \in Senders, NEW p \in NextPackets(s), Receive(p),
         Som(p), ~Eom(p), "untracked" \notin seen'
  PROVE  /\ handed' = handed
         /\ \A t \in Senders : Mine(t)' => Midway(t)' /\ Tracked(t)'
<1>1. /\ p \in Packets /\ p # None /\ p.from = s /\ p.index = 1
  BY NextPacket DEF Basis, Som
<1>2. p.type \in {"Pldm", "Spdm", "VendorIani"}
  <2>1. p.type \notin {"Control", "VendorPci", "Other", "Refused"}
    BY DEF Receive, Witness, Untracked
  <2> QED
    BY <1>1, <2>1 DEF Packets, Types
<1>3. Start(p)
  BY <1>2 DEF Receive, Reject, HandOnSingle, DropUnknown, Overflow, AppendMiddle,
              AppendLast, SkipOverflowed, EndOverflowed, ValidateNext, Refused, Compared,
              ReadsVendor
<1>4. seq' = Seq4(p) /\ tag' = TagOf[s] /\ eid' = EidOf[s]
  BY <1>1, <1>2, <1>3
     DEF Start, ValidateStart, Remembered, Remember, Successor, Compared, Tag, Eid
<1>5. somRecv' /\ ~overflowed' /\ size' = 1 /\ buf' = [buf EXCEPT ![1] = p] /\ handed' = handed
  BY <1>3 DEF Start, Basis, ComposerOK
<1>6. buf'[1] = p
  BY <1>5, MctpConstants DEF Basis, TypeOK
<1>7. current'[s] = p
  BY <1>1 DEF Receive, Basis, TypeOK
<1>8. [p EXCEPT !.index = 1] = p
  BY <1>1 DEF Packets
<1>9. Midway(s)' /\ Tracked(s)'
  <2>1. Midway(s)'
    BY <1>1, <1>7 DEF Midway
  <2>2. \A n \in 1 .. size' : buf'[n] = [current'[s] EXCEPT !.index = n]
    BY <1>5, <1>6, <1>7, <1>8
  <2> QED
    BY <1>1, <1>4, <1>5, <1>7, <2>1, <2>2 DEF Tracked
<1>10. \A t \in Senders : Mine(t)' => t = s
  BY <1>4 DEF Mine, ToldApart
<1> QED
  BY <1>5, <1>9, <1>10

(* A single packet is handed on as it is or rejected, and opens no message. *)
LEMMA SingleTracks ==
  ASSUME Basis, NEW s \in Senders, NEW p \in NextPackets(s), Receive(p), Som(p), Eom(p)
  PROVE  /\ handed' \in {handed, <<p>>} /\ p \in Packets /\ p.index = 1 /\ p.len = 1
         /\ "single" \in seen'
         /\ UNCHANGED <<composer, buf>>
         /\ current' = [current EXCEPT ![s] = p]
         /\ UNCHANGED validator \/ (tag' = TagOf[s] /\ eid' = EidOf[s])
<1>1. p \in Packets /\ p.from = s
  BY NextPacket DEF Basis
<1>2. HandOnSingle(p) \/ Reject(p)
  BY DEF Receive, Start, DropUnknown, Overflow, AppendMiddle,
         AppendLast, SkipOverflowed, EndOverflowed, ValidateNext
<1>3. UNCHANGED validator \/ (tag' = TagOf[s] /\ eid' = EidOf[s])
  BY <1>1, <1>2 DEF HandOnSingle, Reject, ValidateStart, Remember, Successor, Known,
                    CountOn, Tag, Eid
<1>4. "single" \in seen'
  BY DEF Receive, Witness
<1> QED
  BY <1>1, <1>2, <1>3, <1>4 DEF HandOnSingle, Reject, Receive, Som, Eom

(* A packet that does not start a message leaves tag and endpoint alone.   *)
LEMMA NoStart ==
  ASSUME Basis, NEW s \in Senders, NEW p \in NextPackets(s), Receive(p), ~Som(p)
  PROVE  /\ \/ Reject(p) \/ DropUnknown(p) \/ Overflow(p) \/ AppendMiddle(p)
            \/ AppendLast(p) \/ SkipOverflowed(p) \/ EndOverflowed(p)
         /\ UNCHANGED <<tag, eid, losses>>
         /\ "untracked" \notin seen' => ~ReadsVendor(p)
         /\ current' = [current EXCEPT ![s] = p] /\ current'[s] = p
         /\ p \in Packets /\ p # None /\ p.from = s
         /\ current[s] \in Packets /\ current[s] # None /\ Midway(s)
         /\ p.index = current[s].index + 1 /\ p.len = current[s].len
         /\ p = [current[s] EXCEPT !.index = p.index]
<1>1. /\ p \in Packets /\ p # None /\ p.from = s /\ p.index <= p.len
      /\ current[s] # None /\ p.no = current[s].no /\ p.type = current[s].type
      /\ p.len = current[s].len /\ p.index = current[s].index + 1
      /\ p.vendor = current[s].vendor
  BY NextPacket DEF Basis
<1>2. current[s] \in Packets /\ current[s].from = s
  BY <1>1 DEF Basis, TypeOK, PacketOrNone, CurrentOK
<1>3. current[s].index # current[s].len
  BY <1>1, <1>2 DEF Packets
<1>4. ~ValidateStart(p)
  BY DEF ValidateStart
<1>5. \/ Reject(p) \/ DropUnknown(p) \/ Overflow(p) \/ AppendMiddle(p)
      \/ AppendLast(p) \/ SkipOverflowed(p) \/ EndOverflowed(p)
  BY <1>4 DEF Receive, HandOnSingle, Start
<1>6. UNCHANGED <<tag, eid>>
  BY <1>5 DEF Reject, DropUnknown, Overflow, AppendMiddle, AppendLast, SkipOverflowed,
              EndOverflowed, ValidateNext, AcceptVendor, Successor, CountOn, validator
<1>7. current' = [current EXCEPT ![s] = p] /\ current'[s] = p /\ UNCHANGED losses
  BY <1>1 DEF Receive, Basis, TypeOK
<1>8. p = [current[s] EXCEPT !.index = p.index]
  BY <1>1, <1>2 DEF Packets
<1>9. "untracked" \notin seen' => ~ReadsVendor(p)
  BY DEF Receive, Witness, Untracked
<1> QED
  BY <1>1, <1>2, <1>3, <1>5, <1>6, <1>7, <1>8, <1>9 DEF Midway, Eom

(* Packets of a sender the validator does not remember are rejected.       *)
LEMMA StrangerRejected ==
  ASSUME Basis, NEW s \in Senders, NEW p \in NextPackets(s), Receive(p), ~Som(p), ~Mine(s),
         ~ReadsVendor(p)
  PROVE  UNCHANGED <<validator, composer, buf, handed>>
<1>1. ~(eid = Eid(p) /\ tag = Tag(p))
  BY NoStart DEF Mine, Eid, Tag
<1>2. Reject(p)
  BY <1>1, NoStart DEF DropUnknown, Overflow, AppendMiddle, AppendLast, SkipOverflowed,
                       EndOverflowed, ValidateNext, AcceptVendor, Successor, Known
<1> QED
  BY <1>1, <1>2 DEF Reject, Known, validator, composer

(* After a loss the numbers stay one apart, up to the end of the message.  *)
LEMMA BehindRejected ==
  ASSUME Basis, NEW s \in Senders, NEW p \in NextPackets(s), Receive(p), ~Som(p),
         Mine(s), Behind(s), ~ReadsVendor(p)
  PROVE  UNCHANGED <<composer, buf, handed>> /\ Behind(s)'
<1>1. current[s].index \in Nat /\ current[s].index >= 1 /\ p.index = current[s].index + 1
  BY NoStart DEF Packets
<1>2. Seq4(p) # (seq + 1) % 4 /\ (((seq + 1) % 4) + 1) % 4 = Seq4(p)
  BY <1>1 DEF Behind, Seq4
<1>3. Reject(p)
  BY <1>2, NoStart DEF DropUnknown, Overflow, AppendMiddle, AppendLast, SkipOverflowed,
                       EndOverflowed, ValidateNext, AcceptVendor, Successor, CountOn
<1>4. eid = Eid(p) /\ tag = Tag(p)
  BY NoStart DEF Mine, Eid, Tag
<1>5. seq' = (seq + 1) % 4 /\ UNCHANGED <<composer, buf, handed>>
  BY <1>3, <1>4 DEF Reject, Refused, Known, CountOn
<1>6. current'[s] = p
  BY NoStart
<1> QED
  BY <1>2, <1>5, <1>6 DEF Behind, Seq4

(* Without an open message nothing is assembled.                           *)
LEMMA ClosedDrops ==
  ASSUME Basis, NEW s \in Senders, NEW p \in NextPackets(s), Receive(p), ~Som(p), ~somRecv
  PROVE  UNCHANGED <<composer, buf, handed>>
<1>1. Reject(p) \/ DropUnknown(p)
  BY NoStart DEF Overflow, AppendMiddle, AppendLast, SkipOverflowed, EndOverflowed
<1> QED
  BY <1>1 DEF Reject, DropUnknown, composer

(* The next packet of the message that is assembled.                       *)
LEMMA NextTracks ==
  ASSUME Basis, NEW s \in Senders, NEW p \in NextPackets(s), Receive(p), ~Som(p),
         Mine(s), Tracked(s), ~ReadsVendor(p)
  PROVE  /\ IF Eom(p) THEN ~somRecv' ELSE Tracked(s)'
         /\ handed' \in {handed, <<>>} \/ WholeMessage(handed')
<1> DEFINE c == current[s]
<1>1. /\ p \in Packets /\ c \in Packets /\ p.index = c.index + 1 /\ p.len = c.len
      /\ c.index \in Nat /\ c.index >= 1 /\ current'[s] = p
      /\ p = [c EXCEPT !.index = p.index]
  BY NoStart DEF Packets
<1>2. seq = Seq4(c) /\ somRecv
  BY DEF Tracked
<1>3. (seq + 1) % 4 = Seq4(p)
  BY <1>1, <1>2 DEF Seq4
<1>4. eid = Eid(p) /\ tag = Tag(p)
  BY NoStart DEF Mine, Eid, Tag
<1>5. \/ Overflow(p) \/ AppendMiddle(p) \/ AppendLast(p)
      \/ SkipOverflowed(p) \/ EndOverflowed(p)
  BY <1>2, <1>3, <1>4, NoStart DEF Reject, Refused, Known, CountOn, DropUnknown
<1>6. seq' = Seq4(p)
  BY <1>5 DEF Overflow, AppendMiddle, AppendLast, SkipOverflowed, EndOverflowed,
              ValidateNext, AcceptVendor, Successor
<1>7. \A n : [p EXCEPT !.index = n] = [c EXCEPT !.index = n]
  BY <1>1
<1>8. Capacity \in Nat /\ buf \in [1 .. Capacity -> PacketOrNone] /\ size \in 0 .. Capacity
  BY MctpConstants DEF Basis, TypeOK
<1>9. CASE overflowed
  <2>1. c.index > Capacity
    BY <1>9 DEF Tracked
  <2>2. p.index > Capacity
    BY <1>1, <1>8, <2>1
  <2>3. SkipOverflowed(p) \/ EndOverflowed(p)
    BY <1>5, <1>9 DEF Overflow, AppendMiddle, AppendLast
  <2> QED
    BY <1>1, <1>2, <1>6, <1>9, <2>2, <2>3
       DEF SkipOverflowed, EndOverflowed, Tracked, composer, Seq4
<1>10. CASE ~overflowed
  <2>1. size = c.index /\ \A n \in 1 .. size : buf[n] = [c EXCEPT !.index = n]
    BY <1>10 DEF Tracked
  <2>2. Overflow(p) \/ AppendMiddle(p) \/ AppendLast(p)
    BY <1>5, <1>10 DEF SkipOverflowed, EndOverflowed
  <2>3. CASE Overflow(p)
    <3>1. p.index > Capacity
      BY <1>1, <2>1, <2>3 DEF Overflow
    <3> QED
      BY <1>1, <1>6, <2>3, <3>1 DEF Overflow, Tracked, Seq4
  <2>4. ASSUME size < Capacity, buf' = [buf EXCEPT ![size + 1] = p]
        PROVE  \A n \in 1 .. size + 1 : buf'[n] = [p EXCEPT !.index = n]
    <3> SUFFICES ASSUME NEW n \in 1 .. size + 1 PROVE buf'[n] = [p EXCEPT !.index = n]
      OBVIOUS
    <3>1. CASE n = size + 1
      <4>1. size + 1 \in 1 .. Capacity
        BY <1>8, <2>4
      <4>2. buf'[n] = p
        BY <1>8, <2>4, <3>1, <4>1
      <4> QED
        BY <1>1, <1>7, <2>1, <3>1, <4>2
    <3>2. CASE n # size + 1
      <4>1. n \in 1 .. size /\ n \in 1 .. Capacity
        BY <1>8, <3>2
      <4>2. buf'[n] = buf[n]
        BY <1>8, <2>4, <3>2, <4>1
      <4> QED
        BY <1>7, <2>1, <4>1, <4>2
    <3> QED
      BY <3>1, <3>2
  <2>5. CASE AppendMiddle(p)
    <3>1. /\ ~Eom(p) /\ size' = size + 1 /\ handed' = handed
          /\ UNCHANGED <<somRecv, overflowed>>
      BY <2>5 DEF AppendMiddle
    <3>2. \A n \in 1 .. size' : buf'[n] = [p EXCEPT !.index = n]
      BY <2>4, <2>5, <3>1 DEF AppendMiddle
    <3>3. Tracked(s)'
      BY <1>1, <1>2, <1>6, <1>10, <2>1, <3>1, <3>2 DEF Tracked, Seq4
    <3> QED
      BY <3>1, <3>3
  <2>6. CASE AppendLast(p)
    <3>1. /\ Eom(p) /\ ~somRecv' /\ size < Capacity /\ buf' = [buf EXCEPT ![size + 1] = p]
          /\ handed' = [n \in 1 .. size + 1 |-> buf'[n]]
      BY <2>6 DEF AppendLast
    <3>2. \A n \in 1 .. size + 1 : handed'[n] = [p EXCEPT !.index = n]
      BY <2>4, <3>1
    <3>3. size + 1 \in Nat /\ size + 1 >= 1 /\ Len(handed') = size + 1
      BY <1>8, <3>1
    <3>4. handed'[1] = [p EXCEPT !.index = 1]
      BY <3>2, <3>3
    <3>5. handed'[1] \in Packets /\ handed'[1].len = p.len
      BY <1>1, <3>4 DEF Packets
    <3>6. \A n : [handed'[1] EXCEPT !.index = n] = [p EXCEPT !.index = n]
      BY <1>1, <3>4
    <3>7. p.len = size + 1
      BY <1>1, <2>1, <3>1 DEF Eom
    <3>8. WholeMessage(handed')
      BY <3>2, <3>3, <3>5, <3>6, <3>7, PacketNotNone DEF WholeMessage
    <3> QED
      BY <3>1, <3>8
  <2> QED
    BY <2>2, <2>3, <2>5, <2>6
<1> QED
  BY <1>9, <1>10

LEMMA TrackingStep ==
  ASSUME ToldApart, Basis, Tracking, WholeMessages, [Next]_vars
  PROVE  Tracking' /\ WholeMessages'
<1>1. CASE UNCHANGED vars
  <2>1. \A s \in Senders : /\ Mine(s)' = Mine(s) /\ Midway(s)' = Midway(s)
                           /\ Tracked(s)' = Tracked(s) /\ Behind(s)' = Behind(s)
                           /\ current'[s] = current[s]
    BY <1>1 DEF vars, validator, composer, Mine, Midway, Tracked, Behind
  <2>2. UNCHANGED <<seen, losses, somRecv, handed>>
    BY <1>1 DEF vars, composer, history
  <2> QED
    BY <2>1, <2>2 DEF Tracking, WholeMessages
<1>2. ASSUME NEW s \in Senders, NEW p \in NextPackets(s), Lose(p)
      PROVE  Tracking' /\ WholeMessages'
  <2>1. /\ UNCHANGED <<tag, eid, seq, composer, buf, handed, seen>> /\ UNCHANGED somRecv
        /\ losses' = losses + 1 /\ losses \in Nat
        /\ current' = [current EXCEPT ![p.from] = p]
    BY <1>2, MctpConstants DEF Lose, validator, history, composer, Basis, TypeOK
  <2>2. p \in Packets /\ p # None /\ p.from = s /\ current' = [current EXCEPT ![s] = p]
        /\ current'[s] = p
    BY <1>2, <2>1, NextPacket DEF Basis, TypeOK
  <2>3. WholeMessages'
    BY <2>1 DEF WholeMessages
  <2>4. ASSUME "untracked" \notin seen', losses' = 1, "single" \notin seen',
               NEW t \in Senders, Mine(t)', somRecv'
        PROVE  current'[t] # None /\ (Midway(t)' => Tracked(t)' \/ Behind(t)')
    <3>1. Mine(t) /\ somRecv /\ losses = 0 /\ "untracked" \notin seen /\ "single" \notin seen
      BY <2>1, <2>4 DEF Mine
    <3>2. Midway(t) /\ Tracked(t)
      BY <3>1 DEF Tracking
    <3>3. CASE t # s
      BY <2>1, <2>2, <3>2, <3>3, OtherSender DEF Basis, Midway
    <3>4. CASE t = s
      <4>1. ~Som(p) /\ p.index = current[s].index + 1 /\ current[s] \in Packets
        <5>1. current[s] \in Packets /\ ~Eom(current[s]) /\ current[s] # None
          BY <3>2, <3>4 DEF Midway, Basis, TypeOK, PacketOrNone
        <5>2. p = [current[s] EXCEPT !.index = @ + 1]
          BY <1>2, <5>1 DEF NextPackets
        <5>3. p.index = current[s].index + 1
          BY <5>1, <5>2 DEF Packets
        <5> QED
          BY <5>1, <5>3 DEF Som, Packets
      <4>2. seq = Seq4(current[s]) /\ current[s].index \in Nat /\ current[s].index >= 1
        BY <3>2, <3>4, <4>1 DEF Tracked, Packets
      <4>3. Behind(s)'
        BY <2>1, <2>2, <4>1, <4>2 DEF Behind, Seq4
      <4> QED
        BY <2>2, <3>4, <4>3
    <3> QED
      BY <3>3, <3>4
  <2>5. losses' # 0
    BY <2>1
  <2> QED
    BY <2>3, <2>4, <2>5 DEF Tracking
<1>3. ASSUME NEW s \in Senders, NEW p \in NextPackets(s), Receive(p)
      PROVE  Tracking' /\ WholeMessages'
  <2>1. /\ losses' = losses /\ losses \in Nat /\ seen \subseteq seen'
        /\ p \in Packets /\ p # None /\ p.from = s
        /\ current' = [current EXCEPT ![s] = p] /\ current'[s] = p
        /\ \A t \in Senders : t # s => current'[t] = current[t]
    <3>1. p \in Packets /\ p # None /\ p.from = s
      BY NextPacket DEF Basis
    <3> QED
      BY <1>3, <3>1, MctpConstants DEF Receive, Witness, Basis, TypeOK
  <2>2. CASE Som(p) /\ ~Eom(p)
    <3>1. "untracked" \notin seen' =>
            /\ handed' = handed
            /\ \A t \in Senders : Mine(t)' => Midway(t)' /\ Tracked(t)'
      BY <1>3, <2>2, StartTracks
    <3>2. Tracking'
      BY <3>1 DEF Tracking, Midway
    <3>3. WholeMessages'
      BY <2>1, <3>1 DEF WholeMessages
    <3> QED
      BY <3>2, <3>3
  <2>3. CASE Som(p) /\ Eom(p)
    <3>1. /\ handed' \in {handed, <<p>>} /\ p.index = 1 /\ p.len = 1 /\ "single" \in seen'
          /\ UNCHANGED <<composer, buf>>
          /\ UNCHANGED validator \/ (tag' = TagOf[s] /\ eid' = EidOf[s])
      BY <1>3, <2>3, SingleTracks
    <3>2. WholeMessage(<<p>>)
      <4>1. \A n \in 1 .. 1 : p = [p EXCEPT !.index = n]
        BY <2>1, <3>1 DEF Packets
      <4> QED
        BY <2>1, <3>1, <4>1 DEF WholeMessage
    <3>3. ASSUME "untracked" \notin seen', losses' = 0, NEW t \in Senders, Mine(t)', Midway(t)'
          PROVE  Tracked(t)'
      <4>1. t # s
        BY <2>1, <2>3, <3>3 DEF Midway
      <4>2. UNCHANGED validator
        BY <3>1, <3>3, <4>1 DEF Mine, ToldApart
      <4>3. Mine(t) /\ Midway(t) /\ Tracked(t)' = Tracked(t)
        BY <2>1, <3>1, <3>3, <4>1, <4>2, OtherSender DEF validator, Basis
      <4>4. "untracked" \notin seen /\ losses = 0
        BY <2>1, <3>3
      <4> QED
        BY <4>3, <4>4 DEF Tracking
    <3>4. Tracking'
      BY <3>1, <3>3 DEF Tracking
    <3>5. WholeMessages'
      BY <2>1, <3>1, <3>2 DEF WholeMessages
    <3> QED
      BY <3>4, <3>5
  <2>4. CASE "untracked" \in seen'
    BY <2>4 DEF Tracking, WholeMessages
  <2>5. CASE ~Som(p) /\ ~Mine(s) /\ "untracked" \notin seen'
    <3>1. UNCHANGED <<validator, composer, buf, handed>> /\ UNCHANGED somRecv
      BY <1>3, <2>5, NoStart, StrangerRejected DEF composer
    <3>2. \A t \in Senders : Mine(t)' = Mine(t)
      BY <3>1 DEF Mine, validator
    <3>3. \A t \in Senders : Mine(t)' =>
             /\ t # s /\ Mine(t) /\ Midway(t)' = Midway(t) /\ Tracked(t)' = Tracked(t)
             /\ Behind(t)' = Behind(t) /\ current'[t] = current[t]
      BY <2>1, <2>5, <3>1, <3>2, OtherSender DEF validator, Basis
    <3>4. "single" \in seen => "single" \in seen'
      BY <2>1
    <3>5. "untracked" \notin seen' => "untracked" \notin seen
      BY <2>1
    <3>6. "single" \notin seen' => "single" \notin seen
      BY <2>1
    <3>7. ASSUME "untracked" \notin seen', losses' = 0, NEW t \in Senders, Mine(t)'
          PROVE  IF Midway(t)' THEN Tracked(t)' ELSE "single" \in seen' \/ ~somRecv'
      BY <2>1, <3>1, <3>3, <3>4, <3>5, <3>7 DEF Tracking
    <3>8. ASSUME "untracked" \notin seen', losses' = 1, "single" \notin seen',
                 NEW t \in Senders, Mine(t)', somRecv'
          PROVE  current'[t] # None /\ (Midway(t)' => Tracked(t)' \/ Behind(t)')
      BY <2>1, <3>1, <3>3, <3>5, <3>6, <3>8 DEF Tracking
    <3>9. Tracking'
      BY <3>7, <3>8 DEF Tracking
    <3>10. WholeMessages'
      BY <2>1, <3>1, <3>5, <3>6 DEF WholeMessages
    <3> QED
      BY <3>9, <3>10
  <2>6. CASE ~Som(p) /\ Mine(s) /\ "untracked" \notin seen'
    <3>0. ~ReadsVendor(p)
      BY <1>3, <2>6, NoStart
    <3>1. /\ UNCHANGED <<tag, eid>> /\ Midway(s) /\ (Midway(s)' <=> ~Eom(p))
      BY <1>3, <2>1, <2>6, NoStart DEF Midway
    <3>2. \A t \in Senders : Mine(t)' => t = s
      BY <2>6, <3>1 DEF Mine, ToldApart
    <3>3. "untracked" \notin seen' => "untracked" \notin seen
      BY <2>1
    <3>4. "single" \notin seen' => "single" \notin seen
      BY <2>1
    <3>5. CASE Tracked(s)
      <4>1. /\ IF Eom(p) THEN ~somRecv' ELSE Tracked(s)'
            /\ handed' \in {handed, <<>>} \/ WholeMessage(handed')
        BY <1>3, <2>6, <3>0, <3>5, NextTracks
      <4>2. Tracking'
        BY <2>1, <3>1, <3>2, <4>1 DEF Tracking
      <4>3. WholeMessages'
        BY <2>1, <3>3, <3>4, <4>1 DEF WholeMessages
      <4> QED
        BY <4>2, <4>3
    <3>6. CASE ~Tracked(s)
      <4>1. ASSUME "untracked" \notin seen', losses' = 0 PROVE FALSE
        BY <2>1, <2>6, <3>1, <3>3, <3>6, <4>1 DEF Tracking
      <4>2. ASSUME "untracked" \notin seen', losses' = 1, "single" \notin seen'
            PROVE  /\ handed' = handed
                   /\ somRecv' => Behind(s)'
        <5>1. ~somRecv \/ Behind(s)
          BY <2>1, <2>6, <3>1, <3>3, <3>4, <3>6, <4>2 DEF Tracking
        <5>2. CASE ~somRecv
          BY <1>3, <2>6, <5>2, ClosedDrops DEF composer
        <5>3. CASE Behind(s)
          BY <1>3, <2>6, <3>0, <5>3, BehindRejected
        <5> QED
          BY <5>1, <5>2, <5>3
      <4>3. Tracking'
        BY <2>1, <3>2, <4>1, <4>2 DEF Tracking
      <4>4. WholeMessages'
        BY <2>1, <3>3, <3>4, <4>1, <4>2 DEF WholeMessages
      <4> QED
        BY <4>3, <4>4
    <3> QED
      BY <3>5, <3>6
  <2> QED
    BY <2>2, <2>3, <2>4, <2>5, <2>6
<1> QED
  BY <1>1, <1>2, <1>3 DEF Next

LEMMA TrackingAlways == ASSUME ToldApart PROVE Spec => [](Basis /\ Tracking /\ WholeMessages)
<1>1. Init => Basis /\ Tracking /\ WholeMessages
  <2>1. ASSUME Init PROVE Tracking /\ WholeMessages
    BY <2>1, MctpConstants DEF Init, Tracking, WholeMessages, Mine
  <2> QED
    BY <2>1, InitInv DEF Inv, Basis
<1>2. Basis /\ Tracking /\ WholeMessages /\ [Next]_vars
        => (Basis /\ Tracking /\ WholeMessages)'
  BY TypeStep, CurrentStep, ComposerStep, TrackingStep DEF Basis
<1> QED
  BY <1>1, <1>2, PTL DEF Spec

(* Senders with tags or endpoints of their own: what on_receive() hands on *)
(* is one message of one sender, never parts of two, however the packets   *)
(* are interleaved, when none is lost, or one and no single-packet message *)
(* has arrived, and when no packet is one that validate() takes without    *)
(* regard to the message it remembers (Untracked); for any number of       *)
(* senders and messages and any buffer.                                    *)
THEOREM WholeMessagesAlways == ASSUME ToldApart PROVE Spec => []WholeMessages
<1> QED
  BY TrackingAlways, PTL
=============================================================================

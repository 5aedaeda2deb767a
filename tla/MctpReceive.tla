----------------------------- MODULE MctpReceive ----------------------------
(***************************************************************************)
(* How the MCTP task puts messages together.  Packets of several senders   *)
(* arrive interleaved in the one data queue of nv::mctp::Driver, which is  *)
(* emptied packet by packet by on_receive(): a Validator, which remembers  *)
(* the tag, the sequence number and the destination of one message, and    *)
(* for a message of more than one packet a Composer, which assembles one   *)
(* message in one buffer.  Nothing is kept per sender.                     *)
(*                                                                         *)
(* A packet is abstracted to its place in a message; the buffer is counted *)
(* in packets.  The senders number the packets of a message from 0, as     *)
(* gen_packet() does.  validate() reads the type of the message from the   *)
(* first byte of every packet, so the payload of a later packet can read   *)
(* as the header of a vendor message.                                      *)
(***************************************************************************)
EXTENDS Naturals, Sequences

CONSTANTS Senders,      (* who sends messages to this endpoint              *)
          TagOf,        (* TagOf[s]: the message tag s uses                 *)
          EidOf,        (* EidOf[s]: which of our endpoint IDs s sends to   *)
          Shapes,       (* <<type, packets, vendor>> of the messages sent:  *)
                        (* the packets in vendor, after the first, have a   *)
                        (* payload that reads as a header of the DMTF       *)
          Capacity,     (* packets the multi-packet buffer holds            *)
          MaxMessages,  (* bound on the messages of one sender              *)
          MaxLosses     (* bound on the packets that are lost               *)

(* "VendorIani" is a message with the number of the DMTF; "Other" one with *)
(* another number, or of the types Ncsi, Eth and Nvm; "Refused" any whose  *)
(* header the validator refuses.                                           *)
Types == {"Control", "Pldm", "Spdm", "VendorPci", "VendorIani", "Other", "Refused"}

ASSUME MctpConstants ==
    /\ TagOf \in [Senders -> 0 .. 7]
    /\ EidOf \in [Senders -> Nat \ {0}]
    /\ Shapes \subseteq Types \X (Nat \ {0}) \X SUBSET Nat
    /\ Capacity \in Nat \ {0}
    /\ MaxMessages \in Nat /\ MaxLosses \in Nat

VARIABLES current,     (* current[s]: the packet s has sent last            *)
          seq, tag, eid,                               (* the Validator     *)
          completed, somRecv, overflowed, size,        (* the Composer      *)
          buf,         (* _multi_pkt_buf                                    *)
          handed,      (* the message that on_receive() found complete last *)
          heard,       (* packets of one message received one after another *)
          seen,        (* what kinds of messages have arrived               *)
          losses       (* packets lost so far                               *)

validator == <<seq, tag, eid>>
composer  == <<completed, somRecv, overflowed, size>>
history   == <<heard, seen>>
vars      == <<current, validator, composer, buf, handed, history, losses>>

Packets == [from : Senders, no : Nat, type : Types, vendor : SUBSET Nat,
            len : Nat \ {0}, index : Nat \ {0}]
None    == [from |-> "nobody"]

Som(p) == p.index = 1
Eom(p) == p.index = p.len
Seq4(p) == (p.index - 1) % 4
Tag(p) == TagOf[p.from]
Eid(p) == EidOf[p.from]

ReadsVendor(p) == ~Som(p) /\ p.index \in p.vendor

First(s, no, shape) ==
    [from |-> s, no |-> no, type |-> shape[1], vendor |-> shape[3],
     len |-> shape[2], index |-> 1]

(* What s can send now: the rest of its message, then another message. *)
NextPackets(s) ==
    IF current[s] # None /\ ~Eom(current[s])
      THEN {[current[s] EXCEPT !.index = @ + 1]}
      ELSE LET no == IF current[s] = None THEN 1 ELSE current[s].no + 1
           IN  {First(s, no, shape) : shape \in {x \in Shapes : no <= MaxMessages}}

Init == /\ current = [s \in Senders |-> None]
        /\ seq = 0 /\ tag = 0 /\ eid = 0
        /\ completed = TRUE /\ somRecv = FALSE /\ overflowed = FALSE /\ size = 0
        /\ buf = [n \in 1 .. Capacity |-> None]
        /\ handed = <<>>
        /\ heard = <<>> /\ seen = {}
        /\ losses = 0

-----------------------------------------------------------------------------
(* Validator::validate(). *)

(* The starts that the validator remembers. *)
Remembered(p) == \/ p.type \in {"Pldm", "Spdm"}
                 \/ p.type = "VendorIani" /\ ~Eom(p)

Remember(p) == seq' = Seq4(p) /\ tag' = Tag(p) /\ eid' = Eid(p)

(* The generic test of lines 156-174 is for the packets no branch before   *)
(* it takes: later packets, and single packets of the other types.         *)
Compared(p) == IF Som(p) THEN Eom(p) /\ p.type = "Other" ELSE ~ReadsVendor(p)

Known(p) == eid = Eid(p) /\ tag = Tag(p)

CountOn == seq' = (seq + 1) % 4 /\ UNCHANGED <<tag, eid>>

Successor(p) == Compared(p) /\ Known(p) /\ CountOn /\ Seq4(p) = seq'

(* Starts and single packets: NSM messages, single packets of Control and  *)
(* of vendor messages leave no trace; a start of any other type leaves its *)
(* sequence number only.                                                   *)
ValidateStart(p) ==
    /\ Som(p)
    /\ \/ Remembered(p) /\ Remember(p)
       \/ /\ \/ p.type = "VendorPci"
             \/ p.type \in {"Control", "VendorIani"} /\ Eom(p)
          /\ UNCHANGED validator
       \/ /\ p.type \in {"Control", "Other"} /\ ~Eom(p)
          /\ eid = Eid(p)
          /\ seq' = Seq4(p)
          /\ UNCHANGED <<tag, eid>>
       \/ Successor(p)

(* The vendor branch does not ask for a start: of the later packets it     *)
(* accepts one numbered 0 that reads as a request or a response, and       *)
(* compares nothing.                                                       *)
AcceptVendor(p) == ReadsVendor(p) /\ Seq4(p) = 0 /\ UNCHANGED validator

(* Defect: a packet of another message is taken for the next one. *)
ValidateAnyTag(p) ==
    /\ ~Som(p)
    /\ AcceptVendor(p) \/ (Compared(p) /\ eid = Eid(p) /\ CountOn /\ Seq4(p) = seq')

ValidateNext(p) == ~Som(p) /\ (AcceptVendor(p) \/ Successor(p))

(* The branches that refuse a packet by its contents or its endpoint.      *)
Refused(p) == \/ Som(p) /\ p.type = "Refused"
              \/ Som(p) /\ p.type \in {"Control", "Other"} /\ ~Eom(p) /\ eid # Eid(p)
              \/ ReadsVendor(p)

(* A packet of the right tag that is rejected by its number counts all the *)
(* same.                                                                   *)
Reject(p) ==
    /\ \/ Refused(p) /\ UNCHANGED validator
       \/ Compared(p) /\ ~Known(p) /\ UNCHANGED validator
       \/ Compared(p) /\ Known(p) /\ CountOn /\ Seq4(p) # seq'
    /\ UNCHANGED <<composer, buf, handed>>

-----------------------------------------------------------------------------
(* Composer::recv_packet() and what on_receive() does with its result. *)

(* A single packet is handed on without the composer. *)
HandOnSingle(p) == /\ Eom(p)
                   /\ ValidateStart(p)
                   /\ handed' = <<p>>
                   /\ UNCHANGED <<composer, buf>>

(* Defect: a start does not clear what an unfinished message left. *)
StartOverRemains(p) == /\ ~Eom(p)
                       /\ ValidateStart(p)
                       /\ completed' = FALSE /\ somRecv' = TRUE /\ size' = 1
                       /\ buf' = [buf EXCEPT ![1] = p]
                       /\ UNCHANGED <<overflowed, handed>>

(* A start drops the message that is not finished. *)
Start(p) == /\ ~Eom(p)
            /\ ValidateStart(p)
            /\ completed' = FALSE /\ somRecv' = TRUE /\ size' = 1
            /\ overflowed' = (overflowed /\ completed)
            /\ buf' = [buf EXCEPT ![1] = p]
            /\ UNCHANGED handed

DropUnknown(p) == /\ ValidateNext(p)
                  /\ ~somRecv
                  /\ UNCHANGED <<composer, buf, handed>>

Overflow(p) == /\ ValidateNext(p)
               /\ somRecv /\ ~overflowed /\ size + 1 > Capacity
               /\ overflowed' = TRUE
               /\ somRecv' = ~Eom(p)
               /\ UNCHANGED <<completed, size, buf, handed>>

(* Defect: one packet more than the buffer holds. *)
AppendBeyond(p) == /\ ValidateNext(p)
                   /\ ~Eom(p)
                   /\ somRecv /\ ~overflowed /\ size <= Capacity
                   /\ buf' = [buf EXCEPT ![size + 1] = p]
                   /\ size' = size + 1
                   /\ UNCHANGED <<completed, somRecv, overflowed, handed>>

AppendMiddle(p) == /\ ValidateNext(p)
                   /\ ~Eom(p)
                   /\ somRecv /\ ~overflowed /\ size < Capacity
                   /\ buf' = [buf EXCEPT ![size + 1] = p]
                   /\ size' = size + 1
                   /\ UNCHANGED <<completed, somRecv, overflowed, handed>>

(* The composer is cleared after a PLDM, SPDM or NSM message, a vendor     *)
(* message that was answered, and any message that is dropped because an   *)
(* endpoint is stalled.                                                    *)
Cleared(type) == \/ size' = 0
                 \/ type \in {"Control", "VendorIani", "Other"} /\ size' = size + 1

AppendLast(p) == /\ ValidateNext(p)
                 /\ Eom(p)
                 /\ somRecv /\ ~overflowed /\ size < Capacity
                 /\ buf' = [buf EXCEPT ![size + 1] = p]
                 /\ completed' = TRUE /\ somRecv' = FALSE /\ overflowed' = FALSE
                 /\ handed' = [n \in 1 .. size + 1 |-> buf'[n]]
                 /\ Cleared(buf[1].type)

SkipOverflowed(p) == /\ ValidateNext(p)
                     /\ ~Eom(p)
                     /\ somRecv /\ overflowed
                     /\ UNCHANGED <<composer, buf, handed>>

(* clear() makes recv_packet() return true, without a size: a message of   *)
(* no length with the header of the oversized one is handed on.            *)
EndOverflowed(p) == /\ ValidateNext(p)
                    /\ Eom(p)
                    /\ somRecv /\ overflowed
                    /\ completed' = TRUE /\ somRecv' = FALSE /\ overflowed' = FALSE
                    /\ size' = 0
                    /\ handed' = <<>>
                    /\ UNCHANGED buf

-----------------------------------------------------------------------------

Follows(p) == /\ heard # <<>>
              /\ p.from = heard[1].from /\ p.no = heard[1].no
              /\ p.index = Len(heard) + 1

(* Packets that the validator takes without regard to the message it       *)
(* remembers: messages of several packets whose start it does not          *)
(* remember, and packets that the vendor branch takes.                     *)
Untracked(p) == \/ ~Eom(p) /\ p.type \in {"Control", "VendorPci", "Other", "Refused"}
                \/ ReadsVendor(p)

(* What arrived, for the properties. *)
Witness(p) ==
    /\ heard' = IF Som(p) THEN <<p>>
                ELSE IF Follows(p) THEN Append(heard, p) ELSE <<>>
    /\ seen' = seen \cup (IF Som(p) /\ Eom(p) THEN {"single"} ELSE {})
                    \cup (IF Untracked(p) THEN {"untracked"} ELSE {})

(* on_receive(). *)
Receive(p) == /\ current' = [current EXCEPT ![p.from] = p]
              /\ Witness(p)
              /\ \/ Reject(p)
                 \/ HandOnSingle(p)
                 \/ Start(p)
                 \/ DropUnknown(p)
                 \/ Overflow(p)
                 \/ AppendMiddle(p)
                 \/ AppendLast(p)
                 \/ SkipOverflowed(p)
                 \/ EndOverflowed(p)
              /\ UNCHANGED losses

(* A packet that does not arrive, or finds the data queue full. *)
Lose(p) == /\ losses < MaxLosses
           /\ losses' = losses + 1
           /\ current' = [current EXCEPT ![p.from] = p]
           /\ UNCHANGED <<validator, composer, buf, handed, history>>

Next == \E s \in Senders : \E p \in NextPackets(s) : Receive(p) \/ Lose(p)

Spec == Init /\ [][Next]_vars

-----------------------------------------------------------------------------
(* Properties. *)

PacketOrNone == Packets \cup {None}

TypeOK == /\ current \in [Senders -> PacketOrNone]
          /\ seq \in 0 .. 3 /\ tag \in 0 .. 7 /\ eid \in Nat
          /\ completed \in BOOLEAN /\ somRecv \in BOOLEAN /\ overflowed \in BOOLEAN
          /\ size \in 0 .. Capacity
          /\ buf \in [1 .. Capacity -> PacketOrNone]
          /\ handed \in Seq(PacketOrNone) /\ heard \in Seq(Packets)
          /\ seen \subseteq {"single", "untracked"}
          /\ losses \in 0 .. MaxLosses

(* Single packets of the types that validate() has a branch for; and of    *)
(* the messages of several packets those whose start it remembers, with no *)
(* later packet that reads as a vendor header.                             *)
Assembled(p) == IF p.len = 1 THEN p.type \notin {"Other", "Refused"}
                ELSE p.type \in {"Pldm", "Spdm", "VendorIani"} /\ p.vendor = {}

(* A message whose packets all arrive, one right after the other, is       *)
(* handed on as it was sent, whatever arrived before it: no loss, no other *)
(* sender, no oversized message and no message that the validator does not *)
(* track leaves the validator or the composer in a state in which a later  *)
(* message is lost.  The message itself is one that Assembled names, and   *)
(* fits the buffer.                                                        *)
HeardIsHandedOn ==
    (/\ heard # <<>> /\ Eom(heard[Len(heard)])
     /\ Assembled(heard[1])
     /\ Len(heard) <= Capacity)
    => handed = heard

WholeMessage(parts) ==
    /\ parts[1] # None /\ Len(parts) = parts[1].len
    /\ \A n \in 1 .. Len(parts) : parts[n] = [parts[1] EXCEPT !.index = n]

(* Senders with tags or endpoints of their own: what is handed on is one   *)
(* message of one sender, never parts of two, however the packets are      *)
(* interleaved, when none is lost; and also when one is lost, as long as   *)
(* no single-packet message has made the validator forget the message that *)
(* the composer is assembling.  Nothing is promised once an untracked      *)
(* packet has arrived: of a message of several packets that validate()     *)
(* does not remember, or one whose payload reads as a vendor header, which *)
(* is accepted without a look at its tag and its number.                   *)
WholeMessages ==
    (handed # <<>> /\ "untracked" \notin seen
     /\ (losses = 0 \/ (losses = 1 /\ "single" \notin seen)))
    => WholeMessage(handed)

(* A message too large for the buffer is thrown away (composer.cpp:116):   *)
(* nothing empty is handed on in the place of a message.                   *)
OversizedThrownAway == [][handed' # handed => handed' # <<>>]_vars
=============================================================================

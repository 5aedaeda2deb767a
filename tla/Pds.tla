-------------------------------- MODULE Pds ---------------------------------
(***************************************************************************)
(* nv::flash::Pds: settings that outlive a reboot, in RAM and in two       *)
(* copies in flash.  Every change rewrites first the primary and then the  *)
(* secondary copy: erase, then program from the start of the structure.    *)
(* At boot both copies are read, repaired, written back and judged by      *)
(* their digest, which is a constant at the start of the structure.        *)
(*                                                                         *)
(* The structure is cut into the parts the properties tell apart, in the   *)
(* order of their addresses.  Power may be lost between any two parts, and *)
(* any flash operation may fail.                                           *)
(***************************************************************************)
EXTENDS Naturals, Sequences

CONSTANTS Settings,    (* <<part, value>> pairs that clients set            *)
          MaxLosses,   (* bound on losses of power while something is done  *)
          MaxFailures  (* bound on flash operations that fail               *)

(* PdsInfo: the digest, the number of items and the items.  "slot" stands  *)
(* for the keys of the first chunk, "preset", "ramp" and "complete" for    *)
(* the power settings, "low" and "high" for the calibration points up to   *)
(* the last chunk and in it, "therm" for the newest key.                   *)
Layout == <<"digest", "size",
            "slot", "preset", "ramp", "complete", "low", "high", "therm">>
Parts  == {Layout[n] : n \in DOMAIN Layout}
Keys   == Parts \ {"digest", "size"}

PdsSize == Len(Layout) - 2
OldSize == PdsSize - 1   (* what the firmware before "therm" stored         *)
Magic   == 90            (* the digest, whatever the contents are           *)
Erased  == 99            (* 0xFFFFFFFF                                      *)
Values  == 0 .. 3

ASSUME PdsConstants ==
    /\ Settings \subseteq Keys \X Values
    /\ MaxLosses \in Nat
    /\ MaxFailures \in Nat

VARIABLES ram,       (* Pds::primary                                        *)
          second,    (* the copy load_pds() reads the secondary into        *)
          readOk,    (* the copies that load_pds() has read                 *)
          flash,     (* flash[c]: the contents of copy c                    *)
          phase,     (* the operation in progress                           *)
          copy,      (* the copy it is writing                              *)
          at,        (* parts it has programmed; 0 before, 1 after the erase *)
          old, new,  (* the settings before and after the latest set_data() *)
          booted,    (* the store has been ready before                     *)
          losses,    (* losses of power so far                              *)
          failures   (* failed flash operations so far                      *)

ramVars   == <<ram, second, readOk>>
doing     == <<phase, copy, at>>
history   == <<old, new, booted>>
faults    == <<losses, failures>>
vars      == <<ramVars, flash, doing, history, faults>>

Copies    == {"P", "S"}
Image     == [Parts -> Values \cup {Magic, Erased, OldSize, PdsSize}]
Blank     == [p \in Parts |-> Erased]
Zero      == [p \in Parts |-> 0]
Position(p) == CHOOSE n \in DOMAIN Layout : Layout[n] = p

(* get_default_value(): zero but for the thermal brake. *)
Default   == [Zero EXCEPT !["digest"] = Magic, !["size"] = PdsSize, !["therm"] = 1]

(* The digest is not computed from the contents. *)
IsValid(image) == image["digest"] = Magic

PowerFlags == {"ramp", "complete"}
Sane(image) == image["preset"] \in 0 .. 3 /\ \A p \in PowerFlags : image[p] \in {0, 1}

(* Defects: the power settings are not checked; the reset runs to the end  *)
(* of the structure.                                                       *)
NotRecovered(image) == image
RecoveredTooFar(image) ==
    IF Sane(image) THEN image
    ELSE [p \in Parts |-> IF Position(p) >= Position("preset") THEN 0 ELSE image[p]]

(* recover_corrupted_power_info(). *)
Recovered(image) ==
    IF Sane(image) THEN image
    ELSE [p \in Parts |-> IF Position(p) \in Position("preset") .. Position("high")
                          THEN 0 ELSE image[p]]

(* What a store written by the firmware before "therm" looks like. *)
OldImage == [Default EXCEPT !["size"] = OldSize, !["therm"] = Erased]

Init == /\ \E image \in {Blank, OldImage, Default} : flash = [c \in Copies |-> image]
        /\ ram = Zero /\ second = Zero /\ readOk = {}
        /\ phase = "off" /\ copy = "P" /\ at = 0
        /\ old = Zero /\ new = Zero /\ booted = FALSE
        /\ losses = 0 /\ failures = 0

-----------------------------------------------------------------------------
(* write_pds(). *)

Writing == phase \in {"rewrite", "restore", "reset", "adjust", "set"}

Source == IF phase = "rewrite" /\ copy = "S" THEN second ELSE ram

After(p) == IF p = "rewrite" THEN "choose"
            ELSE IF p \in {"restore", "reset"} THEN "check" ELSE "ready"

(* The end of one write_pds(), whatever its status: its callers ignore it. *)
WriteEnds ==
    /\ at' = 0
    /\ IF copy = "P" /\ phase # "restore"
         THEN copy' = "S" /\ UNCHANGED <<phase, history>>
         ELSE /\ copy' = "P"
              /\ phase' = After(phase)
              /\ old' = IF phase = "set" THEN new ELSE old
              /\ UNCHANGED <<new, booted>>

(* Defect: both copies are erased before either is written. *)
EraseBoth == /\ Writing /\ at = 0
             /\ flash' = [c \in Copies |-> Blank]
             /\ at' = 1
             /\ UNCHANGED <<ramVars, phase, copy, history, faults>>

Erase == /\ Writing /\ at = 0
         /\ flash' = [flash EXCEPT ![copy] = Blank]
         /\ at' = 1
         /\ UNCHANGED <<ramVars, phase, copy, history, faults>>

(* Defect: the end of the structure is missed by one part. *)
ProgramPastEnd ==
    /\ Writing /\ at > 0
    /\ flash' = [flash EXCEPT ![copy][Layout[at]] = Source[Layout[at]]]
    /\ IF at <= Len(Layout)
         THEN at' = at + 1 /\ UNCHANGED <<phase, copy, history>>
         ELSE WriteEnds
    /\ UNCHANGED <<ramVars, faults>>

Program == /\ Writing /\ at > 0
           /\ flash' = [flash EXCEPT ![copy][Layout[at]] = Source[Layout[at]]]
           /\ IF at < Len(Layout)
                THEN at' = at + 1 /\ UNCHANGED <<phase, copy, history>>
                ELSE WriteEnds
           /\ UNCHANGED <<ramVars, faults>>

(* An erase or a program that fails ends the write where it is. *)
WriteFails == /\ Writing
              /\ failures < MaxFailures
              /\ failures' = failures + 1
              /\ WriteEnds
              /\ UNCHANGED <<ramVars, flash, losses>>

-----------------------------------------------------------------------------
(* init(): load_pds(), then adjust_pds(). *)

(* A read that fails leaves a prefix of the copy in the zeroed buffer. *)
ReadPartly(c) == {[p \in Parts |-> IF Position(p) <= n THEN flash[c][p] ELSE 0] :
                    n \in 0 .. Len(Layout) - 1}

Load == /\ phase = "off"
        /\ \E ok \in SUBSET Copies :
             /\ readOk' = ok
             /\ failures' = failures + (IF "P" \in ok THEN 0 ELSE 1)
                                     + (IF "S" \in ok THEN 0 ELSE 1)
             /\ failures' <= MaxFailures
             /\ \E p \in IF "P" \in ok THEN {flash["P"]} ELSE ReadPartly("P") :
                  ram' = Recovered(p)
             /\ \E s \in IF "S" \in ok THEN {flash["S"]} ELSE ReadPartly("S") :
                  second' = Recovered(s)
        /\ phase' = "rewrite" /\ copy' = "P" /\ at' = 0
        /\ UNCHANGED <<flash, history, losses>>

PrimaryGood   == "P" \in readOk /\ IsValid(ram)
SecondaryGood == "S" \in readOk /\ IsValid(second)

ChooseBoth == /\ phase = "choose"
              /\ PrimaryGood /\ SecondaryGood
              /\ phase' = "check"
              /\ UNCHANGED <<ramVars, flash, copy, at, history, faults>>

ChooseSecondary == /\ phase = "choose"
                   /\ ~PrimaryGood /\ SecondaryGood
                   /\ ram' = second
                   /\ phase' = "restore" /\ copy' = "P"
                   /\ UNCHANGED <<second, readOk, flash, at, history, faults>>

ChoosePrimary == /\ phase = "choose"
                 /\ PrimaryGood /\ ~SecondaryGood
                 /\ second' = ram
                 /\ phase' = "restore" /\ copy' = "S"
                 /\ UNCHANGED <<ram, readOk, flash, at, history, faults>>

(* reset_pds(). *)
Reset == /\ phase = "choose"
         /\ ~PrimaryGood /\ ~SecondaryGood
         /\ ram' = Default
         /\ phase' = "reset" /\ copy' = "P"
         /\ UNCHANGED <<second, readOk, flash, at, history, faults>>

(* Defect: the keys that are new get no default. *)
AdjustedSize == [ram EXCEPT !["size"] = PdsSize]

Adjusted == [p \in Parts |-> IF p \in {"digest", "size"} \/ Position(p) - 2 > ram["size"]
                               THEN Default[p] ELSE ram[p]]

Adjust == /\ phase = "check"
          /\ ram["size"] # PdsSize
          /\ ram' = Adjusted
          /\ phase' = "adjust" /\ copy' = "P"
          /\ UNCHANGED <<second, readOk, flash, at, history, faults>>

SizeIsRight == /\ phase = "check"
               /\ ram["size"] = PdsSize
               /\ phase' = "ready"
               /\ UNCHANGED <<ramVars, flash, copy, at, history, faults>>

(* The first time the store is ready, its contents are the settings. *)
FirstBoot == /\ phase = "ready" /\ ~booted
             /\ booted' = TRUE /\ old' = ram /\ new' = ram
             /\ UNCHANGED <<ramVars, flash, doing, faults>>

-----------------------------------------------------------------------------

(* Defect: the change stays in RAM. *)
SetInRam(k, v) == /\ phase = "ready" /\ booted
                  /\ ram[k] # v
                  /\ ram' = [ram EXCEPT ![k] = v]
                  /\ old' = ram /\ new' = ram'
                  /\ UNCHANGED <<second, readOk, flash, doing, booted, faults>>

(* set_data(); a value that is already stored is not written again.        *)
SetData(k, v) == /\ phase = "ready" /\ booted
                 /\ ram[k] # v
                 /\ ram' = [ram EXCEPT ![k] = v, !["digest"] = Magic]
                 /\ old' = ram /\ new' = ram'
                 /\ phase' = "set" /\ copy' = "P" /\ at' = 0
                 /\ UNCHANGED <<second, readOk, flash, booted, faults>>

(* save_calibration_to_flash() and execute_adc_calibration(): the marker is *)
(* cleared, the points are stored and the marker is set last.              *)
Calibrate == \/ SetData("complete", 0)
             \/ ram["complete"] = 0 /\ SetData("low", 1)
             \/ ram["complete"] = 0 /\ ram["low"] = 1 /\ SetData("high", 1)
             \/ ram["low"] = 1 /\ ram["high"] = 1 /\ SetData("complete", 1)

SwitchOff == /\ phase' = "off" /\ copy' = "P" /\ at' = 0
             /\ ram' = Zero /\ second' = Zero /\ readOk' = {}
             /\ UNCHANGED <<flash, history, failures>>

Restart   == phase = "ready" /\ booted /\ SwitchOff /\ UNCHANGED losses

PowerLoss == /\ phase \notin {"off", "ready"}
             /\ losses < MaxLosses
             /\ losses' = losses + 1
             /\ SwitchOff

Next == \/ Erase \/ Program \/ WriteFails
        \/ Load \/ ChooseBoth \/ ChooseSecondary \/ ChoosePrimary \/ Reset
        \/ Adjust \/ SizeIsRight \/ FirstBoot
        \/ \E setting \in Settings : SetData(setting[1], setting[2])
        \/ Calibrate
        \/ Restart \/ PowerLoss

Spec == Init /\ [][Next]_vars

-----------------------------------------------------------------------------
(* Properties. *)

TypeOK == /\ ram \in Image /\ second \in Image /\ readOk \subseteq Copies
          /\ flash \in [Copies -> Image]
          /\ phase \in {"off", "rewrite", "choose", "restore", "reset", "check",
                        "adjust", "ready", "set"}
          /\ copy \in Copies
          /\ at \in 0 .. Len(Layout) /\ (at > 0 => Writing)
          /\ old \in Image /\ new \in Image /\ booted \in BOOLEAN
          /\ losses \in 0 .. MaxLosses /\ failures \in 0 .. MaxFailures

NoFault == losses = 0 /\ failures = 0

(* The first loss of power never destroys both copies: one of them holds   *)
(* all of the settings of before or after the set_data() it interrupted,   *)
(* wherever in a change or in a boot it strikes.                           *)
OneCopySurvives ==
    [][NoFault /\ booted /\ phase' = "off" =>
         \E c \in Copies : flash'[c] \in {old, new, Recovered(old), Recovered(new)}]_vars

(* What get_data() returns is what the next boot will find first, unless a *)
(* flash operation failed: RAM and the primary copy agree whenever nothing *)
(* is in progress, whichever way load_pds() took.                          *)
FlashHoldsRam == phase = "ready" /\ failures = 0 => flash["P"] = ram

(* After load_pds() the power settings have values their readers accept,   *)
(* however often power was lost: WAR 5956416.                              *)
BootSanitises == [][phase = "choose" /\ phase' # "choose" => phase' = "off" \/ Sane(ram')]_vars

(* Without faults a restart changes none of the other settings: what       *)
(* set_data() stored is there after any number of reboots and upgrades.    *)
OtherSettingsPersist ==
    phase = "ready" /\ booted /\ NoFault
        => \A k \in {"slot", "therm"} : ram[k] = new[k]

(* Without faults no item ever reads as erased flash, the items that an    *)
(* older firmware did not store included.                                  *)
NothingErased == phase = "ready" /\ NoFault => \A p \in Parts : ram[p] # Erased

(* The settings of the power smoothing are persistent (datastore.h): a     *)
(* restart without faults keeps them.                                      *)
PowerSettingsPersist ==
    phase = "ready" /\ booted /\ NoFault
        => \A k \in {"preset", "ramp", "complete", "low", "high"} : ram[k] = new[k]

(* The completion marker is committed last so that a loss of power cannot  *)
(* advertise partial calibration data as complete.                         *)
CompleteMeansAll ==
    phase = "ready" /\ ram["complete"] = 1 => ram["low"] = 1 /\ ram["high"] = 1
=============================================================================

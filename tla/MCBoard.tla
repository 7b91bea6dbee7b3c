------------------------------ MODULE MCBoard ------------------------------
(***************************************************************************)
(* Five parts of the system that share no state here, in one run: the       *)
(* listing of the files (Files), the data bus (Bus), the boot loader with   *)
(* its SPI master (Boot), the display (Display) and the command line of the *)
(* SD card (Frames).  A behaviour is one of the part that `block` names;    *)
(* the others stay where they begin.                                        *)
(***************************************************************************)
EXTENDS MCFiles, Bus, MCBoot, Display, Frames

VARIABLE block

boardVars == <<block, filesVars, busVars, bootVars, displayVars, framesVars>>

(* The first of the initial states of a part that is not the one.           *)
FilesStill == FilesInit /\ card = 1

BusStill == BusInit /\ saved = 0 /\ segment = CHOOSE s \in Words : TRUE

BootStill == BootInit /\ image = 1 /\ flash = PowerUp

BoardInit ==
    /\ block \in {"files", "bus", "boot", "display", "frames"}
    /\ IF block = "files" THEN FilesInit ELSE FilesStill
    /\ IF block = "bus" THEN BusInit ELSE BusStill
    /\ IF block = "boot" THEN BootInit ELSE BootStill
    /\ DisplayInit /\ FramesInit

BoardNext ==
    \/ block = "files"   /\ FilesNext   /\ UNCHANGED <<block, busVars, bootVars, displayVars, framesVars>>
    \/ block = "bus"     /\ BusNext     /\ UNCHANGED <<block, filesVars, bootVars, displayVars, framesVars>>
    \/ block = "boot"    /\ BootNext    /\ UNCHANGED <<block, filesVars, busVars, displayVars, framesVars>>
    \/ block = "display" /\ DisplayNext /\ UNCHANGED <<block, filesVars, busVars, bootVars, framesVars>>
    \/ block = "frames"  /\ FramesNext  /\ UNCHANGED <<block, filesVars, busVars, bootVars, displayVars>>

(* FilesFairness, BusFairness and BootFairness, of the part that runs.      *)
BoardFairness ==
    /\ WF_filesVars(block = "files" /\ FilesNext)
    /\ WF_busVars(block = "bus" /\ Cycle(TRUE, TRUE))
    /\ WF_busVars(block = "bus" /\ (Wfi \/ ClockAndTimer \/ Leave \/ Serve))
    /\ WF_busVars(block = "bus" /\ Trap)
    /\ WF_bootVars(block = "boot" /\ Loader)
    /\ WF_bootVars(block = "boot" /\ Clocks /\ UNCHANGED loaderVars)

BoardSpec == BoardInit /\ [][BoardNext]_boardVars /\ BoardFairness

-----------------------------------------------------------------------------
(* One request with each kind of reply. *)
MCRequests == {Request(<<0, 0, 0, 0, 0, 0>>, <<0, 0, 0>>, "none"),
               Request(<<0, 1, 0, 0, 0, 1>>, <<0, 1, 1>>, "short"),
               Request(<<0, 0, 0, 0, 1, 0>>, <<1, 0, 1>>, "long"),
               Request(<<1, 0, 1, 0, 0, 1>>, <<1, 0, 0>>, "raw")}

MCPayloads == {<<1, 0, 0, 1>>, <<0, 0, 0, 0>>}

(* The samples of crc_sim: CMD0, CMD17, and a reply to CMD17. *)
ASSUME SampleCrcs ==
    LET sample(d, c, a) == <<0, d>> \o c \o a IN
    /\ Remainder(sample(1, <<0, 0, 0, 0, 0, 0>>, Zeros(32))) = <<1, 0, 0, 1, 0, 1, 0>>
    /\ Remainder(sample(1, <<0, 1, 0, 0, 0, 1>>, Zeros(32))) = <<0, 1, 0, 1, 0, 1, 0>>
    /\ Remainder(sample(0, <<0, 1, 0, 0, 0, 1>>, Zeros(20) \o <<1, 0, 0, 1>> \o Zeros(8)))
            = <<0, 1, 1, 0, 0, 1, 1>>

=============================================================================

------------------------------ MODULE Display ------------------------------
(***************************************************************************)
(* The picture that the display lays over the screen: display_32bit.sv,     *)
(* which fetches it a burst of pixels at a time and hands the bursts to the *)
(* pixel clock; display_aggregator.sv, which shows each pixel when the      *)
(* raster is at its place; the vertical blank interrupt (display.sv,        *)
(* display.cpp) and logoCrawl (main.cpp), which moves the picture by one    *)
(* pixel in each frame.                                                     *)
(*                                                                         *)
(* CpuCycle is a cycle of the CPU clock and PixelCycle one of the pixel     *)
(* clock, at any relative speed within what Settled and Noticed ask.  A     *)
(* pixel is its number in the bitmap.                                       *)
(***************************************************************************)
EXTENDS Integers, Sequences

CONSTANTS
    Burst,                      \* PIXELS_BURST
    Width, Height,              \* of the picture
    ScreenWidth, ScreenHeight,
    FrameWidth, FrameHeight     \* with the blanking

(* A burst is 16 pixels; a picture is whole bursts wide, and more of them   *)
(* than are fetched before the sync ends; the sync is two lines.            *)
ASSUME DisplayAssumption ==
    /\ {Burst, Width, Height, ScreenWidth, ScreenHeight, FrameWidth, FrameHeight} \subseteq Nat
    /\ Burst > 2 /\ Width % Burst = 0 /\ (Width \div Burst) * Height >= 4
    /\ ScreenWidth > Width /\ ScreenHeight > Height
    /\ FrameWidth > ScreenWidth /\ FrameHeight > ScreenHeight + 2

VARIABLES
    (* logoCrawl, the signal it waits for, the register, the interrupt *)
    place, heading, signal, start, irq,
    (* CPU clock: what it sees of the blanking; the fetch *)
    vblank, vsync, prevVblank,
    done, sent, request,        \* display_done, dma_req_sent, dma.req_valid
    asked,                      \* the bursts that the memory has been asked for
    at, next, x, y,             \* frame_x and frame_y; req_addr; current_x, current_y
    dma, cdc, send,             \* the stages PIPELINE_DMA and PIPELINE_CDC_CPU; cdc_send_cpu
    crossing,                   \* what the handshake has latched
    (* pixel clock: the stages, the buffer of the aggregator, the raster *)
    ack, hdmi, outp, fill, buffered, cx, cy,
    (* history: the place sampled for this frame; the pixel that is to come *)
    (* next; whether the fetch was reset on its way; and whether a pixel    *)
    (* was lost, or shown out of place                                      *)
    framed, due, cut, garbled

crawlVars == <<place, heading, signal, start, irq>>
fetchVars == <<done, sent, request, asked, at, next, x, y, dma, cdc, send, crossing>>
pixelVars == <<ack, hdmi, outp, fill, buffered, cx, cy, garbled>>
historyVars == <<framed, due, cut>>
displayVars == <<crawlVars, vblank, vsync, prevVblank, fetchVars, pixelVars, historyVars>>

Empty == [x |-> 0, y |-> 0, n |-> -1]

Full(stage) == stage.n >= 0

DisplayInit ==
    /\ place = [x |-> 1, y |-> 1] /\ heading = [x |-> 1, y |-> 1]
    /\ signal = FALSE /\ start = [x |-> 0, y |-> 0] /\ irq = FALSE
    /\ vblank = FALSE /\ vsync = FALSE /\ prevVblank = FALSE
    /\ done = TRUE /\ sent = FALSE /\ request = FALSE /\ asked = <<>>
    /\ at = start /\ next = 0 /\ x = 0 /\ y = 0
    /\ dma = Empty /\ cdc = Empty /\ send = FALSE /\ crossing = Empty
    /\ ack = FALSE /\ hdmi = Empty /\ outp = Empty /\ fill = 0 /\ buffered = Empty
    /\ cx = 0 /\ cy = 0
    /\ framed = start /\ due = Width * Height /\ cut = FALSE /\ garbled = FALSE

-----------------------------------------------------------------------------
(* logoCrawl.  It moves the place, waits, and writes the register. *)

Turned(d, p, last) == IF p = 0 THEN 1 ELSE IF p = last THEN -1 ELSE d

Crawl ==
    LET d == [x |-> Turned(heading.x, place.x, ScreenWidth - Width),
              y |-> Turned(heading.y, place.y, ScreenHeight - Height)]
    IN  /\ signal
        /\ signal' = FALSE
        /\ start' = place
        /\ heading' = d
        /\ place' = [x |-> place.x + d.x, y |-> place.y + d.y]
        /\ UNCHANGED <<irq, vblank, vsync, prevVblank, fetchVars, pixelVars, historyVars>>

HandleVsyncIrq ==
    /\ irq
    /\ signal' = TRUE
    /\ irq' = FALSE
    /\ UNCHANGED <<place, heading, start, vblank, vsync, prevVblank, fetchVars, pixelVars, historyVars>>

-----------------------------------------------------------------------------
(* CPU clock. *)

RasterBlank == cy > ScreenHeight \/ (cy = ScreenHeight /\ cx >= ScreenWidth)

RasterSync == cy >= FrameHeight - 2

(* The two bits cross on their own. *)
CrossBlank ==
    /\ \/ vblank # RasterBlank /\ vblank' = RasterBlank /\ UNCHANGED vsync
       \/ vsync # RasterSync /\ vsync' = RasterSync /\ UNCHANGED vblank
    /\ UNCHANGED <<crawlVars, prevVblank, fetchVars, pixelVars, historyVars>>

ResetTo(address) ==
    /\ done' = TRUE /\ dma' = Empty /\ cdc' = Empty /\ sent' = FALSE
    /\ at' = start /\ next' = address /\ x' = 0 /\ y' = 0
    /\ cut' = (cut \/ ~done)
    /\ UNCHANGED <<request, send, crossing, framed, due>>

(* Mutation: the address is not set back. *)
ResetPlaceOnly == ResetTo(next)

DoReset == ResetTo(0)

DoCpuCycle(taken, answered) ==
    LET acked == send /\ ack
        moves == ~Full(cdc) /\ Full(dma)
        gets == answered /\ sent
        asks == ~Full(dma) /\ ~sent /\ ~done
        row == x >= Width - Burst
    IN  /\ send' = IF acked THEN FALSE ELSE send \/ (Full(cdc) /\ ~ack)
        /\ crossing' = IF ~send /\ send' THEN cdc ELSE crossing
        /\ cdc' = IF moves THEN [x |-> at.x + x, y |-> at.y + y, n |-> dma.n]
                  ELSE IF acked THEN Empty ELSE cdc
        /\ dma' = IF gets THEN [x |-> 0, y |-> 0, n |-> Head(asked)] ELSE IF moves THEN Empty ELSE dma
        /\ next' = IF moves THEN next + Burst ELSE next
        /\ x' = IF ~moves \/ (row /\ y = Height - 1) THEN x ELSE IF row THEN 0 ELSE x + Burst
        /\ y' = IF moves /\ row /\ y < Height - 1 THEN y + 1 ELSE y
        /\ done' = ((done \/ (moves /\ row /\ y = Height - 1)) /\ ~(vblank /\ vsync))
        /\ sent' = ((sent /\ ~gets) \/ asks)
        /\ request' = ((request /\ ~taken) \/ asks)
        /\ framed' = IF done /\ ~done' THEN at ELSE framed
        /\ due' = IF done /\ ~done' THEN 0 ELSE due
        /\ cut' = (cut /\ ~(done /\ ~done'))
        /\ UNCHANGED at

(* The memory answers one request at a time. *)
CpuCycle(answered) ==
    /\ answered => asked # <<>>
    /\ \E taken \in IF request /\ asked = <<>> THEN BOOLEAN ELSE {FALSE} :
        /\ irq' = (irq \/ (vblank /\ ~prevVblank))
        /\ prevVblank' = vblank
        /\ asked' = (IF answered THEN Tail(asked) ELSE asked) \o (IF taken THEN <<next>> ELSE <<>>)
        /\ IF vblank /\ ~vsync THEN DoReset ELSE DoCpuCycle(taken, answered)
        /\ UNCHANGED <<place, heading, signal, start, vblank, vsync, pixelVars>>

-----------------------------------------------------------------------------
(* Pixel clock. *)

Matches == Full(buffered) /\ buffered.x = cx /\ buffered.y = cy

(* A pixel that has come too late is not shown. *)
Late ==
    /\ Full(buffered) /\ ~RasterBlank
    /\ buffered.y < cy \/ (buffered.y = cy /\ buffered.x < cx)

Acks == Matches \/ Late \/ ~Full(buffered)

Pops == Full(outp) /\ Acks

(* The last pixel of a burst is taken to leave when the next burst is there. *)
Stages ==
    LET pops == Pops
        advances == Full(hdmi) /\ (~Full(outp) \/ fill = 1)
        gets == ~Full(hdmi) /\ send /\ ~ack
    IN  /\ buffered' = IF pops THEN outp ELSE IF Acks THEN Empty ELSE buffered
        /\ outp' = IF advances THEN hdmi
                   ELSE IF pops /\ fill = 1 THEN Empty
                   ELSE IF pops THEN [x |-> outp.x + 1, y |-> outp.y, n |-> outp.n + 1] ELSE outp
        /\ fill' = IF advances THEN Burst ELSE IF pops THEN fill - 1 ELSE fill
        /\ hdmi' = IF gets THEN crossing ELSE IF advances THEN Empty ELSE hdmi
        /\ ack' = IF gets THEN TRUE ELSE ack /\ send

Raster ==
    /\ cx' = (cx + 1) % FrameWidth
    /\ cy' = IF cx = FrameWidth - 1 THEN (cy + 1) % FrameHeight ELSE cy

(* The memory has kept up: when the blanking begins, the whole picture has  *)
(* been shown.  What happens when it has not is in the README.              *)
Settled ==
    /\ done /\ ~sent /\ ~request /\ asked = <<>>
    /\ ~Full(dma) /\ ~Full(cdc) /\ ~send /\ ~ack
    /\ ~Full(hdmi) /\ ~Full(outp) /\ ~Full(buffered)

(* The blanking and the sync last long enough for the CPU clock to see.     *)
Noticed ==
    /\ vblank = RasterBlank /\ vsync = RasterSync /\ prevVblank = vblank
    /\ vblank /\ ~vsync => done /\ y = 0
    /\ vblank /\ vsync => ~done

PixelCycle ==
    /\ Raster
    /\ RasterBlank' /\ ~RasterBlank => Settled
    /\ RasterBlank /\ (~RasterBlank' \/ RasterSync' # RasterSync) => Noticed
    /\ cx = 1 /\ cy = 0 => ~vblank /\ ~vsync
    /\ Stages
    /\ due' = IF Pops THEN due + 1 ELSE due
    /\ garbled' = (\/ garbled
                   \/ Pops /\ outp.n # due
                   \/ Matches /\ buffered.n # (cy - framed.y) * Width + cx - framed.x
                   \/ RasterBlank' /\ ~RasterBlank /\ ~cut /\ due # Width * Height)
    /\ UNCHANGED <<crawlVars, vblank, vsync, prevVblank, fetchVars, framed, cut>>

DisplayNext ==
    \/ Crawl \/ HandleVsyncIrq \/ CrossBlank
    \/ \E answered \in BOOLEAN : CpuCycle(answered)
    \/ PixelCycle

DisplaySpec == DisplayInit /\ [][DisplayNext]_displayVars

-----------------------------------------------------------------------------
DisplayTypeOK ==
    /\ place.x \in 0..(ScreenWidth - Width) /\ place.y \in 0..(ScreenHeight - Height)
    /\ next \in Nat /\ x \in 0..(Width - 1) /\ y \in 0..(Height - 1)
    /\ fill \in 0..Burst /\ Len(asked) <= 1
    /\ cx \in 0..(FrameWidth - 1) /\ cy \in 0..(FrameHeight - 1)

(* The pixels come to the raster once each and in order, all of them unless *)
(* the end of the sync is seen before that of the blanking, and one that is *)
(* not too late is shown at its place in the picture, which is where the    *)
(* register said when the frame began: whenever logoCrawl writes the        *)
(* register, though a burst may take the place of the last pixel of the one *)
(* before, and though the two bits that tell the fetch about the blanking   *)
(* may reach it in either order (display_32bit.sv:117, 129, 172,            *)
(* display_aggregator.sv:72).                                               *)
PictureIntact == ~garbled

=============================================================================

------------------------------- MODULE Display -------------------------------
(***************************************************************************)
(* The display demo (app/demos/display/src/main.c): main sizes a rectangle *)
(* and a buffer from the display's capabilities, clears the screen in      *)
(* strips, draws the bottom right rectangle and animates a grey one at the *)
(* bottom left. The geometry is the program's; a pixel is the bytes that   *)
(* fill_buffer puts in the buffer for it.                                  *)
(*                                                                         *)
(* size_t and uint16_t subtraction wraps: display_write takes 16 bits.     *)
(* The pause between two shades is left out.                               *)
(***************************************************************************)
EXTENDS Integers, Sequences

CONSTANTS X_RES, Y_RES     \* resolutions to try

ASSUME DisplayAssumption ==
    \A r \in X_RES \cup Y_RES : r \in Nat /\ 0 < r /\ r < 65536

Mono == {"mono01", "mono10"}
Formats == {"argb8888", "rgb888", "rgb565", "bgr565"} \cup Mono

\* "other" stands for the formats main does not support; only a monochrome
\* display is tiled vertically.
Panels ==
    {p \in [x : X_RES, y : Y_RES, format : Formats \cup {"other"}, vtiled : BOOLEAN] :
        p.vtiled => p.format \in Mono}

NoArea == [x |-> 0, y |-> 0, w |-> 0, h |-> 0]

VARIABLES
    panel,        \* display_get_capabilities
    drawing,      \* where main is: "setup", "clear", "corner", "grey" or "ended"
    line,         \* idx, the first line of the next strip
    grey_count,   \* as fill_buffer sees it, a uint8_t
    pixel,        \* the bytes of each pixel in the buffer
    area,         \* the last display_write
    cleared       \* history: lines covered by the strips so far

displayVars == <<panel, drawing, line, grey_count, pixel, area, cleared>>

DisplayInit ==
    /\ panel \in Panels
    /\ drawing = "setup"
    /\ line = 0
    /\ grey_count = 0
    /\ pixel = <<>>
    /\ area = NoArea
    /\ cleared = 0

----------------------------------------------------------------------------
(* Geometry *)

Unit(p) == IF p.vtiled THEN [w |-> 16, h |-> 8] ELSE [w |-> 2, h |-> 1]

Small(p) == p.x < 3 * Unit(p).w \/ p.y < 3 * Unit(p).h \/ p.x < 8 * Unit(p).h

Scale(p) == IF Small(p) THEN 1 ELSE (p.x \div 8) \div Unit(p).h

\* mutant: scaled to the width without regard to the unit's height
RectUnscaled(p) ==
    IF Small(p) THEN [w |-> (p.x * 40) \div 100, h |-> (p.y * 40) \div 100]
                ELSE [w |-> Unit(p).w * (p.x \div 8), h |-> Unit(p).h * (p.x \div 8)]

Rect(p) ==
    IF Small(p) THEN [w |-> (p.x * 40) \div 100, h |-> (p.y * 40) \div 100]
                ELSE [w |-> Unit(p).w * Scale(p), h |-> Unit(p).h * Scale(p)]

\* mutant: a strip of a small display is a tenth of its height
h_stepTenth(p) == IF Small(p) THEN (p.y * 10) \div 100 ELSE Unit(p).h

h_step(p) == IF Small(p) THEN (p.y * 20) \div 100 ELSE Unit(p).h

Bytes(p, pixels) ==
    CASE p.format = "argb8888"             -> 4 * pixels
      [] p.format = "rgb888"               -> 3 * pixels
      [] p.format \in {"rgb565", "bgr565"} -> 2 * pixels
      [] OTHER                             -> (pixels + 7) \div 8

buf_size(p) ==
    LET rect == Rect(p).w * Rect(p).h
        strip == p.x * h_step(p)
    IN Bytes(p, IF rect < strip THEN strip ELSE rect)

----------------------------------------------------------------------------
(* Colours *)

rgb888_color(corner, grey) ==
    IF corner = "bottom_right" THEN 255 ELSE grey * 65536 + grey * 256 + grey

\* mutant: green is not given its sixth bit
get_rgb565_colorNarrow(corner, grey) ==
    IF corner = "bottom_right" THEN 31
    ELSE (grey % 32) * 2048 + (grey % 32) * 32 + (grey % 32)

get_rgb565_color(corner, grey) ==
    IF corner = "bottom_right" THEN 31
    ELSE (grey % 32) * 2048 + (grey % 32) * 64 + (grey % 32)

fill_buffer_mono(corner, grey, black, white) ==
    <<IF corner = "bottom_left" /\ grey % 2 = 1 THEN white ELSE black>>

fill_buffer(format, corner, grey) ==
    LET c == rgb888_color(corner, grey)
        s == get_rgb565_color(corner, grey)
    IN CASE format = "argb8888" -> <<c % 256, (c \div 256) % 256, c \div 65536, 0>>
         [] format = "rgb888"   -> <<c \div 65536, (c \div 256) % 256, c % 256>>
         [] format = "rgb565"   -> <<s \div 256, s % 256>>
         [] format = "bgr565"   -> <<s % 256, s \div 256>>
         [] format = "mono01"   -> fill_buffer_mono(corner, grey, 0, 255)
         [] format = "mono10"   -> fill_buffer_mono(corner, grey, 255, 0)

----------------------------------------------------------------------------
(* main *)

\* The device may be missing, the format unsupported or the heap too small.
Setup ==
    /\ drawing = "setup"
    /\ \/ panel.format # "other" /\ drawing' = "clear"
       \/ drawing' = "ended"
    /\ UNCHANGED <<panel, line, grey_count, pixel, area, cleared>>

\* mutant: the last strip is as high as the others
StripHeightFixed(p, idx) == h_step(p)

StripHeight(p, idx) == IF p.y - idx < h_step(p) THEN p.y - idx ELSE h_step(p)

ClearStrip ==
    /\ drawing = "clear" /\ line < panel.y
    /\ LET height == StripHeight(panel, line)
       IN /\ area' = [x |-> 0, y |-> line, w |-> panel.x, h |-> height]
          /\ cleared' = IF line = cleared THEN cleared + height ELSE cleared
    /\ line' = line + h_step(panel)
    /\ UNCHANGED <<panel, drawing, grey_count, pixel>>

DrawRect(corner, x) ==
    /\ pixel' = fill_buffer(panel.format, corner, grey_count)
    /\ area' = [x |-> x % 65536, y |-> (panel.y - Rect(panel).h) % 65536,
                w |-> Rect(panel).w, h |-> Rect(panel).h]

DrawCorner ==
    /\ drawing = "clear" /\ line >= panel.y
    /\ drawing' = "corner"
    /\ DrawRect("bottom_right", panel.x - Rect(panel).w)
    /\ UNCHANGED <<panel, line, grey_count, cleared>>

DrawGrey ==
    /\ drawing \in {"corner", "grey"}
    /\ drawing' = "grey"
    /\ DrawRect("bottom_left", 0)
    /\ grey_count' = (grey_count + 1) % 256
    /\ UNCHANGED <<panel, line, cleared>>

DisplayNext == Setup \/ ClearStrip \/ DrawCorner \/ DrawGrey

DisplayFair == ClearStrip \/ DrawCorner \/ DrawGrey
DisplaySpec == DisplayInit /\ [][DisplayNext]_displayVars /\ WF_displayVars(DisplayFair)

----------------------------------------------------------------------------
\* The program's ratios leave room for a rectangle on such a display.
Proportioned(p) == p.x <= 8 * p.y

(***************************************************************************)
(* Every display_write lies on the screen and finds as many bytes in the   *)
(* buffer as it covers pixels, for every format and for every display that *)
(* is at most eight times as wide as high; on a wider one                  *)
(* y_resolution - rect_h wraps.                                            *)
(***************************************************************************)
WritesInBounds ==
    drawing # "setup" /\ Proportioned(panel) =>
        /\ area.x + area.w <= panel.x
        /\ area.y + area.h <= panel.y
        /\ Bytes(panel, area.w * area.h) <= buf_size(panel)

(***************************************************************************)
(* The strips of the clearing loop cover every line once, without gap or   *)
(* overlap, the last and lower strip included.                             *)
(***************************************************************************)
ScreenCleared == drawing \in {"corner", "grey"} => cleared = panel.y

(***************************************************************************)
(* The clearing loop ends and the animation starts on every display of at  *)
(* least five lines: h_step, a fifth of the height, is not 0.              *)
(***************************************************************************)
AnimationStarts == (drawing = "clear" /\ panel.y >= 5) ~> (drawing = "grey")

\* Red, green and blue as a display reads them from the bytes of a pixel.
Channels(format, bytes) ==
    LET s == IF format = "rgb565" THEN bytes[1] * 256 + bytes[2]
                                  ELSE bytes[2] * 256 + bytes[1]
    IN CASE format = "argb8888" -> <<bytes[3], bytes[2], bytes[1]>>
         [] format = "rgb888"   -> bytes
         [] OTHER               -> <<s \div 2048, (s \div 32) % 64, s % 32>>

(***************************************************************************)
(* Decoded as the display decodes it, the animated rectangle is grey in    *)
(* every format (equal red and blue, green on its own scale) and the one   *)
(* at the bottom right is pure blue.                                       *)
(***************************************************************************)
ColoursDecode ==
    panel.format \notin Mono /\ drawing \in {"corner", "grey"} =>
        LET rgb == Channels(panel.format, pixel)
            wide == panel.format \in {"argb8888", "rgb888"}
        IN IF drawing = "corner" THEN rgb[1] = 0 /\ rgb[2] = 0 /\ rgb[3] = IF wide THEN 255 ELSE 31
           ELSE rgb[1] = rgb[3] /\ rgb[2] = IF wide THEN rgb[1] ELSE 2 * rgb[1]

=============================================================================

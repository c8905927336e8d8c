---------------------------- MODULE DisplayProofs ----------------------------
(***************************************************************************)
(* Proofs about the display demo: every write lies on the screen and in    *)
(* the buffer, the strips cover the screen, and the bytes of a pixel       *)
(* decode to the colour that was meant, for every resolution of 16 bits.   *)
(***************************************************************************)
EXTENDS Display, TLAPS

----------------------------------------------------------------------------
(* Geometry *)

\* A product grows with its factor.
LEMMA TimesMonotone == \A a, b, c \in Nat : b <= c => a * b <= a * c
  OBVIOUS

\* A product of natural numbers is one.
LEMMA TimesNat == \A a, b \in Nat : a * b \in Nat
  OBVIOUS

\* A resolution is a positive number of 16 bits.
LEMMA PanelType ==
    ASSUME NEW p \in Panels
    PROVE  /\ p.x \in Nat /\ 0 < p.x /\ p.x < 65536
           /\ p.y \in Nat /\ 0 < p.y /\ p.y < 65536
           /\ p.format \in Formats \cup {"other"}
  <1>1. p \in [x : X_RES, y : Y_RES, format : Formats \cup {"other"}, vtiled : BOOLEAN]
    BY Zenon DEF Panels
  <1>2. p.x \in X_RES /\ p.y \in Y_RES /\ p.format \in Formats \cup {"other"}  BY <1>1
  <1> QED  BY <1>2, DisplayAssumption

\* The rectangle fits a screen that is not too wide for its height.
LEMMA RectFits ==
    ASSUME NEW p \in Panels
    PROVE  /\ Rect(p).w \in Nat /\ Rect(p).w <= p.x
           /\ Rect(p).h \in Nat
           /\ Proportioned(p) => Rect(p).h <= p.y
  <1>1. CASE Small(p)
    <2>1. Rect(p).w = (p.x * 40) \div 100 /\ Rect(p).h = (p.y * 40) \div 100
      BY <1>1 DEF Rect
    <2> QED  BY <2>1, PanelType
  <1>2. CASE ~Small(p) /\ p.vtiled
    <2>1. Rect(p).w = 16 * ((p.x \div 8) \div 8) /\ Rect(p).h = 8 * ((p.x \div 8) \div 8)
      BY <1>2 DEF Rect, Scale, Unit
    <2> QED  BY <2>1, PanelType DEF Proportioned
  <1>3. CASE ~Small(p) /\ ~p.vtiled
    <2>1. Rect(p).w = 2 * ((p.x \div 8) \div 1) /\ Rect(p).h = 1 * ((p.x \div 8) \div 1)
      BY <1>3 DEF Rect, Scale, Unit
    <2> QED  BY <2>1, PanelType DEF Proportioned
  <1> QED  BY <1>1, <1>2, <1>3

\* The height of a strip is a number, 0 on the lowest displays.
LEMMA StepType ==
    ASSUME NEW p \in Panels
    PROVE  h_step(p) \in Nat
  BY PanelType DEF h_step, Unit

\* More pixels need no fewer bytes.
LEMMA BytesMonotone ==
    ASSUME NEW p, NEW m \in Nat, NEW n \in Nat, m <= n
    PROVE  Bytes(p, m) <= Bytes(p, n)
  BY DEF Bytes

\* The buffer holds a whole rectangle and a whole strip.
LEMMA BufferHolds ==
    ASSUME NEW p \in Panels
    PROVE  /\ \A h \in Nat : h <= h_step(p) => Bytes(p, p.x * h) <= buf_size(p)
           /\ Bytes(p, Rect(p).w * Rect(p).h) <= buf_size(p)
  <1> DEFINE rect == Rect(p).w * Rect(p).h
             strip == p.x * h_step(p)
             most == IF rect < strip THEN strip ELSE rect
  <1>1. rect \in Nat /\ strip \in Nat  BY RectFits, StepType, PanelType, TimesNat
  <1>2. buf_size(p) = Bytes(p, most)  BY DEF buf_size
  <1>3. most \in Nat /\ rect <= most /\ strip <= most  BY <1>1
  <1>4. ASSUME NEW h \in Nat, h <= h_step(p) PROVE Bytes(p, p.x * h) <= buf_size(p)
    <2>1. p.x * h \in Nat /\ p.x * h <= strip
      BY <1>4, PanelType, StepType, TimesMonotone, TimesNat
    <2>2. p.x * h <= most  BY <1>1, <1>3, <2>1
    <2> HIDE DEF most
    <2> QED  BY <1>2, <1>3, <2>1, <2>2, BytesMonotone
  <1>5. Bytes(p, rect) <= buf_size(p)
    <2> HIDE DEF most, rect
    <2> QED  BY <1>1, <1>2, <1>3, BytesMonotone
  <1> QED  BY <1>4, <1>5

----------------------------------------------------------------------------
(* Colours *)

\* The bytes of 16 and 24 bits, put together again.
LEMMA Bytes16 == \A s \in Nat : (s \div 256) * 256 + (s % 256) = s
  OBVIOUS

\* Three equal bytes packed into 24 bits are found again.
LEMMA Grey24 ==
    ASSUME NEW g \in Nat, g < 256
    PROVE  LET c == g * 65536 + g * 256 + g
           IN c % 256 = g /\ (c \div 256) % 256 = g /\ c \div 65536 = g
  OBVIOUS

\* A shade of five bits packed into RGB565 is found again; green has six bits.
LEMMA Grey16 ==
    ASSUME NEW f \in Nat, f < 32
    PROVE  LET s == f * 2048 + f * 64 + f
           IN s \in Nat /\ s \div 2048 = f /\ (s \div 32) % 64 = 2 * f /\ s % 32 = f
  OBVIOUS

Coloured == {"argb8888", "rgb888", "rgb565", "bgr565"}

\* The rectangle at the bottom right is blue.
LEMMA CornerIsBlue ==
    ASSUME NEW format \in Coloured, NEW grey
    PROVE  Channels(format, fill_buffer(format, "bottom_right", grey)) =
               <<0, 0, IF format \in {"argb8888", "rgb888"} THEN 255 ELSE 31>>
  BY DEF Coloured, Channels, fill_buffer, rgb888_color, get_rgb565_color

\* The one at the bottom left is grey.
LEMMA AnimationIsGrey ==
    ASSUME NEW format \in Coloured, NEW grey \in Nat, grey < 256
    PROVE  LET rgb == Channels(format, fill_buffer(format, "bottom_left", grey))
           IN rgb[1] = rgb[3] /\ rgb[2] = IF format \in {"argb8888", "rgb888"}
                                         THEN rgb[1] ELSE 2 * rgb[1]
  <1> DEFINE c == grey * 65536 + grey * 256 + grey
             s == (grey % 32) * 2048 + (grey % 32) * 64 + (grey % 32)
             bytes == fill_buffer(format, "bottom_left", grey)
             rgb == Channels(format, bytes)
  <1>1. c = rgb888_color("bottom_left", grey) /\ s = get_rgb565_color("bottom_left", grey)
    BY DEF rgb888_color, get_rgb565_color
  <1>2. CASE format \in {"argb8888", "rgb888"}
    <2>1. c % 256 = grey /\ (c \div 256) % 256 = grey /\ c \div 65536 = grey  BY Grey24
    <2> HIDE DEF c
    <2>2. CASE format = "argb8888"
      <3>1. bytes = <<grey, grey, grey, 0>>  BY <1>1, <2>1, <2>2 DEF fill_buffer
      <3> QED  BY <2>2, <3>1 DEF Channels
    <2>3. CASE format = "rgb888"
      <3>1. bytes = <<grey, grey, grey>>  BY <1>1, <2>1, <2>3 DEF fill_buffer
      <3> QED  BY <2>3, <3>1 DEF Channels
    <2> QED  BY <1>2, <2>2, <2>3
  <1>3. CASE format \in {"rgb565", "bgr565"}
    <2>1. s \in Nat /\ s \div 2048 = grey % 32 /\ (s \div 32) % 64 = 2 * (grey % 32)
          /\ s % 32 = grey % 32
      BY Grey16
    <2> HIDE DEF s
    <2>2. IF format = "rgb565" THEN bytes = <<s \div 256, s % 256>>
                               ELSE bytes = <<s % 256, s \div 256>>
      BY <1>1, <1>3 DEF fill_buffer
    <2>3. rgb = <<s \div 2048, (s \div 32) % 64, s % 32>>
      BY <1>3, <2>1, <2>2, Bytes16 DEF Channels
    <2> QED  BY <1>3, <2>1, <2>3
  <1> QED  BY <1>2, <1>3 DEF Coloured

----------------------------------------------------------------------------
(* The inductive invariant *)

\* An area of the screen that the buffer can fill.
InBounds(p, a) ==
    /\ a.x + a.w <= p.x
    /\ a.y + a.h <= p.y
    /\ Bytes(p, a.w * a.h) <= buf_size(p)

\* The strips so far cover the lines above the next one.
StripsCover == cleared = IF line <= panel.y THEN line ELSE panel.y

DisplayIInv ==
    /\ panel \in Panels
    /\ drawing \in {"setup", "clear", "corner", "grey", "ended"}
    /\ line \in Nat
    /\ grey_count \in Nat /\ grey_count < 256
    /\ StripsCover
    /\ Proportioned(panel) => InBounds(panel, area)
    /\ drawing \in {"clear", "corner", "grey"} => panel.format \in Formats
    /\ drawing \in {"corner", "grey"} => panel.y <= line
    /\ drawing = "corner" => pixel = fill_buffer(panel.format, "bottom_right", grey_count)
    /\ drawing = "grey" =>
          \E g \in Nat : g < 256 /\ pixel = fill_buffer(panel.format, "bottom_left", g)

\* A strip lies below the ones before it, on the screen and in the buffer.
LEMMA StripInBounds ==
    ASSUME DisplayIInv, ClearStrip
    PROVE  InBounds(panel, area') /\ StripsCover' /\ line' \in Nat
  <1> DEFINE h == StripHeight(panel, line)
  <1>1. /\ panel \in Panels /\ line \in Nat /\ cleared = line
        /\ panel.x \in Nat /\ panel.y \in Nat /\ line < panel.y
        /\ h_step(panel) \in Nat
    BY PanelType, StepType DEF DisplayIInv, StripsCover, ClearStrip
  <1>2. h \in Nat /\ h <= h_step(panel) /\ line + h <= panel.y  BY <1>1 DEF StripHeight
  <1>3. area' = [x |-> 0, y |-> line, w |-> panel.x, h |-> h]  BY DEF ClearStrip
  <1>4. InBounds(panel, area')
    <2> HIDE DEF h
    <2> QED  BY <1>1, <1>2, <1>3, BufferHolds DEF InBounds
  <1>5. cleared' = line + h /\ line' = line + h_step(panel) /\ panel' = panel
    BY <1>1 DEF ClearStrip
  <1>6. StripsCover'  BY <1>1, <1>5 DEF StripsCover, StripHeight
  <1> QED  BY <1>1, <1>4, <1>5, <1>6

\* A rectangle at the bottom, at the left or at the right.
LEMMA RectInBounds ==
    ASSUME DisplayIInv, Proportioned(panel), NEW corner,
           NEW x \in {0, panel.x - Rect(panel).w}, DrawRect(corner, x)
    PROVE  InBounds(panel, area')
  <1> DEFINE w == Rect(panel).w
             h == Rect(panel).h
  <1>1. /\ panel \in Panels
        /\ panel.x \in Nat /\ panel.x < 65536 /\ panel.y \in Nat /\ panel.y < 65536
        /\ w \in Nat /\ w <= panel.x /\ h \in Nat /\ h <= panel.y
    BY PanelType, RectFits DEF DisplayIInv
  <1>2. area' = [x |-> x % 65536, y |-> (panel.y - h) % 65536, w |-> w, h |-> h]
    BY DEF DrawRect
  <1>3. Bytes(panel, w * h) <= buf_size(panel)  BY <1>1, BufferHolds
  <1> HIDE DEF w, h
  <1>4. (x % 65536) + w <= panel.x
    <2>1. x = 0 \/ x = panel.x - w  BY DEF w
    <2> QED  BY <1>1, <2>1
  <1>5. ((panel.y - h) % 65536) + h <= panel.y  BY <1>1
  <1> QED  BY <1>2, <1>3, <1>4, <1>5 DEF InBounds

\* One step of main.
LEMMA DisplayStep ==
    ASSUME DisplayIInv, [DisplayNext]_displayVars
    PROVE  DisplayIInv'
  <1>1. CASE UNCHANGED displayVars
    BY <1>1 DEF displayVars, DisplayIInv, StripsCover
  <1>2. CASE Setup
    <2>1. drawing' = "clear" => panel.format \in Formats
      <3>1. panel.format \in Formats \cup {"other"}  BY PanelType DEF DisplayIInv
      <3> QED  BY <1>2, <3>1 DEF Setup
    <2> QED  BY <1>2, <2>1 DEF Setup, DisplayIInv, StripsCover
  <1>3. CASE ClearStrip
    <2>1. InBounds(panel, area') /\ StripsCover' /\ line' \in Nat  BY <1>3, StripInBounds
    <2>2. UNCHANGED <<panel, drawing, grey_count, pixel>> /\ drawing = "clear"
      BY <1>3 DEF ClearStrip
    <2> QED  BY <2>1, <2>2 DEF DisplayIInv
  <1>4. CASE DrawCorner
    <2>1. UNCHANGED <<panel, line, grey_count, cleared>> /\ drawing = "clear"
          /\ drawing' = "corner" /\ line >= panel.y
          /\ DrawRect("bottom_right", panel.x - Rect(panel).w)
      BY <1>4 DEF DrawCorner
    <2>2. Proportioned(panel) => InBounds(panel, area')  BY <2>1, RectInBounds
    <2>3. pixel' = fill_buffer(panel.format, "bottom_right", grey_count)
      BY <2>1 DEF DrawRect
    <2>4. StripsCover'  BY <2>1 DEF DisplayIInv, StripsCover
    <2>5. panel.y <= line  BY <2>1, PanelType DEF DisplayIInv
    <2> QED  BY <2>1, <2>2, <2>3, <2>4, <2>5 DEF DisplayIInv
  <1>5. CASE DrawGrey
    <2>1. UNCHANGED <<panel, line, cleared>> /\ drawing \in {"corner", "grey"}
          /\ drawing' = "grey" /\ grey_count' = (grey_count + 1) % 256
          /\ DrawRect("bottom_left", 0)
      BY <1>5 DEF DrawGrey
    <2>2. Proportioned(panel) => InBounds(panel, area')  BY <2>1, RectInBounds
    <2>3. pixel' = fill_buffer(panel.format, "bottom_left", grey_count)
      BY <2>1 DEF DrawRect
    <2>4. StripsCover'  BY <2>1 DEF DisplayIInv, StripsCover
    <2>5. grey_count' \in Nat /\ grey_count' < 256  BY <2>1 DEF DisplayIInv
    <2> QED  BY <2>1, <2>2, <2>3, <2>4, <2>5 DEF DisplayIInv
  <1> QED  BY <1>1, <1>2, <1>3, <1>4, <1>5 DEF DisplayNext

(***************************************************************************)
(* The inductive invariant of the display demo, for every display with     *)
(* resolutions of 16 bits.                                                 *)
(***************************************************************************)
THEOREM DisplayInvariant == DisplaySpec => []DisplayIInv
  <1>1. DisplayInit => DisplayIInv
    <2> SUFFICES ASSUME DisplayInit PROVE DisplayIInv  OBVIOUS
    <2>1. panel \in Panels /\ panel.x \in Nat /\ panel.y \in Nat  BY PanelType DEF DisplayInit
    <2>2. StripsCover  BY <2>1 DEF DisplayInit, StripsCover
    <2>3. InBounds(panel, area)
      <3>1. h_step(panel) \in Nat  BY <2>1, StepType
      <3>2. Bytes(panel, panel.x * 0) <= buf_size(panel)  BY <2>1, <3>1, BufferHolds
      <3>3. panel.x * 0 = 0 * 0  BY <2>1
      <3> QED  BY <2>1, <3>2, <3>3 DEF InBounds, DisplayInit, NoArea
    <2> QED  BY <2>1, <2>2, <2>3 DEF DisplayInit, DisplayIInv
  <1>2. DisplayIInv /\ [DisplayNext]_displayVars => DisplayIInv'  BY DisplayStep
  <1> QED  BY <1>1, <1>2, PTL DEF DisplaySpec

(***************************************************************************)
(* Every display_write of main lies on the screen and finds its bytes in   *)
(* the buffer, on every display at most eight times as wide as high.       *)
(***************************************************************************)
THEOREM EveryWriteInBounds == DisplaySpec => []WritesInBounds
  <1>1. DisplayIInv => WritesInBounds  BY DEF DisplayIInv, InBounds, WritesInBounds
  <1> QED  BY <1>1, DisplayInvariant, PTL

(***************************************************************************)
(* When main draws its rectangles the strips have covered the screen.      *)
(***************************************************************************)
THEOREM ScreenIsCleared == DisplaySpec => []ScreenCleared
  <1>1. DisplayIInv => ScreenCleared
    BY PanelType DEF DisplayIInv, StripsCover, ScreenCleared
  <1> QED  BY <1>1, DisplayInvariant, PTL

(***************************************************************************)
(* In every format the pixels decode to blue at the right and to grey at   *)
(* the left, for every shade.                                              *)
(***************************************************************************)
THEOREM PixelsDecode == DisplaySpec => []ColoursDecode
  <1>1. DisplayIInv => ColoursDecode
    <2> SUFFICES ASSUME DisplayIInv, panel.format \notin Mono, drawing \in {"corner", "grey"}
                 PROVE  LET rgb == Channels(panel.format, pixel)
                            wide == panel.format \in {"argb8888", "rgb888"}
                        IN IF drawing = "corner"
                           THEN rgb[1] = 0 /\ rgb[2] = 0 /\ rgb[3] = IF wide THEN 255 ELSE 31
                           ELSE rgb[1] = rgb[3] /\ rgb[2] = IF wide THEN rgb[1] ELSE 2 * rgb[1]
      BY DEF ColoursDecode
    <2>1. panel.format \in Coloured  BY DEF DisplayIInv, Formats, Coloured
    <2>2. CASE drawing = "corner"
      BY <2>1, <2>2, CornerIsBlue DEF DisplayIInv
    <2>3. CASE drawing = "grey"
      BY <2>1, <2>3, AnimationIsGrey DEF DisplayIInv
    <2> QED  BY <2>2, <2>3
  <1> QED  BY <1>1, DisplayInvariant, PTL

=============================================================================

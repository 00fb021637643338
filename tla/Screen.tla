-------------------------------- MODULE Screen --------------------------------
(***************************************************************************)
(* What task_display draws, frame by frame, on the OLED panel and on the    *)
(* LED matrix: tasks/task_display.c over drivers/display.                   *)
(*                                                                          *)
(* The frame buffer is kept in cells of 8x8 pixels, the font's size; every  *)
(* text starts at a multiple of it.  A cell holds a numeral, the label it   *)
(* is part of, or nothing.  A colour is <<red, green, blue>>.               *)
(***************************************************************************)
EXTENDS Integers, Sequences

CONSTANTS
  Snapshots,   \* what the loop may find: [local, global, pending, syncing,
               \* status, turbo, flash, milestone]
  GlowTicks    \* MILESTONE_GLOW_TICKS

(* The scores and counts are uint32_t, and so are the sums shown of them.   *)
Uint32(n) == n \in Nat /\ n \div 2 <= 2147483647

ASSUME ScreenAssumption ==
  /\ GlowTicks \in 1..255
  /\ \A s \in Snapshots :
       /\ {s.local, s.global, s.pending} \subseteq Nat /\ Uint32(s.syncing)
       /\ Uint32(s.local + s.pending) /\ Uint32(s.global + s.pending)
       /\ {s.turbo, s.flash, s.milestone} \subseteq BOOLEAN

VARIABLES
  at, snap,            \* where the loop is, the snapshot of this frame
  oled,                \* the frame buffer, as last sent to the panel
  leds,                \* led_buffer, as last sent to the matrix
  phase, glow          \* rainbow_phase, milestone_glow_ticks

vars == <<at, snap, oled, leds, phase, glow>>

-----------------------------------------------------------------------------
(* ssd1306_i2c.c and display.c: the frame buffer.                           *)

Width == 128
Height == 64
Columns == Width \div 8
Cells == 0 .. Columns * (Height \div 8) - 1

Blank == ""

Cleared == [k \in Cells |-> Blank]

(* The first test of draw_char and draw_string: a whole glyph is left.      *)
Fits(x, y) == x <= Width - 8 /\ y <= Height - 8

(* The font has letters and numerals; anything else is a blank glyph.       *)
Glyph(char) == IF char \in {",", "-", " "} THEN Blank ELSE char

(* display_text(line, 0, text): the cells follow one another in the buffer, *)
(* row after row.                                                           *)
Text(buffer, line, text) ==
  [k \in Cells |->
    LET i == k - line * Columns + 1
    IN IF i \in 1..Len(text) /\ Fits(8 * (i - 1), 8 * line) THEN Glyph(text[i]) ELSE buffer[k]]

-----------------------------------------------------------------------------
(* task_display.c: the eight lines.                                         *)

Numerals == <<"0", "1", "2", "3", "4", "5", "6", "7", "8", "9">>

Figures(value, n) == [i \in 1..n |-> Numerals[1 + ((value \div 10^(n - i)) % 10)]]

Length(value) ==
  CHOOSE n \in 1..10 : (n < 10 => value < 10^n) /\ (n > 1 => value >= 10^(n - 1))

Plain(value) == Figures(value, Length(value))

Group_Unpadded(value) == <<",">> \o Plain(value % 1000)

Group(value) == <<",">> \o Figures(value % 1000, 3)

FormatNumber(value) ==
  IF value >= 1000000
  THEN Plain(value \div 1000000) \o Group(value \div 1000) \o Group(value)
  ELSE IF value >= 1000 THEN Plain(value \div 1000) \o Group(value) ELSE Plain(value)

Label(word, n) == [i \in 1..n |-> word]

Unsent(s) == s.status \in {"OFFLINE", "CONNECTING", "SYNCING"}

Shown(s, score) == score + IF Unsent(s) THEN s.pending ELSE 0

Lines(s) ==
  << Label("title", 20), Label("-", 20),
     Label("node", 9) \o FormatNumber(Shown(s, s.local)),
     Label("global", 9) \o FormatNumber(Shown(s, s.global)),
     << >>, Label("-", 20),
     IF s.status = "SYNCING" THEN Label("sending", 10) \o Plain(s.syncing)
                             ELSE Label("pending", 10) \o Plain(s.pending),
     CASE s.turbo -> Label("turbo", 20)
       [] ~s.turbo /\ s.status = "OFFLINE" -> Label("offline", 10)
       [] ~s.turbo /\ s.status = "CONNECTING" -> Label("connecting", 16)
       [] OTHER -> << >> >>

(* display_clear, the lines one after the other, display_show.              *)
Picture(s) ==
  LET lines == Lines(s)
      drawn[n \in 0..8] == IF n = 0 THEN Cleared ELSE Text(drawn[n - 1], n - 1, lines[n])
  IN drawn[8]

-----------------------------------------------------------------------------
(* ws2812.c: the matrix.                                                    *)

Leds == 0..24

Dark == <<0, 0, 0>>

SetAll(colour) == [k \in Leds |-> colour]

SetOne(matrix, k, colour) == IF k \in Leds THEN [matrix EXCEPT ![k] = colour] ELSE matrix

GetIndex(x, y) == (y * 5) + IF y % 2 = 0 THEN 4 - x ELSE x

(* Each numeral as its rows, from the bottom; the highest bit is the left.  *)
Bitmaps ==
  << <<14, 17, 17, 17, 14>>, <<14, 4, 4, 12, 4>>, <<31, 16, 31, 1, 31>>, <<31, 1, 31, 1, 31>>,
     <<1, 1, 31, 17, 17>>, <<31, 1, 31, 16, 31>>, <<31, 17, 31, 16, 31>>, <<8, 4, 2, 1, 31>>,
     <<31, 17, 31, 17, 31>>, <<31, 1, 31, 17, 31>> >>

Lit(digit, x, y) == (Bitmaps[digit + 1][y + 1] \div 2^(4 - x)) % 2 = 1

Before == SetAll(Dark)

(* led_matrix_draw_number: the old numeral is cleared, the new one mapped.  *)
DrawNumber(digit, colour) ==
  LET lit == {GetIndex(p[1], p[2]) : p \in {q \in (0..4) \X (0..4) : Lit(digit, q[1], q[2])}}
  IN [k \in Leds |-> IF k \in lit THEN colour ELSE Before[k]]

-----------------------------------------------------------------------------
(* task_display.c: the colours, in 8 bits.                                  *)

Byte(n) == n % 256

WheelColor_Short(pos) ==
  LET p == Byte(255 - pos)
      q == IF p < 85 THEN p ELSE IF p < 170 THEN p - 85 ELSE p - 85
  IN IF p < 85 THEN <<Byte(255 - q * 3), 0, Byte(q * 3)>>
     ELSE IF p < 170 THEN <<0, Byte(q * 3), Byte(255 - q * 3)>>
     ELSE <<Byte(q * 3), Byte(255 - q * 3), 0>>

WheelColor(pos) ==
  LET p == Byte(255 - pos)
      q == IF p < 85 THEN p ELSE IF p < 170 THEN p - 85 ELSE p - 170
  IN IF p < 85 THEN <<Byte(255 - q * 3), 0, Byte(q * 3)>>
     ELSE IF p < 170 THEN <<0, Byte(q * 3), Byte(255 - q * 3)>>
     ELSE <<Byte(q * 3), Byte(255 - q * 3), 0>>

Digit(s) == Shown(s, s.local) % 10

(* Gold while a milestone glows, then the rainbow of a turbo, then grey.    *)
Colour(s, glowing, hue) ==
  IF glowing > 0 THEN <<20, 14, 0>>
  ELSE IF ~s.turbo THEN <<8, 8, 8>>
  ELSE LET wheel == WheelColor(Byte(hue + Digit(s) * 12))
       IN [i \in 1..3 |-> Byte(wheel[i] \div 18 + 2)]

Number(s, glowing, hue) == DrawNumber(Digit(s), Colour(s, glowing, hue))

NextPhase == Byte(phase + 7)

-----------------------------------------------------------------------------
(* The loop.  Before the first frame the panel and the matrix are cleared.  *)

Init ==
  /\ at = "snapshot"
  /\ snap \in {s \in Snapshots : s.status = "CONNECTING"}
  /\ oled = [k \in Cells |-> Blank]
  /\ leds = SetAll(Dark)
  /\ phase = 0 /\ glow = 0

(* The text, then the matrix: the numeral, and over its centre the blue     *)
(* flash of a click or, in some of the frames while offline, a red dot.     *)
Render(s) ==
  LET number  == Number(s, glow, phase)
      glowing == IF glow > 0 THEN glow - 1 ELSE 0
      alert   == s.status = "OFFLINE" /\ ~s.turbo /\ glowing = 0
  IN
  /\ snap' = s
  /\ oled' = Picture(s)
  /\ glow' = glowing
  /\ phase' = IF glow = 0 /\ s.turbo THEN NextPhase ELSE phase
  /\ leds' \in IF s.flash THEN {SetOne(number, 12, <<0, 0, 15>>)}
               ELSE {number} \cup IF alert THEN {SetOne(number, 12, <<8, 0, 0>>)} ELSE {}
  /\ at' = IF s.flash THEN "blue" ELSE "snapshot"

Frame == at = "snapshot" /\ \E s \in Snapshots : ~s.milestone /\ Render(s)

(* A milestone makes the whole matrix flash before the frame goes on.       *)
Gold ==
  /\ at = "snapshot"
  /\ snap' \in {s \in Snapshots : s.milestone}
  /\ at' = "gold" /\ glow' = GlowTicks
  /\ leds' \in {SetAll(<<24, 16, 0>>), SetAll(Dark)}
  /\ UNCHANGED <<oled, phase>>

GoldFrame == at = "gold" /\ Render(snap)

(* After the flash the numeral is drawn again, in the colour of now.        *)
Redraw ==
  /\ at = "blue"
  /\ leds' = Number(snap, glow, phase)
  /\ at' = "snapshot"
  /\ UNCHANGED <<snap, oled, phase, glow>>

Next == Frame \/ Gold \/ GoldFrame \/ Redraw

Spec == Init /\ [][Next]_vars

-----------------------------------------------------------------------------
(* Properties.                                                              *)

Drawn == at \in {"snapshot", "blue"} /\ oled # [k \in Cells |-> Blank]

(* The number a reader finds on a line after the label, commas invisible.   *)
Read(line, first) ==
  LET value[c \in first - 1 .. Columns - 1] ==
        IF c < first THEN 0
        ELSE LET cell == oled[line * Columns + c]
             IN IF \E d \in 0..9 : Numerals[d + 1] = cell
                THEN value[c - 1] * 10 + (CHOOSE d \in 0..9 : Numerals[d + 1] = cell)
                ELSE value[c - 1]
  IN value[Columns - 1]

(* The figures of a score for which there is room after the label.          *)
Legible(value) ==
  CASE value < 1000000 -> value
    [] value >= 1000000 /\ value < 10000000 -> value \div 100
    [] value >= 10000000 /\ value < 1000000000 -> value \div 1000
    [] OTHER -> value \div 10000

(* Both scores and the clicks to send or being sent can be read off the     *)
(* panel: all of them below a million, the first figures of a score beyond. *)
(* Where this frame writes nothing, nothing stands of an earlier frame or   *)
(* of a line that is too long (format_number, draw_char).                   *)
PanelReadable ==
  Drawn =>
    /\ Read(2, 9) = Legible(Shown(snap, snap.local))
    /\ Read(3, 9) = Legible(Shown(snap, snap.global))
    /\ LET count == IF snap.status = "SYNCING" THEN snap.syncing ELSE snap.pending
       IN count < 1000000 => Read(6, 10) = count
    /\ \A line \in {1, 4, 5}, c \in 0 .. Columns - 1 : oled[line * Columns + c] = Blank
    /\ \A c \in 0 .. Columns - 1 :
         /\ (oled[7 * Columns + c] = "turbo") = snap.turbo
         /\ snap.status \in {"ONLINE", "SYNCING"} /\ ~snap.turbo => oled[7 * Columns + c] = Blank

(* Where an LED of the strip sits: it runs from the right in the lowest     *)
(* row, back in the next, and so on (comment at ws2812.c:107-109).          *)
ColumnOf(k) == IF (k \div 5) % 2 = 0 THEN 4 - (k % 5) ELSE k % 5

(* The rainbow as it is meant: around a circle of 255 steps each primary    *)
(* has a peak and fades to nothing at the peaks of the others.              *)
Intensity(p, peak) ==
  LET apart == IF p > peak THEN p - peak ELSE peak - p
      near  == IF apart < 255 - apart THEN apart ELSE 255 - apart
  IN IF near < 85 THEN 255 - 3 * near ELSE 0

Rainbow(hue) ==
  LET p == 255 - (hue % 256)
  IN << 2 + Intensity(p, 0) \div 18, 2 + Intensity(p, 170) \div 18, 2 + Intensity(p, 85) \div 18 >>

(* The matrix shows the last numeral of the score on the panel, upright and *)
(* complete, whatever it showed before; the centre, which alerts and clicks *)
(* paint over, comes back.  In no phase does the 8-bit arithmetic of        *)
(* wheel_color leave the rainbow.                                           *)
MatrixMatchesPanel ==
  Drawn =>
    LET value == Shown(snap, snap.local)
        digit == (IF value < 1000000 THEN Read(2, 9) ELSE value) % 10
    IN \A k \in Leds \ IF at = "blue" \/ leds[12] = <<8, 0, 0>> THEN {12} ELSE {} :
         /\ (leds[k] # Dark) = Lit(digit, ColumnOf(k), k \div 5)
         /\ snap.turbo /\ leds[k] \notin {Dark, <<20, 14, 0>>} =>
              leds[k] \in {Rainbow(phase + digit * 12), Rainbow(phase - 7 + digit * 12)}

=============================================================================

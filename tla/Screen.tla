------------------------------- MODULE Screen --------------------------------
(***************************************************************************)
(* The video memory from both sides: the sample firmware's terminal, which *)
(* writes it through stores (terminal.c, terminal.h), and the GUI, which   *)
(* draws it (Gui::renderLcdDisplay).  The numbers are the code's.          *)
(*                                                                         *)
(* The memory is the sequence of the blocks written to it, the last one    *)
(* first; a byte is the value the last block that covers it gave it.       *)
(***************************************************************************)
EXTENDS Integers, Sequences, SequencesExt

CONSTANT SampledPixels      \* the pixels looked at, numbered row by row

SCREEN_WIDTH == 512
SCREEN_HEIGHT == 288
TEXT_WIDTH == 64
TEXT_HEIGHT == 21
VIDEO_SIZE == 16 + TEXT_HEIGHT * TEXT_WIDTH + SCREEN_WIDTH * SCREEN_HEIGHT

VGA_TEXT_MODE == "text mode"
GRAPHICS_MODE == "graphics mode"

ASSUME PixelAssumption == SampledPixels \subseteq 0 .. SCREEN_WIDTH * SCREEN_HEIGHT - 1

NUL == <<"nul", 0>>

(* A block is [offset, len, content].                                       *)
Covers(b, a) == b.offset <= a /\ a < b.offset + b.len

ByteAt(vram, a) ==
    LET n == SelectInSeq(vram, LAMBDA b : Covers(b, a))
    IN  IF n = 0 THEN NUL ELSE <<vram[n].content, a - vram[n].offset>>

-----------------------------------------------------------------------------
(* The firmware.                                                            *)

VIDEO_MEMORY == 0
TEXT_BUFFER == 16
GRAPHICS_BUFF == 1360
PIXEL_MAX == 512 * 288

(* Bus::write takes an address up to and with the one past the device's     *)
(* buffer.  The first store beyond is refused, and the exception ends the   *)
(* program: the rest of the block and later calls never happen.             *)
Stores(state, offset, len, size, content) ==
    LET taken == IF offset + len <= VIDEO_SIZE + size THEN len
                 ELSE (VIDEO_SIZE - offset) + size
    IN  IF state.faulted THEN state
        ELSE [state EXCEPT
                !.vram = <<[offset |-> offset, len |-> taken, content |-> content]>> \o @,
                !.faulted = taken < len]

init_terminal == [vram |-> << >>, cursor_index |-> 0, faulted |-> FALSE]

print_str(state, str, len) ==
    [Stores(state, TEXT_BUFFER + state.cursor_index, len, 1, str) EXCEPT !.cursor_index = @ + len]

(* The cursor goes down one line, and stays in its column.                  *)
print_str_line(state, str, len) ==
    [print_str(state, str, len) EXCEPT !.cursor_index = @ + 64]

enable_text_mode(state) == Stores(state, VIDEO_MEMORY, 1, 1, VGA_TEXT_MODE)
enable_graphics_mode(state) == Stores(state, VIDEO_MEMORY, 1, 1, GRAPHICS_MODE)

init_blue_screen(state) == Stores(state, GRAPHICS_BUFF, 4 * PIXEL_MAX, 4, "blue screen")

(* What a program asks of the terminal: no text so long that four of them   *)
(* reach the end of the video memory.                                       *)
TerminalCalls ==
    [name : {"enable_text_mode", "enable_graphics_mode", "init_blue_screen"}] \cup
    [name : {"print_str", "print_str_line"}, str : STRING, len : 0 .. VIDEO_SIZE \div 4]

Call(state, call) ==
    CASE call.name = "print_str" -> print_str(state, call.str, call.len)
      [] call.name = "print_str_line" -> print_str_line(state, call.str, call.len)
      [] call.name = "enable_text_mode" -> enable_text_mode(state)
      [] call.name = "enable_graphics_mode" -> enable_graphics_mode(state)
      [] call.name = "init_blue_screen" -> init_blue_screen(state)

kernel_main(calls) == FoldLeft(Call, init_terminal, calls)

-----------------------------------------------------------------------------
(* The GUI.                                                                 *)

videoMode(vram) == ByteAt(vram, 0)[1]

(* Not the code: the text is taken from the start of the buffer.            *)
BugvgaTextBuffer == 0

vgaTextBuffer == 16

vramBuffer == 16 + TEXT_WIDTH * TEXT_HEIGHT

Character(byte) == IF byte[1] = "nul" THEN " " ELSE byte

(* The lines of text, the colors of the pixels looked at (the texture takes *)
(* four bytes for each, beyond the device's buffer whatever lies there), or *)
(* nothing.                                                                 *)
renderLcdDisplay(vram) ==
    CASE videoMode(vram) = VGA_TEXT_MODE ->
            [i \in 0 .. TEXT_HEIGHT - 1 |-> [j \in 0 .. TEXT_WIDTH - 1 |->
                Character(ByteAt(vram, vgaTextBuffer + TEXT_WIDTH * i + j))]]
      [] videoMode(vram) = GRAPHICS_MODE ->
            [p \in SampledPixels |-> [c \in 0 .. 3 |->
                LET offset == vramBuffer + 4 * p + c
                IN  IF offset < VIDEO_SIZE THEN ByteAt(vram, offset) ELSE <<"outside", offset>>]]
      [] OTHER -> << >>
=============================================================================

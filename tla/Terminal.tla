-------------------------------- MODULE Terminal --------------------------------
(***************************************************************************)
(* TerminalWriter of terminal_out.rs: the cursor and what is drawn where.    *)
(* A writer draws text and pictures into its window line by line; at the     *)
(* bottom it goes on at the top, over the oldest lines.  Pixels are pairs    *)
(* <<x, y>> relative to the window; colours are left out.                    *)
(* A font is its height; all characters of a font have the same width.       *)
(***************************************************************************)
EXTENDS Integers, FiniteSets, SequencesExt

CONSTANTS
    Font,       \* the heights of the fonts
    InitialFont, \* FontSize::Size24
    CharWidth,  \* get_raster_width of each font
    TabSize,    \* TAB_SIZE
    Picture     \* the pictures printed: [width, height]

ASSUME TerminalAssumption ==
    /\ Font \subseteq Nat \ {0} /\ InitialFont \in Font
    /\ CharWidth \in [Font -> Nat \ {0}] /\ TabSize \in Nat \ {0}
    /\ \A p \in Picture : p.width \in Nat \ {0} /\ p.height \in Nat

\* A writer has info (its window), font_height (= line_height), x_pos, y_pos, and the
\* pixels drawn on this line (now) and on earlier ones (old).

Rows(from, to, width) == (0 .. width - 1) \X (from .. to - 1)

\* write_pixel on each of the pixels, with ink or with the clear color
Draw(t, pixels) == [t EXCEPT !.now = @ \cup pixels, !.old = @ \ pixels]

\* Mutant: the bottom is reached only when the next line starts outside the window
newline_late_wrap(t) ==
    LET below == t.y_pos + t.font_height
        top == IF below > t.info.height THEN 0 ELSE below
        end == Min({top + 2 * t.font_height, t.info.height})
    IN  [t EXCEPT !.x_pos = 0, !.y_pos = top,
                  !.now = {}, !.old = (@ \cup t.now) \ Rows(top, end, t.info.width)]

\* Mutant: only the line after the new one is wiped
newline_wipes_next(t) ==
    LET below == t.y_pos + t.font_height
        top == IF below + t.font_height > t.info.height THEN 0 ELSE below
        end == Min({top + 2 * t.font_height, t.info.height})
    IN  [t EXCEPT !.x_pos = 0, !.y_pos = top, !.now = {},
                  !.old = (@ \cup t.now) \ Rows(top + t.font_height, end, t.info.width)]

\* go to the next line, or to the top, and wipe it and the line after it
newline(t) ==
    LET below == t.y_pos + t.font_height
        top == IF below + t.font_height > t.info.height THEN 0 ELSE below
        end == Min({top + 2 * t.font_height, t.info.height})
    IN  [t EXCEPT !.x_pos = 0, !.y_pos = top,
                  !.now = {}, !.old = (@ \cup t.now) \ Rows(top, end, t.info.width)]

carriage_return(t) == [t EXCEPT !.x_pos = 0]

print_rasterized_char(t) ==
    Draw(t, (t.x_pos .. t.x_pos + CharWidth[t.font_height] - 1)
            \X (t.y_pos .. t.y_pos + t.font_height - 1))

write_raw_char(t) ==
    LET full == t.x_pos + CharWidth[t.font_height] >= t.info.width
        drawn == print_rasterized_char(IF full THEN newline(t) ELSE t)
    IN  [drawn EXCEPT !.x_pos = @ + CharWidth[t.font_height]]

tab(t) ==
    LET char_count == t.x_pos \div CharWidth[t.font_height]
        final_char_count == ((char_count + 1 + TabSize - 1) \div TabSize) * TabSize
        new_spaces == IF t.x_pos = 0 THEN 4 ELSE final_char_count - char_count
    IN  FoldSeq(LAMBDA i, u : write_raw_char(u), t, [i \in 1..new_spaces |-> i])

\* one row of the picture; r holds the writer and y_offset
print_row(r, x_offset, width) ==
    LET t == r.t
        xs == {x \in x_offset .. x_offset + width - 1 : x < t.info.width}
        drawn == Draw(t, xs \X {t.y_pos + r.y_offset})
    IN  IF r.y_offset + 1 >= t.font_height
        THEN [t |-> newline(drawn), y_offset |-> 0]
        ELSE [t |-> drawn, y_offset |-> r.y_offset + 1]

print_pixels(t, p) ==
    LET r == FoldSeq(LAMBDA i, q : print_row(q, t.x_pos, p.width),
                     [t |-> t, y_offset |-> 0], [i \in 1..p.height |-> i])
    IN  IF r.y_offset # 0 THEN newline(r.t) ELSE r.t

\* every pixel gets the clear color; None as font keeps the font
clear(t, font_height) ==
    [t EXCEPT !.x_pos = 0, !.y_pos = 0, !.now = {}, !.old = {}, !.font_height = font_height]

set_window_info(t, info, font_height) == clear([t EXCEPT !.info = info], font_height)

TerminalWriter_new(info) ==
    [info |-> info, font_height |-> InitialFont,
     x_pos |-> 0, y_pos |-> 0, now |-> {}, old |-> {}]
================================================================================

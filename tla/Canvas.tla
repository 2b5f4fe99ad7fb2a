------------------------------- MODULE Canvas -------------------------------
(***************************************************************************)
(* The back buffer of game_render.c as operators on a picture: a function  *)
(* from the cells of the screen to a character and its two colours.  What  *)
(* the code does cell by cell in loops is one step here.                   *)
(***************************************************************************)
EXTENDS Integers, Sequences

CONSTANTS SCREEN_WIDTH, SCREEN_HEIGHT, STATUS_TOP_ROW, STATUS_BOTTOM_ROW,
          LayerOfRow(_)           \* the layer of the ground that a row is in, 0 for none

BLACK == 0
BLUE == 1
GREEN == 2
CYAN == 3
RED == 4
MAGENTA == 5
BROWN == 6
LIGHT_GRAY == 7
DARK_GRAY == 8
LIGHT_CYAN == 11
LIGHT_RED == 12
LIGHT_MAGENTA == 13
YELLOW == 14
WHITE == 15

ScreenCells == (0..(SCREEN_WIDTH - 1)) \X (0..(SCREEN_HEIGHT - 1))

render_is_valid_pos(p) == p \in ScreenCells

render_make_color(fg, bg) == [fg |-> fg, bg |-> bg]
ScreenCell(ch, color) == [ch |-> ch, fg |-> color.fg, bg |-> color.bg]

SPACE == " "

\* The earth, by its layers; black everywhere else, and gray to write with on the border.
render_get_layer_color(y) ==
  LET layer == LayerOfRow(y)
  IN render_make_color(IF layer = 5 THEN DARK_GRAY ELSE WHITE,
                       IF layer \in 1..4 THEN <<BROWN, RED, MAGENTA, BLUE>>[layer] ELSE BLACK)

-----------------------------------------------------------------------------
(* Drawing *)

render_clear_buffer == [p \in ScreenCells |-> ScreenCell(SPACE, render_get_layer_color(p[2]))]

\* The cells of S, as far as they are on the screen, get what F gives.
Draw(pic, S, F(_)) == [p \in ScreenCells |-> IF p \in S THEN F(p) ELSE pic[p]]

render_set_cell(pic, p, cell) == IF render_is_valid_pos(p) THEN [pic EXCEPT ![p] = cell] ELSE pic
=============================================================================

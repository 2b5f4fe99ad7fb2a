------------------------------ MODULE Numbers -------------------------------
(***************************************************************************)
(* The conversions of numbers to text: itoa and the %d and %u of prints    *)
(* (libc.c), utoa and itoa_hex (utils.c), the clock of kernel_helpers.c    *)
(* and the numbers of the game (game_ui.c, game_render.c), each against    *)
(* the same reference: the text read back.  Not every text gives back its  *)
(* number; the properties say which do.                                    *)
(*                                                                         *)
(* A text is a sequence of characters; a digit is its value, and numbers   *)
(* below zero are the characters before '0'.  An int has WIDTH bits.       *)
(***************************************************************************)
EXTENDS Integers, Sequences
LOCAL INSTANCE SequencesExt

CONSTANTS
  WIDTH,                          \* the bits of an int
  RATE_STEP,                      \* the distance of the rates that are tried
  TICKS_PER_SECOND,
  Beginnings, MAX_TICKS           \* the clock is followed for MAX_TICKS from each of these seconds

ASSUME NumbersAssumption == WIDTH \in {4, 8, 12, 16} /\ TICKS_PER_SECOND \in Nat \ {0}

VARIABLES
  number,                         \* the int to convert
  zeos_ticks                      \* the time to show

vars == <<number, zeos_ticks>>

INT_MAX == 2^(WIDTH - 1) - 1
INT_MIN == -(2^(WIDTH - 1))
Unsigned(a) == a % 2^WIDTH

MINUS == 100
SPACE == 101
COLON == 102
HEX == 103                        \* the x of 0x

-----------------------------------------------------------------------------
(* The conversions *)

\* The digits of a, the lowest first, as the loops take them off.
LowDigits[a \in Nat] == IF a = 0 THEN <<>> ELSE <<a % 10>> \o LowDigits[a \div 10]

utoa(a) == IF a = 0 THEN <<0>> ELSE Reverse(LowDigits[a])

\* The loop does not run for a negative number.
itoa(a) == IF a = 0 THEN <<0>> ELSE IF a < 0 THEN <<>> ELSE Reverse(LowDigits[a])

\* Four bits at a time from the right, always the same number of digits.
itoa_hex(a) ==
  <<0, HEX>> \o Reverse([i \in 1..(WIDTH \div 4) |-> (Unsigned(a) \div 16^(i - 1)) % 16])

\* The sign is taken off in an int, where the least one has no opposite.
prints_d_Signed(val) ==
  LET v == IF val < 0 THEN (IF val = INT_MIN THEN INT_MIN ELSE -val) ELSE val
  IN (IF val < 0 THEN <<MINUS>> ELSE <<>>) \o (IF v <= 0 THEN <<0>> ELSE Reverse(LowDigits[v]))

\* The sign is taken off as an unsigned number.
prints_d(val) ==
  LET uval == IF val < 0 THEN Unsigned(-Unsigned(val)) ELSE val
  IN (IF val < 0 THEN <<MINUS>> ELSE <<>>) \o utoa(uval)

prints_u(val) == utoa(Unsigned(val))

\* What "if (negative) number = -number" may leave.  The least int has no opposite: the
\* instruction does not change it, and the compiler may go on as if it were positive.
Magnitudes(n) == IF n >= 0 THEN {n} ELSE IF n = INT_MIN THEN {INT_MIN, -INT_MIN} ELSE {-n}

\* A digit where the number has one, and where it has none padding, or in the last place what
\* last says.
Places(v, digits, pad, last) ==
  [i \in 1..digits |-> LET w == v \div 10^(digits - i)
                       IN IF w > 0 THEN w % 10 ELSE IF i = digits THEN last ELSE pad]

\* The first position that is not a space, but the last one.
Shown(b) == {i \in 1..(Len(b) - 1) : b[i] # SPACE}
FirstShown(b) == CHOOSE i \in Shown(b) : \A j \in Shown(b) : i <= j

\* The texts it may make.  The last place always has what the first remainder gives; a sign has
\* no place of its own when the others are taken.
ui_number_to_string(n, digits, pad) ==
  {LET b == Places(v, digits, pad, IF v < 0 THEN -((-v) % 10) ELSE 0)
   IN IF n >= 0 \/ pad # SPACE \/ Shown(b) = {} THEN b
      ELSE [b EXCEPT ![IF FirstShown(b) > 1 THEN FirstShown(b) - 1 ELSE 1] = MINUS] : v \in Magnitudes(n)}

\* The texts, and whether the sign is written to the byte before the buffer.
render_number_padded_char(n, digits, pad) ==
  {LET b == Places(v, digits, pad, pad)
       signed == n < 0 /\ pad = SPACE /\ Shown(b) # {}
   IN [text |-> IF signed /\ FirstShown(b) > 1 THEN [b EXCEPT ![FirstShown(b) - 1] = MINUS] ELSE b,
       outside |-> signed /\ FirstShown(b) = 1] : v \in Magnitudes(n)}

Digit(v, k) == (v \div 10^k) % 10

\* "SSSS:MMM"
cached_time(t) ==
  LET seconds == (t \div TICKS_PER_SECOND) % 10000
      ms == ((t % TICKS_PER_SECOND) * 1000) \div TICKS_PER_SECOND
  IN <<Digit(seconds, 3), Digit(seconds, 2), Digit(seconds, 1), Digit(seconds, 0), COLON,
       Digit(ms, 2), Digit(ms, 1), Digit(ms, 0)>>

\* The time of the game: as above, but that it stops at 9999 seconds.
ui_draw_time(t) ==
  LET secs == IF t \div TICKS_PER_SECOND > 9999 THEN 9999 ELSE t \div TICKS_PER_SECOND
      millis == ((t % TICKS_PER_SECOND) * 1000) \div TICKS_PER_SECOND
  IN <<Digit(secs, 3), Digit(secs, 2), Digit(secs, 1), Digit(secs, 0), COLON,
       Digit(millis, 2), Digit(millis, 1), Digit(millis, 0)>>

\* Five places, without zeros on the left.
cached_fps(current_fps) ==
  LET fps == IF current_fps > 99999 THEN 99999 ELSE current_fps
  IN [i \in 1..5 |-> IF fps >= 10^(5 - i) \/ i = 5 THEN Digit(fps, 5 - i) ELSE SPACE]

-----------------------------------------------------------------------------
(* Every int in turn, and time going on *)

Init == number = 1 /\ zeos_ticks \in {b * TICKS_PER_SECOND : b \in Beginnings}

Convert == number' = (IF number = INT_MAX THEN INT_MIN ELSE number + 1) /\ UNCHANGED zeos_ticks
clock_routine ==
  /\ \E b \in Beginnings : zeos_ticks \in (b * TICKS_PER_SECOND)..(b * TICKS_PER_SECOND + MAX_TICKS - 1)
  /\ zeos_ticks' = zeos_ticks + 1 /\ UNCHANGED number

Next == Convert \/ clock_routine
Spec == Init /\ [][Next]_vars

-----------------------------------------------------------------------------
(* Properties.  Value is what a reader takes a text for; a text is Proper  *)
(* when it has a digit, and nothing but one sign or spaces before.         *)

Value(s, base) ==
  LET n == FoldLeft(LAMBDA v, c : IF c \in 0..15 THEN v * base + c ELSE v, 0, s)
  IN IF \E i \in 1..Len(s) : s[i] = MINUS THEN -n ELSE n

Proper(s) ==
  /\ Len(s) > 0 /\ s[Len(s)] \in 0..15
  /\ \A i \in 1..Len(s) : s[i] \in 0..15 => \A j \in i..Len(s) : s[j] \in 0..15
  /\ \A i, j \in 1..Len(s) : s[i] = MINUS /\ j < i => s[j] = SPACE

Reads(s, n) == Proper(s) /\ Value(s, 10) = n

\* The %d and %u of prints: every int, the least one included, is read back as it was.
PrintsReadsBack == Reads(prints_d(number), number) /\ Reads(prints_u(number), Unsigned(number))

\* utoa, of which printk_color_fmt makes its %d: no digit is lost or turned around, and a number
\* has no zero before it.  itoa gives back what is not negative, and nothing else.
UtoaReadsBack ==
  LET s == utoa(Unsigned(number))
  IN /\ Reads(s, Unsigned(number)) /\ (Len(s) > 1 => s[1] # 0)
     /\ Reads(itoa(number), number) <=> number >= 0

\* The addresses of a page fault: eight digits that give back the address.
HexReadsBack ==
  LET s == itoa_hex(number) IN Value(SubSeq(s, 3, Len(s)), 16) = Unsigned(number)

\* The numbers below zero that keep their sign in so many places: a number of one digit does
\* not, the loop that looks for the first digit stopping before the last place, and the least
\* int does not on every build.
KeepsSign(n, digits) == n \in -(10^(digits - 1) - 1)..(-10) /\ n # INT_MIN

\* The numbers of the game.  ui_number_to_string has as many places as asked and shows in them the
\* lowest digits of a number that is not negative, zero as one digit; render_number the same, but
\* zero as nothing.  Padded with spaces, a negative number is given back when it keeps its sign;
\* padded with zeros it never is.  render_number writes the sign before its buffer when
\* a number of two places or more leaves no room for it, and only then.
UiReadsBack ==
  \A digits \in 1..4, pad \in {SPACE, 0} :
    LET ui == ui_number_to_string(number, digits, pad)
        game == render_number_padded_char(number, digits, pad)
        Given(s) == Reads(s, number % 10^digits)
    IN /\ \A s \in ui : Len(s) = digits
       /\ number >= 0 => \A s \in ui : Given(s)
       /\ number >= 0 => \A g \in game : ~g.outside /\ (Given(g.text) <=> number > 0 \/ pad = 0)
       /\ number < 0 => /\ (\A s \in ui : Reads(s, number)) <=> pad = SPACE /\ KeepsSign(number, digits)
                        /\ (\A g \in game : Reads(g.text, number)) <=> pad = SPACE /\ KeepsSign(number, digits)
                        /\ (\E g \in game : g.outside) <=> pad = SPACE /\ digits > 1 /\ -number >= 10^(digits - 1)

\* The rate that is shown, in five places, is the rate, up to what fits.
RateReadsBack ==
  LET r == Unsigned(number) * RATE_STEP IN Reads(cached_fps(r), IF r > 99999 THEN 99999 ELSE r)

\* The second and the millisecond that are shown, as one number.
Time(s) == Value(SubSeq(s, 1, 4), 10) * 1000 + Value(SubSeq(s, 6, 8), 10)

\* The time that is shown goes on from every tick to the next, but that it starts from zero after
\* 10000 seconds; its second changes every TICKS_PER_SECOND ticks.  The clock of the game shows the
\* same for 10000 seconds; after them its second stays and its milliseconds go round.
TimeGoesOn ==
  LET second == zeos_ticks \div TICKS_PER_SECOND
      now == cached_time(zeos_ticks)
      next == cached_time(zeos_ticks + 1)
      game == ui_draw_time(zeos_ticks)
  IN /\ IF (zeos_ticks + 1) % (10000 * TICKS_PER_SECOND) = 0 THEN Time(next) = 0 ELSE Time(now) < Time(next)
     /\ Time(now) \div 1000 = second % 10000
     /\ IF second < 10000 THEN game = now
        ELSE Time(game) \div 1000 = 9999 /\ Time(game) % 1000 = Time(now) % 1000

\* Of every text that the kernel, the library and the game make of a number: whether it is read
\* back as the number.
TextsReadBack ==
  UtoaReadsBack /\ PrintsReadsBack /\ HexReadsBack /\ UiReadsBack /\ RateReadsBack /\ TimeGoesOn
=============================================================================

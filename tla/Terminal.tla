------------------------------ MODULE Terminal ------------------------------
(***************************************************************************)
(* The terminal of kernel/util.c: putc() keeps a buffer of n_lines strings *)
(* of n_chars_in_line characters and draws on the frame buffer.  Pixels    *)
(* are abstracted to character cells: drawing sets pixels and clears none, *)
(* so a cell is the set of glyphs drawn in it since the last fill().       *)
(*                                                                         *)
(* text is not in the code.  It is what the user of the terminal expects:  *)
(* the last n_lines lines of what was printed, wrapped.                    *)
(***************************************************************************)
EXTENDS Integers, Sequences

CONSTANTS
  Glyphs,              \* characters draw_char() draws
  Blanks,              \* characters it refuses (code outside the font)
  FbLines, FbChars,    \* the frame buffer's height and width in characters
  MaxLines, MaxChars   \* MAX_LINES, MAX_CHARS_IN_LINE

Nul == "nul"
NL  == "nl"
Chars == Glyphs \union Blanks

ASSUME CharAssumption == Nul \notin Chars /\ NL \notin Chars /\ Glyphs \cap Blanks = {}
ASSUME SizeAssumption ==
  \A size \in {FbLines, FbChars, MaxLines, MaxChars} : size \in Nat \ {0}

VARIABLES
  terminal_buf,        \* terminal_buf[r][k]: character k of row r
  cur_line,
  cur_pos,             \* cur_pos_in_line
  screen,              \* screen[r][k]: the glyphs in the cell
  text                 \* text[r]: the line of text row r stands for

vars == <<terminal_buf, cur_line, cur_pos, screen, text>>

-----------------------------------------------------------------------------
\* init_draw(): as many rows and columns as fit both the screen and the buffer.
Clamp(n, max) == IF n > max THEN max ELSE n
NLines == Clamp(FbLines, MaxLines)
NChars == Clamp(FbChars, MaxChars)

Rows == 0 .. NLines-1
Cols == 0 .. NChars-1
Str  == [0 .. MaxChars -> Chars \union {Nul}]
Blank == [k \in Cols |-> {}]

\* my_strcpy(s, t): t up to and including its NUL; s keeps what lies behind.
InString(t, k) == \A j \in 0 .. k-1 : t[j] # Nul
Strcpy(s, t) == [k \in 0 .. MaxChars |-> IF InString(t, k) THEN t[k] ELSE s[k]]

EmptyString == [k \in 0 .. MaxChars |-> Nul]

ShiftedShort(buf) ==
  [r \in Rows |-> Strcpy(buf[r], IF r+2 < NLines THEN buf[r+1] ELSE EmptyString)]
Shifted(buf) ==
  [r \in Rows |-> Strcpy(buf[r], IF r+1 < NLines THEN buf[r+1] ELSE EmptyString)]

DrawChar(cells, c) == IF c \in Glyphs THEN cells \union {c} ELSE cells

\* redraw_terminal(): fill, then every row up to its NUL.
Redrawn(buf) ==
  [r \in Rows |-> [k \in Cols |->
     IF InString(buf[r], k+1) THEN DrawChar({}, buf[r][k]) ELSE {}]]

-----------------------------------------------------------------------------
Init ==            \* static storage, and the fill() of init_draw()
  /\ terminal_buf = [r \in Rows |-> EmptyString]
  /\ cur_line = 0
  /\ cur_pos = 0
  /\ screen = [r \in Rows |-> Blank]
  /\ text = [r \in Rows |-> << >>]

BreaksLate(c) == c = NL \/ cur_pos = NChars + 1
Breaks(c)     == c = NL \/ cur_pos = NChars

Place(c) ==        \* the character fits the current line
  /\ ~Breaks(c)
  /\ screen' = [screen EXCEPT ![cur_line][cur_pos] = DrawChar(@, c)]
  /\ terminal_buf' = [terminal_buf EXCEPT ![cur_line][cur_pos] = c]
  /\ cur_pos' = cur_pos + 1
  /\ text' = [text EXCEPT ![cur_line] = Append(@, c)]
  /\ UNCHANGED cur_line

LineOf(c) == IF c = NL THEN << >> ELSE <<c>>

NextLine(c) ==     \* a line break with a line left below
  /\ Breaks(c)
  /\ cur_line + 1 # NLines
  /\ cur_line' = cur_line + 1
  /\ cur_pos' = Len(LineOf(c))
  /\ IF c = NL THEN UNCHANGED <<screen, terminal_buf>>
     ELSE /\ screen' = [screen EXCEPT ![cur_line+1][0] = DrawChar(@, c)]
          /\ terminal_buf' = [terminal_buf EXCEPT ![cur_line+1][0] = c]
  /\ text' = [text EXCEPT ![cur_line+1] = LineOf(c)]

\* The buffer after shifting, and after storing c in the freed line.
Stored(c) ==
  IF c = NL THEN Shifted(terminal_buf)
  ELSE [Shifted(terminal_buf) EXCEPT ![cur_line][0] = c]
RedrawnTooEarly(c) == Redrawn(Shifted(terminal_buf))
RedrawnAfter(c)    == Redrawn(Stored(c))

Scroll(c) ==       \* a line break on the last line
  /\ Breaks(c)
  /\ cur_line + 1 = NLines
  /\ terminal_buf' = Stored(c)
  /\ screen' = RedrawnAfter(c)
  /\ cur_pos' = Len(LineOf(c))
  /\ text' = [r \in Rows |-> IF r+1 < NLines THEN text[r+1] ELSE LineOf(c)]
  /\ UNCHANGED cur_line

Putc(c) == Place(c) \/ NextLine(c) \/ Scroll(c)

Next == \E c \in Chars \union {NL} : Putc(c)

Spec == Init /\ [][Next]_vars

-----------------------------------------------------------------------------
\* The comments at the terminal's state: "always < n_lines" and "always <=
\* n_chars_in_line".
TypeOK ==
  /\ terminal_buf \in [Rows -> Str]
  /\ cur_line \in Rows
  /\ cur_pos \in 0 .. NChars
  /\ screen \in [Rows -> [Cols -> SUBSET Glyphs]]
  /\ text \in [Rows -> Seq(Chars)]

\* Nothing is written behind column n_chars_in_line: every row keeps the NUL
\* that ends my_strcpy() and redraw_terminal() within the row.
RowsTerminated == \A r \in Rows, k \in NChars .. MaxChars : terminal_buf[r][k] = Nul

\* Whatever was wrapped, shifted and overwritten, each row of the buffer begins
\* with the line of text it stands for.
TextKept ==
  \A r \in Rows : \A k \in 1 .. Len(text[r]) : terminal_buf[r][k-1] = text[r][k]

\* Every visible character of the text is drawn in its cell.  (Its cell may show
\* more: see LinesShift.)
TextShown ==
  \A r \in Rows : \A k \in 1 .. Len(text[r]) :
    text[r][k] \in Glyphs => text[r][k] \in screen[r][k-1]

\* The comment "shift lines": on a scroll each line of the screen shows what the
\* line below it showed.  It does not: my_strcpy(..., "") leaves the old text of
\* the last line behind its NUL, and a shorter line written over it brings the
\* rest of the old one back.
LinesShift ==
  [][\A c \in Chars \union {NL} :
       Scroll(c) => \A r \in Rows : r+1 < NLines => screen'[r] = screen[r+1]]_vars
=============================================================================

-------------------------- MODULE Terminal_proofs ---------------------------
(***************************************************************************)
(* Proofs about Terminal, for every frame buffer, buffer size and          *)
(* character set.  What TextKept and TextShown need: the cursor stands     *)
(* behind the current line's text, no line is longer than a row, and the   *)
(* rows below the cursor have not been used.                               *)
(***************************************************************************)
EXTENDS Terminal, TLAPS

CursorInv ==
  /\ cur_pos = Len(text[cur_line])
  /\ \A r \in Rows : Len(text[r]) <= NChars
  /\ \A r \in Rows : r > cur_line => text[r] = << >>

IInv == TypeOK /\ CursorInv /\ RowsTerminated /\ TextKept /\ TextShown

\* The sizes init_draw() derives are positive and fit the buffer.
LEMMA Sizes ==
  /\ NLines \in Nat \ {0}
  /\ NChars \in Nat \ {0}
  /\ MaxLines \in Nat /\ NLines <= MaxLines
  /\ MaxChars \in Nat /\ NChars <= MaxChars
BY SizeAssumption DEF NLines, NChars, Clamp

\* my_strcpy() returns a row, and keeps the NUL behind column n_chars_in_line
\* when both strings have it.
LEMMA StrcpyRow ==
  ASSUME NEW s \in Str, NEW t \in Str
  PROVE  /\ Strcpy(s, t) \in Str
         /\ \A k \in 0 .. MaxChars :
              s[k] = Nul /\ t[k] = Nul => Strcpy(s, t)[k] = Nul
         /\ \A k \in 0 .. MaxChars : InString(t, k) => Strcpy(s, t)[k] = t[k]
BY DEF Strcpy, Str

LEMMA EmptyRow == EmptyString \in Str
BY DEF EmptyString, Str

\* A buffer row whose text is a sequence of characters holds a string at least
\* as long as the text.
LEMMA TextInString ==
  ASSUME TypeOK, CursorInv, TextKept, NEW r \in Rows, NEW k \in 0 .. Len(text[r])
  PROVE  InString(terminal_buf[r], k)
<1>1. text[r] \in Seq(Chars) /\ Len(text[r]) \in Nat
  BY DEF TypeOK
<1>2. SUFFICES ASSUME NEW j \in 0 .. k-1 PROVE terminal_buf[r][j] # Nul
  BY DEF InString
<1>3. j+1 \in 1 .. Len(text[r])
  BY <1>1
<1>4. terminal_buf[r][j] = text[r][j+1]
  <2>1. terminal_buf[r][(j+1)-1] = text[r][j+1]
    BY <1>3 DEF TextKept
  <2>2. QED BY <2>1
<1>5. text[r][j+1] \in Chars
  BY <1>1, <1>3
<1>6. QED BY <1>4, <1>5, CharAssumption

-----------------------------------------------------------------------------
LEMMA InitInv == ASSUME Init PROVE IInv
<1>1. TypeOK
  BY Sizes, EmptyRow DEF Init, TypeOK, Blank, Rows, Cols
<1>2. CursorInv
  BY Sizes DEF Init, CursorInv, Rows
<1>3. RowsTerminated
  BY Sizes DEF Init, RowsTerminated, EmptyString
<1>4. TextKept /\ TextShown
  BY DEF Init, TextKept, TextShown
<1>5. QED BY <1>1, <1>2, <1>3, <1>4 DEF IInv

LEMMA PlaceInv ==
  ASSUME IInv, NEW c \in Chars \union {NL}, Place(c) PROVE IInv'
<1> USE DEF IInv
<1>1. c \in Chars /\ cur_pos # NChars
  BY DEF Place, Breaks
<1>2. cur_pos \in Cols /\ cur_line \in Rows /\ cur_pos \in 0 .. MaxChars
  <2>1. cur_pos \in 0 .. NChars /\ cur_line \in Rows
    BY DEF TypeOK
  <2>2. QED BY ONLY <1>1, <2>1, Sizes DEF Cols
<1>3. /\ terminal_buf' \in [Rows -> Str]
      /\ \A r \in Rows : r # cur_line => terminal_buf'[r] = terminal_buf[r]
      /\ \A k \in 0 .. MaxChars : k # cur_pos
           => terminal_buf'[cur_line][k] = terminal_buf[cur_line][k]
      /\ terminal_buf'[cur_line][cur_pos] = c
  <2>1. c \in Chars \union {Nul}
    BY <1>1
  <2>2. \A r \in Rows : terminal_buf[r] \in Str
    BY DEF TypeOK
  <2>3. [terminal_buf[cur_line] EXCEPT ![cur_pos] = c] \in Str
    BY <2>1, <2>2, <1>2 DEF Str
  <2>4. /\ terminal_buf' = [terminal_buf EXCEPT ![cur_line] = [@ EXCEPT ![cur_pos] = c]]
        /\ terminal_buf \in [Rows -> Str]
    BY DEF Place, TypeOK
  <2>5. terminal_buf' \in [Rows -> Str]
    BY <2>3, <2>4, <1>2
  <2>6. terminal_buf[cur_line] \in [0 .. MaxChars -> Chars \union {Nul}]
    BY <2>2, <1>2 DEF Str
  <2>7. QED BY <2>4, <2>5, <2>6, <1>2
<1>4. /\ screen' \in [Rows -> [Cols -> SUBSET Glyphs]]
      /\ \A r \in Rows, k \in Cols : screen[r][k] \subseteq screen'[r][k]
      /\ c \in Glyphs => c \in screen'[cur_line][cur_pos]
  <2>1. DrawChar(screen[cur_line][cur_pos], c) \in SUBSET Glyphs
    BY <1>2 DEF DrawChar, TypeOK
  <2>2. QED BY <1>2, <2>1 DEF Place, TypeOK, DrawChar
<1>5. /\ text' \in [Rows -> Seq(Chars)]
      /\ \A r \in Rows : r # cur_line => text'[r] = text[r]
      /\ text'[cur_line] = Append(text[cur_line], c)
  BY <1>1, <1>2 DEF Place, TypeOK
<1>6. /\ text[cur_line] \in Seq(Chars)
      /\ Len(text'[cur_line]) = cur_pos + 1
      /\ \A k \in 1 .. cur_pos : text'[cur_line][k] = text[cur_line][k]
      /\ text'[cur_line][cur_pos + 1] = c
  BY <1>1, <1>2, <1>5 DEF TypeOK, CursorInv
<1>7. cur_pos' = cur_pos + 1 /\ cur_line' = cur_line
  BY DEF Place
<1>8. TypeOK'
  BY <1>2, <1>3, <1>4, <1>5, <1>7, Sizes DEF TypeOK, Cols
<1>9. CursorInv'
  <2>1. /\ Len(text'[cur_line]) <= NChars
        /\ \A r \in Rows : r # cur_line => text'[r] = text[r]
    BY <1>2, <1>5, <1>6, Sizes DEF Cols
  <2>2. \A r \in Rows : Len(text'[r]) <= NChars
    BY <2>1 DEF CursorInv
  <2>3. \A r \in Rows : r > cur_line => text'[r] = << >>
    BY <2>1, <1>2 DEF CursorInv, Rows
  <2>4. QED BY <2>2, <2>3, <1>6, <1>7 DEF CursorInv
<1>10. RowsTerminated'
  BY <1>2, <1>3, Sizes DEF RowsTerminated, Cols
<1>11. TextKept'
  <2> SUFFICES ASSUME NEW r \in Rows, NEW k \in 1 .. Len(text'[r])
               PROVE  terminal_buf'[r][k-1] = text'[r][k]
    BY DEF TextKept
  <2>1. CASE r # cur_line
    BY <2>1, <1>3, <1>5 DEF TextKept
  <2>2. CASE r = cur_line /\ k = cur_pos + 1
    BY <2>2, <1>2, <1>3, <1>6 DEF Cols
  <2>3. CASE r = cur_line /\ k # cur_pos + 1
    <3>1. k \in 1 .. cur_pos /\ k-1 \in 0 .. MaxChars /\ k-1 # cur_pos
      BY ONLY <2>3, <1>2, <1>6, Sizes, k \in 1 .. Len(text'[r]) DEF Cols
    <3>2. QED BY <2>3, <3>1, <1>3, <1>6 DEF TextKept, CursorInv
  <2>4. QED BY <2>1, <2>2, <2>3
<1>12. TextShown'
  <2> SUFFICES ASSUME NEW r \in Rows, NEW k \in 1 .. Len(text'[r]), text'[r][k] \in Glyphs
               PROVE  text'[r][k] \in screen'[r][k-1]
    BY DEF TextShown
  <2>0. k-1 \in Cols
    BY <1>9, Sizes DEF CursorInv, Cols
  <2>1. CASE r # cur_line
    BY <2>0, <2>1, <1>4, <1>5 DEF TextShown
  <2>2. CASE r = cur_line /\ k = cur_pos + 1
    BY <2>2, <1>2, <1>4, <1>6 DEF Cols
  <2>3. CASE r = cur_line /\ k # cur_pos + 1
    <3>1. k \in 1 .. cur_pos
      BY <2>3, <1>2, <1>6 DEF Cols
    <3>2. QED BY <2>0, <2>3, <3>1, <1>2, <1>4, <1>6 DEF TextShown, CursorInv
  <2>4. QED BY <2>1, <2>2, <2>3
<1>13. QED BY <1>8, <1>9, <1>10, <1>11, <1>12

\* The part of a line break that c itself adds to the new line.
LEMMA NewLine ==
  ASSUME NEW c \in Chars \union {NL}
  PROVE  /\ LineOf(c) \in Seq(Chars)
         /\ Len(LineOf(c)) = IF c = NL THEN 0 ELSE 1
         /\ c # NL => c \in Chars /\ LineOf(c)[1] = c
         /\ Len(LineOf(c)) \in 0 .. NChars
BY Sizes DEF LineOf

LEMMA NextLineInv ==
  ASSUME IInv, NEW c \in Chars \union {NL}, NextLine(c) PROVE IInv'
<1> USE DEF IInv
<1> DEFINE new == cur_line + 1
<1>1. /\ cur_line \in Rows /\ new \in Rows /\ new # cur_line
      /\ cur_line' = new /\ cur_pos' = Len(LineOf(c))
      /\ text' = [text EXCEPT ![new] = LineOf(c)]
  <2>1. cur_line \in Rows /\ cur_line + 1 # NLines
    BY DEF NextLine, TypeOK
  <2>2. cur_line \in Rows /\ new \in Rows /\ new # cur_line
    BY ONLY <2>1, Sizes DEF Rows
  <2>3. QED BY <2>2 DEF NextLine
<1>2. 0 \in Cols /\ 0 \in 0 .. MaxChars
  BY Sizes DEF Cols
<1>3. /\ text' \in [Rows -> Seq(Chars)]
      /\ \A r \in Rows : r # new => text'[r] = text[r]
      /\ text'[new] = LineOf(c)
  BY <1>1, NewLine DEF TypeOK
<1>4. /\ terminal_buf' \in [Rows -> Str]
      /\ \A r \in Rows : r # new => terminal_buf'[r] = terminal_buf[r]
      /\ \A k \in 0 .. MaxChars : k # 0 => terminal_buf'[new][k] = terminal_buf[new][k]
      /\ c # NL => terminal_buf'[new][0] = c
  <2>1. CASE c = NL
    BY <2>1 DEF NextLine, TypeOK
  <2>2. CASE c # NL
    <3>1. terminal_buf[new] \in [0 .. MaxChars -> Chars \union {Nul}]
      BY <1>1 DEF TypeOK, Str
    <3>2. [terminal_buf[new] EXCEPT ![0] = c] \in Str
      BY <2>2, <3>1, NewLine DEF Str
    <3>3. /\ terminal_buf' = [terminal_buf EXCEPT ![new] = [@ EXCEPT ![0] = c]]
          /\ terminal_buf \in [Rows -> Str]
      BY <2>2 DEF NextLine, TypeOK
    <3>4. QED BY <3>1, <3>2, <3>3, <1>1, <1>2
  <2>3. QED BY <2>1, <2>2
<1>5. /\ screen' \in [Rows -> [Cols -> SUBSET Glyphs]]
      /\ \A r \in Rows : r # new => screen'[r] = screen[r]
      /\ c \in Glyphs /\ c # NL => c \in screen'[new][0]
  <2>1. CASE c = NL
    BY <2>1 DEF NextLine, TypeOK
  <2>2. CASE c # NL
    <3>1. DrawChar(screen[new][0], c) \in SUBSET Glyphs
      BY <1>1, <1>2 DEF DrawChar, TypeOK
    <3>2. /\ screen' = [screen EXCEPT ![new] = [@ EXCEPT ![0] = DrawChar(screen[new][0], c)]]
          /\ screen \in [Rows -> [Cols -> SUBSET Glyphs]]
      BY <2>2 DEF NextLine, TypeOK
    <3>3. c \in Glyphs => c \in DrawChar(screen[new][0], c)
      BY DEF DrawChar
    <3>4. QED BY <3>1, <3>2, <3>3, <1>1, <1>2
  <2>3. QED BY <2>1, <2>2
<1>6. TypeOK'
  BY <1>1, <1>3, <1>4, <1>5, NewLine DEF TypeOK
<1>7. CursorInv'
  <2>0. Len(LineOf(c)) \in 0 .. NChars
    BY NewLine
  <2>1. \A r \in Rows : Len(text'[r]) <= NChars
    BY <2>0, <1>3, Sizes DEF CursorInv
  <2>2. \A r \in Rows : r > new => text'[r] = << >>
    BY <1>1, <1>3 DEF CursorInv, Rows
  <2>3. QED BY <1>1, <1>3, <2>1, <2>2 DEF CursorInv
<1>8. RowsTerminated'
  BY <1>1, <1>4, Sizes DEF RowsTerminated
<1>9. TextKept'
  <2> SUFFICES ASSUME NEW r \in Rows, NEW k \in 1 .. Len(text'[r])
               PROVE  terminal_buf'[r][k-1] = text'[r][k]
    BY DEF TextKept
  <2>1. CASE r # new
    BY <2>1, <1>3, <1>4 DEF TextKept
  <2>2. CASE r = new
    <3>1. k \in 1 .. Len(LineOf(c))
      BY <2>2, <1>3
    <3>2. Len(LineOf(c)) = IF c = NL THEN 0 ELSE 1
      BY NewLine
    <3>3. c # NL /\ k = 1
      BY ONLY <3>1, <3>2
    <3>4. QED BY <2>2, <3>3, <1>3, <1>4, NewLine
  <2>3. QED BY <2>1, <2>2
<1>10. TextShown'
  <2> SUFFICES ASSUME NEW r \in Rows, NEW k \in 1 .. Len(text'[r]), text'[r][k] \in Glyphs
               PROVE  text'[r][k] \in screen'[r][k-1]
    BY DEF TextShown
  <2>1. CASE r # new
    BY <2>1, <1>3, <1>5 DEF TextShown
  <2>2. CASE r = new
    <3>1. k \in 1 .. Len(LineOf(c))
      BY <2>2, <1>3
    <3>2. Len(LineOf(c)) = IF c = NL THEN 0 ELSE 1
      BY NewLine
    <3>3. c # NL /\ k = 1
      BY ONLY <3>1, <3>2
    <3>4. QED BY <2>2, <3>3, <1>3, <1>5, NewLine
  <2>3. QED BY <2>1, <2>2
<1>11. QED BY <1>6, <1>7, <1>8, <1>9, <1>10

-----------------------------------------------------------------------------
\* What the buffer holds when a line is scrolled off and c stored.
LEMMA StoredRows ==
  ASSUME IInv, NEW c \in Chars \union {NL}, cur_line + 1 = NLines
  PROVE  /\ Stored(c) \in [Rows -> Str]
         /\ \A r \in Rows, k \in NChars .. MaxChars : Stored(c)[r][k] = Nul
         /\ \A r \in Rows : r + 1 < NLines =>
              \A k \in 0 .. MaxChars :
                InString(terminal_buf[r+1], k) => Stored(c)[r][k] = terminal_buf[r+1][k]
         /\ c # NL => Stored(c)[cur_line][0] = c
<1> USE DEF IInv
<1> DEFINE Src(r) == IF r+1 < NLines THEN terminal_buf[r+1] ELSE EmptyString
<1>1. \A r \in Rows : terminal_buf[r] \in Str
  BY DEF TypeOK
<1>2. \A r \in Rows : Src(r) \in Str
  BY <1>1, EmptyRow, Sizes DEF Rows
<1>3. \A r \in Rows, k \in NChars .. MaxChars : Src(r)[k] = Nul
  BY Sizes DEF RowsTerminated, Rows, EmptyString
<1>4. /\ Shifted(terminal_buf) \in [Rows -> Str]
      /\ \A r \in Rows : Shifted(terminal_buf)[r] = Strcpy(terminal_buf[r], Src(r))
  BY <1>1, <1>2, StrcpyRow DEF Shifted
<1>5. \A r \in Rows, k \in NChars .. MaxChars : Shifted(terminal_buf)[r][k] = Nul
  <2> TAKE r \in Rows, k \in NChars .. MaxChars
  <2>1. k \in 0 .. MaxChars
    BY Sizes
  <2>2. terminal_buf[r][k] = Nul /\ Src(r)[k] = Nul
    BY <1>3 DEF RowsTerminated
  <2>3. QED BY <2>1, <2>2, <1>1, <1>2, <1>4, StrcpyRow
<1>6. ASSUME NEW r \in Rows, r + 1 < NLines, NEW k \in 0 .. MaxChars,
             InString(terminal_buf[r+1], k)
      PROVE  Shifted(terminal_buf)[r][k] = terminal_buf[r+1][k]
  BY <1>1, <1>2, <1>4, <1>6, StrcpyRow
<1>7. /\ cur_line \in Rows /\ 0 \in 0 .. MaxChars /\ 0 \notin NChars .. MaxChars
      /\ \A r \in Rows : r + 1 < NLines => r # cur_line
  <2>1. cur_line \in Rows
    BY DEF TypeOK
  <2>2. QED BY ONLY <2>1, Sizes, cur_line + 1 = NLines DEF Rows
<1>8. CASE c = NL
  BY <1>8, <1>4, <1>5, <1>6 DEF Stored
<1>9. CASE c # NL
  <2>1. Stored(c) = [Shifted(terminal_buf) EXCEPT
                       ![cur_line] = [Shifted(terminal_buf)[cur_line] EXCEPT ![0] = c]]
    BY <1>9 DEF Stored
  <2>2. Shifted(terminal_buf)[cur_line] \in [0 .. MaxChars -> Chars \union {Nul}]
    BY <1>4, <1>7 DEF Str
  <2>3. [Shifted(terminal_buf)[cur_line] EXCEPT ![0] = c] \in Str
    BY <1>9, <2>2 DEF Str
  <2>4. /\ Stored(c) \in [Rows -> Str]
        /\ \A r \in Rows : r # cur_line => Stored(c)[r] = Shifted(terminal_buf)[r]
        /\ Stored(c)[cur_line][0] = c
        /\ \A k \in 0 .. MaxChars : k # 0
             => Stored(c)[cur_line][k] = Shifted(terminal_buf)[cur_line][k]
    BY <2>1, <2>2, <2>3, <1>4, <1>7
  <2>5. \A r \in Rows, k \in NChars .. MaxChars : Stored(c)[r][k] = Nul
    BY <2>4, <1>5, <1>7, Sizes
  <2>6. QED BY <2>4, <2>5, <1>6, <1>7
<1>10. QED BY <1>8, <1>9

\* redraw_terminal() draws the text: each line's characters lie within its string.
LEMMA RedrawnShows ==
  ASSUME TypeOK, CursorInv, TextKept
  PROVE  /\ Redrawn(terminal_buf) \in [Rows -> [Cols -> SUBSET Glyphs]]
         /\ \A r \in Rows, k \in 1 .. NChars :
              k <= Len(text[r]) /\ text[r][k] \in Glyphs
                => text[r][k] \in Redrawn(terminal_buf)[r][k-1]
<1>1. Redrawn(terminal_buf) \in [Rows -> [Cols -> SUBSET Glyphs]]
  BY DEF Redrawn, DrawChar
<1>2. ASSUME NEW r \in Rows, NEW k \in 1 .. NChars,
             k <= Len(text[r]), text[r][k] \in Glyphs
      PROVE  text[r][k] \in Redrawn(terminal_buf)[r][k-1]
  <2>1. k \in 0 .. Len(text[r]) /\ k \in 1 .. Len(text[r]) /\ k-1 \in Cols /\ (k-1)+1 = k
    BY <1>2, Sizes DEF TypeOK, Cols
  <2>2. InString(terminal_buf[r], (k-1)+1)
    BY <2>1, TextInString
  <2>3. terminal_buf[r][k-1] = text[r][k]
    BY <2>1 DEF TextKept
  <2>4. Redrawn(terminal_buf)[r][k-1] = DrawChar({}, terminal_buf[r][k-1])
    BY <2>1, <2>2 DEF Redrawn
  <2>5. QED BY <2>3, <2>4, <1>2 DEF DrawChar
<1>3. QED BY <1>1, <1>2

LEMMA RedrawnShowsAfter ==
  (TypeOK /\ CursorInv /\ TextKept
    => \A r \in Rows, k \in 1 .. NChars :
         k <= Len(text[r]) /\ text[r][k] \in Glyphs
           => text[r][k] \in Redrawn(terminal_buf)[r][k-1])'
<1>1. TypeOK /\ CursorInv /\ TextKept
        => \A r \in Rows, k \in 1 .. NChars :
             k <= Len(text[r]) /\ text[r][k] \in Glyphs
               => text[r][k] \in Redrawn(terminal_buf)[r][k-1]
  BY RedrawnShows
<1>2. QED BY <1>1, PTL

LEMMA ScrollInv ==
  ASSUME IInv, NEW c \in Chars \union {NL}, Scroll(c) PROVE IInv'
<1> USE DEF IInv
<1>1. /\ cur_line \in Rows /\ cur_line' = cur_line /\ cur_line + 1 = NLines
      /\ cur_pos' = Len(LineOf(c))
      /\ terminal_buf' = Stored(c)
      /\ screen' = Redrawn(terminal_buf')
      /\ text' = [r \in Rows |-> IF r+1 < NLines THEN text[r+1] ELSE LineOf(c)]
  BY DEF Scroll, TypeOK, RedrawnAfter
<1>2. /\ \A r \in Rows : r + 1 < NLines => r + 1 \in Rows
      /\ \A r \in Rows : ~(r + 1 < NLines) <=> r = cur_line
  BY ONLY <1>1, Sizes DEF Rows
<1>3. /\ text' \in [Rows -> Seq(Chars)]
      /\ \A r \in Rows : r # cur_line => r + 1 \in Rows /\ text'[r] = text[r+1]
      /\ text'[cur_line] = LineOf(c)
  BY <1>1, <1>2, NewLine DEF TypeOK
<1>4. /\ terminal_buf' \in [Rows -> Str]
      /\ \A r \in Rows, k \in NChars .. MaxChars : terminal_buf'[r][k] = Nul
      /\ \A r \in Rows : r # cur_line =>
           \A k \in 0 .. MaxChars :
             InString(terminal_buf[r+1], k) => terminal_buf'[r][k] = terminal_buf[r+1][k]
      /\ c # NL => terminal_buf'[cur_line][0] = c
  BY <1>1, <1>2, StoredRows
<1>5. Len(LineOf(c)) \in 0 .. NChars
  BY NewLine
<1>6. screen' \in [Rows -> [Cols -> SUBSET Glyphs]]
  BY <1>1 DEF Redrawn, DrawChar
<1>7. TypeOK'
  BY <1>1, <1>3, <1>4, <1>5, <1>6 DEF TypeOK
<1>8. CursorInv'
  <2>1. \A r \in Rows : Len(text'[r]) <= NChars
    BY <1>3, <1>5, Sizes DEF CursorInv
  <2>2. \A r \in Rows : ~(r > cur_line)
    BY ONLY <1>1, Sizes DEF Rows
  <2>3. QED BY <1>1, <1>3, <2>1, <2>2 DEF CursorInv
<1>9. RowsTerminated'
  BY <1>4 DEF RowsTerminated
<1>10. TextKept'
  <2> SUFFICES ASSUME NEW r \in Rows, NEW k \in 1 .. Len(text'[r])
               PROVE  terminal_buf'[r][k-1] = text'[r][k]
    BY DEF TextKept
  <2>1. CASE r # cur_line
    <3>1. r + 1 \in Rows /\ k \in 1 .. Len(text[r+1]) /\ Len(text[r+1]) <= NChars
      BY <2>1, <1>3 DEF CursorInv
    <3>2. Len(text[r+1]) \in Nat
      BY <3>1 DEF TypeOK
    <3>3. k-1 \in 0 .. Len(text[r+1]) /\ k-1 \in 0 .. MaxChars
      BY ONLY <3>1, <3>2, Sizes
    <3>4. InString(terminal_buf[r+1], k-1)
      BY <3>1, <3>3, TextInString
    <3>5. terminal_buf[r+1][k-1] = text[r+1][k]
      BY <3>1 DEF TextKept
    <3>6. QED BY <2>1, <3>3, <3>4, <3>5, <1>3, <1>4
  <2>2. CASE r = cur_line
    <3>1. k \in 1 .. Len(LineOf(c))
      BY <2>2, <1>3
    <3>2. Len(LineOf(c)) = IF c = NL THEN 0 ELSE 1
      BY NewLine
    <3>3. c # NL /\ k = 1
      BY ONLY <3>1, <3>2
    <3>4. QED BY <2>2, <3>3, <1>3, <1>4, NewLine
  <2>3. QED BY <2>1, <2>2
<1>11. TextShown'
  <2> SUFFICES ASSUME NEW r \in Rows, NEW k \in 1 .. Len(text'[r]), text'[r][k] \in Glyphs
               PROVE  text'[r][k] \in screen'[r][k-1]
    BY DEF TextShown
  <2>1. Len(text'[r]) \in Nat /\ Len(text'[r]) <= NChars
    BY <1>7, <1>8 DEF TypeOK, CursorInv
  <2>2. k \in 1 .. NChars /\ k <= Len(text'[r])
    BY ONLY <2>1, Sizes, k \in 1 .. Len(text'[r])
  <2>3. QED BY <2>2, <1>1, <1>7, <1>8, <1>10, RedrawnShowsAfter
<1>12. QED BY <1>7, <1>8, <1>9, <1>10, <1>11

LEMMA StutterInv == IInv /\ UNCHANGED vars => IInv'
BY DEF IInv, vars, TypeOK, CursorInv, RowsTerminated, TextKept, TextShown

THEOREM Invariance == Spec => []IInv
<1>1. IInv /\ [Next]_vars => IInv'
  BY PlaceInv, NextLineInv, ScrollInv, StutterInv DEF Next, Putc
<1>2. Init => IInv
  BY InitInv
<1>3. QED BY <1>1, <1>2, PTL DEF Spec

\* putc() keeps its cursor within the bounds the comments on cur_line and
\* cur_pos_in_line state, for every frame buffer and buffer size.
THEOREM CursorInBounds == Spec => []TypeOK
<1>1. IInv => TypeOK BY DEF IInv
<1>2. QED BY <1>1, Invariance, PTL

\* No text reaches behind column n_chars_in_line of the buffer: every row of it
\* stays a NUL-terminated string.
THEOREM RowsStayTerminated == Spec => []RowsTerminated
<1>1. IInv => RowsTerminated BY DEF IInv
<1>2. QED BY <1>1, Invariance, PTL

\* The buffer keeps the last n_lines lines of what was printed.
THEOREM BufferKeepsText == Spec => []TextKept
<1>1. IInv => TextKept BY DEF IInv
<1>2. QED BY <1>1, Invariance, PTL

\* The screen shows the last n_lines lines of what was printed.
THEOREM ScreenShowsText == Spec => []TextShown
<1>1. IInv => TextShown BY DEF IInv
<1>2. QED BY <1>1, Invariance, PTL
=============================================================================

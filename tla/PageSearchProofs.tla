---------------------------- MODULE PageSearchProofs ----------------------------
(***************************************************************************)
(* What the search allocates is freed but for what an exception makes it   *)
(* forget, and it is known when freed memory is used, for every page,      *)
(* pattern and set of characters; the text that is matched has every line  *)
(* that is drawn, and no other; the matches are all of those that can be   *)
(* read in it.                                                             *)
(***************************************************************************)
EXTENDS PageSearch, SequenceTheorems, FiniteSetTheorems, WellFoundedInduction, TLAPS

Held == {x \in Variables : local[x]}
TextThings == {"sheet", "page"}

Types ==
    /\ local \in [Variables -> BOOLEAN]
    /\ alive \subseteq Things /\ hidden \subseteq Variables
    /\ thrown \subseteq {"start", "page", "device", "wrap", "run", "flush"}

\* In the fz_try block each thing that is allocated has its variable, the text device the one of
\* its device.
TryPart ==
    pc \in {"start", "page", "device", "wrap", "run", "scan", "lost"} =>
        /\ thrown = {} /\ hidden = {} /\ ~undefined
        /\ \A x \in Variables : x \in alive <=> x \in Held
        /\ "user" \in alive <=> pc \in {"wrap", "run"}
        /\ "device" \in Held <=> pc = "run"

\* When fz_always is reached, an exception may have set variables back.  The page and the sheet are
\* freed once, though their variables stay; the device is there until the end.
AlwaysPart ==
    pc \in {"always", "flush"} =>
        /\ hidden \cap Held = {}
        /\ \A x \in TextThings :
             x \in alive <=> x \in hidden \/ (x \in Held /\ pc = "always" /\ "flush" \notin thrown)
        /\ "device" \in alive <=> "device" \in Held \cup hidden
        /\ "user" \in alive <=> "device" \in alive \/ "wrap" \in thrown
        /\ "run" \in thrown <=> "device" \in Held \cup hidden
        /\ "flush" \in thrown => "run" \in thrown /\ Pending
        /\ "wrap" \in thrown => "run" \notin thrown
        /\ thrown = {} => hidden = {}
        /\ undefined => "flush" \in thrown /\ ~(TextThings \subseteq hidden)

Afterwards ==
    pc \in {"returned", "caught"} => EverythingFreed /\ HarmOnlyAfterThrow

IInv ==
    /\ pc \in {"start", "page", "device", "wrap", "run", "scan", "always", "flush",
              "returned", "caught", "lost"}
    /\ Types /\ TryPart /\ AlwaysPart /\ Afterwards

-----------------------------------------------------------------------------
\* An allocation sets the variable, if there is one.
LEMMA NewStep ==
    ASSUME IInv, NewSheet \/ NewPage \/ NewUser \/ NewDevice
    PROVE  IInv'
  <1>1. PICK x \in Things :
            /\ New(x)
            /\ \/ pc = "start" /\ x = "sheet" /\ pc' = "page"
               \/ pc = "page" /\ x = "page" /\ pc' = "device"
               \/ pc = "device" /\ x = "user" /\ pc' = "wrap"
               \/ pc = "wrap" /\ x = "device" /\ pc' = "run"
    BY DEF NewSheet, NewPage, NewUser, NewDevice, Things
  <1>2. /\ local' = [y \in Variables |-> local[y] \/ y = x] /\ alive' = alive \cup {x}
        /\ UNCHANGED <<thrown, hidden, undefined>>
    BY <1>1 DEF New
  <1>3. Types' /\ \A y \in Variables : y \in Held' <=> y \in Held \/ y = x
    BY <1>2 DEF Held, IInv, Types
  <1>4. TryPart'
    BY <1>1, <1>2, <1>3 DEF IInv, TryPart, Variables
  <1> QED  BY <1>1, <1>3, <1>4 DEF IInv, AlwaysPart, Afterwards

\* The device is freed, and its variable is reset.
LEMMA FreeStep ==
    ASSUME IInv, FreeDevice
    PROVE  IInv'
  <1>1. /\ pc = "run" /\ pc' = "scan"
        /\ alive' = alive \ {"user", "device"}
        /\ local' = [local EXCEPT !["device"] = FALSE]
        /\ UNCHANGED <<thrown, hidden, undefined>>
    BY DEF FreeDevice
  <1>2. Types' /\ \A y \in Variables : y \in Held' <=> y \in Held /\ y # "device"
    BY <1>1 DEF Held, IInv, Types, Variables
  <1>3. TryPart'
    BY <1>1, <1>2 DEF IInv, TryPart, Variables
  <1> QED  BY <1>1, <1>2, <1>3 DEF IInv, AlwaysPart, Afterwards

\* Characters, and the scan of a text, allocate nothing that search frees.
LEMMA TextStep ==
    ASSUME IInv, Scan \/ \E c, style, gap : Glyph(c, style, gap)
    PROVE  IInv'
  <1>1. /\ \/ pc = "run" /\ pc' = "run"
           \/ pc = "scan" /\ pc' \in {"always", "lost"}
        /\ UNCHANGED <<thrown, local, alive, hidden, undefined>>
    <2>1. CASE Scan
      BY <2>1 DEF Scan
    <2>2. ASSUME NEW c, NEW style, NEW gap, Glyph(c, style, gap)
          PROVE  pc = "run" /\ pc' = "run" /\ UNCHANGED <<thrown, local, alive, hidden, undefined>>
      BY <2>2 DEF Glyph, searchVars
    <2> QED  BY <2>1, <2>2
  <1>2. Held' = Held /\ Types'
    BY <1>1 DEF Held, IInv, Types
  <1>3. TryPart'
    BY <1>1, <1>2 DEF IInv, TryPart
  <1>4. AlwaysPart'
    BY <1>1, <1>2 DEF IInv, TryPart, AlwaysPart, Variables, TextThings
  <1> QED  BY <1>1, <1>2, <1>3, <1>4 DEF IInv, Afterwards

\* An exception hides things, and sets their variables back.
LEMMA JumpIs ==
    ASSUME IInv, Jump
    PROVE  /\ pc' = "always" /\ thrown' = thrown \cup {pc}
           /\ UNCHANGED <<alive, span, line>>
           /\ local' \in [Variables -> BOOLEAN]
           /\ \E back \in SUBSET Held : /\ hidden' = hidden \cup (back \cap alive)
                                        /\ Held' = Held \ back
  <1>1. PICK back \in SUBSET Held :
            /\ hidden' = hidden \cup (back \cap alive)
            /\ local' = [x \in Variables |-> local[x] /\ x \notin back]
    BY DEF Jump, Held
  <1>2. Held' = Held \ back /\ local' \in [Variables -> BOOLEAN]
    BY <1>1 DEF Held, IInv, Types
  <1> QED  BY <1>1, <1>2 DEF Jump, deviceVars

LEMMA ThrowStep ==
    ASSUME IInv, Throw
    PROVE  IInv'
  <1>1. pc \in {"start", "page", "device", "wrap", "run"} /\ Jump /\ undefined' = undefined
    BY DEF Throw
  <1>2. PICK back \in SUBSET Held : /\ hidden' = hidden \cup (back \cap alive)
                                    /\ Held' = Held \ back
    BY <1>1, JumpIs
  <1>3. /\ pc' = "always" /\ thrown' = thrown \cup {pc} /\ alive' = alive
        /\ local' \in [Variables -> BOOLEAN]
    BY <1>1, JumpIs
  <1>4. Types'
    BY <1>1, <1>2, <1>3 DEF Held, IInv, Types
  <1>5. /\ thrown = {} /\ hidden = {} /\ ~undefined
        /\ \A x \in Variables : x \in alive <=> x \in Held
        /\ "user" \in alive <=> pc \in {"wrap", "run"}
        /\ "device" \in Held <=> pc = "run"
    BY <1>1 DEF IInv, TryPart
  <1>6. hidden' = back
    BY <1>2, <1>5 DEF Held
  <1>7. AlwaysPart'
    BY <1>1, <1>2, <1>3, <1>5, <1>6 DEF AlwaysPart, Variables, TextThings
  <1> QED  BY <1>3, <1>4, <1>7 DEF IInv, TryPart, Afterwards

\* The fz_always block frees the page and the sheet if they have a variable: once, if it is not run
\* again.
LEMMA FreeTextsStep ==
    ASSUME IInv, FreeTexts
    PROVE  IInv'
  <1>1. /\ pc = "always" /\ pc' = "flush"
        /\ alive' = alive \ {x \in TextThings : local[x]}
        /\ undefined' = (undefined \/ \E x \in TextThings : local[x] /\ x \notin alive)
        /\ UNCHANGED <<thrown, local, hidden, span, line>>
    BY DEF FreeTexts, TextThings, deviceVars
  <1>2. Held' = Held /\ Types' /\ Pending' = Pending
    BY <1>1 DEF Held, IInv, Types, Pending
  <1>3. \A x \in TextThings : x \in Held <=> local[x]
    BY DEF Held, Variables, TextThings
  <1>4. "device" \notin TextThings /\ "user" \notin TextThings
    BY DEF TextThings
  <1>5. /\ AlwaysPart
        /\ undefined' => undefined \/ \E x \in TextThings : x \in Held /\ x \notin alive
    BY <1>1, <1>3 DEF IInv
  <1>6. undefined' => "flush" \in thrown /\ ~(TextThings \subseteq hidden)
    BY <1>1, <1>5 DEF AlwaysPart
  <1>7. \A x \in TextThings : x \in alive' <=> x \in hidden
    BY <1>1, <1>3, <1>5 DEF AlwaysPart
  <1>8. ("device" \in alive' <=> "device" \in alive) /\ ("user" \in alive' <=> "user" \in alive)
    BY <1>1, <1>4
  <1>9. AlwaysPart'
    BY <1>1, <1>2, <1>5, <1>6, <1>7, <1>8 DEF AlwaysPart
  <1> QED  BY <1>1, <1>2, <1>9 DEF IInv, TryPart, Afterwards

\* Where the text of the device would go, when the flush begins.
LEMMA FlushIs ==
    ASSUME IInv, pc = "flush"
    PROVE  /\ \A x \in TextThings : x \in alive <=> x \in hidden
           /\ Gone <=> ~(TextThings \subseteq hidden)
           /\ local["device"] <=> "device" \in Held
           /\ alive \subseteq hidden \cup {"user", "device"}
           /\ AlwaysPart /\ Types
  BY DEF IInv, AlwaysPart, Types, Gone, Held, Variables, TextThings, Things

LEMMA FreeDeviceLastStep ==
    ASSUME IInv, FreeDeviceLast
    PROVE  IInv'
  <1>1. /\ pc = "flush" /\ pc' = IF thrown = {} THEN "returned" ELSE "caught"
        /\ alive' = IF local["device"] THEN alive \ {"user", "device"} ELSE alive
        /\ undefined' = (undefined \/ (local["device"]
                                        /\ ("device" \notin alive \/ (Pending /\ Gone))))
        /\ UNCHANGED <<thrown, local, hidden, span, line>>
    BY DEF FreeDeviceLast, deviceVars
  <1>2. Held' = Held /\ Types' /\ Pending' = Pending
    BY <1>1 DEF Held, IInv, Types, Pending
  <1>3. /\ \A x \in TextThings : x \in alive <=> x \in hidden
        /\ Gone <=> ~(TextThings \subseteq hidden)
        /\ local["device"] <=> "device" \in Held
        /\ alive \subseteq hidden \cup {"user", "device"}
        /\ hidden \cap Held = {} /\ hidden \subseteq Variables
        /\ "device" \in alive <=> "device" \in Held \cup hidden
        /\ "user" \in alive <=> "device" \in alive \/ "wrap" \in thrown
        /\ "run" \in thrown <=> "device" \in Held \cup hidden
        /\ "flush" \in thrown => "run" \in thrown /\ Pending
        /\ "wrap" \in thrown => "run" \notin thrown
        /\ thrown = {} => hidden = {}
        /\ undefined => "flush" \in thrown /\ ~(TextThings \subseteq hidden)
    BY <1>1, FlushIs DEF AlwaysPart, Types
  <1>4. \A x \in hidden : x \in TextThings \/ x = "device"
    BY <1>3 DEF Variables, TextThings
  <1>5. "user" \notin hidden /\ "user" \notin TextThings /\ "device" \notin TextThings
    BY <1>3 DEF Variables, TextThings
  <1>6. alive' = hidden \cup (IF "device" \in hidden \/ "wrap" \in thrown THEN {"user"} ELSE {})
    BY <1>1, <1>3, <1>4, <1>5
  <1>7. EverythingFreed'
    BY <1>1, <1>3, <1>6 DEF EverythingFreed
  <1>8. undefined' => /\ "run" \in thrown /\ Pending /\ ~(TextThings \subseteq hidden)
                      /\ "device" \in hidden => "flush" \in thrown
    BY <1>1, <1>3
  <1>9. "run" \in thrown /\ Pending /\ ~(TextThings \subseteq hidden) /\ "device" \notin hidden
          => undefined'
    BY <1>1, <1>3
  <1>10. HarmOnlyAfterThrow'
    BY <1>1, <1>2, <1>8, <1>9 DEF HarmOnlyAfterThrow, TextThings
  <1> QED  BY <1>1, <1>2, <1>7, <1>10 DEF IInv, TryPart, AlwaysPart, Afterwards

\* The fz_always block is entered again.
LEMMA FlushThrowsStep ==
    ASSUME IInv, FlushThrows
    PROVE  IInv'
  <1>1. /\ pc = "flush" /\ local["device"] /\ Pending /\ Jump
        /\ undefined' => undefined \/ Gone
    BY DEF FlushThrows
  <1>2. PICK back \in SUBSET Held : /\ hidden' = hidden \cup (back \cap alive)
                                    /\ Held' = Held \ back
    BY <1>1, JumpIs
  <1>3. /\ pc' = "always" /\ thrown' = thrown \cup {"flush"} /\ alive' = alive
        /\ local' \in [Variables -> BOOLEAN] /\ Pending' = Pending
    BY <1>1, JumpIs DEF Pending
  <1>4. Types'
    BY <1>2, <1>3 DEF Held, IInv, Types
  <1>5. /\ \A x \in TextThings : x \in alive <=> x \in hidden
        /\ Gone <=> ~(TextThings \subseteq hidden)
        /\ "device" \in Held /\ AlwaysPart
    BY <1>1, FlushIs
  <1>6. back \cap alive \subseteq {"device"}
    BY <1>1, <1>5 DEF AlwaysPart, Held, Variables, TextThings
  <1>7. /\ \A x \in TextThings : x \in hidden' <=> x \in hidden
        /\ "device" \in Held' \cup hidden'
        /\ hidden' \cap Held' = {}
    <2>1. "device" \notin TextThings
      BY DEF TextThings
    <2>2. "device" \in alive /\ hidden \cap Held = {}
      BY <1>1, <1>5 DEF AlwaysPart
    <2> QED  BY <1>2, <1>5, <1>6, <2>1, <2>2
  <1>8. AlwaysPart'
    BY <1>1, <1>3, <1>5, <1>7 DEF AlwaysPart
  <1> QED  BY <1>3, <1>4, <1>8 DEF IInv, TryPart, Afterwards

LEMMA Invariant == Spec => []IInv
  <1>1. Init => IInv
    BY DEF Init, IInv, Types, TryPart, AlwaysPart, Afterwards, Held, Variables, Things
  <1>2. IInv /\ [Next]_vars => IInv'
    <2> SUFFICES ASSUME IInv, [Next]_vars PROVE IInv'
      OBVIOUS
    <2>1. CASE UNCHANGED vars
      BY <2>1 DEF vars, searchVars, deviceVars, IInv, Types, TryPart, AlwaysPart, Afterwards,
                  Held, Pending, EverythingFreed, HarmOnlyAfterThrow
    <2>2. CASE Next
      BY <2>2, NewStep, FreeStep, TextStep, ThrowStep, FreeTextsStep, FreeDeviceLastStep,
         FlushThrowsStep DEF Next
    <2> QED  BY <2>1, <2>2
  <1> QED  BY <1>1, <1>2, PTL DEF Spec

\* Wherever exceptions come from, what search has allocated is freed by fz_free_device or fz_always,
\* but for what was set back, and for the text device when fz_new_device throws; without an exception
\* nothing is left.
THEOREM AllIsFreed == Spec => []EverythingFreed
  <1>1. IInv => EverythingFreed
    BY DEF IInv, Afterwards, EverythingFreed
  <1> QED  BY <1>1, Invariant, PTL

\* Freed memory is used only after an exception has left a device with text, and then always, unless
\* the page and the sheet, or the device, were set back; the second run of fz_always included.
THEOREM NoHarmWithoutThrow == Spec => []HarmOnlyAfterThrow
  <1>1. IInv => HarmOnlyAfterThrow
    BY DEF IInv, TryPart, AlwaysPart, Afterwards, HarmOnlyAfterThrow, TextThings
  <1> QED  BY <1>1, Invariant, PTL

-----------------------------------------------------------------------------
\* The span, the line and the text page hold characters.
TextTypes ==
    /\ span.style \in Styles \cup {None} /\ span.text \in Seq(Chars)
    /\ line \in Seq(Seq(Chars))
    /\ blocks \in Seq(Seq(Seq(Seq(Chars))))
    /\ drawn \in Seq(Seq(Chars)) /\ Len(drawn) > 0
    /\ lastchar \in Chars \cup {Ignored}
    /\ glyphs \in 0 .. MaxGlyphs
    /\ pattern \in Patterns /\ hits \subseteq Nat
    /\ undefined \in BOOLEAN

\* A span that ends goes to its line.
LEMMA SpanEnds ==
    ASSUME NEW l \in Seq(Seq(Chars)), NEW s, s.text \in Seq(Chars)
    PROVE  AppendSpan(l, s) \in Seq(Seq(Chars))
  BY DEF AppendSpan

\* A line that ends goes to a block.
LEMMA LineEnds ==
    ASSUME NEW l \in Seq(Seq(Chars)), InsertLine(l), blocks \in Seq(Seq(Seq(Seq(Chars))))
    PROVE  blocks' \in Seq(Seq(Seq(Seq(Chars))))
  <1> DEFINE Blocks == Seq(Seq(Seq(Chars)))
  <1>1. CASE blocks' = blocks
    BY <1>1
  <1>2. CASE \E b \in 1 .. Len(blocks) + 1 :
                 blocks' = IF b > Len(blocks) THEN Append(blocks, <<l>>)
                                              ELSE [blocks EXCEPT ![b] = Append(@, l)]
    <2>1. PICK b \in 1 .. Len(blocks) + 1 :
              blocks' = IF b > Len(blocks) THEN Append(blocks, <<l>>)
                                           ELSE [blocks EXCEPT ![b] = Append(@, l)]
      BY <1>2
    <2>2. <<l>> \in Blocks
      OBVIOUS
    <2>3. CASE b > Len(blocks)
      <3> HIDE DEF Blocks
      <3> QED  BY <2>1, <2>2, <2>3 DEF Blocks
    <2>4. CASE ~ b > Len(blocks)
      <3>1. b \in 1 .. Len(blocks) /\ Len(blocks) \in Nat
        BY <2>4
      <3>2. blocks[b] \in Blocks
        BY <3>1
      <3>3. Append(blocks[b], l) \in Blocks
        BY <3>2
      <3>4. blocks' = [blocks EXCEPT ![b] = Append(blocks[b], l)]
        BY <2>1, <2>4
      <3> HIDE DEF Blocks
      <3>5. blocks \in Seq(Blocks)
        BY DEF Blocks
      <3>6. blocks' \in Seq(Blocks)
        BY <3>1, <3>3, <3>4, <3>5
      <3> QED  BY <3>6 DEF Blocks
    <2> QED  BY <2>3, <2>4
  <1> QED  BY <1>1, <1>2 DEF InsertLine

\* The characters of a glyph go to the span, which ends before them if the style is another one.
LEMMA CharsAdded ==
    ASSUME NEW s, s.style \in Styles \cup {None}, s.text \in Seq(Chars),
           NEW l \in Seq(Seq(Chars)), NEW style \in Styles, NEW text \in Seq(Chars)
    PROVE  LET after == AddChars(s, l, style, text)
           IN  /\ after[1].style \in Styles \cup {None} /\ after[1].text \in Seq(Chars)
               /\ after[2] \in Seq(Seq(Chars))
  <1> DEFINE longer == [style |-> style, text |-> s.text \o text]
             other == [style |-> style, text |-> text]
  <1>1. AddChars(s, l, style, text) \in {<<s, l>>, <<longer, l>>, <<other, AppendSpan(l, s)>>}
    BY DEF AddChars
  <1>2. longer.text \in Seq(Chars) /\ longer.style = style
    OBVIOUS
  <1>3. AppendSpan(l, s) \in Seq(Seq(Chars))
    BY SpanEnds
  <1>4. CASE AddChars(s, l, style, text) = <<s, l>>
    BY <1>4
  <1>5. CASE AddChars(s, l, style, text) = <<longer, l>>
    <2> HIDE DEF longer
    <2>1. AddChars(s, l, style, text)[1] = longer /\ AddChars(s, l, style, text)[2] = l
      BY <1>5
    <2> QED  BY <1>2, <2>1
  <1>6. CASE AddChars(s, l, style, text) = <<other, AppendSpan(l, s)>>
    BY <1>3, <1>6
  <1> QED  BY <1>1, <1>4, <1>5, <1>6

\* A glyph has characters, or continues the one before; a blank may be put in before it.
LEMMA CharsOfGlyph ==
    ASSUME NEW c \in Chars \cup {Ignored}, NEW gap
    PROVE  (IF gap = "space" /\ lastchar # Blank THEN <<Blank>> \o CharsOf(c) ELSE CharsOf(c))
             \in Seq(Chars)
  <1>1. Blank \in Chars /\ (c # Ignored => c \in Chars)
    BY DEF Chars
  <1>2. CharsOf(c) \in Seq(Chars)
    <2>1. CASE c = Ignored
      BY <2>1 DEF CharsOf
    <2>2. CASE c # Ignored
      BY <1>1, <2>2 DEF CharsOf
    <2> QED  BY <2>1, <2>2
  <1>3. <<Blank>> \in Seq(Chars)
    BY <1>1
  <1> QED  BY <1>2, <1>3

\* A glyph adds characters to the text.
LEMMA GlyphKeepsText ==
    ASSUME TextTypes, NEW c \in Chars \cup {Ignored}, NEW style \in Styles,
           NEW gap \in {"none", "space", "line"}, Glyph(c, style, gap)
    PROVE  TextTypes'
  <1> DEFINE flush == gap = "line"
             text == IF gap = "space" /\ lastchar # Blank THEN <<Blank>> \o CharsOf(c)
                                                          ELSE CharsOf(c)
             fresh == [style |-> style, text |-> <<>>]
             after == IF flush THEN AddChars(fresh, <<>>, style, text)
                               ELSE AddChars(span, line, style, text)
  <1>1. text \in Seq(Chars)
    BY CharsOfGlyph
  <1> HIDE DEF text
  <1>2. /\ after[1].style \in Styles \cup {None} /\ after[1].text \in Seq(Chars)
        /\ after[2] \in Seq(Seq(Chars))
    <2>1. CASE flush
      <3>1. fresh.style \in Styles \cup {None} /\ fresh.text \in Seq(Chars)
            /\ <<>> \in Seq(Seq(Chars))
        OBVIOUS
      <3> HIDE DEF fresh
      <3> QED  BY <1>1, <2>1, <3>1, CharsAdded
    <2>2. CASE ~flush
      BY <1>1, <2>2, CharsAdded DEF TextTypes
    <2> QED  BY <2>1, <2>2
  <1>3. /\ glyphs < MaxGlyphs /\ glyphs' = glyphs + 1 /\ lastchar' = c
        /\ span' = after[1] /\ line' = after[2]
        /\ IF flush THEN InsertLine(AppendSpan(line, span)) ELSE UNCHANGED blocks
        /\ drawn' = IF flush THEN Append(drawn, text)
                             ELSE [drawn EXCEPT ![Len(drawn)] = @ \o text]
        /\ UNCHANGED <<pattern, hits, undefined>>
    BY DEF Glyph, text, searchVars
  <1> HIDE DEF after
  <1>4. blocks' \in Seq(Seq(Seq(Seq(Chars))))
    <2>1. AppendSpan(line, span) \in Seq(Seq(Chars))
      BY SpanEnds DEF TextTypes
    <2> QED  BY <1>3, <2>1, LineEnds DEF TextTypes
  <1>5. drawn' \in Seq(Seq(Chars)) /\ Len(drawn') > 0
    <2> DEFINE Texts == Seq(Chars)
    <2>1. drawn \in Seq(Texts) /\ Len(drawn) > 0 /\ text \in Texts
      BY <1>1 DEF TextTypes
    <2>2. Len(drawn) \in 1 .. Len(drawn) /\ drawn[Len(drawn)] \in Texts
      BY <2>1
    <2>3. drawn[Len(drawn)] \o text \in Texts
      BY <1>1, <2>2
    <2> HIDE DEF Texts
    <2>4. drawn' \in Seq(Texts) /\ Len(drawn') > 0
      BY <1>3, <2>1, <2>2, <2>3
    <2> QED  BY <2>4 DEF Texts
  <1>6. glyphs' \in 0 .. MaxGlyphs
    BY <1>3, BoundAssumption DEF TextTypes
  <1> QED  BY <1>2, <1>3, <1>4, <1>5, <1>6 DEF TextTypes

\* The other steps at most end the last line and collect the hits.
LEMMA StepKeepsText ==
    ASSUME TextTypes, [Next]_vars
    PROVE  TextTypes'
  <1>1. CASE \E c \in Chars \cup {Ignored}, style \in Styles, gap \in {"none", "space", "line"} :
                 Glyph(c, style, gap)
    BY <1>1, GlyphKeepsText
  <1>2. CASE NewSheet \/ NewPage \/ NewUser \/ NewDevice \/ Throw
    BY <1>2 DEF NewSheet, NewPage, NewUser, NewDevice, New, Throw, Jump, deviceVars, TextTypes
  <1>3. CASE FreeDevice \/ FreeTexts \/ FreeDeviceLast \/ FlushThrows
    <2>1. UNCHANGED <<pattern, hits, deviceVars>>
      BY <1>3 DEF FreeDevice, FreeTexts, FreeDeviceLast, FlushThrows, Jump
    <2>2. undefined' \in BOOLEAN
      BY <1>3 DEF FreeDevice, FreeTexts, FreeDeviceLast, FlushThrows, TextTypes
    <2>3. UNCHANGED blocks \/ InsertLine(AppendSpan(line, span))
      BY <1>3 DEF FreeDevice, FreeTexts, FreeDeviceLast, FlushThrows, Jump, FlushDevice
    <2>4. AppendSpan(line, span) \in Seq(Seq(Chars))
      BY SpanEnds DEF TextTypes
    <2>5. blocks' \in Seq(Seq(Seq(Seq(Chars))))
      BY <2>3, <2>4, LineEnds DEF TextTypes
    <2> QED  BY <2>1, <2>2, <2>5 DEF deviceVars, TextTypes
  <1>4. CASE Scan
    <2>1. hits' \subseteq Positions /\ UNCHANGED <<pattern, undefined, deviceVars, blocks>>
      BY <1>4 DEF Scan
    <2>2. Positions \subseteq Nat
      BY DEF Positions
    <2> QED  BY <2>1, <2>2 DEF deviceVars, TextTypes
  <1>5. CASE UNCHANGED vars
    BY <1>5 DEF vars, searchVars, deviceVars, TextTypes
  <1> QED  BY <1>1, <1>2, <1>3, <1>4, <1>5 DEF Next

\* At first there is no text.
LEMMA InitText == Init => TextTypes
  <1> SUFFICES ASSUME Init PROVE TextTypes
    OBVIOUS
  <1>1. /\ span = [style |-> None, text |-> <<>>] /\ line = <<>> /\ blocks = <<>>
        /\ drawn = << <<>> >> /\ lastchar = Blank /\ glyphs = 0
        /\ pattern \in Patterns /\ hits = {} /\ undefined = FALSE
    BY DEF Init
  <1>2. drawn \in Seq(Seq(Chars)) /\ Len(drawn) = 1
    <2>1. <<>> \in Seq(Chars)
      OBVIOUS
    <2> QED  BY <1>1, <2>1
  <1>3. span.style = None /\ span.text \in Seq(Chars)
    BY <1>1
  <1>4. line \in Seq(Seq(Chars)) /\ blocks \in Seq(Seq(Seq(Seq(Chars))))
    BY <1>1
  <1>5. lastchar \in Chars /\ glyphs \in 0 .. MaxGlyphs
    BY <1>1, BoundAssumption DEF Chars
  <1>6. pattern \in Patterns /\ hits \subseteq Nat /\ undefined \in BOOLEAN
    BY <1>1
  <1> QED  BY <1>2, <1>3, <1>4, <1>5, <1>6 DEF TextTypes

\* The text page is a sequence of blocks of lines of spans of characters, whatever is drawn.
THEOREM TypeCorrect == Spec => []TypeOK
  <1>1. Init => TextTypes
    BY InitText
  <1>2. TextTypes /\ [Next]_vars => TextTypes'
    BY StepKeepsText
  <1>3. IInv /\ TextTypes => TypeOK
    BY DEF TypeOK, IInv, Types, TextTypes
  <1> QED  BY <1>1, <1>2, <1>3, Invariant, PTL DEF Spec

-----------------------------------------------------------------------------
(***************************************************************************)
(* Sequences.                                                              *)
(***************************************************************************)
\* A set of natural numbers has a least one.
LEMMA Least ==
    ASSUME NEW T \in SUBSET Nat, T # {}
    PROVE  \E m \in T : \A x \in T : m <= x
  <1> DEFINE R == OpToRel(<, Nat)
  <1>1. \A x, y \in Nat : x < y => <<x, y>> \in R
    BY DEF OpToRel
  <1>2. IsWellFoundedOn(R, Nat)
    BY NatLessThanWellFounded
  <1> HIDE DEF R
  <1>3. PICK m \in T : \A x \in T : ~(<<x, m>> \in R)
    BY <1>2, WFMin
  <1>4. ASSUME NEW x \in T
        PROVE  m <= x
    <2>1. x \in Nat /\ m \in Nat
      OBVIOUS
    <2>2. ~(x < m)
      BY <1>1, <1>3, <2>1
    <2> QED  BY <2>1, <2>2
  <1> QED  BY <1>4

LEMMA SetInduction ==
    ASSUME NEW T \in SUBSET Nat, 0 \in T, \A i \in T : i + 1 \in T
    PROVE  T = Nat
  <1> SUFFICES ASSUME Nat \ T # {}
               PROVE  FALSE
    OBVIOUS
  <1>1. PICK m \in Nat \ T : \A x \in Nat \ T : m <= x
    BY Least
  <1>2. m - 1 \in Nat /\ m - 1 \notin Nat \ T
    BY <1>1
  <1>3. (m - 1) + 1 \in T
    BY <1>2
  <1> QED  BY <1>3

\* A set of sequences with the empty one and with each that is longer by one element than one of
\* its own is the set of all.
LEMMA SeqInduction ==
    ASSUME NEW A, NEW T \in SUBSET Seq(A), <<>> \in T,
           \A s \in T, e \in A : Append(s, e) \in T
    PROVE  T = Seq(A)
  <1> DEFINE N == {n \in Nat : \A s \in Seq(A) : Len(s) = n => s \in T}
  <1>1. N \in SUBSET Nat
    OBVIOUS
  <1>2. 0 \in N
    BY EmptySeq
  <1>3. ASSUME NEW n \in N
        PROVE  n + 1 \in N
    <2> SUFFICES ASSUME NEW s \in Seq(A), Len(s) = n + 1
                 PROVE  s \in T
      OBVIOUS
    <2>1. PICK u \in Seq(A), e \in A : s = Append(u, e)
      <3>1. s # <<>>
        BY EmptySeq
      <3> QED  BY <3>1, SequenceEmptyOrAppend
    <2>2. Len(u) = n
      BY <2>1, AppendProperties, LenProperties
    <2>3. u \in T
      BY <2>2
    <2> QED  BY <2>1, <2>3
  <1> HIDE DEF N
  <1>4. N = Nat
    BY <1>1, <1>2, <1>3, SetInduction
  <1>5. ASSUME NEW s \in Seq(A)
        PROVE  s \in T
    BY <1>4, LenProperties DEF N
  <1> QED  BY <1>5

\* FlattenSeq gathers the elements one sequence after the other.
IsFlatten(f, s) == f = [i \in 1 .. Len(s) |-> IF i = 1 THEN s[i] ELSE f[i - 1] \o s[i]]

LEMMA FlattenUnfolds ==
    ASSUME NEW s
    PROVE  FlattenSeq(s) = IF Len(s) = 0 THEN s ELSE (CHOOSE f : IsFlatten(f, s))[Len(s)]
  BY DEF FlattenSeq, IsFlatten

\* The first n of them.
Gathers(f, S, s, n) ==
    /\ f \in [1 .. n -> Seq(S)]
    /\ \A i \in 1 .. n : f[i] = IF i = 1 THEN s[i] ELSE f[i - 1] \o s[i]

LEMMA FlattenExists ==
    ASSUME NEW S, NEW s \in Seq(Seq(S))
    PROVE  \E f : IsFlatten(f, s)
  <1> DEFINE A == Seq(S)
             T == {n \in Nat : n <= Len(s) => \E f : Gathers(f, S, s, n)}
  <1>1. Len(s) \in Nat /\ \A i \in 1 .. Len(s) : s[i] \in A
    OBVIOUS
  <1>2. T \in SUBSET Nat
    OBVIOUS
  <1>3. 0 \in T
    <2>1. Gathers([i \in 1 .. 0 |-> <<>>], S, s, 0)
      BY DEF Gathers
    <2> QED  BY <2>1
  <1>4. ASSUME NEW n \in T
        PROVE  n + 1 \in T
    <2> SUFFICES ASSUME n + 1 <= Len(s)
                 PROVE  \E f : Gathers(f, S, s, n + 1)
      OBVIOUS
    <2>1. PICK f : Gathers(f, S, s, n)
      BY <1>1
    <2>2. f \in [1 .. n -> A] /\ \A i \in 1 .. n : f[i] = IF i = 1 THEN s[i] ELSE f[i - 1] \o s[i]
      BY <2>1 DEF Gathers
    <2> DEFINE last == IF n = 0 THEN s[n + 1] ELSE f[n] \o s[n + 1]
               g == [i \in 1 .. n + 1 |-> IF i = n + 1 THEN last ELSE f[i]]
    <2>3. s[n + 1] \in A
      BY <1>1
    <2>4. last \in A
      <3>1. n # 0 => f[n] \in A
        BY <2>2
      <3> QED  BY <2>3, <3>1, ConcatProperties
    <2> HIDE DEF A
    <2>5. g \in [1 .. n + 1 -> A]
      BY <2>2, <2>4
    <2>6. ASSUME NEW i \in 1 .. n + 1
          PROVE  g[i] = IF i = 1 THEN s[i] ELSE g[i - 1] \o s[i]
      <3>1. CASE i = n + 1
        <4>1. i # 1 => n # 0 /\ g[i - 1] = f[n]
          BY <3>1
        <4>2. g[i] = last
          BY <3>1
        <4> QED  BY <3>1, <4>1, <4>2
      <3>2. CASE i # n + 1
        <4>1. i \in 1 .. n /\ g[i] = f[i] /\ (i # 1 => g[i - 1] = f[i - 1])
          BY <3>2
        <4> QED  BY <2>2, <4>1
      <3> QED  BY <3>1, <3>2
    <2> HIDE DEF g
    <2>7. Gathers(g, S, s, n + 1)
      BY <2>5, <2>6 DEF Gathers, A
    <2> QED  BY <2>7
  <1> HIDE DEF T
  <1>5. T = Nat
    BY <1>2, <1>3, <1>4, SetInduction
  <1>6. PICK f : Gathers(f, S, s, Len(s))
    <2>1. \E f : Gathers(f, S, s, Len(s))
      BY <1>1, <1>5 DEF T
    <2> QED  BY <2>1
  <1>7. /\ f \in [1 .. Len(s) -> A]
        /\ \A i \in 1 .. Len(s) : f[i] = IF i = 1 THEN s[i] ELSE f[i - 1] \o s[i]
    BY <1>6 DEF Gathers
  <1> HIDE DEF A
  <1>8. f = [i \in 1 .. Len(s) |-> f[i]]
    BY <1>7
  <1>9. IsFlatten(f, s)
    BY <1>7, <1>8 DEF IsFlatten
  <1> QED  BY <1>9

\* What has been gathered depends on what comes before only.
LEMMA FlattenAgree ==
    ASSUME NEW s, NEW r, NEW n \in Nat, Len(s) \in Nat, Len(r) \in Nat, n <= Len(s), n <= Len(r),
           \A i \in 1 .. n : s[i] = r[i],
           NEW f, NEW g, IsFlatten(f, s), IsFlatten(g, r)
    PROVE  \A i \in 1 .. n : f[i] = g[i]
  <1>1. /\ \A i \in 1 .. Len(s) : f[i] = IF i = 1 THEN s[i] ELSE f[i - 1] \o s[i]
        /\ \A i \in 1 .. Len(r) : g[i] = IF i = 1 THEN r[i] ELSE g[i - 1] \o r[i]
    BY DEF IsFlatten
  <1> DEFINE T == {i \in Nat : i \in 1 .. n => f[i] = g[i]}
  <1>2. T \in SUBSET Nat /\ 0 \in T
    OBVIOUS
  <1>3. ASSUME NEW i \in T
        PROVE  i + 1 \in T
    <2> SUFFICES ASSUME i + 1 \in 1 .. n
                 PROVE  f[i + 1] = g[i + 1]
      OBVIOUS
    <2>1. i + 1 \in 1 .. Len(s) /\ i + 1 \in 1 .. Len(r) /\ s[i + 1] = r[i + 1]
      OBVIOUS
    <2>2. /\ f[i + 1] = IF i + 1 = 1 THEN s[i + 1] ELSE f[(i + 1) - 1] \o s[i + 1]
          /\ g[i + 1] = IF i + 1 = 1 THEN r[i + 1] ELSE g[(i + 1) - 1] \o r[i + 1]
      BY <1>1, <2>1
    <2>3. i + 1 # 1 => (i + 1) - 1 = i /\ i \in 1 .. n
      OBVIOUS
    <2>4. i + 1 # 1 => f[(i + 1) - 1] = g[(i + 1) - 1]
      BY <2>3
    <2> QED  BY <2>1, <2>2, <2>4
  <1> HIDE DEF T
  <1>4. T = Nat
    BY <1>2, <1>3, SetInduction
  <1> QED  BY <1>4 DEF T

LEMMA FlattenEmpty == FlattenSeq(<<>>) = <<>>
  BY FlattenUnfolds

LEMMA FlattenAppend ==
    ASSUME NEW S, NEW s \in Seq(Seq(S)), NEW x \in Seq(S)
    PROVE  FlattenSeq(Append(s, x)) = FlattenSeq(s) \o x
  <1> DEFINE A == Seq(S)
             r == Append(s, x)
             n == Len(s)
  <1>1. /\ r \in Seq(A) /\ Len(r) = n + 1 /\ n \in Nat /\ r[n + 1] = x
        /\ \A i \in 1 .. n : s[i] = r[i]
    <2> HIDE DEF A
    <2>1. s \in Seq(A) /\ x \in A
      BY DEF A
    <2> QED  BY <2>1, AppendProperties, LenProperties
  <1> HIDE DEF r
  <1> DEFINE g == CHOOSE g : IsFlatten(g, r)
             f == CHOOSE f : IsFlatten(f, s)
  <1>2. IsFlatten(g, r) /\ IsFlatten(f, s)
    <2>1. (\E h : IsFlatten(h, r)) /\ (\E h : IsFlatten(h, s))
      BY <1>1, FlattenExists
    <2> QED  BY <2>1
  <1>3. FlattenSeq(r) = g[n + 1]
    BY <1>1, FlattenUnfolds
  <1>4. n # 0 => FlattenSeq(s) = f[n]
    BY <1>1, FlattenUnfolds
  <1>5. n = 0 => FlattenSeq(s) = <<>>
    <2>1. n = 0 => s = <<>>
      OBVIOUS
    <2> QED  BY <2>1, FlattenEmpty
  <1> HIDE DEF f, g
  <1>6. g[n + 1] = IF n + 1 = 1 THEN r[n + 1] ELSE g[(n + 1) - 1] \o r[n + 1]
    <2>1. \A i \in 1 .. Len(r) : g[i] = IF i = 1 THEN r[i] ELSE g[i - 1] \o r[i]
      BY <1>2 DEF IsFlatten
    <2> QED  BY <1>1, <2>1
  <1>7. CASE n = 0
    <2>1. FlattenSeq(r) = x /\ <<>> \o x = x
      BY <1>1, <1>3, <1>6, <1>7, ConcatEmptySeq
    <2> QED  BY <1>5, <1>7, <2>1 DEF r
  <1>8. CASE n # 0
    <2>1. \A i \in 1 .. n : f[i] = g[i]
      <3>1. Len(s) \in Nat /\ Len(r) \in Nat /\ n \in Nat /\ n <= Len(s) /\ n <= Len(r)
        BY <1>1
      <3>2. \A i \in 1 .. n : s[i] = r[i]
        BY <1>1
      <3> HIDE DEF n
      <3> QED  BY <1>2, <3>1, <3>2, FlattenAgree
    <2>2. f[n] = g[n] /\ (n + 1) - 1 = n /\ n + 1 # 1
      BY <1>1, <1>8, <2>1
    <2> QED  BY <1>1, <1>3, <1>4, <1>6, <1>8, <2>2 DEF r
  <1> QED  BY <1>7, <1>8

LEMMA FlattenType ==
    ASSUME NEW S, NEW s \in Seq(Seq(S))
    PROVE  FlattenSeq(s) \in Seq(S)
  <1> DEFINE A == Seq(S)
             T == {u \in Seq(A) : FlattenSeq(u) \in A}
  <1>1. T \in SUBSET Seq(A) /\ <<>> \in T
    BY FlattenEmpty, EmptySeq
  <1>2. ASSUME NEW u \in T, NEW e \in A
        PROVE  Append(u, e) \in T
    <2>1. FlattenSeq(Append(u, e)) = FlattenSeq(u) \o e
      BY FlattenAppend
    <2>2. FlattenSeq(u) \o e \in A
      BY ConcatProperties
    <2>3. Append(u, e) \in Seq(A)
      <3> HIDE DEF A
      <3> QED  BY AppendProperties
    <2> QED  BY <2>1, <2>2, <2>3
  <1> HIDE DEF T, A
  <1>3. T = Seq(A)
    BY <1>1, <1>2, SeqInduction
  <1> QED  BY <1>3 DEF T, A

\* How often a sequence has an element of V.
Where(s, V) == {i \in 1 .. Len(s) : s[i] \in V}
Count(s, V) == Cardinality(Where(s, V))

LEMMA CountEmpty ==
    ASSUME NEW V
    PROVE  Count(<<>>, V) = 0
  <1>1. Where(<<>>, V) = {}
    BY DEF Where
  <1> QED  BY <1>1, FS_EmptySet DEF Count

LEMMA WhereIsFinite ==
    ASSUME NEW A, NEW s \in Seq(A), NEW V
    PROVE  IsFiniteSet(Where(s, V)) /\ Count(s, V) \in Nat
  <1>1. Len(s) \in Nat
    OBVIOUS
  <1>2. IsFiniteSet(1 .. Len(s))
    BY <1>1, FS_Interval
  <1>3. Where(s, V) \in SUBSET (1 .. Len(s))
    BY DEF Where
  <1>4. IsFiniteSet(Where(s, V))
    BY <1>2, <1>3, FS_Subset
  <1> QED  BY <1>4, FS_CardinalityType DEF Count

LEMMA CountAppend ==
    ASSUME NEW A, NEW s \in Seq(A), NEW e \in A, NEW V
    PROVE  Count(Append(s, e), V) = Count(s, V) + (IF e \in V THEN 1 ELSE 0)
  <1> DEFINE r == Append(s, e)
             n == Len(s)
  <1>1. /\ n \in Nat /\ Len(r) = n + 1 /\ r[n + 1] = e
        /\ \A i \in 1 .. n : r[i] = s[i]
    BY AppendProperties, LenProperties
  <1> HIDE DEF r
  <1>2. IsFiniteSet(Where(s, V)) /\ Count(s, V) \in Nat /\ n + 1 \notin Where(s, V)
    BY <1>1, WhereIsFinite DEF Where
  <1>3. CASE e \in V
    <2>1. Where(r, V) = Where(s, V) \cup {n + 1}
      BY <1>1, <1>3 DEF Where
    <2> QED  BY <1>2, <1>3, <2>1, FS_AddElement DEF Count, r
  <1>4. CASE e \notin V
    <2>1. Where(r, V) = Where(s, V)
      BY <1>1, <1>4 DEF Where
    <2> QED  BY <1>2, <1>4, <2>1 DEF Count, r
  <1> QED  BY <1>3, <1>4

LEMMA ConcatAppend ==
    ASSUME NEW A, NEW s \in Seq(A), NEW u \in Seq(A), NEW e \in A
    PROVE  s \o Append(u, e) = Append(s \o u, e)
  <1>1. u \in Seq(A) /\ Append(u, e) \in Seq(A) /\ s \o u \in Seq(A)
    BY AppendProperties, ConcatProperties
  <1>2. Append(u, e) = u \o <<e>> /\ Append(s \o u, e) = (s \o u) \o <<e>>
    BY <1>1, AppendIsConcat
  <1>3. <<e>> \in Seq(A)
    OBVIOUS
  <1> QED  BY <1>1, <1>2, <1>3, ConcatAssociative

LEMMA CountConcat ==
    ASSUME NEW A, NEW s \in Seq(A), NEW r \in Seq(A), NEW V
    PROVE  Count(s \o r, V) = Count(s, V) + Count(r, V)
  <1> DEFINE T == {u \in Seq(A) : Count(s \o u, V) = Count(s, V) + Count(u, V)}
  <1>1. T \in SUBSET Seq(A)
    OBVIOUS
  <1>2. <<>> \in T
    <2>1. <<>> \in Seq(A) /\ s \o <<>> = s
      BY EmptySeq, ConcatEmptySeq
    <2> QED  BY <2>1, CountEmpty, WhereIsFinite
  <1>3. ASSUME NEW u \in T, NEW e \in A
        PROVE  Append(u, e) \in T
    <2>1. u \in Seq(A) /\ Append(u, e) \in Seq(A) /\ s \o u \in Seq(A)
      BY AppendProperties, ConcatProperties
    <2>2. s \o Append(u, e) = Append(s \o u, e)
      <3>1. u \in Seq(A)
        BY <2>1
      <3> HIDE DEF T
      <3> QED  BY <3>1, ConcatAppend
    <2>3. /\ Count(Append(s \o u, e), V) = Count(s \o u, V) + (IF e \in V THEN 1 ELSE 0)
          /\ Count(Append(u, e), V) = Count(u, V) + (IF e \in V THEN 1 ELSE 0)
      BY <2>1, CountAppend
    <2>4. Count(s \o u, V) = Count(s, V) + Count(u, V)
      OBVIOUS
    <2>5. Count(s, V) \in Nat /\ Count(u, V) \in Nat
      BY <2>1, WhereIsFinite
    <2>6. Count(s \o Append(u, e), V) = Count(s, V) + Count(Append(u, e), V)
      BY <2>2, <2>3, <2>4, <2>5
    <2> QED  BY <2>1, <2>6
  <1> HIDE DEF T
  <1>4. T = Seq(A)
    BY <1>1, <1>2, <1>3, SeqInduction
  <1> QED  BY <1>4 DEF T

\* The last element of a longer sequence replaced, and another one.
LEMMA LastReplaced ==
    ASSUME NEW B, NEW u \in Seq(B), NEW e \in B, NEW x \in B
    PROVE  [Append(u, e) EXCEPT ![Len(u) + 1] = x] = Append(u, x)
  <1> DEFINE n == Len(u)
             r == Append(u, e)
             q == Append(u, x)
             v == [r EXCEPT ![n + 1] = x]
  <1>1. n \in Nat
    BY LenProperties
  <1>2. r \in Seq(B) /\ Len(r) = n + 1 /\ \A j \in 1 .. n : r[j] = u[j]
    BY AppendProperties
  <1>3. /\ q \in Seq(B) /\ Len(q) = n + 1 /\ q[n + 1] = x
        /\ \A j \in 1 .. n : q[j] = u[j]
    BY AppendProperties
  <1> HIDE DEF n, r, q
  <1>4. /\ v \in Seq(B) /\ Len(v) = n + 1
        /\ \A j \in 1 .. n + 1 : v[j] = IF j = n + 1 THEN x ELSE r[j]
    <2>1. n + 1 \in 1 .. Len(r)
      BY <1>1, <1>2
    <2> QED  BY <1>2, <2>1, ExceptSeq
  <1> HIDE DEF v
  <1>5. \A j \in 1 .. Len(v) : v[j] = q[j]
    BY <1>1, <1>2, <1>3, <1>4
  <1>6. v = q
    BY <1>3, <1>4, <1>5, SeqEqual
  <1> QED  BY <1>6 DEF v, q, r, n

LEMMA OtherReplaced ==
    ASSUME NEW B, NEW u \in Seq(B), NEW e \in B, NEW x \in B, NEW i \in 1 .. Len(u)
    PROVE  /\ [u EXCEPT ![i] = x] \in Seq(B)
           /\ [Append(u, e) EXCEPT ![i] = x] = Append([u EXCEPT ![i] = x], e)
  <1> DEFINE n == Len(u)
             r == Append(u, e)
             w == [u EXCEPT ![i] = x]
             q == Append(w, e)
             v == [r EXCEPT ![i] = x]
  <1>1. n \in Nat
    BY LenProperties
  <1>2. /\ r \in Seq(B) /\ Len(r) = n + 1 /\ r[n + 1] = e
        /\ \A j \in 1 .. n : r[j] = u[j]
    BY AppendProperties
  <1>3. w \in Seq(B) /\ Len(w) = n /\ \A j \in 1 .. n : w[j] = IF j = i THEN x ELSE u[j]
    BY ExceptSeq
  <1> HIDE DEF w
  <1>4. /\ q \in Seq(B) /\ Len(q) = n + 1 /\ q[n + 1] = e
        /\ \A j \in 1 .. n : q[j] = w[j]
    BY <1>3, AppendProperties
  <1>5. i \in 1 .. n
    OBVIOUS
  <1> HIDE DEF n, r, q
  <1>6. /\ v \in Seq(B) /\ Len(v) = n + 1
        /\ \A j \in 1 .. n + 1 : v[j] = IF j = i THEN x ELSE r[j]
    <2>1. i \in 1 .. Len(r)
      BY <1>1, <1>2, <1>5
    <2> QED  BY <1>2, <2>1, ExceptSeq
  <1> HIDE DEF v
  <1>7. \A j \in 1 .. Len(v) : v[j] = q[j]
    BY <1>1, <1>2, <1>3, <1>4, <1>5, <1>6
  <1>8. v = q
    BY <1>4, <1>6, <1>7, SeqEqual
  <1> QED  BY <1>3, <1>8 DEF v, q, r, n, w

\* The sequence s with one more element in its part i.
Inserted(s, i, l) == [s EXCEPT ![i] = Append(s[i], l)]

\* To flatten a sequence with one more element in one of its parts gives one more element.
LEMMA CountInserted ==
    ASSUME NEW A, NEW s \in Seq(Seq(A)), NEW l \in A, NEW b \in 1 .. Len(s), NEW V
    PROVE  Count(FlattenSeq(Inserted(s, b, l)), V)
             = Count(FlattenSeq(s), V) + (IF l \in V THEN 1 ELSE 0)
  <1> DEFINE B == Seq(A)
             more == IF l \in V THEN 1 ELSE 0
             T == {u \in Seq(B) : \A i \in 1 .. Len(u) :
                      /\ Inserted(u, i, l) \in Seq(B)
                      /\ Count(FlattenSeq(Inserted(u, i, l)), V) = Count(FlattenSeq(u), V) + more}
  <1>1. T \in SUBSET Seq(B)
    OBVIOUS
  <1>2. <<>> \in T
    BY EmptySeq
  <1>3. ASSUME NEW u \in T, NEW e \in B
        PROVE  Append(u, e) \in T
    <2> DEFINE r == Append(u, e)
               n == Len(u)
    <2>1. /\ u \in Seq(B) /\ r \in Seq(B) /\ n \in Nat /\ Len(r) = n + 1 /\ r[n + 1] = e
          /\ \A i \in 1 .. n : r[i] = u[i]
      <3> HIDE DEF B
      <3> QED  BY AppendProperties, LenProperties
    <2>2. FlattenSeq(u) \in Seq(A) /\ FlattenSeq(r) = FlattenSeq(u) \o e
      BY <2>1, FlattenType, FlattenAppend
    <2>3. /\ Count(FlattenSeq(u), V) \in Nat /\ Count(e, V) \in Nat /\ more \in Nat
          /\ Count(FlattenSeq(r), V) = Count(FlattenSeq(u), V) + Count(e, V)
      BY <2>2, WhereIsFinite, CountConcat
    <2>4. \A i \in 1 .. n : /\ Inserted(u, i, l) \in Seq(B)
                            /\ Count(FlattenSeq(Inserted(u, i, l)), V) = Count(FlattenSeq(u), V) + more
      OBVIOUS
    <2>5. Append(e, l) \in B /\ Count(Append(e, l), V) = Count(e, V) + more
      BY AppendProperties, CountAppend
    <2>6. ASSUME NEW i \in 1 .. n
          PROVE  Append(u[i], l) \in B
      <3>1. u[i] \in B
        <4> HIDE DEF B
        <4> QED  BY <2>1
      <3> QED  BY <3>1, AppendProperties
    <2> HIDE DEF more
    <2>7. ASSUME NEW i \in 1 .. n + 1
          PROVE  /\ Inserted(r, i, l) \in Seq(B)
                 /\ Count(FlattenSeq(Inserted(r, i, l)), V) = Count(FlattenSeq(r), V) + more
      <3>1. CASE i = n + 1
        <4>1. Inserted(r, i, l) = Append(u, Append(e, l))
          <5> HIDE DEF B
          <5>1. Inserted(r, i, l) = [r EXCEPT ![n + 1] = Append(e, l)]
            BY <2>1, <3>1 DEF Inserted
          <5> DEFINE x == Append(e, l)
          <5>2. u \in Seq(B) /\ e \in B /\ x \in B
            BY <2>1, <2>5
          <5> HIDE DEF x
          <5>3. [Append(u, e) EXCEPT ![Len(u) + 1] = x] = Append(u, x)
            BY <5>2, LastReplaced
          <5> QED  BY <5>1, <5>3 DEF x
        <4>2. Inserted(r, i, l) \in Seq(B)
          <5> HIDE DEF B
          <5> QED  BY <2>1, <2>5, <4>1, AppendProperties
        <4>3. FlattenSeq(Inserted(r, i, l)) = FlattenSeq(u) \o Append(e, l)
          BY <2>1, <2>5, <4>1, FlattenAppend
        <4>4. Count(FlattenSeq(Inserted(r, i, l)), V)
                = Count(FlattenSeq(u), V) + Count(Append(e, l), V)
          <5> DEFINE f == FlattenSeq(u)
                     x == Append(e, l)
          <5>1. f \in Seq(A) /\ x \in Seq(A)
            BY <2>2, <2>5
          <5> HIDE DEF f, x
          <5>2. Count(f \o x, V) = Count(f, V) + Count(x, V)
            BY <5>1, CountConcat
          <5> QED  BY <4>3, <5>2 DEF f, x
        <4> HIDE DEF r, B
        <4> QED  BY <2>3, <2>5, <4>2, <4>4
      <3>2. CASE i # n + 1
        <4>1. i \in 1 .. n
          <5> HIDE DEF n
          <5> QED  BY <2>1, <3>2
        <4>2. Inserted(r, i, l) = Append(Inserted(u, i, l), e)
          <5> HIDE DEF B
          <5>1. Inserted(r, i, l) = [r EXCEPT ![i] = Append(u[i], l)]
            BY <2>1, <4>1 DEF Inserted
          <5> QED  BY <2>1, <2>6, <4>1, <5>1, OtherReplaced DEF Inserted
        <4>3. Inserted(r, i, l) \in Seq(B)
          <5> HIDE DEF B
          <5> QED  BY <2>4, <4>1, <4>2, AppendProperties
        <4>4. FlattenSeq(Inserted(r, i, l)) = FlattenSeq(Inserted(u, i, l)) \o e
          <5> HIDE DEF r
          <5> QED  BY <2>4, <4>1, <4>2, FlattenAppend
        <4>5. Count(FlattenSeq(Inserted(r, i, l)), V)
                = Count(FlattenSeq(Inserted(u, i, l)), V) + Count(e, V)
          <5>1. FlattenSeq(Inserted(u, i, l)) \in Seq(A)
            BY <2>4, <4>1, FlattenType
          <5> QED  BY <4>4, <5>1, CountConcat
        <4> HIDE DEF r, B
        <4> QED  BY <2>3, <2>4, <4>1, <4>3, <4>5
      <3> QED  BY <3>1, <3>2
    <2> HIDE DEF r, B
    <2>8. r \in Seq(B) /\ Len(r) = n + 1
      BY <2>1
    <2> QED  BY <2>7, <2>8 DEF r, more
  <1> HIDE DEF T
  <1>4. T = Seq(B)
    BY <1>1, <1>2, <1>3, SeqInduction
  <1> QED  BY <1>4 DEF T

-----------------------------------------------------------------------------
(***************************************************************************)
(* Nothing that is drawn is lost.                                          *)
(***************************************************************************)
Texts == Seq(Chars)

\* The lines that read as t.
Reading(t) == {l \in Seq(Texts) : FlattenSeq(l) = t}

\* The lines of the text page, ls, are those of d that are not empty.
Shows(ls, d) ==
    \A t \in Texts : Count(ls, Reading(t)) = IF t = <<>> THEN 0 ELSE Count(d, {t})

NoEmptySpan(l) == \A i \in 1 .. Len(l) : l[i] # <<>>

\* The last line that is drawn is in the device, the others are on the text page.
Gathered ==
    /\ NoEmptySpan(line)
    /\ \E d \in Seq(Texts) : /\ drawn = Append(d, FlattenSeq(line) \o span.text)
                             /\ Shows(Lines, d)

TextInv ==
    /\ pc \in {"start", "page", "device", "wrap", "run"} => Gathered
    /\ pc = "scan" => Shows(Lines, drawn)

LEMMA NotEmpty ==
    ASSUME NEW l \in Seq(Texts), NoEmptySpan(l), l # <<>>
    PROVE  FlattenSeq(l) # <<>>
  <1>1. PICK u \in Seq(Texts), e \in Texts : l = Append(u, e)
    <2> HIDE DEF Texts
    <2> QED  BY SequenceEmptyOrAppend
  <1>2. e # <<>>
    <2>1. Len(l) = Len(u) + 1 /\ l[Len(u) + 1] = e /\ Len(u) \in Nat
      <3> HIDE DEF Texts
      <3> QED  BY <1>1, AppendProperties, LenProperties
    <2> QED  BY <2>1 DEF NoEmptySpan
  <1>3. FlattenSeq(l) = FlattenSeq(u) \o e /\ FlattenSeq(u) \in Texts
    BY <1>1, FlattenAppend, FlattenType DEF Texts
  <1> QED  BY <1>2, <1>3, ConcatEqualIffEmpty DEF Texts

\* A span that ends adds its text to the line.
LEMMA SpanIsAdded ==
    ASSUME NEW l \in Seq(Texts), NoEmptySpan(l), NEW s, s.text \in Texts
    PROVE  /\ AppendSpan(l, s) \in Seq(Texts) /\ NoEmptySpan(AppendSpan(l, s))
           /\ FlattenSeq(AppendSpan(l, s)) = FlattenSeq(l) \o s.text
  <1>1. CASE s.text = <<>>
    <2>1. FlattenSeq(l) \in Texts
      BY FlattenType DEF Texts
    <2>2. FlattenSeq(l) \o <<>> = FlattenSeq(l)
      BY <2>1, ConcatEmptySeq DEF Texts
    <2> QED  BY <1>1, <2>2 DEF AppendSpan
  <1>2. CASE s.text # <<>>
    <2> DEFINE x == s.text
               r == Append(l, x)
    <2>1. AppendSpan(l, s) = r
      BY <1>2 DEF AppendSpan
    <2>2. FlattenSeq(r) = FlattenSeq(l) \o x
      BY FlattenAppend DEF Texts
    <2>3. x \in Texts /\ x # <<>>
      BY <1>2
    <2> HIDE DEF x
    <2>4. /\ r \in Seq(Texts) /\ Len(r) = Len(l) + 1 /\ r[Len(l) + 1] = x /\ Len(l) \in Nat
          /\ \A i \in 1 .. Len(l) : r[i] = l[i]
      BY <2>3, AppendProperties, LenProperties
    <2> HIDE DEF r
    <2>5. NoEmptySpan(r)
      BY <2>3, <2>4 DEF NoEmptySpan
    <2> QED  BY <2>1, <2>2, <2>4, <2>5 DEF x
  <1> QED  BY <1>1, <1>2

\* The line and the span of a have the text of the line l and the span s, and then this text.
HasAlso(a, l, s, text) ==
    /\ NoEmptySpan(a[2])
    /\ FlattenSeq(a[2]) \o a[1].text = (FlattenSeq(l) \o s.text) \o text

\* So do the characters of a glyph, with the span that stays in the device.
LEMMA CharsAreAdded ==
    ASSUME NEW l \in Seq(Texts), NoEmptySpan(l), NEW s, s.text \in Texts,
           NEW style, NEW text \in Texts
    PROVE  HasAlso(AddChars(s, l, style, text), l, s, text)
  <1> DEFINE longer == [style |-> style, text |-> s.text \o text]
             other == [style |-> style, text |-> text]
             after == AddChars(s, l, style, text)
             f == FlattenSeq(l)
  <1>1. f \in Texts
    BY FlattenType DEF Texts
  <1>2. f \o s.text \in Texts
    BY <1>1, ConcatProperties DEF Texts
  <1> HIDE DEF f
  <1>3. \/ text = <<>> /\ after = <<s, l>>
        \/ after = <<longer, l>>
        \/ after = <<other, AppendSpan(l, s)>>
    BY DEF AddChars
  <1>4. CASE text = <<>> /\ after = <<s, l>>
    <2>1. after[1].text = s.text /\ after[2] = l
      BY <1>4
    <2>2. (f \o s.text) \o text = f \o s.text
      BY <1>2, <1>4, ConcatEmptySeq DEF Texts
    <2> QED  BY <2>1, <2>2 DEF f, HasAlso
  <1>5. CASE after = <<longer, l>>
    <2>1. after[1].text = s.text \o text /\ after[2] = l
      BY <1>5
    <2>2. (f \o s.text) \o text = f \o (s.text \o text)
      <3> DEFINE y == s.text
      <3>1. y \in Texts
        OBVIOUS
      <3> HIDE DEF y
      <3>2. (f \o y) \o text = f \o (y \o text)
        BY <1>1, <3>1, ConcatAssociative DEF Texts
      <3> QED  BY <3>2 DEF y
    <2> QED  BY <2>1, <2>2 DEF f, HasAlso
  <1>6. CASE after = <<other, AppendSpan(l, s)>>
    <2>1. after[1].text = text /\ after[2] = AppendSpan(l, s)
      BY <1>6
    <2> QED  BY <2>1, SpanIsAdded DEF f, HasAlso
  <1> QED  BY <1>3, <1>4, <1>5, <1>6

\* A line that ends is one more line of the text page.
LEMMA OneMoreLine ==
    ASSUME blocks \in Seq(Seq(Seq(Texts))), NEW l \in Seq(Texts), l # <<>>, InsertLine(l), NEW V
    PROVE  Count(FlattenSeq(blocks'), V)
             = Count(FlattenSeq(blocks), V) + (IF l \in V THEN 1 ELSE 0)
  <1> DEFINE A == Seq(Texts)
             more == IF l \in V THEN 1 ELSE 0
  <1>1. PICK b \in 1 .. Len(blocks) + 1 :
            blocks' = IF b > Len(blocks) THEN Append(blocks, <<l>>)
                                         ELSE [blocks EXCEPT ![b] = Append(@, l)]
    BY DEF InsertLine
  <1> HIDE DEF A
  <1>2. blocks \in Seq(Seq(A)) /\ l \in A /\ Len(blocks) \in Nat
    BY LenProperties DEF A
  <1>3. CASE b > Len(blocks)
    <2> DEFINE one == <<l>>
    <2>1. one \in Seq(A) /\ one = Append(<<>>, l) /\ <<>> \in Seq(A)
      BY <1>2
    <2>2. Count(one, V) = more
      <3>1. Count(Append(<<>>, l), V) = Count(<<>>, V) + more
        BY <1>2, <2>1, CountAppend
      <3> HIDE DEF one
      <3> QED  BY <2>1, <3>1, CountEmpty
    <2>3. blocks' = Append(blocks, one)
      BY <1>1, <1>3
    <2> HIDE DEF one
    <2>4. FlattenSeq(blocks') = FlattenSeq(blocks) \o one
      BY <1>2, <2>1, <2>3, FlattenAppend
    <2>5. FlattenSeq(blocks) \in Seq(A)
      BY <1>2, FlattenType
    <2>6. Count(FlattenSeq(blocks'), V) = Count(FlattenSeq(blocks), V) + Count(one, V)
      <3> DEFINE f == FlattenSeq(blocks)
      <3>1. f \in Seq(A)
        BY <2>5
      <3> HIDE DEF f
      <3>2. Count(f \o one, V) = Count(f, V) + Count(one, V)
        BY <2>1, <3>1, CountConcat
      <3> QED  BY <2>4, <3>2 DEF f
    <2> QED  BY <2>2, <2>6
  <1>4. CASE ~ b > Len(blocks)
    <2>1. b \in 1 .. Len(blocks)
      BY <1>2, <1>4
    <2>2. blocks' = Inserted(blocks, b, l)
      BY <1>1, <1>4 DEF Inserted
    <2> QED  BY <1>2, <2>1, <2>2, CountInserted
  <1> QED  BY <1>3, <1>4

\* With the line that ends the text page shows one line more of those that are drawn, unless
\* that line is empty.
LEMMA LineIsShown ==
    ASSUME blocks \in Seq(Seq(Seq(Texts))), NEW l \in Seq(Texts), NoEmptySpan(l), InsertLine(l),
           NEW d \in Seq(Texts), Shows(Lines, d)
    PROVE  Shows(Lines', Append(d, FlattenSeq(l)))
  <1> DEFINE x == FlattenSeq(l)
  <1>1. x \in Texts
    BY FlattenType DEF Texts
  <1> SUFFICES ASSUME NEW t \in Texts
               PROVE  Count(Lines', Reading(t))
                        = IF t = <<>> THEN 0 ELSE Count(Append(d, x), {t})
    BY DEF Shows
  <1>2. Count(Lines, Reading(t)) = IF t = <<>> THEN 0 ELSE Count(d, {t})
    BY DEF Shows
  <1>3. l \in Reading(t) <=> x = t
    BY DEF Reading
  <1>4. /\ Count(Append(d, x), {t}) = Count(d, {t}) + (IF x \in {t} THEN 1 ELSE 0)
        /\ Count(d, {t}) \in Nat
    <2> HIDE DEF x
    <2> QED  BY <1>1, CountAppend, WhereIsFinite
  <1>5. CASE l = <<>>
    <2>1. x = <<>> /\ Lines' = Lines
      BY <1>5, FlattenEmpty DEF InsertLine, Lines
    <2> HIDE DEF x
    <2> QED  BY <1>2, <1>4, <2>1
  <1>6. CASE l # <<>>
    <2>1. x # <<>>
      BY <1>6, NotEmpty
    <2>2. Count(Lines', Reading(t)) = Count(Lines, Reading(t)) + (IF l \in Reading(t) THEN 1 ELSE 0)
      BY <1>6, OneMoreLine DEF Lines
    <2> HIDE DEF x
    <2> QED  BY <1>2, <1>3, <1>4, <2>1, <2>2
  <1> QED  BY <1>5, <1>6

\* A glyph adds its characters to the last line, or begins another one.
LEMMA GlyphKeepsGathered ==
    ASSUME TextTypes, Gathered, NEW c \in Chars \cup {Ignored}, NEW style \in Styles,
           NEW gap \in {"none", "space", "line"}, Glyph(c, style, gap)
    PROVE  Gathered'
  <1> DEFINE flush == gap = "line"
             text == IF gap = "space" /\ lastchar # Blank THEN <<Blank>> \o CharsOf(c)
                                                          ELSE CharsOf(c)
             fresh == [style |-> style, text |-> <<>>]
             after == IF flush THEN AddChars(fresh, <<>>, style, text)
                               ELSE AddChars(span, line, style, text)
             last == FlattenSeq(line) \o span.text
  <1>1. text \in Texts
    BY CharsOfGlyph DEF Texts
  <1> HIDE DEF text
  <1>2. /\ span' = after[1] /\ line' = after[2]
        /\ IF flush THEN InsertLine(AppendSpan(line, span)) ELSE UNCHANGED blocks
        /\ drawn' = IF flush THEN Append(drawn, text)
                             ELSE [drawn EXCEPT ![Len(drawn)] = @ \o text]
    BY DEF Glyph, text
  <1>3. /\ span.text \in Texts /\ line \in Seq(Texts) /\ blocks \in Seq(Seq(Seq(Texts)))
        /\ NoEmptySpan(line)
    BY DEF TextTypes, Gathered, Texts
  <1>4. PICK d \in Seq(Texts) : drawn = Append(d, last) /\ Shows(Lines, d)
    BY DEF Gathered
  <1>5. last \in Texts /\ last \o text \in Texts
    <2>1. FlattenSeq(line) \in Texts
      BY <1>3, FlattenType DEF Texts
    <2>2. last \in Texts
      BY <1>3, <2>1, ConcatProperties DEF Texts
    <2> HIDE DEF last
    <2> QED  BY <1>1, <2>2, ConcatProperties DEF Texts
  <1>6. CASE flush
    <2>1. AddChars(fresh, <<>>, style, text) = after
      BY <1>6
    <2>2. <<>> \in Seq(Texts) /\ NoEmptySpan(<<>>) /\ fresh.text = <<>> /\ <<>> \in Texts
      BY DEF NoEmptySpan, Texts
    <2> HIDE DEF fresh
    <2>3. /\ NoEmptySpan(after[2])
          /\ FlattenSeq(after[2]) \o after[1].text = (FlattenSeq(<<>>) \o <<>>) \o text
      <3> DEFINE a == AddChars(fresh, <<>>, style, text)
      <3>1. fresh.text \in Texts
        BY <2>2
      <3>2. HasAlso(a, <<>>, fresh, text)
        BY <1>1, <2>2, <3>1, CharsAreAdded
      <3>3. a = after
        BY <2>1
      <3> HIDE DEF a, after
      <3> QED  BY <2>2, <3>2, <3>3 DEF HasAlso
    <2>4. (FlattenSeq(<<>>) \o <<>>) \o text = text
      BY <1>1, <2>2, FlattenEmpty, ConcatEmptySeq DEF Texts
    <2>5. drawn' = Append(drawn, FlattenSeq(line') \o span'.text)
      BY <1>2, <1>6, <2>3, <2>4
    <2>6. /\ AppendSpan(line, span) \in Seq(Texts) /\ NoEmptySpan(AppendSpan(line, span))
          /\ FlattenSeq(AppendSpan(line, span)) = last
      BY <1>3, SpanIsAdded
    <2>7. Shows(Lines', drawn)
      BY <1>2, <1>3, <1>4, <1>6, <2>6, LineIsShown
    <2>8. drawn \in Seq(Texts)
      BY DEF TextTypes, Texts
    <2> QED  BY <1>2, <2>3, <2>5, <2>7, <2>8 DEF Gathered
  <1>7. CASE ~flush
    <2>1. AddChars(span, line, style, text) = after
      BY <1>7
    <2>2. /\ NoEmptySpan(after[2])
          /\ FlattenSeq(after[2]) \o after[1].text = last \o text
      <3> DEFINE a == AddChars(span, line, style, text)
      <3>1. HasAlso(a, line, span, text)
        BY <1>1, <1>3, CharsAreAdded
      <3>2. a = after
        BY <2>1
      <3> HIDE DEF a, after
      <3> QED  BY <3>1, <3>2 DEF HasAlso
    <2>3. drawn' = Append(d, last \o text)
      <3> HIDE DEF last
      <3>1. Len(drawn) = Len(d) + 1 /\ drawn[Len(drawn)] = last
        <4> HIDE DEF Texts
        <4> QED  BY <1>4, <1>5, AppendProperties
      <3>2. drawn' = [Append(d, last) EXCEPT ![Len(d) + 1] = last \o text]
        BY <1>2, <1>4, <1>7, <3>1
      <3> DEFINE x == last \o text
      <3>3. x \in Texts
        BY <1>5
      <3> HIDE DEF x
      <3>4. [Append(d, last) EXCEPT ![Len(d) + 1] = x] = Append(d, x)
        BY <1>5, <3>3, LastReplaced
      <3> QED  BY <3>2, <3>4 DEF x
    <2>4. Lines' = Lines
      BY <1>2, <1>7 DEF Lines
    <2> HIDE DEF last
    <2>5. drawn' = Append(d, FlattenSeq(line') \o span'.text)
      BY <1>2, <2>2, <2>3
    <2> QED  BY <1>2, <1>4, <2>2, <2>4, <2>5 DEF Gathered
  <1> QED  BY <1>6, <1>7

\* When the device is freed the last line is on the text page too.
LEMMA FreeShows ==
    ASSUME TextTypes, Gathered, FreeDevice
    PROVE  Shows(Lines', drawn')
  <1>1. InsertLine(AppendSpan(line, span)) /\ drawn' = drawn
    BY DEF FreeDevice, FlushDevice, deviceVars
  <1>2. /\ span.text \in Texts /\ line \in Seq(Texts) /\ blocks \in Seq(Seq(Seq(Texts)))
        /\ NoEmptySpan(line)
    BY DEF TextTypes, Gathered, Texts
  <1>3. PICK d \in Seq(Texts) :
            drawn = Append(d, FlattenSeq(line) \o span.text) /\ Shows(Lines, d)
    BY DEF Gathered
  <1>4. /\ AppendSpan(line, span) \in Seq(Texts) /\ NoEmptySpan(AppendSpan(line, span))
        /\ FlattenSeq(AppendSpan(line, span)) = FlattenSeq(line) \o span.text
    BY <1>2, SpanIsAdded
  <1>5. Shows(Lines', drawn)
    BY <1>1, <1>2, <1>3, <1>4, LineIsShown
  <1> QED  BY <1>1, <1>5

LEMMA StepKeepsTextInv ==
    ASSUME TextTypes, TextInv, [Next]_vars
    PROVE  TextInv'
  <1>1. CASE \E c \in Chars \cup {Ignored}, style \in Styles, gap \in {"none", "space", "line"} :
                 Glyph(c, style, gap)
    <2>1. pc = "run" /\ pc' = "run"
      BY <1>1 DEF Glyph
    <2>2. Gathered'
      BY <1>1, <2>1, GlyphKeepsGathered DEF TextInv
    <2> QED  BY <2>1, <2>2 DEF TextInv
  <1>2. CASE NewSheet \/ NewPage \/ NewUser \/ NewDevice
    <2>1. /\ pc \in {"start", "page", "device", "wrap"} /\ pc' \in {"page", "device", "wrap", "run"}
          /\ UNCHANGED <<line, drawn, span, blocks>>
      BY <1>2 DEF NewSheet, NewPage, NewUser, NewDevice, New, deviceVars
    <2> QED  BY <2>1 DEF TextInv, Gathered, Lines
  <1>3. CASE FreeDevice
    <2>1. pc = "run" /\ pc' = "scan"
      BY <1>3 DEF FreeDevice
    <2> QED  BY <1>3, <2>1, FreeShows DEF TextInv
  <1>4. CASE Scan \/ Throw \/ FreeTexts \/ FreeDeviceLast \/ FlushThrows
    <2>1. pc' \in {"always", "flush", "lost", "returned", "caught"}
      BY <1>4 DEF Scan, Throw, FreeTexts, FreeDeviceLast, FlushThrows, Jump
    <2> QED  BY <2>1 DEF TextInv
  <1>5. CASE UNCHANGED vars
    BY <1>5 DEF vars, searchVars, deviceVars, TextInv, Gathered, Lines
  <1> QED  BY <1>1, <1>2, <1>3, <1>4, <1>5 DEF Next

LEMMA TextInvariant == Spec => [](TextTypes /\ TextInv)
  <1>1. Init => TextTypes /\ TextInv
    <2> SUFFICES ASSUME Init PROVE TextInv
      BY InitText
    <2>1. /\ span.text = <<>> /\ line = <<>> /\ blocks = <<>> /\ drawn = << <<>> >> /\ pc = "start"
      BY DEF Init
    <2>2. <<>> \in Seq(Texts) /\ <<>> \in Texts
      BY DEF Texts
    <2>3. drawn = Append(<<>>, FlattenSeq(line) \o span.text)
      BY <2>1, FlattenEmpty
    <2>4. Shows(Lines, <<>>)
      <3>1. Lines = <<>>
        BY <2>1, FlattenEmpty DEF Lines
      <3> QED  BY <3>1, CountEmpty DEF Shows
    <2>5. NoEmptySpan(line)
      BY <2>1 DEF NoEmptySpan
    <2>6. Gathered
      BY <2>2, <2>3, <2>4, <2>5 DEF Gathered
    <2> QED  BY <2>1, <2>6 DEF TextInv
  <1>2. TextTypes /\ TextInv /\ [Next]_vars => TextTypes' /\ TextInv'
    BY StepKeepsText, StepKeepsTextInv
  <1> QED  BY <1>1, <1>2, PTL DEF Spec

\* However many glyphs a page has, in whatever styles, gaps and lines, and in whichever blocks the
\* device puts the lines: once the device is freed, the text page has each line that was drawn and
\* is not empty, as often as it was drawn, and nothing else.
THEOREM NothingDrawnIsLost == Spec => []NothingIsLost
  <1>1. TextTypes /\ TextInv => NothingIsLost
    <2> SUFFICES ASSUME TextTypes, TextInv, pc = "scan",
                        NEW t \in Range(drawn) \cup {FlattenSeq(l) : l \in Range(Lines)}
                 PROVE  Cardinality({i \in DOMAIN Lines : FlattenSeq(Lines[i]) = t})
                          = IF t = <<>> THEN 0
                                        ELSE Cardinality({i \in DOMAIN drawn : drawn[i] = t})
      BY DEF NothingIsLost
    <2> DEFINE A == Seq(Texts)
    <2>1. Lines \in Seq(A)
      BY FlattenType DEF TextTypes, Lines, Texts
    <2> HIDE DEF A
    <2>2. /\ DOMAIN Lines = 1 .. Len(Lines) /\ \A i \in 1 .. Len(Lines) : Lines[i] \in A
      BY <2>1, LenProperties, ElementOfSeq
    <2>3. drawn \in Seq(Texts)
      BY DEF TextTypes, Texts
    <2> HIDE DEF Texts
    <2>4. DOMAIN drawn = 1 .. Len(drawn) /\ \A i \in 1 .. Len(drawn) : drawn[i] \in Texts
      BY <2>3, LenProperties, ElementOfSeq
    <2>5. t \in Texts
      <3>1. \A l \in A : FlattenSeq(l) \in Texts
        BY FlattenType DEF A, Texts
      <3> QED  BY <2>2, <2>4, <3>1 DEF Range
    <2>6. {i \in DOMAIN Lines : FlattenSeq(Lines[i]) = t} = Where(Lines, Reading(t))
      BY <2>2 DEF Where, Reading, A
    <2>7. {i \in DOMAIN drawn : drawn[i] = t} = Where(drawn, {t})
      BY <2>4 DEF Where
    <2> QED  BY <2>5, <2>6, <2>7 DEF TextInv, Shows, Count
  <1> QED  BY <1>1, TextInvariant, PTL

-----------------------------------------------------------------------------
(***************************************************************************)
(* Folds.                                                                  *)
(***************************************************************************)
LEMMA MaxIs ==
    ASSUME NEW n \in Nat, NEW x \in SUBSET (1 .. n + 1), n + 1 \in x
    PROVE  Max(x) = n + 1
  <1>1. \A m \in x : (\A y \in x : m >= y) => m = n + 1
    OBVIOUS
  <1>2. \A y \in x : n + 1 >= y
    OBVIOUS
  <1> QED  BY <1>1, <1>2 DEF Max

\* The fold of the first n elements of s, for each set of places of them.
Folds(g, A, base, step, s, n) ==
    /\ g \in [SUBSET (1 .. n) -> A]
    /\ \A x \in SUBSET (1 .. n) :
           g[x] = IF x = {} THEN base ELSE step[<<g[x \ {Max(x)}], s[Max(x)]>>]

LEMMA FoldExists ==
    ASSUME NEW A, NEW B, NEW base \in A, NEW step \in [A \X B -> A], NEW s \in Seq(B)
    PROVE  \E g : Folds(g, A, base, step, s, Len(s))
  <1> DEFINE T == {n \in Nat : n <= Len(s) => \E g : Folds(g, A, base, step, s, n)}
  <1>1. T \in SUBSET Nat /\ Len(s) \in Nat /\ \A i \in 1 .. Len(s) : s[i] \in B
    OBVIOUS
  <1>2. 0 \in T
    <2>1. SUBSET (1 .. 0) = {{}}
      OBVIOUS
    <2>2. Folds([x \in SUBSET (1 .. 0) |-> base], A, base, step, s, 0)
      BY <2>1 DEF Folds
    <2> QED  BY <2>2
  <1>3. ASSUME NEW n \in T
        PROVE  n + 1 \in T
    <2> SUFFICES ASSUME n + 1 <= Len(s)
                 PROVE  \E g : Folds(g, A, base, step, s, n + 1)
      OBVIOUS
    <2>1. PICK f : Folds(f, A, base, step, s, n)
      BY <1>1
    <2> DEFINE g == [x \in SUBSET (1 .. n + 1) |->
                        IF n + 1 \in x THEN step[<<f[x \ {n + 1}], s[n + 1]>>] ELSE f[x]]
    <2>2. /\ f \in [SUBSET (1 .. n) -> A]
          /\ \A x \in SUBSET (1 .. n) :
                 f[x] = IF x = {} THEN base ELSE step[<<f[x \ {Max(x)}], s[Max(x)]>>]
      BY <2>1 DEF Folds
    <2>3. n \in Nat /\ s[n + 1] \in B
      BY <1>1
    <2>4. ASSUME NEW x \in SUBSET (1 .. n + 1)
          PROVE  /\ g[x] \in A
                 /\ g[x] = IF x = {} THEN base ELSE step[<<g[x \ {Max(x)}], s[Max(x)]>>]
      <3>1. CASE n + 1 \in x
        <4> DEFINE y == x \ {n + 1}
        <4>1. y \in SUBSET (1 .. n) /\ y \in SUBSET (1 .. n + 1) /\ n + 1 \notin y
          BY <2>3
        <4>2. Max(x) = n + 1
          BY <2>3, <3>1, MaxIs
        <4> HIDE DEF y
        <4>3. f[y] \in A /\ g[y] = f[y]
          BY <2>2, <4>1
        <4>4. g[x] = step[<<f[y], s[n + 1]>>]
          BY <3>1 DEF y
        <4>5. step[<<f[y], s[n + 1]>>] \in A
          BY <2>3, <4>3
        <4>6. g[x] = step[<<g[x \ {Max(x)}], s[Max(x)]>>]
          BY <4>2, <4>3, <4>4 DEF y
        <4> HIDE DEF g
        <4> QED  BY <3>1, <4>4, <4>5, <4>6
      <3>2. CASE n + 1 \notin x
        <4>1. x \in SUBSET (1 .. n) /\ g[x] = f[x]
          BY <2>3, <3>2
        <4>2. CASE x = {}
          BY <2>2, <4>1, <4>2
        <4>3. CASE x # {}
          <5> DEFINE y == x \ {Max(x)}
          <5>1. y \in SUBSET (1 .. n) /\ y \in SUBSET (1 .. n + 1) /\ n + 1 \notin y
            BY <3>2, <4>1
          <5> HIDE DEF y
          <5>2. g[y] = f[y]
            BY <5>1
          <5>3. f[x] = step[<<f[y], s[Max(x)]>>] /\ f[x] \in A
            BY <2>2, <4>1, <4>3 DEF y
          <5> HIDE DEF g
          <5> QED  BY <4>1, <4>3, <5>2, <5>3 DEF y
        <4> QED  BY <4>2, <4>3
      <3> QED  BY <3>1, <3>2
    <2>5. g \in [SUBSET (1 .. n + 1) -> A]
      <3>1. g = [x \in SUBSET (1 .. n + 1) |-> g[x]]
        OBVIOUS
      <3> HIDE DEF g
      <3> QED  BY <2>4, <3>1
    <2> HIDE DEF g
    <2>6. Folds(g, A, base, step, s, n + 1)
      BY <2>4, <2>5 DEF Folds
    <2> QED  BY <2>6
  <1> HIDE DEF T
  <1>4. T = Nat
    BY <1>1, <1>2, <1>3, SetInduction
  <1>5. Len(s) \in T
    BY <1>1, <1>4
  <1> QED  BY <1>5 DEF T

\* What a fold makes of the first n places.
LEMMA PlacesOf ==
    ASSUME NEW n \in Nat \ {0}
    PROVE  /\ 1 .. n # {} /\ Max(1 .. n) = n /\ (1 .. n) \ {n} = 1 .. (n - 1)
           /\ 1 .. n \in SUBSET (1 .. n)
  <1>1. PICK m \in Nat : n = m + 1
    <2>1. n - 1 \in Nat /\ n = (n - 1) + 1
      OBVIOUS
    <2> QED  BY <2>1
  <1>2. Max(1 .. m + 1) = m + 1
    BY MaxIs
  <1> QED  BY <1>1, <1>2

\* What is gathered of the first n elements of s.
Upto(s, n) == IF n = 0 THEN <<>> ELSE (CHOOSE f : IsFlatten(f, s))[n]

LEMMA UptoIs ==
    ASSUME NEW S, NEW s \in Seq(Seq(S))
    PROVE  /\ Upto(s, 0) = <<>> /\ FlattenSeq(s) = Upto(s, Len(s))
           /\ \A n \in 1 .. Len(s) : Upto(s, n) = Upto(s, n - 1) \o s[n]
           /\ \A n \in 0 .. Len(s) : Upto(s, n) \in Seq(S)
  <1> DEFINE A == Seq(S)
             f == CHOOSE f : IsFlatten(f, s)
  <1>1. Len(s) \in Nat /\ \A i \in 1 .. Len(s) : s[i] \in A
    OBVIOUS
  <1>2. IsFlatten(f, s)
    <2>1. \E h : IsFlatten(h, s)
      BY FlattenExists
    <2> QED  BY <2>1
  <1>3. FlattenSeq(s) = IF Len(s) = 0 THEN s ELSE f[Len(s)]
    BY FlattenUnfolds
  <1>4. \A n : Upto(s, n) = IF n = 0 THEN <<>> ELSE f[n]
    BY DEF Upto
  <1> HIDE DEF f
  <1>5. \A n \in 1 .. Len(s) : f[n] = IF n = 1 THEN s[n] ELSE f[n - 1] \o s[n]
    BY <1>2 DEF IsFlatten
  <1>6. ASSUME NEW n \in 1 .. Len(s)
        PROVE  Upto(s, n) = Upto(s, n - 1) \o s[n]
    <2>1. CASE n = 1
      <3>1. s[n] \in Seq(S)
        BY <1>1
      <3>2. <<>> \o s[n] = s[n]
        BY <3>1, ConcatEmptySeq
      <3>3. f[n] = s[n] /\ n - 1 = 0
        BY <1>5, <2>1
      <3> QED  BY <1>4, <2>1, <3>2, <3>3
    <2>2. CASE n # 1
      <3>1. n # 0 /\ n - 1 # 0
        BY <1>1, <2>2
      <3>2. f[n] = f[n - 1] \o s[n]
        BY <1>5, <2>2
      <3> QED  BY <1>4, <3>1, <3>2
    <2> QED  BY <2>1, <2>2
  <1>7. FlattenSeq(s) = Upto(s, Len(s))
    <2>1. Len(s) = 0 => s = <<>>
      OBVIOUS
    <2> QED  BY <1>3, <1>4, <2>1
  <1>8. \A n \in 0 .. Len(s) : Upto(s, n) \in A
    <2> DEFINE T == {n \in Nat : n <= Len(s) => Upto(s, n) \in A}
    <2>1. T \in SUBSET Nat /\ 0 \in T
      BY <1>4, EmptySeq
    <2>2. ASSUME NEW n \in T
          PROVE  n + 1 \in T
      <3> SUFFICES ASSUME n + 1 <= Len(s)
                   PROVE  Upto(s, n + 1) \in A
        OBVIOUS
      <3>1. Upto(s, n) \in Seq(S) /\ s[n + 1] \in Seq(S)
        BY <1>1
      <3>2. Upto(s, n + 1) = Upto(s, n) \o s[n + 1]
        <4>1. n + 1 \in 1 .. Len(s) /\ (n + 1) - 1 = n
          BY <1>1
        <4> QED  BY <1>6, <4>1
      <3> DEFINE u == Upto(s, n)
                 x == s[n + 1]
      <3>3. u \in Seq(S) /\ x \in Seq(S)
        BY <3>1
      <3> HIDE DEF u, x
      <3>4. u \o x \in A
        BY <3>3, ConcatProperties
      <3> QED  BY <3>2, <3>4 DEF u, x
    <2> HIDE DEF T
    <2>3. T = Nat
      BY <2>1, <2>2, SetInduction
    <2> QED  BY <1>1, <2>3 DEF T
  <1>9. Upto(s, 0) = <<>>
    BY <1>4
  <1> QED  BY <1>6, <1>7, <1>8, <1>9

LEMMA MaxIsIn ==
    ASSUME NEW n \in Nat, NEW x \in SUBSET (1 .. n), x # {}
    PROVE  Max(x) \in x
  <1> DEFINE T == {k \in Nat : n - k \in x}
  <1>1. T \in SUBSET Nat /\ T # {}
    <2>1. PICK i \in x : TRUE
      OBVIOUS
    <2>2. n - i \in Nat /\ n - (n - i) = i
      OBVIOUS
    <2> QED  BY <2>1, <2>2
  <1>2. PICK k \in T : \A j \in T : k <= j
    BY <1>1, Least
  <1>3. k \in Nat /\ n - k \in x
    OBVIOUS
  <1>4. ASSUME NEW y \in x
        PROVE  n - k >= y
    <2>1. n - y \in Nat /\ n - (n - y) = y
      OBVIOUS
    <2>2. n - y \in T
      BY <2>1
    <2>3. k <= n - y
      BY <1>2, <2>2
    <2> QED  BY <1>3, <2>1, <2>3
  <1>5. \E m \in x : \A y \in x : m >= y
    BY <1>3, <1>4
  <1> QED  BY <1>5 DEF Max

\* The fold as the library has it, for steps of this form.
IsFold(g, A, B, base, step, s) ==
    /\ g = [x \in SUBSET DOMAIN s |-> g[x]]
    /\ g[{}] = base
    /\ \A x \in SUBSET DOMAIN s :
           x # {} => /\ g[x \ {Max(x)}] \in A /\ s[Max(x)] \in B /\ Max(x) \in DOMAIN s
                     /\ g[x] = step[<<g[x \ {Max(x)}], s[Max(x)]>>]

LEMMA FoldSteps ==
    ASSUME NEW A, NEW B, NEW base \in A, NEW step \in [A \X B -> A], NEW s \in Seq(B)
    PROVE  \E g : IsFold(g, A, B, base, step, s)
  <1>1. PICK g : Folds(g, A, base, step, s, Len(s))
    <2>1. \E g : Folds(g, A, base, step, s, Len(s))
      BY FoldExists
    <2> QED  BY <2>1
  <1> DEFINE n == Len(s)
  <1>2. n \in Nat /\ DOMAIN s = 1 .. n /\ \A i \in 1 .. n : s[i] \in B
    OBVIOUS
  <1>3. /\ g \in [SUBSET (1 .. n) -> A]
        /\ \A x \in SUBSET (1 .. n) :
               g[x] = IF x = {} THEN base ELSE step[<<g[x \ {Max(x)}], s[Max(x)]>>]
    BY <1>1 DEF Folds
  <1> HIDE DEF n
  <1>4. g = [x \in SUBSET DOMAIN s |-> g[x]]
    BY <1>2, <1>3
  <1>5. g[{}] = base
    <2>1. {} \in SUBSET (1 .. n)
      OBVIOUS
    <2> QED  BY <1>3, <2>1
  <1>6. ASSUME NEW x \in SUBSET (1 .. n), x # {}
        PROVE  /\ g[x \ {Max(x)}] \in A /\ s[Max(x)] \in B /\ Max(x) \in DOMAIN s
               /\ g[x] = step[<<g[x \ {Max(x)}], s[Max(x)]>>]
    <2>1. Max(x) \in 1 .. n
      BY <1>2, <1>6, MaxIsIn
    <2>2. x \ {Max(x)} \in SUBSET (1 .. n)
      OBVIOUS
    <2> QED  BY <1>2, <1>3, <1>6, <2>1, <2>2
  <1> QED  BY <1>2, <1>4, <1>5, <1>6 DEF IsFold

-----------------------------------------------------------------------------
(***************************************************************************)
(* The length of the text.                                                 *)
(***************************************************************************)
LineLen(n, l) == FoldLeft(LAMBDA m, s : m + Len(s), n, l)

IsLineLen(g, n, l) ==
    g = [x \in SUBSET DOMAIN l |-> IF x = {} THEN n ELSE g[x \ {Max(x)}] + Len(l[Max(x)])]

LEMMA LineLenUnfolds ==
    ASSUME NEW n, NEW l
    PROVE  LineLen(n, l) = (CHOOSE g : IsLineLen(g, n, l))[DOMAIN l]
  BY DEF LineLen, FoldLeft, MapThenFoldSet, IsLineLen

LEMMA LineLenIs ==
    ASSUME NEW n \in Nat, NEW l \in Seq(Texts)
    PROVE  LineLen(n, l) = n + Len(FlattenSeq(l)) /\ FlattenSeq(l) \in Texts
  <1> DEFINE step == [p \in Nat \X Texts |-> p[1] + Len(p[2])]
             f == CHOOSE g : IsLineLen(g, n, l)
             N == Len(l)
  <1>1. step \in [Nat \X Texts -> Nat]
    BY LenProperties DEF Texts
  <1>2. N \in Nat /\ DOMAIN l = 1 .. N /\ \A i \in 1 .. N : l[i] \in Texts
    <2> HIDE DEF Texts
    <2> QED  OBVIOUS
  <1>3. \E g : IsLineLen(g, n, l)
    <2> HIDE DEF step, Texts
    <2>1. PICK g : IsFold(g, Nat, Texts, n, step, l)
      <3>1. \E g : IsFold(g, Nat, Texts, n, step, l)
        BY <1>1, FoldSteps
      <3> QED  BY <3>1
    <2>2. ASSUME NEW x \in SUBSET DOMAIN l
          PROVE  g[x] = IF x = {} THEN n ELSE g[x \ {Max(x)}] + Len(l[Max(x)])
      BY <2>1 DEF step, IsFold
    <2>3. g = [x \in SUBSET DOMAIN l |-> IF x = {} THEN n ELSE g[x \ {Max(x)}] + Len(l[Max(x)])]
      BY <2>1, <2>2 DEF IsFold
    <2> QED  BY <2>3 DEF IsLineLen
  <1>4. IsLineLen(f, n, l)
    BY <1>3
  <1>5. LineLen(n, l) = f[1 .. N]
    BY <1>2, LineLenUnfolds
  <1> HIDE DEF f, N
  <1>6. f[1 .. 0] = n /\ \A k \in 1 .. N : f[1 .. k] = f[1 .. (k - 1)] + Len(l[k])
    <2>1. \A x \in SUBSET (1 .. N) :
              f[x] = IF x = {} THEN n ELSE f[x \ {Max(x)}] + Len(l[Max(x)])
      BY <1>2, <1>4 DEF IsLineLen
    <2>2. 1 .. 0 = {}
      OBVIOUS
    <2>3. ASSUME NEW k \in 1 .. N
          PROVE  f[1 .. k] = f[1 .. (k - 1)] + Len(l[k])
      <3>1. 1 .. k \in SUBSET (1 .. N) /\ k \in Nat \ {0}
        BY <1>2
      <3> QED  BY <2>1, <3>1, PlacesOf
    <2> QED  BY <2>1, <2>2, <2>3
  <1>7. /\ Upto(l, 0) = <<>> /\ FlattenSeq(l) = Upto(l, N)
        /\ \A k \in 1 .. N : Upto(l, k) = Upto(l, k - 1) \o l[k]
        /\ \A k \in 0 .. N : Upto(l, k) \in Texts
    BY UptoIs DEF Texts, N
  <1> DEFINE T == {k \in Nat : k <= N => f[1 .. k] = n + Len(Upto(l, k))}
  <1>8. T \in SUBSET Nat /\ 0 \in T
    <2>1. Len(<<>>) = 0
      OBVIOUS
    <2> QED  BY <1>6, <1>7, <2>1
  <1>9. ASSUME NEW k \in T
        PROVE  k + 1 \in T
    <2> SUFFICES ASSUME k + 1 <= N
                 PROVE  f[1 .. k + 1] = n + Len(Upto(l, k + 1))
      OBVIOUS
    <2>1. k + 1 \in 1 .. N /\ (k + 1) - 1 = k /\ k \in 0 .. N
      BY <1>2
    <2>2. f[1 .. k + 1] = f[1 .. k] + Len(l[k + 1]) /\ f[1 .. k] = n + Len(Upto(l, k))
      BY <1>2, <1>6, <2>1
    <2>3. Upto(l, k + 1) = Upto(l, k) \o l[k + 1] /\ Upto(l, k) \in Texts /\ l[k + 1] \in Texts
      BY <1>2, <1>7, <2>1
    <2>4. /\ Len(Upto(l, k + 1)) = Len(Upto(l, k)) + Len(l[k + 1])
          /\ Len(Upto(l, k)) \in Nat /\ Len(l[k + 1]) \in Nat
      BY <2>3, ConcatProperties, LenProperties DEF Texts
    <2> DEFINE i == Len(Upto(l, k))
               j == Len(l[k + 1])
    <2>5. i \in Nat /\ j \in Nat /\ n \in Nat /\ f[1 .. k + 1] = (n + i) + j
      BY <2>2, <2>4
    <2>6. Len(Upto(l, k + 1)) = i + j
      BY <2>4
    <2> HIDE DEF i, j
    <2> QED  BY <2>5, <2>6
  <1> HIDE DEF T
  <1>10. T = Nat
    BY <1>8, <1>9, SetInduction
  <1>11. f[1 .. N] = n + Len(Upto(l, N))
    BY <1>2, <1>10 DEF T
  <1>12. FlattenSeq(l) \in Texts
    BY FlattenType DEF Texts
  <1> QED  BY <1>5, <1>7, <1>11, <1>12

\* Each line of the text page has a span.
HasLines == Lines \in Seq(Seq(Texts)) /\ \A i \in 1 .. Len(Lines) : Lines[i] # <<>>

\* The lines as they are read, each with a blank behind it.
Marked == [i \in DOMAIN Lines |-> Append(FlattenSeq(Lines[i]), Blank)]

LEMMA MarkedIs ==
    ASSUME HasLines
    PROVE  /\ Marked \in Seq(Texts) /\ Len(Marked) = Len(Lines) /\ Text = FlattenSeq(Marked)
           /\ Text \in Texts /\ Len(Lines) \in Nat /\ DOMAIN Lines = 1 .. Len(Lines)
           /\ \A i \in 1 .. Len(Lines) :
                  /\ Lines[i] \in Seq(Texts) /\ FlattenSeq(Lines[i]) \in Texts
                  /\ Marked[i] = Append(FlattenSeq(Lines[i]), Blank)
  <1> DEFINE A == Seq(Texts)
  <1>1. Lines \in Seq(A)
    BY DEF HasLines
  <1> HIDE DEF A
  <1>2. /\ Len(Lines) \in Nat /\ DOMAIN Lines = 1 .. Len(Lines)
        /\ \A i \in 1 .. Len(Lines) : Lines[i] \in A
    BY <1>1, LenProperties, ElementOfSeq
  <1>3. ASSUME NEW i \in 1 .. Len(Lines)
        PROVE  /\ FlattenSeq(Lines[i]) \in Texts
               /\ Append(FlattenSeq(Lines[i]), Blank) \in Texts
    <2>1. FlattenSeq(Lines[i]) \in Texts
      BY <1>2, FlattenType DEF A, Texts
    <2>2. Blank \in Chars
      BY DEF Chars
    <2> QED  BY <2>1, <2>2, AppendProperties DEF Texts
  <1>4. Marked = [i \in 1 .. Len(Lines) |-> Append(FlattenSeq(Lines[i]), Blank)]
    BY <1>2 DEF Marked
  <1> DEFINE n == Len(Lines)
             e(i) == Append(FlattenSeq(Lines[i]), Blank)
  <1>5. n \in Nat /\ Marked = [i \in 1 .. n |-> e(i)] /\ \A i \in 1 .. n : e(i) \in Texts
    BY <1>2, <1>3, <1>4
  <1> HIDE DEF n, e, Texts
  <1>6. Marked \in Seq(Texts) /\ Len(Marked) = n
    BY <1>5
  <1>7. FlattenSeq(Marked) \in Texts
    BY <1>6, FlattenType DEF Texts
  <1>8. Text = FlattenSeq(Marked)
    BY DEF Text, Marked
  <1> QED  BY <1>2, <1>3, <1>4, <1>6, <1>7, <1>8 DEF n, A

IsTextLen(g) ==
    g = [x \in SUBSET DOMAIN Lines |->
            IF x = {} THEN 0 ELSE LineLen(g[x \ {Max(x)}], Lines[Max(x)]) + 1]

LEMMA TextLenUnfolds == TextLen = (CHOOSE g : IsTextLen(g))[DOMAIN Lines]
  BY DEF TextLen, LineLen, FoldLeft, MapThenFoldSet, IsTextLen

\* textlen is the length of the text.
LEMMA TextLenIs ==
    ASSUME HasLines
    PROVE  TextLen = Len(Text) /\ Len(Text) \in Nat
  <1> DEFINE A == Seq(Texts)
             step == [p \in Nat \X A |-> LineLen(p[1], p[2]) + 1]
             f == CHOOSE g : IsTextLen(g)
             N == Len(Lines)
  <1>1. \A n \in Nat, l \in A : /\ LineLen(n, l) = n + Len(FlattenSeq(l)) /\ LineLen(n, l) \in Nat
                                /\ Len(FlattenSeq(l)) \in Nat
    BY LineLenIs, LenProperties DEF Texts
  <1>2. step \in [Nat \X A -> Nat]
    <2> HIDE DEF A
    <2>1. \A n \in Nat, l \in A : LineLen(n, l) + 1 \in Nat
      BY <1>1
    <2>2. \A p \in Nat \X A : LineLen(p[1], p[2]) + 1 \in Nat
      BY <2>1
    <2> QED  BY <2>2
  <1> HIDE DEF step
  <1>3. /\ N \in Nat /\ DOMAIN Lines = 1 .. N /\ Len(Marked) = N /\ Text = FlattenSeq(Marked)
        /\ \A i \in 1 .. N : /\ Lines[i] \in A /\ FlattenSeq(Lines[i]) \in Texts
                             /\ Marked[i] = Append(FlattenSeq(Lines[i]), Blank)
        /\ Marked \in Seq(Texts) /\ Lines \in Seq(A) /\ Text \in Texts
    BY MarkedIs DEF HasLines
  <1> HIDE DEF A
  <1>4. \E g : IsTextLen(g)
    <2>1. PICK g : IsFold(g, Nat, A, 0, step, Lines)
      <3>1. \E g : IsFold(g, Nat, A, 0, step, Lines)
        BY <1>2, <1>3, FoldSteps
      <3> QED  BY <3>1
    <2>2. ASSUME NEW x \in SUBSET DOMAIN Lines
          PROVE  g[x] = IF x = {} THEN 0 ELSE LineLen(g[x \ {Max(x)}], Lines[Max(x)]) + 1
      BY <2>1 DEF step, IsFold
    <2>3. g = [x \in SUBSET DOMAIN Lines |->
                  IF x = {} THEN 0 ELSE LineLen(g[x \ {Max(x)}], Lines[Max(x)]) + 1]
      BY <2>1, <2>2 DEF IsFold
    <2> QED  BY <2>3 DEF IsTextLen
  <1>5. IsTextLen(f)
    BY <1>4
  <1>6. TextLen = f[1 .. N]
    BY <1>3, TextLenUnfolds
  <1> HIDE DEF f, N
  <1>7. f[1 .. 0] = 0 /\ \A k \in 1 .. N : f[1 .. k] = LineLen(f[1 .. (k - 1)], Lines[k]) + 1
    <2>1. \A x \in SUBSET (1 .. N) :
              f[x] = IF x = {} THEN 0 ELSE LineLen(f[x \ {Max(x)}], Lines[Max(x)]) + 1
      BY <1>3, <1>5 DEF IsTextLen
    <2>2. 1 .. 0 = {}
      OBVIOUS
    <2>3. ASSUME NEW k \in 1 .. N
          PROVE  f[1 .. k] = LineLen(f[1 .. (k - 1)], Lines[k]) + 1
      <3>1. 1 .. k \in SUBSET (1 .. N) /\ k \in Nat \ {0}
        BY <1>3
      <3> QED  BY <2>1, <3>1, PlacesOf
    <2> QED  BY <2>1, <2>2, <2>3
  <1>8. /\ Upto(Marked, 0) = <<>> /\ FlattenSeq(Marked) = Upto(Marked, N)
        /\ \A k \in 1 .. N : Upto(Marked, k) = Upto(Marked, k - 1) \o Marked[k]
        /\ \A k \in 0 .. N : Upto(Marked, k) \in Texts
    BY <1>3, UptoIs DEF Texts
  <1> DEFINE T == {k \in Nat : k <= N => f[1 .. k] = Len(Upto(Marked, k))}
  <1>9. T \in SUBSET Nat /\ 0 \in T
    <2>1. Len(<<>>) = 0
      OBVIOUS
    <2> QED  BY <1>7, <1>8, <2>1
  <1>10. ASSUME NEW k \in T
        PROVE  k + 1 \in T
    <2> SUFFICES ASSUME k + 1 <= N
                 PROVE  f[1 .. k + 1] = Len(Upto(Marked, k + 1))
      OBVIOUS
    <2>1. k + 1 \in 1 .. N /\ (k + 1) - 1 = k /\ k \in 0 .. N
      BY <1>3
    <2> DEFINE u == Upto(Marked, k)
               t == FlattenSeq(Lines[k + 1])
    <2>2. f[1 .. k + 1] = LineLen(f[1 .. k], Lines[k + 1]) + 1
      BY <1>7, <2>1
    <2>7. f[1 .. k] = Len(u)
      BY <1>3, <2>1
    <2>3. Upto(Marked, k + 1) = u \o Append(t, Blank) /\ u \in Texts /\ t \in Texts
      BY <1>3, <1>8, <2>1
    <2>4. Len(u) \in Nat
      BY <2>3, LenProperties DEF Texts
    <2>5. f[1 .. k + 1] = (Len(u) + Len(t)) + 1 /\ Len(t) \in Nat
      BY <1>1, <1>3, <2>1, <2>2, <2>4, <2>7
    <2> HIDE DEF u, t
    <2>6. Len(Upto(Marked, k + 1)) = Len(u) + (Len(t) + 1)
      <3>1. Blank \in Chars
        BY DEF Chars
      <3>2. Append(t, Blank) \in Texts /\ Len(Append(t, Blank)) = Len(t) + 1
        BY <2>3, <3>1, AppendProperties DEF Texts
      <3> QED  BY <2>3, <3>2, ConcatProperties DEF Texts
    <2> QED  BY <2>4, <2>5, <2>6
  <1> HIDE DEF T
  <1>11. T = Nat
    BY <1>9, <1>10, SetInduction
  <1>12. f[1 .. N] = Len(Upto(Marked, N))
    BY <1>3, <1>11 DEF T
  <1>13. Len(Text) \in Nat
    BY <1>3, LenProperties DEF Texts
  <1> QED  BY <1>3, <1>6, <1>8, <1>12, <1>13

-----------------------------------------------------------------------------
(***************************************************************************)
(* The character at a position.                                            *)
(***************************************************************************)
InLineOf(idx, at, l) == FoldLeftDomain(LAMBDA a, i : NextSpan(l[i], i = Len(l), idx, a), at, l)

Ids(l) == [i \in DOMAIN l |-> i]

IsInLine(g, idx, at, l) ==
    g = [x \in SUBSET DOMAIN Ids(l) |->
            IF x = {} THEN at
            ELSE NextSpan(l[Ids(l)[Max(x)]], Ids(l)[Max(x)] = Len(l), idx, g[x \ {Max(x)}])]

LEMMA InLineUnfolds ==
    ASSUME NEW idx, NEW at, NEW l
    PROVE  InLineOf(idx, at, l) = (CHOOSE g : IsInLine(g, idx, at, l))[DOMAIN Ids(l)]
  BY DEF InLineOf, FoldLeftDomain, FoldLeft, MapThenFoldSet, IsInLine, Ids

IsTextEnd(g, idx) ==
    g = [x \in SUBSET DOMAIN Lines |->
            IF x = {} THEN [ofs |-> 0, char |-> None]
            ELSE InLineOf(idx, g[x \ {Max(x)}], Lines[Max(x)])]

TextEnd(idx) == (CHOOSE g : IsTextEnd(g, idx))[DOMAIN Lines]

LEMMA CharAtUnfolds ==
    ASSUME NEW idx
    PROVE  TextCharAt(idx) = IF TextEnd(idx).char = None THEN Empty ELSE TextEnd(idx).char
  BY DEF TextCharAt, TextEnd, IsTextEnd, InLineOf, FoldLeft, MapThenFoldSet

\* How far the loops of textcharat have come.
Ats(idx) == {a \in [ofs : Nat, char : Chars \cup {Empty, None}] : a.char = None => a.ofs <= idx}

\* What they have found in the text t.
Found(at, idx, t) ==
    IF idx < Len(t)
    THEN at.char # None /\ (IF at.char = Empty THEN Blank ELSE at.char) = t[idx + 1]
    ELSE at.char = None /\ at.ofs = Len(t)

LEMMA NoneIsNoChar == None \notin Chars \cup {Empty} /\ Empty \notin Chars /\ Blank \in Chars
  BY NoneAssumption, CharsAssumption DEF Chars

LEMMA SpanType ==
    ASSUME NEW idx \in Nat, NEW s \in Texts, NEW last \in BOOLEAN, NEW at \in Ats(idx)
    PROVE  NextSpan(s, last, idx, at) \in Ats(idx)
  <1> DEFINE n == Len(s)
             P == [ofs : Nat, char : Chars \cup {Empty, None}]
  <1>1. n \in Nat /\ \A i \in 1 .. n : s[i] \in Chars
    BY DEF Texts
  <1>2. at \in P /\ at.ofs \in Nat /\ (at.char = None => at.ofs <= idx)
    BY DEF Ats
  <1>3. at = [ofs |-> at.ofs, char |-> at.char]
    BY <1>2
  <1> HIDE DEF n
  <1>4. CASE at.char # None
    BY <1>4 DEF NextSpan
  <1>5. CASE at.char = None /\ idx < at.ofs + n
    <2>1. idx - at.ofs + 1 \in 1 .. n
      BY <1>1, <1>2, <1>5
    <2>2. NextSpan(s, last, idx, at) = [at EXCEPT !.char = s[idx - at.ofs + 1]]
      BY <1>5 DEF NextSpan, n
    <2>3. s[idx - at.ofs + 1] \in Chars
      BY <1>1, <2>1
    <2> QED  BY <1>2, <1>3, <2>2, <2>3, NoneIsNoChar DEF Ats
  <1>6. CASE at.char = None /\ ~(idx < at.ofs + n) /\ last /\ idx = at.ofs + n
    <2>1. NextSpan(s, last, idx, at) = [at EXCEPT !.char = Empty]
      BY <1>6 DEF NextSpan, n
    <2> QED  BY <1>2, <1>3, <2>1, NoneIsNoChar DEF Ats
  <1>7. CASE at.char = None /\ ~(idx < at.ofs + n) /\ ~(last /\ idx = at.ofs + n)
    <2> DEFINE m == IF last THEN 1 ELSE 0
    <2>1. NextSpan(s, last, idx, at) = [at EXCEPT !.ofs = at.ofs + n + m]
      BY <1>7 DEF NextSpan, n
    <2>2. at.ofs + n + m \in Nat /\ at.ofs + n + m <= idx
      BY <1>1, <1>2, <1>7
    <2> HIDE DEF m
    <2> QED  BY <1>2, <1>3, <2>1, <2>2 DEF Ats
  <1> QED  BY <1>4, <1>5, <1>6, <1>7

\* The text of a span, with a blank behind it when it is the last of its line.
SpanText(s, last) == IF last THEN Append(s, Blank) ELSE s

LEMMA SpanFound ==
    ASSUME NEW idx \in Nat, NEW s \in Texts, NEW last \in BOOLEAN, NEW at \in Ats(idx),
           NEW t \in Texts, Found(at, idx, t)
    PROVE  Found(NextSpan(s, last, idx, at), idx, t \o SpanText(s, last))
  <1> DEFINE n == Len(s)
             m == IF last THEN 1 ELSE 0
             e == SpanText(s, last)
             r == t \o e
             k == Len(t)
             b == NextSpan(s, last, idx, at)
  <1>1. n \in Nat /\ k \in Nat /\ \A i \in 1 .. n : s[i] \in Chars
    BY DEF Texts
  <1>2. /\ e \in Texts /\ Len(e) = n + m /\ \A i \in 1 .. n : e[i] = s[i]
        /\ last => e[n + 1] = Blank
    <2>1. CASE last
      BY <2>1, NoneIsNoChar, AppendProperties DEF Texts, SpanText
    <2>2. CASE ~last
      BY <2>2, LenProperties DEF Texts, SpanText
    <2> QED  BY <2>1, <2>2
  <1> HIDE DEF e
  <1>3. /\ Len(r) = k + (n + m)
        /\ \A i \in 1 .. k + (n + m) : r[i] = IF i <= k THEN t[i] ELSE e[i - k]
    <2>1. m \in Nat
      OBVIOUS
    <2> HIDE DEF m, n
    <2>2. /\ Len(r) = Len(t) + Len(e)
          /\ \A i \in 1 .. Len(t) + Len(e) : r[i] = IF i <= Len(t) THEN t[i] ELSE e[i - Len(t)]
      BY <1>2, ConcatProperties DEF Texts
    <2> QED  BY <1>1, <1>2, <2>1, <2>2
  <1>4. at \in [ofs : Nat, char : Chars \cup {Empty, None}]
    BY DEF Ats
  <1> HIDE DEF n, r, b, k
  <1>5. CASE at.char # None
    <2>1. b = at
      BY <1>5 DEF NextSpan, b
    <2>2. idx < k /\ (IF at.char = Empty THEN Blank ELSE at.char) = t[idx + 1]
      BY <1>5 DEF Found, k
    <2>3. idx < k + (n + m) /\ r[idx + 1] = t[idx + 1]
      BY <1>1, <1>3, <2>2
    <2> QED  BY <1>3, <1>5, <2>1, <2>2, <2>3 DEF Found, r, e, b
  <1>6. CASE at.char = None
    <2>1. at.ofs = k /\ ~(idx < k)
      BY <1>6 DEF Found, k
    <2>2. CASE idx < k + n
      <3>1. idx - k + 1 \in 1 .. n /\ idx + 1 \in 1 .. k + (n + m) /\ ~(idx + 1 <= k)
        BY <1>1, <2>1, <2>2
      <3>2. b = [at EXCEPT !.char = s[idx - k + 1]]
        BY <1>6, <2>1, <2>2 DEF NextSpan, n, b
      <3>3. b.char = s[idx - k + 1]
        BY <1>4, <3>2
      <3>4. s[idx - k + 1] \in Chars
        BY <1>1, <3>1
      <3>5. r[idx + 1] = e[(idx + 1) - k] /\ (idx + 1) - k = idx - k + 1
        <4>1. r[idx + 1] = e[(idx + 1) - k]
          <5> HIDE DEF m
          <5> QED  BY <1>3, <3>1
        <4>2. (idx + 1) - k = idx - k + 1
          BY <1>1
        <4> QED  BY <4>1, <4>2
      <3>6. r[idx + 1] = s[idx - k + 1]
        BY <1>2, <3>1, <3>5
      <3>7. idx < Len(r)
        BY <1>1, <1>3, <3>1
      <3> QED  BY <3>3, <3>4, <3>6, <3>7, NoneIsNoChar DEF Found, r, e, b
    <2>3. CASE ~(idx < k + n) /\ last /\ idx = k + n
      <3>1. b = [at EXCEPT !.char = Empty]
        BY <1>6, <2>1, <2>3 DEF NextSpan, n, b
      <3>2. b.char = Empty
        BY <1>4, <3>1
      <3>3. idx + 1 \in 1 .. k + (n + m) /\ ~(idx + 1 <= k) /\ (idx + 1) - k = n + 1
        BY <1>1, <2>3
      <3>4. r[idx + 1] = Blank /\ idx < Len(r)
        BY <1>1, <1>2, <1>3, <2>3, <3>3
      <3> QED  BY <3>2, <3>4, NoneIsNoChar DEF Found, r, e, b
    <2>4. CASE ~(idx < k + n) /\ ~(last /\ idx = k + n)
      <3>1. b = [at EXCEPT !.ofs = k + n + m]
        BY <1>6, <2>1, <2>4 DEF NextSpan, n, b
      <3>2. b.char = None /\ b.ofs = k + n + m
        BY <1>4, <1>6, <3>1
      <3>3. ~(idx < k + (n + m)) /\ k + n + m = k + (n + m)
        BY <1>1, <2>4
      <3> QED  BY <1>3, <3>2, <3>3 DEF Found, r, e, b
    <2> QED  BY <2>2, <2>3, <2>4
  <1> QED  BY <1>5, <1>6

\* The turns of the loop over the spans of a line.
LineTurns(f, idx, at, l) ==
    /\ f[0] = at
    /\ \A k \in 1 .. Len(l) : f[k] = NextSpan(l[k], k = Len(l), idx, f[k - 1])
    /\ InLineOf(idx, at, l) = f[Len(l)]

LEMMA LineHasTurns ==
    ASSUME NEW idx \in Nat, NEW l \in Seq(Texts), NEW at \in Ats(idx)
    PROVE  \E f : LineTurns(f, idx, at, l)
  <1> DEFINE N == Len(l)
             B == 1 .. N
             s == Ids(l)
             step == [p \in Ats(idx) \X B |-> NextSpan(l[p[2]], p[2] = N, idx, p[1])]
             h == CHOOSE g : IsInLine(g, idx, at, l)
  <1>1. N \in Nat /\ DOMAIN l = 1 .. N /\ \A i \in 1 .. N : l[i] \in Texts
    <2> HIDE DEF Texts
    <2> QED  OBVIOUS
  <1>2. step \in [Ats(idx) \X B -> Ats(idx)]
    <2>1. \A a \in Ats(idx), i \in B : NextSpan(l[i], i = N, idx, a) \in Ats(idx)
      BY <1>1, SpanType
    <2>2. \A p \in Ats(idx) \X B : NextSpan(l[p[2]], p[2] = N, idx, p[1]) \in Ats(idx)
      BY <2>1
    <2> QED  BY <2>2
  <1>3. s \in Seq(B) /\ DOMAIN s = 1 .. N /\ Len(s) = N /\ \A i \in 1 .. N : s[i] = i
    BY <1>1 DEF Ids
  <1> HIDE DEF step, s
  <1>4. \E g : IsInLine(g, idx, at, l)
    <2>1. PICK g : IsFold(g, Ats(idx), B, at, step, s)
      <3>1. \E g : IsFold(g, Ats(idx), B, at, step, s)
        BY <1>2, <1>3, FoldSteps
      <3> QED  BY <3>1
    <2>2. ASSUME NEW x \in SUBSET DOMAIN s
          PROVE  g[x] = IF x = {} THEN at
                        ELSE NextSpan(l[s[Max(x)]], s[Max(x)] = N, idx, g[x \ {Max(x)}])
      <3>1. CASE x = {}
        BY <2>1, <3>1 DEF IsFold
      <3>2. CASE x # {}
        <4> DEFINE a == g[x \ {Max(x)}]
                   i == s[Max(x)]
        <4>1. a \in Ats(idx) /\ i \in B /\ g[x] = step[<<a, i>>]
          BY <2>1, <3>2 DEF IsFold
        <4> HIDE DEF a, i
        <4>2. step[<<a, i>>] = NextSpan(l[i], i = N, idx, a)
          BY <4>1 DEF step
        <4> QED  BY <3>2, <4>1, <4>2 DEF a, i
      <3> QED  BY <3>1, <3>2
    <2>3. g = [x \in SUBSET DOMAIN s |->
                  IF x = {} THEN at
                  ELSE NextSpan(l[s[Max(x)]], s[Max(x)] = N, idx, g[x \ {Max(x)}])]
      BY <2>1, <2>2 DEF IsFold
    <2> QED  BY <2>3 DEF IsInLine, s
  <1>5. IsInLine(h, idx, at, l)
    BY <1>4
  <1>6. InLineOf(idx, at, l) = h[1 .. N]
    BY <1>3, InLineUnfolds DEF s
  <1> HIDE DEF h
  <1>7. \A x \in SUBSET (1 .. N) :
            h[x] = IF x = {} THEN at
                   ELSE NextSpan(l[s[Max(x)]], s[Max(x)] = N, idx, h[x \ {Max(x)}])
    BY <1>3, <1>5 DEF IsInLine, s
  <1> DEFINE f == [k \in 0 .. N |-> h[1 .. k]]
  <1>8. f[0] = at
    <2>1. 1 .. 0 = {} /\ 0 \in 0 .. N
      BY <1>1
    <2> QED  BY <1>7, <2>1
  <1>9. ASSUME NEW k \in 1 .. N
        PROVE  f[k] = NextSpan(l[k], k = N, idx, f[k - 1])
    <2>1. /\ 1 .. k \in SUBSET (1 .. N) /\ k \in Nat \ {0} /\ s[k] = k
          /\ k \in 0 .. N /\ k - 1 \in 0 .. N
      BY <1>1, <1>3
    <2>2. h[1 .. k] = NextSpan(l[k], k = N, idx, h[1 .. (k - 1)])
      <3>1. 1 .. k # {} /\ Max(1 .. k) = k /\ (1 .. k) \ {k} = 1 .. (k - 1)
        BY <2>1, PlacesOf
      <3> QED  BY <1>7, <2>1, <3>1
    <2> QED  BY <2>1, <2>2
  <1>10. InLineOf(idx, at, l) = f[N]
    BY <1>1, <1>6
  <1> HIDE DEF f
  <1>11. LineTurns(f, idx, at, l)
    BY <1>8, <1>9, <1>10 DEF LineTurns
  <1> QED  BY <1>11

LEMMA TextsAssociate ==
    ASSUME NEW t \in Texts, NEW u \in Texts, NEW x \in Texts
    PROVE  (t \o u) \o x = t \o (u \o x)
  BY ConcatAssociative DEF Texts

\* The turns for a line find what the line has at the position.
LEMMA LineFound ==
    ASSUME NEW idx \in Nat, NEW l \in Seq(Texts), NEW at \in Ats(idx)
    PROVE  /\ InLineOf(idx, at, l) \in Ats(idx)
           /\ \A t \in Texts :
                  l # <<>> /\ Found(at, idx, t)
                    => Found(InLineOf(idx, at, l), idx, t \o Append(FlattenSeq(l), Blank))
  <1> DEFINE N == Len(l)
  <1>1. N \in Nat /\ \A i \in 1 .. N : l[i] \in Texts
    <2> HIDE DEF Texts
    <2> QED  OBVIOUS
  <1>2. PICK f : LineTurns(f, idx, at, l)
    <2>1. \E f : LineTurns(f, idx, at, l)
      BY LineHasTurns
    <2> QED  BY <2>1
  <1>3. /\ f[0] = at /\ InLineOf(idx, at, l) = f[N]
        /\ \A k \in 1 .. N : f[k] = NextSpan(l[k], k = N, idx, f[k - 1])
    BY <1>2 DEF LineTurns
  <1> HIDE DEF N
  <1> DEFINE T == {k \in Nat : k <= N => f[k] \in Ats(idx)}
  <1>4. T = Nat
    <2>1. T \in SUBSET Nat /\ 0 \in T
      BY <1>3
    <2>2. ASSUME NEW k \in T
          PROVE  k + 1 \in T
      <3> SUFFICES ASSUME k + 1 <= N
                   PROVE  f[k + 1] \in Ats(idx)
        OBVIOUS
      <3>1. k + 1 \in 1 .. N /\ (k + 1) - 1 = k /\ k <= N /\ k \in Nat
        BY <1>1
      <3>2. f[k + 1] = NextSpan(l[k + 1], k + 1 = N, idx, f[k]) /\ f[k] \in Ats(idx)
        BY <1>3, <3>1
      <3> QED  BY <1>1, <3>1, <3>2, SpanType
    <2> HIDE DEF T
    <2> QED  BY <2>1, <2>2, SetInduction
  <1>5. \A k \in 0 .. N : f[k] \in Ats(idx)
    BY <1>1, <1>4
  <1> HIDE DEF T
  <1>6. ASSUME NEW t \in Texts, l # <<>>, Found(at, idx, t)
        PROVE  Found(f[N], idx, t \o Append(FlattenSeq(l), Blank))
    <2> DEFINE e(k) == SpanText(Upto(l, k), k = N)
               U == {k \in Nat : k <= N => Found(f[k], idx, t \o e(k))}
    <2>1. /\ Upto(l, 0) = <<>> /\ FlattenSeq(l) = Upto(l, N)
          /\ \A k \in 1 .. N : Upto(l, k) = Upto(l, k - 1) \o l[k]
          /\ \A k \in 0 .. N : Upto(l, k) \in Texts
      BY UptoIs DEF Texts, N
    <2>2. N # 0
      BY <1>6, EmptySeq DEF N
    <2>3. 0 \in U
      <3>1. e(0) = <<>> /\ t \o <<>> = t
        BY <2>1, <2>2, ConcatEmptySeq DEF SpanText, Texts
      <3> QED  BY <1>3, <1>6, <3>1
    <2>4. ASSUME NEW k \in U
          PROVE  k + 1 \in U
      <3> SUFFICES ASSUME k + 1 <= N
                   PROVE  Found(f[k + 1], idx, t \o e(k + 1))
        OBVIOUS
      <3> DEFINE u == Upto(l, k)
                 x == l[k + 1]
                 last == k + 1 = N
                 y == SpanText(x, last)
      <3>1. k + 1 \in 1 .. N /\ (k + 1) - 1 = k /\ k <= N /\ k \in Nat /\ k \in 0 .. N /\ k # N
        BY <1>1
      <3>2. u \in Texts /\ x \in Texts /\ Upto(l, k + 1) = u \o x /\ e(k) = u
        BY <1>1, <2>1, <3>1 DEF SpanText
      <3>3. Found(f[k], idx, t \o u)
        BY <3>1, <3>2
      <3>4. f[k + 1] = NextSpan(x, last, idx, f[k]) /\ f[k] \in Ats(idx)
        BY <1>3, <1>5, <3>1
      <3>5. last \in BOOLEAN
        OBVIOUS
      <3>6. e(k + 1) = SpanText(u \o x, last)
        BY <3>2
      <3> HIDE DEF e, u, x, last
      <3>7. t \o u \in Texts /\ u \o x \in Texts
        BY <3>2, ConcatProperties DEF Texts
      <3>8. Found(f[k + 1], idx, (t \o u) \o y)
        <4> DEFINE v == t \o u
        <4>1. v \in Texts /\ Found(f[k], idx, v)
          BY <3>3, <3>7
        <4> HIDE DEF v
        <4>2. Found(NextSpan(x, last, idx, f[k]), idx, v \o SpanText(x, last))
          BY <3>2, <3>4, <3>5, <4>1, SpanFound
        <4> QED  BY <3>4, <4>2 DEF v
      <3>9. SpanText(u \o x, last) = u \o y /\ y \in Texts
        <4>1. CASE last
          <5>1. Append(x, Blank) \in Texts /\ u \o Append(x, Blank) = Append(u \o x, Blank)
            BY <3>2, NoneIsNoChar, ConcatAppend, AppendProperties DEF Texts
          <5> QED  BY <4>1, <5>1 DEF SpanText
        <4>2. CASE ~last
          BY <3>2, <4>2 DEF SpanText
        <4> QED  BY <4>1, <4>2
      <3>10. (t \o u) \o y = t \o (u \o y)
        <4>1. t \in Texts /\ u \in Texts /\ y \in Texts
          BY <3>2, <3>9
        <4> HIDE DEF y
        <4> QED  BY <4>1, TextsAssociate
      <3> QED  BY <3>6, <3>8, <3>9, <3>10
    <2>5. U \in SUBSET Nat
      OBVIOUS
    <2> HIDE DEF U
    <2>6. U = Nat
      BY <2>3, <2>4, <2>5, SetInduction
    <2>7. Found(f[N], idx, t \o e(N))
      BY <1>1, <2>6 DEF U
    <2> QED  BY <2>1, <2>7 DEF SpanText
  <1>7. f[N] \in Ats(idx)
    BY <1>1, <1>5
  <1> QED  BY <1>3, <1>6, <1>7

\* The turns of the loop over the lines.
TextTurns(f, idx) ==
    /\ f[0] = [ofs |-> 0, char |-> None]
    /\ \A k \in 1 .. Len(Lines) : f[k] = InLineOf(idx, f[k - 1], Lines[k])
    /\ TextEnd(idx) = f[Len(Lines)]

LEMMA TextHasTurns ==
    ASSUME HasLines, NEW idx \in Nat
    PROVE  \E f : TextTurns(f, idx)
  <1> DEFINE N == Len(Lines)
             B == Seq(Texts)
             at == [ofs |-> 0, char |-> None]
             step == [p \in Ats(idx) \X B |-> InLineOf(idx, p[1], p[2])]
             h == CHOOSE g : IsTextEnd(g, idx)
  <1>1. step \in [Ats(idx) \X B -> Ats(idx)]
    <2>1. \A a \in Ats(idx), l \in B : InLineOf(idx, a, l) \in Ats(idx)
      BY LineFound
    <2> HIDE DEF B
    <2>2. \A p \in Ats(idx) \X B : InLineOf(idx, p[1], p[2]) \in Ats(idx)
      BY <2>1
    <2> QED  BY <2>2
  <1>2. /\ N \in Nat /\ DOMAIN Lines = 1 .. N /\ Lines \in Seq(B)
    BY MarkedIs DEF HasLines
  <1>3. at \in Ats(idx)
    BY DEF Ats
  <1> HIDE DEF step, B, at
  <1>4. \E g : IsTextEnd(g, idx)
    <2>1. PICK g : IsFold(g, Ats(idx), B, at, step, Lines)
      <3>1. \E g : IsFold(g, Ats(idx), B, at, step, Lines)
        BY <1>1, <1>2, <1>3, FoldSteps
      <3> QED  BY <3>1
    <2>2. ASSUME NEW x \in SUBSET DOMAIN Lines
          PROVE  g[x] = IF x = {} THEN at ELSE InLineOf(idx, g[x \ {Max(x)}], Lines[Max(x)])
      <3>1. CASE x = {}
        BY <2>1, <3>1 DEF IsFold
      <3>2. CASE x # {}
        <4> DEFINE a == g[x \ {Max(x)}]
                   l == Lines[Max(x)]
        <4>1. a \in Ats(idx) /\ l \in B /\ g[x] = step[<<a, l>>]
          BY <2>1, <3>2 DEF IsFold
        <4> HIDE DEF a, l
        <4>2. step[<<a, l>>] = InLineOf(idx, a, l)
          BY <4>1 DEF step
        <4> QED  BY <3>2, <4>1, <4>2 DEF a, l
      <3> QED  BY <3>1, <3>2
    <2>3. g = [x \in SUBSET DOMAIN Lines |->
                  IF x = {} THEN at ELSE InLineOf(idx, g[x \ {Max(x)}], Lines[Max(x)])]
      BY <2>1, <2>2 DEF IsFold
    <2> QED  BY <2>3 DEF IsTextEnd, at
  <1>5. IsTextEnd(h, idx)
    BY <1>4
  <1>6. TextEnd(idx) = h[1 .. N]
    BY <1>2 DEF TextEnd
  <1> HIDE DEF h, N
  <1>7. \A x \in SUBSET (1 .. N) :
            h[x] = IF x = {} THEN at ELSE InLineOf(idx, h[x \ {Max(x)}], Lines[Max(x)])
    BY <1>2, <1>5 DEF IsTextEnd, at
  <1> DEFINE f == [k \in 0 .. N |-> h[1 .. k]]
  <1>8. f[0] = at
    <2>1. 1 .. 0 = {} /\ 0 \in 0 .. N
      BY <1>2
    <2> QED  BY <1>7, <2>1
  <1>9. ASSUME NEW k \in 1 .. N
        PROVE  f[k] = InLineOf(idx, f[k - 1], Lines[k])
    <2>1. /\ 1 .. k \in SUBSET (1 .. N) /\ k \in Nat \ {0} /\ k \in 0 .. N /\ k - 1 \in 0 .. N
      BY <1>2
    <2>2. h[1 .. k] = InLineOf(idx, h[1 .. (k - 1)], Lines[k])
      <3>1. 1 .. k # {} /\ Max(1 .. k) = k /\ (1 .. k) \ {k} = 1 .. (k - 1)
        BY <2>1, PlacesOf
      <3> QED  BY <1>7, <2>1, <3>1
    <2> QED  BY <2>1, <2>2
  <1>10. TextEnd(idx) = f[N]
    BY <1>2, <1>6
  <1> HIDE DEF f
  <1>11. TextTurns(f, idx)
    BY <1>8, <1>9, <1>10 DEF TextTurns, N, at
  <1> QED  BY <1>11

\* The loops of textcharat find the character of the text at the position.
LEMMA TextFound ==
    ASSUME HasLines, NEW idx \in Nat
    PROVE  TextEnd(idx) \in Ats(idx) /\ Found(TextEnd(idx), idx, Text)
  <1> DEFINE N == Len(Lines)
  <1>1. /\ N \in Nat /\ Len(Marked) = N /\ Text = FlattenSeq(Marked) /\ Marked \in Seq(Texts)
        /\ \A i \in 1 .. N : /\ Lines[i] \in Seq(Texts) /\ Lines[i] # <<>>
                             /\ Marked[i] = Append(FlattenSeq(Lines[i]), Blank)
    BY MarkedIs DEF HasLines
  <1>2. PICK f : TextTurns(f, idx)
    <2>1. \E f : TextTurns(f, idx)
      BY TextHasTurns
    <2> QED  BY <2>1
  <1>3. /\ f[0] = [ofs |-> 0, char |-> None] /\ TextEnd(idx) = f[N]
        /\ \A k \in 1 .. N : f[k] = InLineOf(idx, f[k - 1], Lines[k])
    BY <1>2 DEF TextTurns
  <1>4. /\ Upto(Marked, 0) = <<>> /\ FlattenSeq(Marked) = Upto(Marked, N)
        /\ \A k \in 1 .. N : Upto(Marked, k) = Upto(Marked, k - 1) \o Marked[k]
        /\ \A k \in 0 .. N : Upto(Marked, k) \in Texts
    BY <1>1, UptoIs DEF Texts
  <1> HIDE DEF N
  <1> DEFINE T == {k \in Nat : k <= N => f[k] \in Ats(idx) /\ Found(f[k], idx, Upto(Marked, k))}
  <1>5. T \in SUBSET Nat
    OBVIOUS
  <1>6. 0 \in T
    <2>1. f[0] \in Ats(idx)
      BY <1>3 DEF Ats
    <2>2. Len(<<>>) = 0
      OBVIOUS
    <2>3. Found(f[0], idx, <<>>)
      BY <1>3, <2>2 DEF Found
    <2> QED  BY <1>4, <2>1, <2>3
  <1>7. ASSUME NEW k \in T
        PROVE  k + 1 \in T
    <2> SUFFICES ASSUME k + 1 <= N
                 PROVE  f[k + 1] \in Ats(idx) /\ Found(f[k + 1], idx, Upto(Marked, k + 1))
      OBVIOUS
    <2>1. k + 1 \in 1 .. N /\ (k + 1) - 1 = k /\ k \in 0 .. N /\ k <= N
      BY <1>1
    <2>2. f[k] \in Ats(idx) /\ Found(f[k], idx, Upto(Marked, k))
      BY <2>1
    <2> DEFINE u == Upto(Marked, k)
               l == Lines[k + 1]
    <2>3. f[k + 1] = InLineOf(idx, f[k], l) /\ l \in Seq(Texts) /\ l # <<>> /\ u \in Texts
      BY <1>1, <1>3, <1>4, <2>1
    <2>4. Upto(Marked, k + 1) = u \o Append(FlattenSeq(l), Blank)
      BY <1>1, <1>4, <2>1
    <2>5. Found(f[k], idx, u)
      BY <2>2
    <2> HIDE DEF u, l
    <2> QED  BY <2>2, <2>3, <2>4, <2>5, LineFound
  <1> HIDE DEF T
  <1>8. T = Nat
    BY <1>5, <1>6, <1>7, SetInduction
  <1>9. f[N] \in Ats(idx) /\ Found(f[N], idx, Upto(Marked, N))
    <2>1. N \in T /\ N <= N
      BY <1>1, <1>8
    <2> QED  BY <2>1 DEF T
  <1> QED  BY <1>1, <1>3, <1>4, <1>9

\* textcharat gives the character at each position of the text, emptychar at the ends of lines and
\* past the text.
LEMMA CharAtIs ==
    ASSUME HasLines, NEW idx \in Nat
    PROVE  /\ CharAt(idx) = IF idx < Len(Text) THEN Text[idx + 1] ELSE Blank
           /\ CharAt(idx) # Blank => TextCharAt(idx) # Empty
           /\ CharAt(idx) \in Chars
  <1> DEFINE at == TextEnd(idx)
  <1>1. at \in Ats(idx) /\ Found(at, idx, Text)
    BY TextFound
  <1>2. TextCharAt(idx) = IF at.char = None THEN Empty ELSE at.char
    BY CharAtUnfolds
  <1> HIDE DEF at
  <1>3. at.char \in Chars \cup {Empty, None}
    BY <1>1 DEF Ats
  <1>4. CharAt(idx) = IF idx < Len(Text) THEN Text[idx + 1] ELSE Blank
    BY <1>1, <1>2, <1>3, NoneIsNoChar DEF Found, CharAt
  <1>5. CharAt(idx) # Blank => TextCharAt(idx) # Empty
    BY DEF CharAt
  <1>6. CharAt(idx) \in Chars
    BY <1>2, <1>3, NoneIsNoChar DEF CharAt
  <1> QED  BY <1>4, <1>5, <1>6

\* A text ends in the blank of its last line.
LEMMA LastIsBlank ==
    ASSUME HasLines, Len(Text) > 0
    PROVE  Text[Len(Text)] = Blank
  <1> DEFINE N == Len(Lines)
  <1>1. /\ N \in Nat /\ Len(Marked) = N /\ Text = FlattenSeq(Marked) /\ Marked \in Seq(Texts)
        /\ \A i \in 1 .. N : /\ FlattenSeq(Lines[i]) \in Texts
                             /\ Marked[i] = Append(FlattenSeq(Lines[i]), Blank)
    BY MarkedIs
  <1>2. /\ Upto(Marked, 0) = <<>> /\ FlattenSeq(Marked) = Upto(Marked, N)
        /\ \A k \in 1 .. N : Upto(Marked, k) = Upto(Marked, k - 1) \o Marked[k]
        /\ \A k \in 0 .. N : Upto(Marked, k) \in Texts
    BY <1>1, UptoIs DEF Texts
  <1> HIDE DEF N
  <1>3. N # 0
    <2>1. Len(<<>>) = 0
      OBVIOUS
    <2> QED  BY <1>1, <1>2, <2>1
  <1>4. N \in 1 .. N /\ N - 1 \in 0 .. N
    BY <1>1, <1>3
  <1> DEFINE u == Upto(Marked, N - 1)
             x == FlattenSeq(Lines[N])
             y == Append(x, Blank)
  <1>5. Text = u \o y /\ u \in Texts /\ x \in Texts
    BY <1>1, <1>2, <1>4
  <1> HIDE DEF u, x
  <1>6. y \in Texts /\ Len(y) = Len(x) + 1 /\ y[Len(x) + 1] = Blank
    BY <1>5, NoneIsNoChar, AppendProperties DEF Texts
  <1> HIDE DEF y
  <1>7. Len(u) \in Nat /\ Len(x) \in Nat
    BY <1>5, LenProperties DEF Texts
  <1>8. /\ Len(u \o y) = Len(u) + Len(y)
        /\ \A i \in 1 .. Len(u) + Len(y) :
               (u \o y)[i] = IF i <= Len(u) THEN u[i] ELSE y[i - Len(u)]
    BY <1>5, <1>6, ConcatProperties DEF Texts
  <1> DEFINE k == Len(u) + Len(y)
  <1>9. k \in 1 .. k /\ ~(k <= Len(u)) /\ k - Len(u) = Len(x) + 1
    BY <1>6, <1>7
  <1>10. (u \o y)[k] = y[Len(x) + 1]
    BY <1>8, <1>9
  <1> QED  BY <1>5, <1>6, <1>8, <1>10

-----------------------------------------------------------------------------
(***************************************************************************)
(* What a text reads as.                                                   *)
(***************************************************************************)
SqueezeStep(t, s, i) == IF i > 1 /\ t[i] = Blank /\ t[i - 1] = Blank THEN s ELSE Append(s, t[i])

IsSqueeze(g, t) ==
    g = [x \in SUBSET DOMAIN Ids(t) |->
            IF x = {} THEN <<>> ELSE SqueezeStep(t, g[x \ {Max(x)}], Ids(t)[Max(x)])]

LEMMA SqueezeUnfolds ==
    ASSUME NEW t
    PROVE  Squeeze(t) = (CHOOSE g : IsSqueeze(g, t))[DOMAIN Ids(t)]
  BY DEF Squeeze, FoldLeftDomain, FoldLeft, MapThenFoldSet, IsSqueeze, Ids, SqueezeStep

\* The turns of the fold.
SqueezeTurns(f, t) ==
    /\ f[0] = <<>>
    /\ \A k \in 1 .. Len(t) : f[k] = SqueezeStep(t, f[k - 1], k)
    /\ \A k \in 0 .. Len(t) : f[k] \in Texts
    /\ Squeeze(t) = f[Len(t)]

LEMMA SqueezeHasTurns ==
    ASSUME NEW t \in Texts
    PROVE  \E f : SqueezeTurns(f, t)
  <1> DEFINE N == Len(t)
             B == 1 .. N
             s == Ids(t)
             step == [p \in Texts \X B |-> SqueezeStep(t, p[1], p[2])]
             h == CHOOSE g : IsSqueeze(g, t)
  <1>1. N \in Nat /\ DOMAIN t = 1 .. N /\ \A i \in 1 .. N : t[i] \in Chars
    BY DEF Texts
  <1>2. \A u \in Texts, i \in B : SqueezeStep(t, u, i) \in Texts
    BY <1>1, AppendProperties DEF Texts, SqueezeStep
  <1>3. step \in [Texts \X B -> Texts]
    <2>1. \A p \in Texts \X B : SqueezeStep(t, p[1], p[2]) \in Texts
      BY <1>2
    <2> QED  BY <2>1
  <1>4. s \in Seq(B) /\ DOMAIN s = 1 .. N /\ Len(s) = N /\ \A i \in 1 .. N : s[i] = i
    BY <1>1 DEF Ids
  <1>5. <<>> \in Texts
    BY DEF Texts
  <1> HIDE DEF step, s
  <1>6. \E g : IsSqueeze(g, t)
    <2>1. PICK g : IsFold(g, Texts, B, <<>>, step, s)
      <3>1. \E g : IsFold(g, Texts, B, <<>>, step, s)
        BY <1>3, <1>4, <1>5, FoldSteps
      <3> QED  BY <3>1
    <2>2. ASSUME NEW x \in SUBSET DOMAIN s
          PROVE  g[x] = IF x = {} THEN <<>> ELSE SqueezeStep(t, g[x \ {Max(x)}], s[Max(x)])
      <3>1. CASE x = {}
        BY <2>1, <3>1 DEF IsFold
      <3>2. CASE x # {}
        <4> DEFINE a == g[x \ {Max(x)}]
                   i == s[Max(x)]
        <4>1. a \in Texts /\ i \in B /\ g[x] = step[<<a, i>>]
          BY <2>1, <3>2 DEF IsFold
        <4> HIDE DEF a, i
        <4>2. step[<<a, i>>] = SqueezeStep(t, a, i)
          BY <4>1 DEF step
        <4> QED  BY <3>2, <4>1, <4>2 DEF a, i
      <3> QED  BY <3>1, <3>2
    <2>3. g = [x \in SUBSET DOMAIN s |->
                  IF x = {} THEN <<>> ELSE SqueezeStep(t, g[x \ {Max(x)}], s[Max(x)])]
      BY <2>1, <2>2 DEF IsFold
    <2> QED  BY <2>3 DEF IsSqueeze, s
  <1>7. IsSqueeze(h, t)
    BY <1>6
  <1>8. Squeeze(t) = h[1 .. N]
    BY <1>4, SqueezeUnfolds DEF s
  <1> HIDE DEF h
  <1>9. \A x \in SUBSET (1 .. N) :
            h[x] = IF x = {} THEN <<>> ELSE SqueezeStep(t, h[x \ {Max(x)}], s[Max(x)])
    BY <1>4, <1>7 DEF IsSqueeze, s
  <1> DEFINE f == [k \in 0 .. N |-> h[1 .. k]]
  <1>10. f[0] = <<>>
    <2>1. 1 .. 0 = {} /\ 0 \in 0 .. N
      BY <1>1
    <2> QED  BY <1>9, <2>1
  <1>11. ASSUME NEW k \in 1 .. N
         PROVE  f[k] = SqueezeStep(t, f[k - 1], k)
    <2>1. /\ 1 .. k \in SUBSET (1 .. N) /\ k \in Nat \ {0} /\ s[k] = k
          /\ k \in 0 .. N /\ k - 1 \in 0 .. N
      BY <1>1, <1>4
    <2>2. h[1 .. k] = SqueezeStep(t, h[1 .. (k - 1)], k)
      <3>1. 1 .. k # {} /\ Max(1 .. k) = k /\ (1 .. k) \ {k} = 1 .. (k - 1)
        BY <2>1, PlacesOf
      <3> QED  BY <1>9, <2>1, <3>1
    <2> QED  BY <2>1, <2>2
  <1>12. Squeeze(t) = f[N]
    BY <1>1, <1>8
  <1> HIDE DEF f, N
  <1>13. \A k \in 0 .. N : f[k] \in Texts
    <2> DEFINE T == {k \in Nat : k <= N => f[k] \in Texts}
    <2>1. T \in SUBSET Nat /\ 0 \in T
      BY <1>5, <1>10
    <2>2. ASSUME NEW k \in T
          PROVE  k + 1 \in T
      <3> SUFFICES ASSUME k + 1 <= N
                   PROVE  f[k + 1] \in Texts
        OBVIOUS
      <3>1. k + 1 \in 1 .. N /\ (k + 1) - 1 = k /\ k <= N /\ k \in Nat
        BY <1>1
      <3>2. f[k + 1] = SqueezeStep(t, f[k], k + 1) /\ f[k] \in Texts
        BY <1>11, <3>1
      <3> QED  BY <1>2, <3>1, <3>2
    <2> HIDE DEF T
    <2>3. T = Nat
      BY <2>1, <2>2, SetInduction
    <2> QED  BY <1>1, <2>3 DEF T
  <1>14. SqueezeTurns(f, t)
    BY <1>10, <1>11, <1>12, <1>13 DEF SqueezeTurns, N
  <1> QED  BY <1>14

LEMMA SqueezeEmpty == Squeeze(<<>>) = <<>>
  <1>1. <<>> \in Texts /\ Len(<<>>) = 0
    BY DEF Texts
  <1>2. PICK f : SqueezeTurns(f, <<>>)
    <2>1. \E f : SqueezeTurns(f, <<>>)
      BY <1>1, SqueezeHasTurns
    <2> QED  BY <2>1
  <1> QED  BY <1>1, <1>2 DEF SqueezeTurns

LEMMA SqueezeAppend ==
    ASSUME NEW t \in Texts, NEW x \in Chars
    PROVE  /\ Squeeze(t) \in Texts
           /\ Squeeze(Append(t, x)) = IF Len(t) > 0 /\ x = Blank /\ t[Len(t)] = Blank
                                      THEN Squeeze(t) ELSE Append(Squeeze(t), x)
  <1> DEFINE N == Len(t)
             r == Append(t, x)
  <1>1. /\ r \in Texts /\ Len(r) = N + 1 /\ r[N + 1] = x /\ N \in Nat
        /\ \A i \in 1 .. N : r[i] = t[i]
    BY AppendProperties, LenProperties DEF Texts
  <1> HIDE DEF r
  <1>2. PICK f : SqueezeTurns(f, t)
    <2>1. \E f : SqueezeTurns(f, t)
      BY SqueezeHasTurns
    <2> QED  BY <2>1
  <1>3. PICK g : SqueezeTurns(g, r)
    <2>1. \E g : SqueezeTurns(g, r)
      BY <1>1, SqueezeHasTurns
    <2> QED  BY <2>1
  <1>4. /\ f[0] = <<>> /\ \A k \in 1 .. N : f[k] = SqueezeStep(t, f[k - 1], k)
        /\ \A k \in 0 .. N : f[k] \in Texts
        /\ Squeeze(t) = f[N]
    BY <1>2 DEF SqueezeTurns
  <1>5. /\ g[0] = <<>> /\ \A k \in 1 .. N + 1 : g[k] = SqueezeStep(r, g[k - 1], k)
        /\ Squeeze(r) = g[N + 1]
    BY <1>1, <1>3 DEF SqueezeTurns
  <1> HIDE DEF N
  <1> DEFINE T == {k \in Nat : k <= N => f[k] = g[k]}
  <1>6. T \in SUBSET Nat /\ 0 \in T
    BY <1>4, <1>5
  <1>7. ASSUME NEW k \in T
        PROVE  k + 1 \in T
    <2> SUFFICES ASSUME k + 1 <= N
                 PROVE  f[k + 1] = g[k + 1]
      OBVIOUS
    <2>1. /\ k + 1 \in 1 .. N /\ k + 1 \in 1 .. N + 1 /\ (k + 1) - 1 = k /\ k <= N /\ k \in Nat
          /\ k + 1 > 1 => k \in 1 .. N
      BY <1>1
    <2>2. f[k + 1] = SqueezeStep(t, f[k], k + 1) /\ g[k + 1] = SqueezeStep(r, g[k], k + 1)
      BY <1>4, <1>5, <2>1
    <2>3. f[k] = g[k]
      BY <2>1
    <2>4. t[k + 1] = r[k + 1] /\ (k + 1 > 1 => t[k] = r[k])
      BY <1>1, <2>1
    <2> QED  BY <2>1, <2>2, <2>3, <2>4 DEF SqueezeStep
  <1> HIDE DEF T
  <1>8. T = Nat
    BY <1>6, <1>7, SetInduction
  <1>9. f[N] = g[N]
    <2>1. N \in T /\ N <= N
      BY <1>1, <1>8
    <2> QED  BY <2>1 DEF T
  <1>10. g[N + 1] = SqueezeStep(r, g[N], N + 1)
    <2>1. N + 1 \in 1 .. N + 1 /\ (N + 1) - 1 = N
      BY <1>1
    <2> QED  BY <1>5, <2>1
  <1>11. (N + 1) - 1 = N /\ (N + 1 > 1 <=> N > 0) /\ (N > 0 => r[N] = t[N])
    BY <1>1
  <1>12. Squeeze(t) \in Texts
    BY <1>1, <1>4
  <1> QED  BY <1>1, <1>4, <1>5, <1>9, <1>10, <1>11, <1>12 DEF SqueezeStep, N, r

\* The character behind n is a blank that follows a blank.
Merged(t, pos, n) == n > pos /\ t[n + 1] = Blank /\ t[n] = Blank

\* What the characters of t from pos on read as, up to each position.
Readings(r, t, pos) ==
    /\ r \in [pos .. Len(t) -> Texts]
    /\ r[pos] = <<>>
    /\ \A n \in pos .. Len(t) - 1 :
           r[n + 1] = IF Merged(t, pos, n) THEN r[n] ELSE Append(r[n], t[n + 1])

\* A part of a text, and the part that is longer by one character.
LEMMA SubSeqGrows ==
    ASSUME NEW t \in Texts, NEW pos \in 0 .. Len(t), NEW n \in pos .. Len(t)
    PROVE  /\ SubSeq(t, pos + 1, n) \in Texts /\ Len(SubSeq(t, pos + 1, n)) = n - pos
           /\ \A i \in 1 .. n - pos : SubSeq(t, pos + 1, n)[i] = t[pos + i]
           /\ n < Len(t) => SubSeq(t, pos + 1, n + 1) = Append(SubSeq(t, pos + 1, n), t[n + 1])
  <1> DEFINE N == Len(t)
  <1>1. N \in Nat /\ pos \in Nat /\ n \in Nat /\ pos <= n /\ n <= N
    BY LenProperties DEF Texts
  <1>2. ASSUME NEW m \in pos .. N
        PROVE  /\ SubSeq(t, pos + 1, m) \in Texts /\ Len(SubSeq(t, pos + 1, m)) = m - pos
               /\ \A i \in 1 .. m - pos : SubSeq(t, pos + 1, m)[i] = t[pos + i]
    <2>1. m \in Nat /\ pos <= m /\ m <= N
      BY <1>1
    <2>2. \A i \in pos + 1 .. m : t[i] \in Chars
      BY <1>1, <2>1 DEF Texts
    <2>3. /\ SubSeq(t, pos + 1, m) \in Seq(Chars)
          /\ Len(SubSeq(t, pos + 1, m)) = IF pos + 1 <= m THEN m - (pos + 1) + 1 ELSE 0
          /\ \A i \in 1 .. m - (pos + 1) + 1 : SubSeq(t, pos + 1, m)[i] = t[pos + 1 + i - 1]
      BY <1>1, <2>1, <2>2, SubSeqProperties DEF Texts
    <2>4. Len(SubSeq(t, pos + 1, m)) = m - pos
      BY <1>1, <2>1, <2>3
    <2>5. ASSUME NEW i \in 1 .. m - pos
          PROVE  SubSeq(t, pos + 1, m)[i] = t[pos + i]
      <3>1. i \in 1 .. m - (pos + 1) + 1 /\ pos + 1 + i - 1 = pos + i
        BY <1>1, <2>1
      <3> QED  BY <2>3, <3>1
    <2> QED  BY <2>3, <2>4, <2>5 DEF Texts
  <1>3. ASSUME n < N
        PROVE  SubSeq(t, pos + 1, n + 1) = Append(SubSeq(t, pos + 1, n), t[n + 1])
    <2> DEFINE u == SubSeq(t, pos + 1, n)
               v == SubSeq(t, pos + 1, n + 1)
               e == t[n + 1]
               w == Append(u, e)
    <2>1. n + 1 \in pos .. N /\ n \in pos .. N /\ n - pos \in Nat /\ (n + 1) - pos = (n - pos) + 1
      BY <1>1, <1>3
    <2>2. /\ u \in Texts /\ Len(u) = n - pos /\ \A i \in 1 .. n - pos : u[i] = t[pos + i]
          /\ v \in Texts /\ Len(v) = (n - pos) + 1
          /\ \A i \in 1 .. (n - pos) + 1 : v[i] = t[pos + i]
      BY <1>2, <2>1
    <2>3. e \in Chars
      <3>1. n + 1 \in 1 .. Len(t)
        BY <1>1, <1>3
      <3> QED  BY <3>1 DEF Texts
    <2>4. pos + ((n - pos) + 1) = n + 1
      BY <1>1
    <2> HIDE DEF u, v
    <2>5. /\ w \in Texts /\ Len(w) = (n - pos) + 1 /\ w[(n - pos) + 1] = e
          /\ \A i \in 1 .. n - pos : w[i] = u[i]
      <3>1. u \in Seq(Chars) /\ e \in Chars
        BY <2>2, <2>3 DEF Texts
      <3> HIDE DEF e
      <3>2. /\ w \in Seq(Chars) /\ Len(w) = Len(u) + 1 /\ w[Len(u) + 1] = e
            /\ \A i \in 1 .. Len(u) : w[i] = u[i]
        BY <3>1, AppendProperties
      <3> HIDE DEF w
      <3> QED  BY <2>2, <3>2 DEF Texts
    <2> HIDE DEF w, e
    <2>6. ASSUME NEW i \in 1 .. (n - pos) + 1
          PROVE  v[i] = w[i]
      <3>1. CASE i = (n - pos) + 1
        BY <2>2, <2>4, <2>5, <3>1 DEF e
      <3>2. CASE i # (n - pos) + 1
        <4>1. i \in 1 .. n - pos
          BY <2>1, <3>2
        <4> QED  BY <2>2, <2>5, <4>1
      <3> QED  BY <3>1, <3>2
    <2>7. v = w
      BY <2>2, <2>5, <2>6, SeqEqual DEF Texts
    <2> QED  BY <2>7 DEF u, v, w, e
  <1>4. n \in pos .. N
    OBVIOUS
  <1> QED  BY <1>2, <1>3, <1>4

LEMMA SubSeqNone ==
    ASSUME NEW t \in Texts, NEW pos \in 0 .. Len(t)
    PROVE  SubSeq(t, pos + 1, pos) = <<>>
  <1>1. Len(t) \in Nat /\ pos \in pos .. Len(t)
    BY LenProperties DEF Texts
  <1>2. SubSeq(t, pos + 1, pos) \in Texts /\ Len(SubSeq(t, pos + 1, pos)) = pos - pos
    BY <1>1, SubSeqGrows
  <1>3. pos - pos = 0
    BY <1>1
  <1> QED  BY <1>2, <1>3, EmptySeq DEF Texts

LEMMA HasReadings ==
    ASSUME NEW t \in Texts, NEW pos \in 0 .. Len(t)
    PROVE  Readings([n \in pos .. Len(t) |-> Squeeze(SubSeq(t, pos + 1, n))], t, pos)
  <1> DEFINE N == Len(t)
             u(n) == SubSeq(t, pos + 1, n)
             r == [n \in pos .. N |-> Squeeze(u(n))]
  <1>1. N \in Nat /\ pos \in Nat /\ pos <= N /\ \A i \in 1 .. N : t[i] \in Chars
    BY LenProperties DEF Texts
  <1>2. \A n \in pos .. N :
            /\ u(n) \in Texts /\ Len(u(n)) = n - pos
            /\ \A i \in 1 .. n - pos : u(n)[i] = t[pos + i]
            /\ n < N => u(n + 1) = Append(u(n), t[n + 1])
    BY SubSeqGrows
  <1>3. u(pos) = <<>>
    BY SubSeqNone
  <1> HIDE DEF u
  <1>4. Blank \in Chars
    BY NoneIsNoChar
  <1>5. r \in [pos .. N -> Texts]
    BY <1>2, <1>4, SqueezeAppend
  <1>6. r[pos] = <<>>
    BY <1>1, <1>3, SqueezeEmpty
  <1>7. ASSUME NEW n \in pos .. N - 1
        PROVE  r[n + 1] = IF Merged(t, pos, n) THEN r[n] ELSE Append(r[n], t[n + 1])
    <2>1. n \in pos .. N /\ n + 1 \in pos .. N /\ n < N /\ n + 1 \in 1 .. N /\ n \in Nat
      BY <1>1
    <2>2. r[n] = Squeeze(u(n)) /\ r[n + 1] = Squeeze(u(n + 1))
      BY <2>1
    <2>3. u(n) \in Texts /\ Len(u(n)) = n - pos /\ u(n + 1) = Append(u(n), t[n + 1])
      BY <1>2, <2>1
    <2>4. t[n + 1] \in Chars
      BY <1>1, <2>1
    <2>5. Squeeze(u(n + 1))
            = IF Len(u(n)) > 0 /\ t[n + 1] = Blank /\ u(n)[Len(u(n))] = Blank
              THEN Squeeze(u(n)) ELSE Append(Squeeze(u(n)), t[n + 1])
      BY <2>3, <2>4, SqueezeAppend
    <2>6. n > pos => u(n)[n - pos] = t[n]
      <3>1. n > pos => n - pos \in 1 .. n - pos /\ pos + (n - pos) = n
        BY <1>1, <2>1
      <3> QED  BY <1>2, <2>1, <3>1
    <2>7. n - pos > 0 <=> n > pos
      BY <1>1, <2>1
    <2> QED  BY <2>2, <2>3, <2>5, <2>6, <2>7 DEF Merged
  <1> HIDE DEF r
  <1>8. Readings(r, t, pos)
    BY <1>5, <1>6, <1>7 DEF Readings
  <1> QED  BY <1>8 DEF r, u

\* A reading that is not empty ends in the last character.
LEMMA ReadingEnds ==
    ASSUME NEW t \in Texts, NEW pos \in 0 .. Len(t), NEW r, Readings(r, t, pos)
    PROVE  \A n \in pos + 1 .. Len(t) : /\ Len(r[n]) > 0 /\ r[n] # <<>>
                                        /\ r[n][Len(r[n])] = t[n]
  <1> DEFINE N == Len(t)
             Q(n) == Len(r[n]) > 0 /\ r[n] # <<>> /\ r[n][Len(r[n])] = t[n]
             T == {i \in Nat : pos + 1 + i <= N => Q(pos + 1 + i)}
  <1>1. N \in Nat /\ pos \in Nat /\ pos <= N /\ \A i \in 1 .. N : t[i] \in Chars
    BY LenProperties DEF Texts
  <1>2. /\ \A n \in pos .. N : r[n] \in Texts
        /\ \A n \in pos .. N - 1 :
               r[n + 1] = IF Merged(t, pos, n) THEN r[n] ELSE Append(r[n], t[n + 1])
    BY DEF Readings
  <1>3. ASSUME NEW n \in pos .. N - 1, ~Merged(t, pos, n) \/ Q(n)
        PROVE  Q(n + 1)
    <2> DEFINE u == r[n]
               x == t[n + 1]
    <2>1. u \in Texts /\ x \in Chars /\ n \in Nat /\ n < N
      BY <1>1, <1>2
    <2>2. r[n + 1] = IF Merged(t, pos, n) THEN u ELSE Append(u, x)
      BY <1>2
    <2>3. CASE ~Merged(t, pos, n)
      <3> HIDE DEF u, x
      <3>1. Len(Append(u, x)) = Len(u) + 1 /\ Append(u, x)[Len(u) + 1] = x /\ Len(u) \in Nat
        BY <2>1, AppendProperties, LenProperties DEF Texts
      <3>2. r[n + 1] = Append(u, x) /\ Len(<<>>) = 0
        BY <2>2, <2>3
      <3> QED  BY <3>1, <3>2 DEF x
    <2>4. CASE Merged(t, pos, n) /\ Q(n)
      <3>1. t[n + 1] = t[n]
        BY <2>4 DEF Merged
      <3> QED  BY <2>2, <2>4, <3>1
    <2> QED  BY <1>3, <2>3, <2>4
  <1> HIDE DEF Q, N
  <1>4. T \in SUBSET Nat
    OBVIOUS
  <1>5. 0 \in T
    <2> SUFFICES ASSUME pos + 1 + 0 <= N PROVE Q(pos + 1 + 0)
      OBVIOUS
    <2>1. pos \in pos .. N - 1 /\ pos + 1 + 0 = pos + 1
      BY <1>1
    <2>2. ~Merged(t, pos, pos)
      BY <1>1 DEF Merged
    <2> QED  BY <1>3, <2>1, <2>2
  <1>6. ASSUME NEW i \in T
        PROVE  i + 1 \in T
    <2> SUFFICES ASSUME pos + 1 + (i + 1) <= N PROVE Q(pos + 1 + (i + 1))
      OBVIOUS
    <2>1. /\ pos + 1 + i \in pos .. N - 1 /\ pos + 1 + (i + 1) = (pos + 1 + i) + 1
          /\ pos + 1 + i <= N
      BY <1>1
    <2>2. Q(pos + 1 + i)
      BY <2>1
    <2> QED  BY <1>3, <2>1, <2>2
  <1> HIDE DEF T
  <1>7. T = Nat
    BY <1>4, <1>5, <1>6, SetInduction
  <1>8. ASSUME NEW n \in pos + 1 .. N
        PROVE  Q(n)
    <2>1. n - (pos + 1) \in Nat /\ pos + 1 + (n - (pos + 1)) = n /\ n <= N
      BY <1>1
    <2>2. n - (pos + 1) \in T
      BY <1>7, <2>1
    <2> QED  BY <2>1, <2>2 DEF T
  <1> QED  BY <1>8 DEF Q, N

\* Readings grow, and do so when a character is not merged.
LEMMA ReadingsGrow ==
    ASSUME NEW t \in Texts, NEW pos \in 0 .. Len(t), NEW r, Readings(r, t, pos),
           NEW n \in pos .. Len(t), NEW m \in n .. Len(t)
    PROVE  /\ Len(r[n]) \in Nat /\ Len(r[m]) \in Nat /\ Len(r[n]) <= Len(r[m])
           /\ n < m /\ ~Merged(t, pos, n) => Len(r[n]) < Len(r[m])
  <1> DEFINE N == Len(t)
             len(i) == Len(r[i])
  <1>1. N \in Nat /\ pos \in Nat /\ pos <= N /\ \A i \in 1 .. N : t[i] \in Chars
    BY LenProperties DEF Texts
  <1>2. /\ \A i \in pos .. N : r[i] \in Texts
        /\ \A i \in pos .. N - 1 :
               r[i + 1] = IF Merged(t, pos, i) THEN r[i] ELSE Append(r[i], t[i + 1])
    BY DEF Readings
  <1>3. \A i \in pos .. N : len(i) \in Nat
    BY <1>2, LenProperties DEF Texts
  <1>4. ASSUME NEW i \in pos .. N - 1
        PROVE  len(i + 1) = IF Merged(t, pos, i) THEN len(i) ELSE len(i) + 1
    <2>1. i \in pos .. N /\ i + 1 \in 1 .. N
      BY <1>1
    <2> DEFINE u == r[i]
               x == t[i + 1]
    <2>2. u \in Texts /\ x \in Chars /\ r[i + 1] = IF Merged(t, pos, i) THEN u ELSE Append(u, x)
      BY <1>1, <1>2, <2>1
    <2> HIDE DEF u, x
    <2>3. Len(Append(u, x)) = Len(u) + 1
      BY <2>2, AppendProperties DEF Texts
    <2> QED  BY <2>2, <2>3 DEF u
  <1> HIDE DEF len, N
  <1>5. n \in Nat /\ m \in Nat /\ pos <= n /\ n <= m /\ m <= N
    BY <1>1 DEF N
  <1> DEFINE more == IF Merged(t, pos, n) THEN 0 ELSE 1
             T == {i \in Nat : n + 1 + i <= N => len(n + 1 + i) >= len(n) + more}
  <1>6. T \in SUBSET Nat /\ more \in {0, 1}
    OBVIOUS
  <1>7. 0 \in T
    <2> SUFFICES ASSUME n + 1 + 0 <= N PROVE len(n + 1 + 0) >= len(n) + more
      OBVIOUS
    <2>1. n \in pos .. N - 1 /\ n + 1 + 0 = n + 1 /\ n \in pos .. N /\ n + 1 \in pos .. N
      BY <1>1, <1>5
    <2>2. len(n + 1) = len(n) + more /\ len(n) \in Nat /\ len(n + 1) \in Nat
      BY <1>3, <1>4, <2>1
    <2> HIDE DEF more
    <2> QED  BY <1>6, <2>1, <2>2
  <1>8. ASSUME NEW i \in T
        PROVE  i + 1 \in T
    <2> SUFFICES ASSUME n + 1 + (i + 1) <= N PROVE len(n + 1 + (i + 1)) >= len(n) + more
      OBVIOUS
    <2> DEFINE j == n + 1 + i
    <2>1. /\ j \in pos .. N - 1 /\ n + 1 + (i + 1) = j + 1 /\ j <= N
          /\ j \in pos .. N /\ j + 1 \in pos .. N /\ n \in pos .. N
      BY <1>1, <1>5
    <2>2. len(j) >= len(n) + more
      BY <2>1
    <2> HIDE DEF j, more
    <2>3. len(j + 1) >= len(j) /\ len(j) \in Nat /\ len(j + 1) \in Nat /\ len(n) \in Nat
      BY <1>3, <1>4, <2>1
    <2>4. len(j + 1) >= len(n) + more
      BY <1>6, <2>2, <2>3
    <2> HIDE DEF T
    <2> QED  BY <2>1, <2>4
  <1> HIDE DEF T
  <1>9. T = Nat
    BY <1>6, <1>7, <1>8, SetInduction
  <1>10. len(n) \in Nat /\ len(m) \in Nat
    <2>1. n \in pos .. N /\ m \in pos .. N
      BY <1>1, <1>5
    <2> QED  BY <1>3, <2>1
  <1>11. n < m => len(m) >= len(n) + more
    <2> SUFFICES ASSUME n < m PROVE len(m) >= len(n) + more
      OBVIOUS
    <2>1. m - (n + 1) \in Nat /\ n + 1 + (m - (n + 1)) = m
      BY <1>5
    <2>2. m - (n + 1) \in T
      BY <1>9, <2>1
    <2> QED  BY <1>5, <2>1, <2>2 DEF T
  <1>12. len(n) <= len(m)
    <2>1. CASE n = m
      BY <1>10, <2>1
    <2>2. CASE n # m
      <3>1. n < m
        BY <1>5, <2>2
      <3> QED  BY <1>6, <1>10, <1>11, <3>1
    <2> QED  BY <2>1, <2>2
  <1>13. n < m /\ ~Merged(t, pos, n) => len(n) < len(m)
    BY <1>10, <1>11
  <1> QED  BY <1>10, <1>12, <1>13 DEF len

\* A reading that ends in c comes from the one without it, by a character c that is not merged.
ComesFrom(r, t, pos, m, q, c) ==
    \E n \in pos .. m - 1 : r[n] = q /\ t[n + 1] = c /\ ~Merged(t, pos, n)

LEMMA ReadingMade ==
    ASSUME NEW t \in Texts, NEW pos \in 0 .. Len(t), NEW r, Readings(r, t, pos),
           NEW q \in Texts, NEW c \in Chars, NEW m \in pos .. Len(t), r[m] = Append(q, c)
    PROVE  ComesFrom(r, t, pos, m, q, c)
  <1> DEFINE N == Len(t)
             T == {i \in Nat : pos + i <= N /\ r[pos + i] = Append(q, c)
                                 => ComesFrom(r, t, pos, pos + i, q, c)}
  <1>1. N \in Nat /\ pos \in Nat /\ pos <= N /\ \A i \in 1 .. N : t[i] \in Chars
    BY LenProperties DEF Texts
  <1>2. /\ \A i \in pos .. N : r[i] \in Texts
        /\ r[pos] = <<>>
        /\ \A i \in pos .. N - 1 :
               r[i + 1] = IF Merged(t, pos, i) THEN r[i] ELSE Append(r[i], t[i + 1])
    BY DEF Readings
  <1>3. m \in Nat /\ pos <= m /\ m <= N
    BY <1>1
  <1> HIDE DEF N
  <1>4. T \in SUBSET Nat
    OBVIOUS
  <1>5. 0 \in T
    <2>1. pos + 0 = pos
      BY <1>1
    <2>2. Append(q, c) # <<>>
      <3> DEFINE v == Append(q, c)
      <3> HIDE DEF T
      <3>1. Len(v) = Len(q) + 1 /\ Len(q) \in Nat
        BY AppendProperties, LenProperties DEF Texts
      <3> HIDE DEF v
      <3>2. Len(v) # 0 /\ Len(<<>>) = 0
        BY <3>1
      <3>3. v # <<>>
        BY <3>2
      <3> QED  BY <3>3 DEF v
    <2>3. r[pos + 0] # Append(q, c)
      BY <1>2, <2>1, <2>2
    <2> QED  BY <2>3
  <1>6. ASSUME NEW i \in T
        PROVE  i + 1 \in T
    <2> DEFINE j == pos + i
    <2> SUFFICES ASSUME j + 1 <= N, r[j + 1] = Append(q, c)
                 PROVE  ComesFrom(r, t, pos, j + 1, q, c)
      <3>1. pos + (i + 1) = j + 1
        BY <1>1
      <3> QED  BY <3>1
    <2>1. j \in pos .. N - 1 /\ j \in pos .. N /\ j + 1 \in 1 .. N /\ j <= N /\ j \in Nat
          /\ (j + 1) - 1 = j
      BY <1>1
    <2>2. r[j] = Append(q, c) => ComesFrom(r, t, pos, j, q, c)
      BY <2>1
    <2> HIDE DEF j, T
    <2>3. CASE Merged(t, pos, j)
      <3>1. r[j] = Append(q, c)
        BY <1>2, <2>1, <2>3
      <3>2. PICK n \in pos .. j - 1 : r[n] = q /\ t[n + 1] = c /\ ~Merged(t, pos, n)
        BY <2>2, <3>1 DEF ComesFrom
      <3>3. n \in pos .. (j + 1) - 1
        BY <1>1, <2>1
      <3> QED  BY <3>2, <3>3 DEF ComesFrom
    <2>4. CASE ~Merged(t, pos, j)
      <3> DEFINE u == r[j]
                 x == t[j + 1]
      <3>1. u \in Texts /\ x \in Chars /\ Append(u, x) = Append(q, c)
        BY <1>1, <1>2, <2>1, <2>4
      <3> HIDE DEF u, x
      <3>2. u = q /\ x = c
        BY <3>1, AppendInjective DEF Texts
      <3>3. j \in pos .. (j + 1) - 1
        BY <1>1, <2>1
      <3> QED  BY <2>4, <3>2, <3>3 DEF ComesFrom, u, x
    <2> QED  BY <2>3, <2>4
  <1> HIDE DEF T
  <1>7. T = Nat
    BY <1>4, <1>5, <1>6, SetInduction
  <1>8. m - pos \in Nat /\ pos + (m - pos) = m
    BY <1>1, <1>3
  <1>9. m - pos \in T
    BY <1>7, <1>8
  <1> QED  BY <1>3, <1>8, <1>9 DEF T

\* The blanks behind a blank read as nothing.
LEMMA BlanksMerge ==
    ASSUME NEW t \in Texts, NEW pos \in 0 .. Len(t), NEW r, Readings(r, t, pos),
           NEW n \in pos + 1 .. Len(t), NEW m \in n .. Len(t), \A i \in n .. m : t[i] = Blank
    PROVE  r[m] = r[n]
  <1> DEFINE N == Len(t)
             T == {i \in Nat : n + i <= m => r[n + i] = r[n]}
  <1>1. /\ N \in Nat /\ pos \in Nat /\ n \in Nat /\ m \in Nat
        /\ pos < n /\ n <= m /\ m <= N
    BY LenProperties DEF Texts
  <1>2. \A i \in pos .. N - 1 :
            r[i + 1] = IF Merged(t, pos, i) THEN r[i] ELSE Append(r[i], t[i + 1])
    BY DEF Readings
  <1> HIDE DEF N
  <1>3. T \in SUBSET Nat
    OBVIOUS
  <1>4. 0 \in T
    <2>1. n + 0 = n
      BY <1>1
    <2> QED  BY <2>1
  <1>5. ASSUME NEW i \in T
        PROVE  i + 1 \in T
    <2> DEFINE j == n + i
    <2> SUFFICES ASSUME j + 1 <= m
                 PROVE  r[j + 1] = r[n]
      <3>1. n + (i + 1) = j + 1
        BY <1>1
      <3> QED  BY <3>1
    <2>1. j \in pos .. N - 1 /\ j \in n .. m /\ j + 1 \in n .. m /\ j <= m /\ j > pos
      BY <1>1
    <2>2. r[j] = r[n]
      BY <2>1
    <2> HIDE DEF j
    <2>3. Merged(t, pos, j)
      BY <2>1 DEF Merged
    <2> QED  BY <1>2, <2>1, <2>2, <2>3
  <1> HIDE DEF T
  <1>6. T = Nat
    BY <1>3, <1>4, <1>5, SetInduction
  <1>7. m - n \in Nat /\ n + (m - n) = m /\ n + (m - n) <= m
    BY <1>1
  <1>8. m - n \in T
    BY <1>6, <1>7
  <1> QED  BY <1>7, <1>8 DEF T

-----------------------------------------------------------------------------
(***************************************************************************)
(* What match finds.                                                       *)
(***************************************************************************)
\* A run of blanks ends at the next character that is none, or never.
LEMMA AfterBlanksIs ==
    ASSUME HasLines, NEW n \in Nat
    PROVE  \/ /\ AfterBlanks(n) = Forever
              /\ \A m \in n + 1 .. Len(Text) - 1 : Text[m + 1] = Blank
           \/ /\ AfterBlanks(n) \in n + 1 .. Len(Text) - 1
              /\ Text[AfterBlanks(n) + 1] # Blank
              /\ \A m \in n + 1 .. AfterBlanks(n) - 1 : Text[m + 1] = Blank
  <1> DEFINE N == Len(Text)
             ends == {m \in n + 1 .. TextLen - 1 : CharAt(m) # Blank}
  <1>1. TextLen = N /\ N \in Nat
    BY TextLenIs
  <1> HIDE DEF N
  <1>2. \A m \in n + 1 .. N - 1 : CharAt(m) = Text[m + 1]
    BY <1>1, CharAtIs DEF N
  <1>3. CASE ends = {}
    <2>1. AfterBlanks(n) = Forever
      BY <1>3 DEF AfterBlanks
    <2>2. \A m \in n + 1 .. N - 1 : Text[m + 1] = Blank
      BY <1>1, <1>2, <1>3
    <2> QED  BY <2>1, <2>2 DEF N
  <1>4. CASE ends # {}
    <2>1. ends \in SUBSET Nat
      OBVIOUS
    <2>2. \E m \in ends : \A k \in ends : m <= k
      <3> HIDE DEF ends
      <3> QED  BY <1>4, <2>1, Least
    <2> DEFINE e == CHOOSE m \in ends : \A k \in ends : m <= k
    <2>3. AfterBlanks(n) = e
      BY <1>4 DEF AfterBlanks
    <2>4. e \in ends /\ \A k \in ends : e <= k
      <3> HIDE DEF ends
      <3> QED  BY <2>2
    <2> HIDE DEF e
    <2>5. e \in n + 1 .. N - 1 /\ Text[e + 1] # Blank
      BY <1>1, <1>2, <2>4
    <2>6. ASSUME NEW m \in n + 1 .. e - 1
          PROVE  Text[m + 1] = Blank
      <3>1. m \in n + 1 .. N - 1 /\ ~(e <= m)
        BY <1>1, <2>5
      <3>2. m \notin ends
        BY <2>4, <3>1
      <3> QED  BY <1>1, <1>2, <3>1, <3>2
    <2> QED  BY <2>3, <2>5, <2>6 DEF N
  <1> QED  BY <1>3, <1>4

LEMMA MatchCharType ==
    ASSUME HasLines, NEW n \in Int, NEW c
    PROVE  MatchChar(n, c) \in Int
  <1>1. CASE n < 0
    BY <1>1 DEF MatchChar
  <1>2. CASE ~(n < 0)
    <2>1. n \in Nat
      BY <1>2
    <2>2. AfterBlanks(n) \in Int
      BY <2>1, AfterBlanksIs DEF Forever
    <2> QED  BY <2>2 DEF MatchChar, Mismatch
  <1> QED  BY <1>1, <1>2

\* The characters q of the pattern are matched up to n, as far as they can be, or not at all.
Matched(r, pos, q, n) ==
    \/ /\ n \in pos .. Len(Text) /\ r[n] = q
       /\ \A m \in n + 1 .. Len(Text) : r[m] # q
       /\ Len(q) > 0 /\ q[Len(q)] = Blank => n < Len(Text) /\ Text[n + 1] # Blank
    \/ n = Mismatch /\ \A m \in pos .. Len(Text) : r[m] # q

\* One turn of the loop of match.
LEMMA MatchStep ==
    ASSUME HasLines, NEW pos \in 0 .. Len(Text) - 1, NEW r, Readings(r, Text, pos),
           NEW q \in Texts, NEW c \in Chars, NEW n, Matched(r, pos, q, n)
    PROVE  \/ /\ MatchChar(n, c) = Forever
              /\ c = Blank /\ r[Len(Text)] = Append(q, c)
           \/ /\ Matched(r, pos, Append(q, c), MatchChar(n, c))
              /\ ~(c = Blank /\ r[Len(Text)] = Append(q, c))
  <1> DEFINE t == Text
             N == Len(t)
             v == Append(q, c)
             d == MatchChar(n, c)
  <1>1. /\ t \in Texts /\ N \in Nat /\ pos \in Nat /\ pos < N /\ pos \in 0 .. N
        /\ \A i \in 1 .. N : t[i] \in Chars
    BY MarkedIs, TextLenIs DEF Texts
  <1>2. /\ v \in Texts /\ Len(v) = Len(q) + 1 /\ v[Len(q) + 1] = c /\ Len(q) \in Nat
    BY AppendProperties, LenProperties DEF Texts
  <1>3. t[N] = Blank
    BY <1>1, LastIsBlank
  <1>4. \A i \in Nat : CharAt(i) = IF i < N THEN t[i + 1] ELSE Blank
    BY CharAtIs
  <1>5. Readings(r, t, pos)
    OBVIOUS
  <1> HIDE DEF t, N
  <1>6. /\ \A i \in pos .. N : r[i] \in Texts
        /\ r[pos] = <<>>
        /\ \A i \in pos .. N - 1 :
               r[i + 1] = IF Merged(t, pos, i) THEN r[i] ELSE Append(r[i], t[i + 1])
    BY <1>5 DEF Readings, N
  <1>7. \A i \in pos + 1 .. N : r[i] # <<>> /\ r[i][Len(r[i])] = t[i]
    BY <1>1, <1>5, ReadingEnds DEF N
  <1>8. ASSUME NEW m \in pos .. N, r[m] = v
        PROVE  \E i \in pos .. m - 1 : r[i] = q /\ t[i + 1] = c /\ ~Merged(t, pos, i)
    <2> HIDE DEF v
    <2>1. r[m] = Append(q, c)
      BY <1>8 DEF v
    <2>2. ComesFrom(r, t, pos, m, q, c)
      BY <1>1, <1>5, <2>1, ReadingMade DEF N
    <2> QED  BY <2>2 DEF ComesFrom
  <1>9. ASSUME NEW i \in pos .. N, NEW m \in i .. N, i < m, ~Merged(t, pos, i)
        PROVE  r[i] # r[m]
    <2>1. Len(r[i]) < Len(r[m]) /\ Len(r[i]) \in Nat /\ Len(r[m]) \in Nat
      BY <1>1, <1>5, <1>9, ReadingsGrow DEF N
    <2> QED  BY <2>1
  <1> HIDE DEF v, d
  <1>10. N \in pos .. N
    BY <1>1
  \* No match of q: none of one character more.
  <1>11. CASE n = Mismatch /\ \A m \in pos .. N : r[m] # q
    <2>1. d = Mismatch
      BY <1>11 DEF MatchChar, Mismatch, d
    <2>2. ASSUME NEW m \in pos .. N
          PROVE  r[m] # v
      <3> SUFFICES ASSUME r[m] = v PROVE FALSE
        OBVIOUS
      <3>1. PICK i \in pos .. m - 1 : r[i] = q
        BY <1>8
      <3>2. i \in pos .. N
        BY <1>1, <3>1
      <3> QED  BY <1>11, <3>1, <3>2
    <2>3. Matched(r, pos, v, d)
      BY <2>1, <2>2 DEF Matched, N, t
    <2> QED  BY <1>10, <2>2, <2>3 DEF v, d, N, t
  <1>12. CASE /\ n \in pos .. N /\ r[n] = q
              /\ \A m \in n + 1 .. N : r[m] # q
              /\ Len(q) > 0 /\ q[Len(q)] = Blank => n < N /\ t[n + 1] # Blank
    <2>1. n \in Nat /\ n \in pos .. N /\ ~(n < 0) /\ pos <= n /\ n <= N
      BY <1>1, <1>12
    <2>2. CASE c = Blank /\ CharAt(n) = Blank
      <3>1. d = AfterBlanks(n)
        BY <2>1, <2>2 DEF MatchChar, d
      <3>2. n > pos => t[n] # Blank \/ (n < N /\ t[n + 1] # Blank)
        <4> SUFFICES ASSUME n > pos, t[n] = Blank PROVE n < N /\ t[n + 1] # Blank
          OBVIOUS
        <4>1. n \in pos + 1 .. N
          BY <1>1, <2>1
        <4>2. q # <<>> /\ q[Len(q)] = Blank
          BY <1>7, <1>12, <4>1
        <4>3. Len(q) > 0
          BY <1>2, <4>2, EmptySeq DEF Texts
        <4> QED  BY <1>12, <4>2, <4>3
      <3>3. n < N
        BY <1>1, <1>3, <2>1, <3>2
      <3>4. t[n + 1] = Blank
        BY <1>4, <2>1, <2>2, <3>3
      <3>5. ~Merged(t, pos, n)
        BY <3>2, <3>4 DEF Merged
      <3>6. r[n + 1] = v
        <4>1. n \in pos .. N - 1
          BY <1>1, <2>1, <3>3
        <4> QED  BY <1>6, <1>12, <2>2, <3>4, <3>5, <4>1 DEF v
      <3>7. ASSUME NEW m \in n + 1 .. N, \A i \in n + 1 .. m - 1 : t[i + 1] = Blank
            PROVE  r[m] = v
        <4>1. n + 1 \in pos + 1 .. N
          BY <1>1, <2>1, <3>3
        <4>2. ASSUME NEW i \in n + 1 .. m
              PROVE  t[i] = Blank
          <5>1. CASE i = n + 1
            BY <3>4, <5>1
          <5>2. CASE i # n + 1
            <6>1. i - 1 \in n + 1 .. m - 1 /\ (i - 1) + 1 = i
              BY <1>1, <2>1, <5>2
            <6> QED  BY <3>7, <6>1
          <5> QED  BY <5>1, <5>2
        <4>3. r[m] = r[n + 1]
          BY <1>1, <1>5, <4>1, <4>2, BlanksMerge DEF N
        <4> QED  BY <3>6, <4>3
      <3>8. \/ /\ AfterBlanks(n) = Forever
               /\ \A m \in n + 1 .. N - 1 : t[m + 1] = Blank
            \/ /\ AfterBlanks(n) \in n + 1 .. N - 1
               /\ t[AfterBlanks(n) + 1] # Blank
               /\ \A m \in n + 1 .. AfterBlanks(n) - 1 : t[m + 1] = Blank
        BY <2>1, AfterBlanksIs DEF N, t
      <3>9. CASE d = Forever /\ \A m \in n + 1 .. N - 1 : t[m + 1] = Blank
        <4>1. N \in n + 1 .. N
          BY <1>1, <2>1, <3>3
        <4>2. r[N] = v
          BY <3>7, <3>9, <4>1
        <4> QED  BY <2>2, <3>9, <4>2 DEF v, d, N, t
      <3>10. CASE /\ d \in n + 1 .. N - 1 /\ t[d + 1] # Blank
                  /\ \A m \in n + 1 .. d - 1 : t[m + 1] = Blank
        <4>1. d \in n + 1 .. N /\ d \in pos .. N /\ d < N /\ d \in Nat
          BY <1>1, <2>1, <3>10
        <4>2. r[d] = v
          BY <3>7, <3>10, <4>1
        <4>3. ~Merged(t, pos, d)
          BY <3>10 DEF Merged
        <4>4. ASSUME NEW m \in d + 1 .. N
              PROVE  r[m] # v
          <5>1. m \in d .. N /\ d < m
            BY <4>1
          <5> QED  BY <1>9, <4>1, <4>2, <4>3, <5>1
        <4>5. Matched(r, pos, v, d)
          BY <3>10, <4>1, <4>2, <4>4 DEF Matched, N, t
        <4>6. r[N] # v
          <5>1. N \in d + 1 .. N
            BY <1>1, <4>1
          <5> QED  BY <4>4, <5>1
        <4> QED  BY <4>5, <4>6 DEF v, d, N, t
      <3> QED  BY <3>1, <3>8, <3>9, <3>10
    <2>3. CASE ~(c = Blank /\ CharAt(n) = Blank) /\ CharAt(n) = c
      <3>1. d = n + 1
        BY <2>1, <2>3 DEF MatchChar, d
      <3>2. c # Blank /\ n < N /\ t[n + 1] = c
        BY <1>4, <2>1, <2>3
      <3>3. n \in pos .. N - 1 /\ d \in pos .. N /\ n + 1 \in Nat
        BY <1>1, <2>1, <3>1, <3>2
      <3>4. ~Merged(t, pos, n) /\ ~Merged(t, pos, n + 1)
        BY <3>2 DEF Merged
      <3>5. r[d] = v
        BY <1>6, <1>12, <3>1, <3>2, <3>3, <3>4 DEF v
      <3>6. ASSUME NEW m \in d + 1 .. N
            PROVE  r[m] # v
        <4>1. m \in d .. N /\ d < m
          BY <3>1, <3>3
        <4> QED  BY <1>9, <3>1, <3>3, <3>4, <3>5, <4>1
      <3>7. v[Len(v)] # Blank
        BY <1>2, <3>2
      <3>8. Matched(r, pos, v, d)
        BY <3>3, <3>5, <3>6, <3>7 DEF Matched, N, t
      <3> QED  BY <3>2, <3>8 DEF v, d, N, t
    <2>4. CASE ~(c = Blank /\ CharAt(n) = Blank) /\ CharAt(n) # c
      <3>1. d = Mismatch
        BY <2>1, <2>4 DEF MatchChar, d
      <3>2. ASSUME NEW m \in pos .. N
            PROVE  r[m] # v
        <4> SUFFICES ASSUME r[m] = v PROVE FALSE
          OBVIOUS
        <4>1. PICK i \in pos .. m - 1 : r[i] = q /\ t[i + 1] = c /\ ~Merged(t, pos, i)
          BY <1>8
        <4>2. i \in pos .. N /\ i < N /\ i \in Nat
          BY <1>1, <4>1
        <4>3. CASE i = n
          <5>1. CharAt(n) = c
            BY <1>4, <2>1, <4>1, <4>2, <4>3
          <5> QED  BY <2>4, <5>1
        <4>4. CASE i > n
          <5>1. i \in n + 1 .. N
            BY <2>1, <4>2, <4>4
          <5> QED  BY <1>12, <4>1, <5>1
        <4>5. CASE i < n
          <5>1. n \in i .. N
            BY <2>1, <4>2, <4>5
          <5> QED  BY <1>9, <1>12, <4>1, <4>2, <4>5, <5>1
        <4> QED  BY <2>1, <4>2, <4>3, <4>4, <4>5
      <3>3. Matched(r, pos, v, d)
        BY <3>1, <3>2 DEF Matched, N, t
      <3> QED  BY <1>10, <3>2, <3>3 DEF v, d, N, t
    <2> QED  BY <2>2, <2>3, <2>4
  <1>13. \/ n = Mismatch /\ \A m \in pos .. N : r[m] # q
         \/ /\ n \in pos .. N /\ r[n] = q
            /\ \A m \in n + 1 .. N : r[m] # q
            /\ Len(q) > 0 /\ q[Len(q)] = Blank => n < N /\ t[n + 1] # Blank
    BY DEF Matched, N, t
  <1> QED  BY <1>11, <1>12, <1>13

IsMatch(g, pos) ==
    g = [x \in SUBSET DOMAIN pattern |->
            IF x = {} THEN pos ELSE MatchChar(g[x \ {Max(x)}], pattern[Max(x)])]

LEMMA MatchUnfolds ==
    ASSUME NEW pos
    PROVE  MatchEnd(pos) = (CHOOSE g : IsMatch(g, pos))[DOMAIN pattern]
  BY DEF MatchEnd, FoldLeft, MapThenFoldSet, IsMatch

\* The turns of the loop of match.
MatchTurns(f, pos) ==
    /\ f[0] = pos
    /\ \A k \in 1 .. Len(pattern) : f[k] = MatchChar(f[k - 1], pattern[k])
    /\ MatchEnd(pos) = f[Len(pattern)]

LEMMA MatchHasTurns ==
    ASSUME HasLines, pattern \in Texts, NEW pos \in Nat
    PROVE  \E f : MatchTurns(f, pos)
  <1> DEFINE N == Len(pattern)
             step == [p \in Int \X Chars |-> MatchChar(p[1], p[2])]
             h == CHOOSE g : IsMatch(g, pos)
  <1>1. step \in [Int \X Chars -> Int]
    BY MatchCharType
  <1>2. N \in Nat /\ DOMAIN pattern = 1 .. N /\ pattern \in Seq(Chars) /\ pos \in Int
    BY DEF Texts
  <1> HIDE DEF step
  <1>3. \E g : IsMatch(g, pos)
    <2>1. PICK g : IsFold(g, Int, Chars, pos, step, pattern)
      <3>1. \E g : IsFold(g, Int, Chars, pos, step, pattern)
        BY <1>1, <1>2, FoldSteps
      <3> QED  BY <3>1
    <2>2. ASSUME NEW x \in SUBSET DOMAIN pattern
          PROVE  g[x] = IF x = {} THEN pos ELSE MatchChar(g[x \ {Max(x)}], pattern[Max(x)])
      <3>1. CASE x = {}
        BY <2>1, <3>1 DEF IsFold
      <3>2. CASE x # {}
        <4> DEFINE a == g[x \ {Max(x)}]
                   c == pattern[Max(x)]
        <4>1. a \in Int /\ c \in Chars /\ g[x] = step[<<a, c>>]
          BY <2>1, <3>2 DEF IsFold
        <4> HIDE DEF a, c
        <4>2. step[<<a, c>>] = MatchChar(a, c)
          BY <4>1 DEF step
        <4> QED  BY <3>2, <4>1, <4>2 DEF a, c
      <3> QED  BY <3>1, <3>2
    <2>3. g = [x \in SUBSET DOMAIN pattern |->
                  IF x = {} THEN pos ELSE MatchChar(g[x \ {Max(x)}], pattern[Max(x)])]
      BY <2>1, <2>2 DEF IsFold
    <2> QED  BY <2>3 DEF IsMatch
  <1>4. IsMatch(h, pos)
    BY <1>3
  <1>5. MatchEnd(pos) = h[1 .. N]
    BY <1>2, MatchUnfolds
  <1> HIDE DEF h, N
  <1>6. \A x \in SUBSET (1 .. N) :
            h[x] = IF x = {} THEN pos ELSE MatchChar(h[x \ {Max(x)}], pattern[Max(x)])
    BY <1>2, <1>4 DEF IsMatch
  <1> DEFINE f == [k \in 0 .. N |-> h[1 .. k]]
  <1>7. f[0] = pos
    <2>1. 1 .. 0 = {} /\ 0 \in 0 .. N
      BY <1>2
    <2> QED  BY <1>6, <2>1
  <1>8. ASSUME NEW k \in 1 .. N
        PROVE  f[k] = MatchChar(f[k - 1], pattern[k])
    <2>1. /\ 1 .. k \in SUBSET (1 .. N) /\ k \in Nat \ {0} /\ k \in 0 .. N /\ k - 1 \in 0 .. N
      BY <1>2
    <2>2. h[1 .. k] = MatchChar(h[1 .. (k - 1)], pattern[k])
      <3>1. 1 .. k # {} /\ Max(1 .. k) = k /\ (1 .. k) \ {k} = 1 .. (k - 1)
        BY <2>1, PlacesOf
      <3> QED  BY <1>6, <2>1, <3>1
    <2> QED  BY <2>1, <2>2
  <1>9. MatchEnd(pos) = f[N]
    BY <1>2, <1>5
  <1> HIDE DEF f
  <1>10. MatchTurns(f, pos)
    BY <1>7, <1>8, <1>9 DEF MatchTurns, N
  <1> QED  BY <1>10

\* The text ends within the pattern q, at one of its blanks.
EndsIn(r, q) ==
    \E j \in 1 .. Len(q) : q[j] = Blank /\ r[Len(Text)] = SubSeq(q, 1, j)

\* match is in a blank of the pattern when the text ends, or gives where the last match of the
\* pattern ends.
LEMMA MatchEndIs ==
    ASSUME HasLines, pattern \in Texts, NEW pos \in 0 .. Len(Text) - 1,
           NEW r, Readings(r, Text, pos)
    PROVE  IF EndsIn(r, pattern) THEN MatchEnd(pos) = Forever
                                 ELSE Matched(r, pos, pattern, MatchEnd(pos))
  <1> DEFINE p == pattern
             P == Len(p)
             q(k) == SubSeq(p, 1, k)
             Ends(k) == \E j \in 1 .. k : p[j] = Blank /\ r[Len(Text)] = q(j)
  <1>1. Len(Text) \in Nat /\ Text \in Texts /\ pos \in Nat /\ pos <= Len(Text)
        /\ pos \in 0 .. Len(Text) /\ pos \in pos .. Len(Text)
    BY MarkedIs, TextLenIs
  <1>2. P \in Nat /\ \A i \in 1 .. P : p[i] \in Chars
    BY DEF Texts
  <1>3. PICK f : MatchTurns(f, pos)
    <2>1. \E f : MatchTurns(f, pos)
      BY <1>1, MatchHasTurns
    <2> QED  BY <2>1
  <1>4. /\ f[0] = pos /\ MatchEnd(pos) = f[P]
        /\ \A k \in 1 .. P : f[k] = MatchChar(f[k - 1], p[k])
    BY <1>3 DEF MatchTurns
  <1>5. ASSUME NEW k \in 0 .. P
        PROVE  /\ q(k) \in Texts
               /\ k < P => q(k + 1) = Append(q(k), p[k + 1])
    <2>1. 0 \in 0 .. Len(p) /\ k \in 0 .. Len(p) /\ 0 + 1 = 1
      BY <1>2
    <2>2. /\ SubSeq(p, 0 + 1, k) \in Texts
          /\ k < Len(p) => SubSeq(p, 0 + 1, k + 1) = Append(SubSeq(p, 0 + 1, k), p[k + 1])
      BY <2>1, SubSeqGrows
    <2> QED  BY <2>1, <2>2
  <1>6. q(0) = <<>> /\ q(P) = p
    <2>1. 0 \in 0 .. Len(p) /\ 0 + 1 = 1
      BY <1>2
    <2>2. SubSeq(p, 0 + 1, 0) = <<>>
      BY <2>1, SubSeqNone
    <2> QED  BY <2>1, <2>2, SubSeqFull DEF Texts
  <1> HIDE DEF P, q, p
  <1>7. Readings(r, Text, pos) /\ r[pos] = <<>>
    BY DEF Readings
  <1> DEFINE Good(k) == IF Ends(k) THEN f[k] = Forever ELSE Matched(r, pos, q(k), f[k])
             T == {k \in Nat : k <= P => Good(k)}
  <1>8. T \in SUBSET Nat
    OBVIOUS
  <1>9. 0 \in T
    <2>1. ~Ends(0)
      OBVIOUS
    <2>2. ASSUME NEW m \in pos + 1 .. Len(Text)
          PROVE  r[m] # <<>>
      BY <1>1, <1>7, ReadingEnds
    <2>3. Len(<<>>) = 0
      OBVIOUS
    <2>4. Matched(r, pos, <<>>, pos)
      BY <1>1, <1>7, <2>2, <2>3 DEF Matched
    <2> HIDE DEF Ends
    <2> QED  BY <1>4, <1>6, <2>1, <2>4
  <1>10. ASSUME NEW k \in T
         PROVE  k + 1 \in T
    <2> SUFFICES ASSUME k + 1 <= P PROVE Good(k + 1)
      OBVIOUS
    <2>1. k + 1 \in 1 .. P /\ (k + 1) - 1 = k /\ k \in 0 .. P /\ k < P /\ k <= P
      BY <1>2
    <2>2. f[k + 1] = MatchChar(f[k], p[k + 1]) /\ q(k) \in Texts /\ p[k + 1] \in Chars
          /\ q(k + 1) = Append(q(k), p[k + 1])
      BY <1>2, <1>4, <1>5, <2>1
    <2>3. Good(k)
      BY <2>1
    <2>4. Ends(k + 1) <=> Ends(k) \/ (p[k + 1] = Blank /\ r[Len(Text)] = q(k + 1))
      <3>1. \A j : j \in 1 .. k + 1 <=> j \in 1 .. k \/ j = k + 1
        BY <2>1
      <3> QED  BY <3>1
    <2> HIDE DEF Ends, T
    <2>5. CASE Ends(k)
      <3>1. f[k] = Forever /\ Ends(k + 1)
        BY <2>3, <2>4, <2>5
      <3>2. f[k + 1] = Forever
        BY <2>2, <3>1 DEF MatchChar, Forever
      <3> QED  BY <3>1, <3>2
    <2>6. CASE ~Ends(k)
      <3>1. Matched(r, pos, q(k), f[k])
        BY <2>3, <2>6
      <3>2. \/ /\ f[k + 1] = Forever
               /\ p[k + 1] = Blank /\ r[Len(Text)] = q(k + 1)
            \/ /\ Matched(r, pos, q(k + 1), f[k + 1])
               /\ ~(p[k + 1] = Blank /\ r[Len(Text)] = q(k + 1))
        <4> DEFINE u == q(k)
                   c == p[k + 1]
                   n == f[k]
        <4>1. u \in Texts /\ c \in Chars /\ Matched(r, pos, u, n)
          BY <2>2, <3>1
        <4> HIDE DEF u, c, n
        <4>2. \/ /\ MatchChar(n, c) = Forever
                 /\ c = Blank /\ r[Len(Text)] = Append(u, c)
              \/ /\ Matched(r, pos, Append(u, c), MatchChar(n, c))
                 /\ ~(c = Blank /\ r[Len(Text)] = Append(u, c))
          BY <1>7, <4>1, MatchStep
        <4> QED  BY <2>2, <4>2 DEF u, c, n
      <3> QED  BY <2>4, <2>6, <3>2
    <2> QED  BY <2>5, <2>6
  <1> HIDE DEF T, Ends
  <1>11. T = Nat
    BY <1>8, <1>9, <1>10, SetInduction
  <1>12. Good(P)
    <2>1. P \in T /\ P <= P
      BY <1>2, <1>11
    <2> QED  BY <2>1 DEF T
  <1>13. Ends(P) <=> EndsIn(r, p)
    BY DEF Ends, EndsIn, P, q
  <1> QED  BY <1>4, <1>6, <1>12, <1>13 DEF p

-----------------------------------------------------------------------------
(***************************************************************************)
(* The outcome of the search.                                              *)
(***************************************************************************)
\* The text ends within the pattern, read from pos on.
EndsWithin(pos) ==
    \E k \in DOMAIN pattern :
        pattern[k] = Blank /\ ReadsAs(pos, Len(Text), SubSeq(pattern, 1, k))

\* There is a position for which match is not to return.
Hangs == \E pos \in 0 .. Len(Text) - 1 : EndsWithin(pos)

TextHits == {pos \in 0 .. Len(Text) - 1 : \E n \in pos + 1 .. Len(Text) : ReadsAs(pos, n, pattern)}

ReadingOf(pos) == [n \in pos .. Len(Text) |-> Squeeze(SubSeq(Text, pos + 1, n))]

\* What match returns for a position, in terms of what is read there.
LEMMA MatchReads ==
    ASSUME HasLines, pattern \in Texts, NEW pos \in 0 .. Len(Text) - 1
    PROVE  /\ Readings(ReadingOf(pos), Text, pos)
           /\ MatchEnd(pos) = Forever <=> EndsWithin(pos)
           /\ MatchEnd(pos) # Forever => Matched(ReadingOf(pos), pos, pattern, MatchEnd(pos))
           /\ \A n \in pos .. Len(Text) : \A s : ReadsAs(pos, n, s) <=> ReadingOf(pos)[n] = s
  <1>1. Text \in Texts /\ Len(Text) \in Nat /\ pos \in 0 .. Len(Text) /\ pos \in Nat
    BY MarkedIs, TextLenIs
  <1> DEFINE r == ReadingOf(pos)
  <1>2. Readings(r, Text, pos)
    BY <1>1, HasReadings DEF ReadingOf
  <1>3. \A n \in pos .. Len(Text) : \A s : ReadsAs(pos, n, s) <=> r[n] = s
    BY DEF ReadsAs, ReadingOf
  <1> HIDE DEF r
  <1>4. EndsIn(r, pattern) <=> EndsWithin(pos)
    <2>1. DOMAIN pattern = 1 .. Len(pattern)
      BY LenProperties DEF Texts
    <2>2. Len(Text) \in pos .. Len(Text)
      BY <1>1
    <2> QED  BY <1>3, <2>1, <2>2 DEF EndsIn, EndsWithin
  <1>5. IF EndsIn(r, pattern) THEN MatchEnd(pos) = Forever
                              ELSE Matched(r, pos, pattern, MatchEnd(pos))
    BY <1>2, MatchEndIs
  <1>6. \A n : Matched(r, pos, pattern, n) => n # Forever
    BY <1>1 DEF Matched, Forever, Mismatch
  <1> QED  BY <1>2, <1>3, <1>4, <1>5, <1>6 DEF r

\* A match is reported: ends of lines alone match only a pattern for which match does not return
\* at the end of the text.
LEMMA MatchIsReported ==
    ASSUME HasLines, pattern \in Texts, Endless = {}, NEW pos \in 0 .. Len(Text) - 1,
           MatchEnd(pos) > pos
    PROVE  Reported(pos, MatchEnd(pos))
  <1> DEFINE N == Len(Text)
             n == MatchEnd(pos)
             r == ReadingOf(pos)
  <1>1. Text \in Texts /\ N \in Nat /\ pos \in Nat /\ pos < N /\ TextLen = N /\ pos \in 0 .. N
    BY MarkedIs, TextLenIs
  <1> SUFFICES ASSUME ~Reported(pos, n)
               PROVE  FALSE
    OBVIOUS
  <1>2. n # Forever /\ n # Mismatch
    BY <1>1 DEF Forever, Mismatch
  <1>3. Readings(r, Text, pos) /\ Matched(r, pos, pattern, n)
    BY <1>2, MatchReads
  <1> HIDE DEF r
  <1>4. /\ n \in pos .. N /\ r[n] = pattern /\ n > pos
        /\ Len(pattern) > 0 /\ pattern[Len(pattern)] = Blank => n < N /\ Text[n + 1] # Blank
    BY <1>2, <1>3 DEF Matched
  <1>5. \A i \in pos + 1 .. n : Text[i] = Blank
    <2> SUFFICES ASSUME NEW i \in pos + 1 .. n
                 PROVE  Text[i] = Blank
      OBVIOUS
    <2>1. i - 1 \in pos .. n - 1 /\ i - 1 \in Nat /\ i - 1 < N /\ (i - 1) + 1 = i
      BY <1>1, <1>4
    <2>2. TextCharAt(i - 1) = Empty
      BY <2>1 DEF Reported
    <2>3. CharAt(i - 1) = Blank /\ CharAt(i - 1) = Text[(i - 1) + 1]
      BY <2>1, <2>2, CharAtIs
    <2> QED  BY <2>1, <2>3
  <1> HIDE DEF n
  <1>6. n \in Nat /\ n \in pos + 1 .. N /\ pos + 1 \in pos + 1 .. N /\ n \in pos + 1 .. n
    BY <1>1, <1>4
  <1>7. pattern[Len(pattern)] = Blank /\ Len(pattern) > 0
    <2>1. Len(r[n]) > 0 /\ r[n][Len(r[n])] = Text[n]
      BY <1>1, <1>3, <1>6, ReadingEnds
    <2> QED  BY <1>4, <1>5, <1>6, <2>1
  <1>8. r[pos + 1] = Append(<<>>, Blank)
    <2>1. r[pos] = <<>> /\ pos \in pos .. N - 1 /\ pos + 1 \in pos + 1 .. n
      BY <1>1, <1>3, <1>6 DEF Readings
    <2>2. ~Merged(Text, pos, pos)
      BY <1>1 DEF Merged
    <2>3. r[pos + 1] = IF Merged(Text, pos, pos) THEN r[pos] ELSE Append(r[pos], Text[pos + 1])
      BY <1>3, <2>1 DEF Readings
    <2> QED  BY <1>5, <2>1, <2>2, <2>3
  <1>9. r[n] = r[pos + 1]
    <2>1. n \in pos + 1 .. Len(Text) /\ \A i \in pos + 1 .. n : Text[i] = Blank
      BY <1>5, <1>6
    <2> QED  BY <1>1, <1>3, <1>6, <2>1, BlanksMerge
  <1>10. pattern = Append(<<>>, Blank)
    BY <1>4, <1>8, <1>9
  \* The last position.
  <1> DEFINE e == N - 1
             w == ReadingOf(e)
  <1>11. e \in 0 .. N - 1 /\ e \in Nat /\ e + 1 = N /\ N > 0 /\ N \in e .. N
    BY <1>1
  <1>12. /\ Readings(w, Text, e)
         /\ MatchEnd(e) = Forever <=> EndsWithin(e)
         /\ \A s : ReadsAs(e, N, s) <=> w[N] = s
    <2> HIDE DEF e
    <2>1. /\ Readings(ReadingOf(e), Text, e)
          /\ MatchEnd(e) = Forever <=> EndsWithin(e)
          /\ \A m \in e .. Len(Text) : \A s : ReadsAs(e, m, s) <=> ReadingOf(e)[m] = s
      BY <1>11, MatchReads
    <2> QED  BY <1>11, <2>1
  <1> HIDE DEF e, w
  <1>13. w[N] = Append(<<>>, Blank)
    <2>1. w[e] = <<>> /\ e \in e .. N - 1
      BY <1>11, <1>12 DEF Readings
    <2>2. ~Merged(Text, e, e)
      BY <1>11 DEF Merged
    <2>3. w[e + 1] = IF Merged(Text, e, e) THEN w[e] ELSE Append(w[e], Text[e + 1])
      BY <1>12, <2>1 DEF Readings
    <2>4. Text[N] = Blank
      BY <1>11, LastIsBlank
    <2> QED  BY <1>11, <2>1, <2>2, <2>3, <2>4
  <1>14. EndsWithin(e)
    <2>1. Len(pattern) = 1
      BY <1>10
    <2>2. DOMAIN pattern = 1 .. Len(pattern) /\ SubSeq(pattern, 1, Len(pattern)) = pattern
      BY LenProperties, SubSeqFull DEF Texts
    <2>3. 1 \in DOMAIN pattern /\ pattern[1] = Blank /\ SubSeq(pattern, 1, 1) = pattern
      BY <1>7, <2>1, <2>2
    <2>4. ReadsAs(e, N, pattern)
      BY <1>10, <1>12, <1>13
    <2> QED  BY <2>3, <2>4 DEF EndsWithin
  <1>15. e \in Endless
    BY <1>1, <1>11, <1>12, <1>14 DEF Endless, Positions
  <1> QED  BY <1>15

\* The loop over the positions collects those where the pattern is read, unless match does not
\* return.
LEMMA ScanFinds ==
    ASSUME HasLines, pattern \in Texts
    PROVE  /\ Endless # {} <=> Hangs
           /\ Endless = {} => {pos \in Positions : /\ \A p \in Endless : pos < p
                                                   /\ MatchEnd(pos) > pos
                                                   /\ Reported(pos, MatchEnd(pos))} = TextHits
  <1>1. Positions = 0 .. Len(Text) - 1 /\ Len(Text) \in Nat /\ Text \in Texts
    BY MarkedIs, TextLenIs DEF Positions
  <1>2. Endless # {} <=> Hangs
    BY <1>1, MatchReads DEF Endless, Hangs
  <1>3. ASSUME Endless = {}, NEW pos \in 0 .. Len(Text) - 1
        PROVE  MatchEnd(pos) > pos <=> \E n \in pos + 1 .. Len(Text) : ReadsAs(pos, n, pattern)
    <2> DEFINE r == ReadingOf(pos)
               e == MatchEnd(pos)
    <2>1. e # Forever
      BY <1>1, <1>3 DEF Endless
    <2>2. /\ Readings(r, Text, pos) /\ Matched(r, pos, pattern, e)
          /\ \A n \in pos .. Len(Text) : ReadsAs(pos, n, pattern) <=> r[n] = pattern
      BY <2>1, MatchReads
    <2> HIDE DEF r, e
    <2>3. \A n \in pos + 1 .. Len(Text) : n \in pos .. Len(Text) /\ n > pos
      BY <1>1
    <2>4. CASE e = Mismatch /\ \A m \in pos .. Len(Text) : r[m] # pattern
      <3>1. ~(e > pos)
        BY <1>1, <2>4 DEF Mismatch
      <3> QED  BY <2>2, <2>3, <2>4, <3>1 DEF e
    <2>5. CASE /\ e \in pos .. Len(Text) /\ r[e] = pattern
               /\ \A m \in e + 1 .. Len(Text) : r[m] # pattern
      <3>1. CASE e > pos
        <4>1. e \in pos + 1 .. Len(Text)
          BY <1>1, <2>5, <3>1
        <4> QED  BY <2>2, <2>3, <2>5, <3>1, <4>1 DEF e
      <3>2. CASE ~(e > pos)
        <4>1. e = pos
          BY <1>1, <2>5, <3>2
        <4> QED  BY <2>2, <2>3, <2>5, <3>2, <4>1 DEF e
      <3> QED  BY <3>1, <3>2
    <2> QED  BY <2>2, <2>4, <2>5 DEF Matched
  <1>4. ASSUME Endless = {}
        PROVE  {pos \in Positions : /\ \A p \in Endless : pos < p
                                    /\ MatchEnd(pos) > pos
                                    /\ Reported(pos, MatchEnd(pos))} = TextHits
    <2>1. \A pos \in 0 .. Len(Text) - 1 : MatchEnd(pos) > pos => Reported(pos, MatchEnd(pos))
      BY <1>4, MatchIsReported
    <2> QED  BY <1>1, <1>3, <1>4, <2>1 DEF TextHits
  <1> QED  BY <1>2, <1>4

\* The text page that the device has left has lines of spans.
LEMMA ShownHasLines ==
    ASSUME TextTypes, Shows(Lines, drawn)
    PROVE  HasLines
  <1> DEFINE A == Seq(Texts)
             V == Reading(<<>>)
  <1>1. Lines \in Seq(A)
    BY FlattenType DEF TextTypes, Lines, Texts
  <1>2. <<>> \in Texts
    BY DEF Texts
  <1>3. Count(Lines, V) = 0
    BY <1>2 DEF Shows
  <1>4. <<>> \in V
    BY FlattenEmpty DEF Reading
  <1> HIDE DEF A, V
  <1>5. IsFiniteSet(Where(Lines, V))
    BY <1>1, WhereIsFinite
  <1>6. Where(Lines, V) = {}
    BY <1>3, <1>5, FS_EmptySet DEF Count
  <1>7. \A i \in 1 .. Len(Lines) : Lines[i] # <<>>
    BY <1>4, <1>6 DEF Where
  <1> QED  BY <1>1, <1>7 DEF HasLines, A

\* What is known when the scan is over.
Outcome ==
    /\ pc \in {"lost", "always", "flush", "returned"} /\ thrown = {} => ((pc = "lost") <=> Hangs)
    /\ pc \in {"always", "flush", "returned"} /\ thrown = {} => hits = TextHits
    /\ pc = "returned" => thrown = {}

\* The outcome is one of the text page and the pattern.
LEMMA SameText ==
    ASSUME UNCHANGED <<pattern, blocks>>
    PROVE  Hangs' = Hangs /\ TextHits' = TextHits
  <1>1. Text' = Text /\ Len(Text)' = Len(Text) /\ pattern' = pattern
    BY DEF Text, Lines
  <1>2. Hangs' = Hangs
    BY <1>1 DEF Hangs, EndsWithin, ReadsAs
  <1>3. TextHits' = TextHits
    BY <1>1 DEF TextHits, ReadsAs
  <1> QED  BY <1>2, <1>3

LEMMA ScanHasOutcome ==
    ASSUME IInv, TextTypes, TextInv, Scan
    PROVE  Outcome'
  <1>1. /\ pc = "scan" /\ thrown' = thrown
        /\ hits' = {pos \in Positions : /\ \A p \in Endless : pos < p
                                        /\ MatchEnd(pos) > pos
                                        /\ Reported(pos, MatchEnd(pos))}
        /\ pc' = IF Endless = {} THEN "always" ELSE "lost"
        /\ UNCHANGED <<pattern, blocks>>
    BY DEF Scan
  <1>2. HasLines /\ pattern \in Texts
    BY <1>1, ShownHasLines, PatternsAssumption DEF TextInv, TextTypes, Texts, Chars
  <1>3. Hangs' = Hangs /\ TextHits' = TextHits
    BY <1>1, SameText
  <1>4. /\ Endless # {} <=> Hangs
        /\ Endless = {} => hits' = TextHits
    BY <1>1, <1>2, ScanFinds
  <1>5. pc' \in {"always", "lost"} /\ (pc' = "lost" <=> Endless # {})
    BY <1>1
  <1> QED  BY <1>3, <1>4, <1>5 DEF Outcome

LEMMA StepKeepsOutcome ==
    ASSUME IInv, TextTypes, TextInv, Outcome, [Next]_vars
    PROVE  Outcome'
  <1>1. CASE Scan
    BY <1>1, ScanHasOutcome
  <1>2. CASE \/ NewSheet \/ NewPage \/ NewUser \/ NewDevice \/ FreeDevice
             \/ \E c \in Chars \cup {Ignored}, style \in Styles, gap \in {"none", "space", "line"} :
                    Glyph(c, style, gap)
    <2>1. pc' \in {"page", "device", "wrap", "run", "scan"}
      <3>1. CASE NewSheet \/ NewPage \/ NewUser \/ NewDevice \/ FreeDevice
        BY <3>1 DEF NewSheet, NewPage, NewUser, NewDevice, FreeDevice
      <3>2. ASSUME NEW c, NEW style, NEW gap, Glyph(c, style, gap)
            PROVE  pc' = "run"
        BY <3>2 DEF Glyph
      <3> QED  BY <1>2, <3>1, <3>2
    <2> QED  BY <2>1 DEF Outcome
  <1>3. CASE Throw \/ FlushThrows
    <2>1. thrown' # {} /\ pc' = "always"
      BY <1>3 DEF Throw, FlushThrows, Jump
    <2> QED  BY <2>1 DEF Outcome
  <1>4. CASE FreeTexts \/ FreeDeviceLast
    <2>1. /\ \/ pc = "always" /\ pc' = "flush"
             \/ pc = "flush" /\ pc' = IF thrown = {} THEN "returned" ELSE "caught"
          /\ UNCHANGED <<thrown, pattern, hits>>
      BY <1>4 DEF FreeTexts, FreeDeviceLast
    <2>2. CASE thrown # {}
      BY <2>1, <2>2 DEF Outcome
    <2>3. CASE thrown = {}
      <3>1. ~local["device"]
        BY <2>1, <2>3 DEF IInv, AlwaysPart, Held, Variables
      <3>2. blocks' = blocks
        BY <1>4, <3>1 DEF FreeTexts, FreeDeviceLast
      <3>3. Hangs' = Hangs /\ TextHits' = TextHits
        BY <2>1, <3>2, SameText
      <3> QED  BY <2>1, <2>3, <3>3 DEF Outcome
    <2> QED  BY <2>2, <2>3
  <1>5. CASE UNCHANGED vars
    <2>1. UNCHANGED <<pc, thrown, pattern, hits, blocks>>
      BY <1>5 DEF vars, searchVars
    <2>2. Hangs' = Hangs /\ TextHits' = TextHits
      BY <2>1, SameText
    <2> QED  BY <2>1, <2>2 DEF Outcome
  <1> QED  BY <1>1, <1>2, <1>3, <1>4, <1>5 DEF Next

LEMMA OutcomeInvariant == Spec => []Outcome
  <1>1. Init => Outcome
    BY DEF Init, Outcome
  <1>2. IInv /\ TextTypes /\ TextInv /\ Outcome /\ [Next]_vars => Outcome'
    BY StepKeepsOutcome
  <1> QED  BY <1>1, <1>2, Invariant, TextInvariant, PTL DEF Spec

\* A search that returns has found each position where the pattern is read, a blank for any number
\* of blanks and ends of lines, and no other: for every page and pattern, the turns of match, of
\* textcharat over blocks, lines and spans and of textlen come to that, and no match is passed over
\* because its characters have no box.
THEOREM HitsAreExact == Spec => []HitsAreMatches
  <1>1. Outcome => HitsAreMatches
    BY DEF Outcome, HitsAreMatches, TextHits
  <1> QED  BY <1>1, OutcomeInvariant, PTL

\* match does not return exactly for a text whose end reads as a part of the pattern up to one of
\* its blanks, whatever the page and the pattern.
THEOREM HangsAreExplained == Spec => []HangsOnlyAtTheEnd
  <1>1. Hangs <=> \E pos \in 0 .. Len(Text) - 1, k \in DOMAIN pattern :
                      pattern[k] = Blank /\ ReadsAs(pos, Len(Text), SubSeq(pattern, 1, k))
    BY DEF Hangs, EndsWithin
  <1>2. Outcome => HangsOnlyAtTheEnd
    BY <1>1 DEF Outcome, HangsOnlyAtTheEnd
  <1> QED  BY <1>2, OutcomeInvariant, PTL
================================================================================

------------------------------- MODULE PageSearch -------------------------------
(***************************************************************************)
(* The search for text on a page of MuPDF (MuPdfPage.search): the page is  *)
(* run through a text device, which gathers characters to spans, spans to  *)
(* lines and lines to blocks; then the pattern is matched at each position *)
(* of the gathered text.  Everything happens between fz_try and fz_catch.  *)
(* An exception, wherever it is thrown before fz_catch, goes on with the   *)
(* fz_always block: also one that comes from that block itself.            *)
(*                                                                         *)
(* The content of the page is any sequence of at most MaxGlyphs glyphs.    *)
(* Where a glyph lies is seen only by the device: next to the last one,    *)
(* after a gap, or on another line, and in which block that line goes.     *)
(* Characters stand for themselves in both cases (tolower).                *)
(***************************************************************************)
EXTENDS Integers, Sequences, FiniteSets, SequencesExt

CONSTANTS
    Letters, Blank, \* characters
    Ignored,        \* the character -1: one more glyph of a character
    Empty,          \* emptychar, what textcharat returns at the end of a line
    Styles, None,
    Patterns,       \* what is searched for
    MaxGlyphs       \* bound on the glyphs of a page

ASSUME CharsAssumption ==
    /\ Blank \notin Letters /\ Empty \notin Letters \cup {Blank}
    /\ Ignored \notin Letters \cup {Blank}
ASSUME NoneAssumption == None \notin Styles \cup Letters \cup {Blank, Empty}
ASSUME PatternsAssumption == Patterns \subseteq Seq(Letters \cup {Blank})
ASSUME BoundAssumption == MaxGlyphs \in Nat

Chars == Letters \cup {Blank}
Things == {"sheet", "page", "user", "device"}  \* user: the fz_text_device, dev->user
Variables == {"sheet", "page", "device"}        \* the local variables of search

VARIABLES
    pc,         \* where the search is; "lost" when match does not return
    thrown,     \* where exceptions have come from
    local,      \* per variable, whether it is not NULL
    alive,      \* the things that are allocated
    span,       \* dev->cur_span: style and text
    line,       \* dev->cur_line: the texts of its spans
    blocks,     \* the blocks of the text page, sequences of lines
    lastchar,   \* dev->lastchar
    pattern, hits,
    glyphs,     \* history: number of glyphs
    drawn,      \* history: what has been drawn, line by line
    hidden,     \* history: things whose variables an exception set back while they were allocated
    undefined   \* freed memory has been used

searchVars == <<thrown, local, alive, pattern, hits, hidden, undefined>>
deviceVars == <<span, line, lastchar, glyphs, drawn>>
vars == <<pc, searchVars, deviceVars, blocks>>

\* The variables have their types.
TypeOK ==
    /\ pc \in {"start", "page", "device", "wrap", "run", "scan", "always", "flush",
              "returned", "caught", "lost"}
    /\ thrown \subseteq {"start", "page", "device", "wrap", "run", "flush"}
    /\ undefined \in BOOLEAN
    /\ local \in [Variables -> BOOLEAN]
    /\ alive \subseteq Things /\ hidden \subseteq Variables
    /\ span.style \in Styles \cup {None} /\ span.text \in Seq(Chars)
    /\ line \in Seq(Seq(Chars))
    /\ blocks \in Seq(Seq(Seq(Seq(Chars))))
    /\ lastchar \in Chars \cup {Ignored}
    /\ pattern \in Patterns /\ hits \subseteq Nat
    /\ glyphs \in 0 .. MaxGlyphs
    /\ drawn \in Seq(Seq(Chars))

Init ==
    /\ pc = "start" /\ thrown = {}
    /\ local = [x \in Variables |-> FALSE] /\ alive = {} /\ hidden = {}
    /\ span = [style |-> None, text |-> <<>>] /\ line = <<>>
    /\ blocks = <<>> /\ lastchar = Blank
    /\ pattern \in Patterns /\ hits = {}
    /\ glyphs = 0 /\ drawn = << <<>> >>
    /\ undefined = FALSE

-----------------------------------------------------------------------------
(***************************************************************************)
(* The text device.                                                        *)
(***************************************************************************)
AppendSpan(l, s) == IF s.text = <<>> THEN l ELSE Append(l, s.text)

\* A line goes to a block it is close to, or to a new one.
InsertLine(l) ==
    IF l = <<>>
    THEN blocks' = blocks
    ELSE \E b \in 1 .. Len(blocks) + 1 :
             blocks' = IF b > Len(blocks) THEN Append(blocks, <<l>>)
                                          ELSE [blocks EXCEPT ![b] = Append(@, l)]

\* fz_add_text_char_imp, for the characters of one glyph: the span and the line after it.
AddChars(s, l, style, text) ==
    IF text = <<>> THEN <<s, l>>
    ELSE IF s.style \in {None, style}
    THEN <<[style |-> style, text |-> s.text \o text], l>>
    ELSE <<[style |-> style, text |-> text], AppendSpan(l, s)>>

CharsOf(c) == IF c = Ignored THEN <<>> ELSE <<c>>

\* A glyph of fz_text_extract: the line may end before it, or a blank be put in.
Glyph(c, style, gap) ==
    LET flush == gap = "line"
        text == IF gap = "space" /\ lastchar # Blank THEN <<Blank>> \o CharsOf(c) ELSE CharsOf(c)
        after == IF flush THEN AddChars([style |-> style, text |-> <<>>], <<>>, style, text)
                          ELSE AddChars(span, line, style, text)
    IN
    /\ pc = "run" /\ glyphs < MaxGlyphs
    /\ glyphs = 0 => gap = "none" /\ c # Ignored
    /\ IF flush THEN InsertLine(AppendSpan(line, span)) ELSE UNCHANGED blocks
    /\ span' = after[1] /\ line' = after[2]
    /\ lastchar' = c
    /\ glyphs' = glyphs + 1
    /\ drawn' = IF flush THEN Append(drawn, text)
                         ELSE [drawn EXCEPT ![Len(drawn)] = @ \o text]
    /\ UNCHANGED <<pc, searchVars>>

-----------------------------------------------------------------------------
(***************************************************************************)
(* textcharat, textlen and match.                                          *)
(***************************************************************************)
Lines == FlattenSeq(blocks)

\* One turn of the innermost loop of textcharat.
NextSpan(s, last, idx, at) ==
    IF at.char # None THEN at
    ELSE IF idx < at.ofs + Len(s) THEN [at EXCEPT !.char = s[idx - at.ofs + 1]]
    ELSE IF last /\ idx = at.ofs + Len(s) THEN [at EXCEPT !.char = Empty]
    ELSE [at EXCEPT !.ofs = @ + Len(s) + (IF last THEN 1 ELSE 0)]

TextCharAt(idx) ==
    LET InLine(at, l) ==
            FoldLeftDomain(LAMBDA a, i : NextSpan(l[i], i = Len(l), idx, a), at, l)
        end == FoldLeft(InLine, [ofs |-> 0, char |-> None], Lines)
    IN IF end.char = None THEN Empty ELSE end.char

CharAt(idx) == IF TextCharAt(idx) = Empty THEN Blank ELSE TextCharAt(idx)

TextLen ==
    FoldLeft(LAMBDA n, l : FoldLeft(LAMBDA m, s : m + Len(s), n, l) + 1, 0, Lines)

\* Results of match other than a length.
Mismatch == -1
Forever == -2

\* Where a run of blanks ends: past the text every character is a blank.
AfterBlanks(n) ==
    LET ends == {m \in n + 1 .. TextLen - 1 : CharAt(m) # Blank}
    IN IF ends = {} THEN Forever ELSE CHOOSE m \in ends : \A k \in ends : m <= k

\* Mutant: a blank stands for one blank.
MatchChar_One(n, c) ==
    IF n < 0 THEN n ELSE IF CharAt(n) = c THEN n + 1 ELSE Mismatch

\* One turn of the loop of match, at position n for character c of the pattern.
MatchChar(n, c) ==
    IF n < 0 THEN n
    ELSE IF c = Blank /\ CharAt(n) = Blank THEN AfterBlanks(n)
    ELSE IF CharAt(n) = c THEN n + 1
    ELSE Mismatch

MatchEnd(pos) == FoldLeft(MatchChar, pos, pattern)

-----------------------------------------------------------------------------
(***************************************************************************)
(* The search.                                                             *)
(***************************************************************************)
New(x) ==
    /\ local' = [y \in Variables |-> local[y] \/ y = x]
    /\ alive' = alive \cup {x}
    /\ UNCHANGED <<thrown, pattern, hits, hidden, undefined, deviceVars, blocks>>

NewSheet == pc = "start" /\ New("sheet") /\ pc' = "page"
NewPage == pc = "page" /\ New("page") /\ pc' = "device"

\* fz_new_text_device allocates twice, and has no variable of the search for the first.
NewUser == pc = "device" /\ New("user") /\ pc' = "wrap"
NewDevice == pc = "wrap" /\ New("device") /\ pc' = "run"

\* The text that the device has not yet given to the page.
Pending == span.text # <<>> \/ line # <<>>

\* fz_text_free_user: the last span and line go to the text page.
FlushDevice == InsertLine(AppendSpan(line, span))

\* Mutant: the text is matched before the device is freed.
FreeDevice_Late ==
    /\ pc = "run" /\ pc' = "scan"
    /\ UNCHANGED <<searchVars, deviceVars, blocks>>

\* Mutant: the variable is not reset.
FreeDevice_KeepsVariable ==
    /\ pc = "run" /\ pc' = "scan"
    /\ FlushDevice
    /\ alive' = alive \ {"user", "device"}
    /\ UNCHANGED <<thrown, local, pattern, hits, hidden, undefined, deviceVars>>

\* The page is over: fz_free_device(dev); dev = NULL.
FreeDevice ==
    /\ pc = "run" /\ pc' = "scan"
    /\ FlushDevice
    /\ alive' = alive \ {"user", "device"}
    /\ local' = [local EXCEPT !["device"] = FALSE]
    /\ UNCHANGED <<thrown, pattern, hits, hidden, undefined, deviceVars>>

\* Mutant: the last position is left out.
Positions_Short == 0 .. TextLen - 2

Positions == 0 .. TextLen - 1

\* A match is reported when its characters have a box, which the ends of lines have not.
Reported(pos, n) == \E i \in pos .. n - 1 : TextCharAt(i) # Empty

\* The positions for which match does not return.
Endless == {pos \in Positions : MatchEnd(pos) = Forever}

\* The loop over the positions.
Scan ==
    /\ pc = "scan"
    /\ hits' = {pos \in Positions :
                  /\ \A p \in Endless : pos < p
                  /\ MatchEnd(pos) > pos
                  /\ Reported(pos, MatchEnd(pos))}
    /\ pc' = IF Endless = {} THEN "always" ELSE "lost"
    /\ UNCHANGED <<thrown, local, alive, pattern, hidden, undefined, deviceVars, blocks>>

\* fz_throw jumps to the setjmp of fz_try.  The local variables are not given to fz_var: each keeps
\* its value, or has the one it had at fz_try.
Jump ==
    /\ thrown' = thrown \cup {pc} /\ pc' = "always"
    /\ \E back \in SUBSET {x \in Variables : local[x]} :
         /\ hidden' = hidden \cup (back \cap alive)
         /\ local' = [x \in Variables |-> local[x] /\ x \notin back]
    /\ UNCHANGED <<alive, pattern, hits, deviceVars, blocks>>

\* Something in the fz_try block throws, fz_free_device included.  What an exception leaves in the
\* device is not read any more, only whether it is something.
Throw ==
    /\ pc \in {"start", "page", "device", "wrap", "run"}
    /\ Jump
    /\ UNCHANGED undefined

\* Mutant: the sheet is left to the garbage collector.
FreeTexts_NoSheet ==
    /\ pc = "always" /\ pc' = "flush"
    /\ alive' = alive \ {x \in {"page"} : local[x]}
    /\ undefined' = (undefined \/ \E x \in {"page"} : local[x] /\ x \notin alive)
    /\ UNCHANGED <<thrown, local, pattern, hits, hidden, deviceVars, blocks>>

\* The fz_always block frees the page and the sheet, and resets no variable.
FreeTexts ==
    /\ pc = "always" /\ pc' = "flush"
    /\ alive' = alive \ {x \in {"sheet", "page"} : local[x]}
    /\ undefined' = (undefined \/ \E x \in {"sheet", "page"} : local[x] /\ x \notin alive)
    /\ UNCHANGED <<thrown, local, pattern, hits, hidden, deviceVars, blocks>>

\* Where the device puts its text: the page, and the sheet that owns the styles of its spans.
Gone == ~({"sheet", "page"} \subseteq alive)

\* Then it frees the device, which flushes its text.
FreeDeviceLast ==
    /\ pc = "flush" /\ pc' = IF thrown = {} THEN "returned" ELSE "caught"
    /\ alive' = IF local["device"] THEN alive \ {"user", "device"} ELSE alive
    /\ undefined' = (undefined \/ (local["device"] /\ ("device" \notin alive \/ (Pending /\ Gone))))
    /\ IF local["device"] /\ ~ undefined' THEN FlushDevice ELSE UNCHANGED blocks
    /\ UNCHANGED <<thrown, local, pattern, hits, hidden, deviceVars>>

\* The flush throws, in append_span or in insert_line, which is the one to use the page and the
\* style.  The frame of fz_try is popped only in fz_catch: the fz_always block is run again.
FlushThrows ==
    /\ pc = "flush" /\ local["device"] /\ Pending
    /\ \E inserting \in BOOLEAN :
         /\ span.text = <<>> => inserting
         /\ undefined' = (undefined \/ (inserting /\ Gone))
    /\ Jump

-----------------------------------------------------------------------------
Next ==
    \/ NewSheet \/ NewPage \/ NewUser \/ NewDevice
    \/ \E c \in Chars \cup {Ignored}, style \in Styles, gap \in {"none", "space", "line"} :
         Glyph(c, style, gap)
    \/ FreeDevice \/ Scan \/ Throw \/ FreeTexts \/ FreeDeviceLast \/ FlushThrows

Spec == Init /\ [][Next]_vars

-----------------------------------------------------------------------------
(***************************************************************************)
(* What the search is to do.                                               *)
(***************************************************************************)
\* The text of the page as it is read: each line and a blank.
Text == FlattenSeq([i \in DOMAIN Lines |-> Append(FlattenSeq(Lines[i]), Blank)])

\* A text without the blanks that follow a blank.
Squeeze(t) ==
    FoldLeftDomain(LAMBDA s, i : IF i > 1 /\ t[i] = Blank /\ t[i - 1] = Blank
                                 THEN s ELSE Append(s, t[i]), <<>>, t)

\* The characters pos .. n - 1 read as s.
ReadsAs(pos, n, s) == Squeeze(SubSeq(Text, pos + 1, n)) = s

\* The lines of the text page are the lines that were drawn, whatever the order of blocks, styles
\* and gaps: a span or line that is still in the device is not left out (fz_text_free_user).
NothingIsLost ==
    pc = "scan" =>
        \A t \in Range(drawn) \cup {FlattenSeq(l) : l \in Range(Lines)} :
            Cardinality({i \in DOMAIN Lines : FlattenSeq(Lines[i]) = t})
              = IF t = <<>> THEN 0 ELSE Cardinality({i \in DOMAIN drawn : drawn[i] = t})

\* A search that returns has reported the positions where the pattern is read, a blank standing for
\* any number of blanks and ends of lines; none of them is passed over for want of a box.
HitsAreMatches ==
    pc = "returned" =>
        hits = {pos \in 0 .. Len(Text) - 1 :
                  \E n \in pos + 1 .. Len(Text) : ReadsAs(pos, n, pattern)}

\* match runs for ever exactly when the end of the text reads as a part of the pattern up to one
\* of its blanks: past the text there are only blanks.
HangsOnlyAtTheEnd ==
    pc \in {"lost", "always", "flush", "returned"} /\ thrown = {} =>
        (pc = "lost") = \E pos \in 0 .. Len(Text) - 1, k \in DOMAIN pattern :
                           pattern[k] = Blank /\ ReadsAs(pos, Len(Text), SubSeq(pattern, 1, k))

\* What search has allocated outlives it only after an exception: the things whose variables it set
\* back, with the text device behind a device; and that text device when the device could not be
\* allocated, since fz_new_text_device does not free it.
EverythingFreed ==
    pc \in {"returned", "caught"} =>
        /\ alive = hidden \cup (IF "device" \in hidden \/ "wrap" \in thrown THEN {"user"} ELSE {})
        /\ thrown = {} => alive = {}

\* Freed memory is used only when an exception leaves a device with text behind, which fz_always
\* flushes after it has freed the page and the sheet: then it is, unless both of them, or the
\* device, were forgotten before.  A device that is forgotten when the flush itself throws comes
\* too late for that.
HarmOnlyAfterThrow ==
    LET left == "run" \in thrown /\ Pending /\ ~({"sheet", "page"} \subseteq hidden)
    IN  /\ undefined => left /\ ("device" \in hidden => "flush" \in thrown)
        /\ pc = "caught" /\ left /\ "device" \notin hidden => undefined
================================================================================

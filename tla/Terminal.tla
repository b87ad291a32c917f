------------------------------ MODULE Terminal ------------------------------
(***************************************************************************)
(* The line editor of a command line (terminal.h, terminal.cpp): readline  *)
(* and the termbuffer below it. Of a line that is longer than the display  *)
(* a window is shown that follows the cursor; draw writes only the cells   *)
(* that have changed since the last time, and moves the cursor only where  *)
(* it must. Other threads may send messages, which are shown when no key   *)
(* has come for a second.                                                  *)
(*                                                                         *)
(* Positions count from 0, as in the code; characters are one byte. What   *)
(* the code does to those of several bytes, and the methods an application *)
(* calls upon keys of its own, are left out.                               *)
(***************************************************************************)
EXTENDS Integers, Sequences, SequencesExt, FiniteSets

CONSTANTS
    Prompt,        \* the prompt, a sequence of characters
    Characters,    \* the keys that are inserted; among them the space
    BufferSize,          \* the size of the buffer
    WSize,         \* the width of the display
    HeadMargin, TailMargin,       \* 6 and 4 columns: where the window stops
    ScrollStep, WordFrom, WordWithin,   \* 16, 12 and 32: how far it scrolls
    HistoryMax,    \* 256 lines of history
    Histories,     \* the histories that loadhistory may give
    MaxKeys,       \* bound on the keys of a behaviour
    MaxMessages    \* bound on the messages of other threads

ASSUME TerminalAssumption ==
    /\ {BufferSize, WSize, HeadMargin, TailMargin, ScrollStep, WordFrom, WordWithin, HistoryMax} \subseteq Nat \ {0}
    /\ Len(Prompt) < WSize - HeadMargin + 1 /\ WSize < BufferSize /\ WordWithin <= WSize - 2

Zero == "zero"          \* the byte that ends a string, in the view: not drawn
PromptLen == Len(Prompt)
Columns == 0 .. WSize - 1

VARIABLES
    term,       \* the termbuffer
    screen,     \* the line of the display on which the cursor is
    column,     \* the column of the cursor
    messages,   \* messages that are not yet shown
    keys,       \* the number of keys that were read
    line,       \* what has been edited, without the prompt
    cleared,    \* clearleft or clearright has left something behind the line since
                \* it was set as a whole
    far,        \* wordright has taken the cursor out of the window
    given,      \* what the last readline gave, and what had been edited
    entered     \* the lines of the history that was loaded, and those given that were not empty

terminalVars == <<term, screen, column, messages, keys, line, cleared, far, given, entered>>

-----------------------------------------------------------------------------
Cell(t, i) == t.buffer[i + 1]
WithCell(t, i, c) == [t EXCEPT !.buffer[i + 1] = c]
memmove(b, to, from, n) ==
    SubSeq(b, 1, to) \o SubSeq(b, from + 1, from + n) \o SubSeq(b, to + n + 1, Len(b))
\* The string that begins behind the prompt.
CString(t) ==
    LET ends == {i \in PromptLen .. BufferSize : Cell(t, i) = Zero} IN
    SubSeq(t.buffer, PromptLen + 1, IF ends = {} THEN BufferSize + 1 ELSE CHOOSE i \in ends : \A k \in ends : i <= k)

\* The window moves to the cursor: back to it, on to the next word or some columns.
advance(t) ==
    LET upto == CHOOSE i \in 0 .. BufferSize + 1 : /\ i = BufferSize + 1 \/ Cell(t, i) = Zero
                                             /\ \A k \in 0 .. i - 1 : Cell(t, k) # Zero
        spaces == {i \in t.wcrsr + WordFrom .. upto - 1 : Cell(t, i) = " "}
        space == CHOOSE i \in spaces : \A k \in spaces : i <= k IN
    IF t.crsr < t.wcrsr THEN [t EXCEPT !.wcrsr = t.crsr]
    ELSE IF t.crsr - t.wcrsr <= WSize - 2 THEN t
    ELSE IF spaces # {} /\ space - t.wcrsr < WordWithin THEN [t EXCEPT !.wcrsr = space + 1]
    ELSE [t EXCEPT !.wcrsr = IF @ + ScrollStep > upto THEN upto ELSE @ + ScrollStep]
\* backspace and crleft keep some columns before the cursor.
Back(t) ==
    IF t.crsr >= t.wcrsr THEN t
    ELSE [t EXCEPT !.wcrsr = IF t.crsr > WSize - HeadMargin THEN t.crsr - (WSize - HeadMargin) ELSE 0]

crend(t) ==
    IF t.len > WSize - TailMargin
    THEN advance([t EXCEPT !.crsr = t.len, !.wcrsr = t.len - (WSize - TailMargin)])
    ELSE [t EXCEPT !.crsr = t.len, !.wcrsr = 0]
crhome(t) == [t EXCEPT !.crsr = PromptLen, !.wcrsr = 0]
crleft(t) == IF t.crsr > PromptLen THEN Back([t EXCEPT !.crsr = @ - 1]) ELSE t
crright(t) == IF t.crsr < t.len THEN advance([t EXCEPT !.crsr = @ + 1]) ELSE t
wordleft(t) ==
    LET start == IF t.crsr - 1 > PromptLen THEN t.crsr - 2 ELSE t.crsr - 1
        spaces == {i \in PromptLen + 1 .. start : Cell(t, i) = " "} IN
    IF t.crsr <= PromptLen THEN t
    ELSE advance([t EXCEPT !.crsr = IF spaces = {} THEN PromptLen
                                    ELSE 1 + CHOOSE i \in spaces : \A k \in spaces : k <= i])
wordright(t) ==
    LET spaces == {i \in t.crsr .. t.len - 1 : Cell(t, i) = " "} IN
    IF t.crsr = t.len THEN t
    ELSE advance([t EXCEPT !.crsr = IF spaces = {} THEN t.len
                                    ELSE 1 + CHOOSE i \in spaces : \A k \in spaces : i <= k])

-----------------------------------------------------------------------------
\* set: the whole line, and everything of it is to be drawn.
set(t, text) ==
    crend([t EXCEPT
        !.buffer = Prompt \o text \o [i \in 1 .. BufferSize - PromptLen - Len(text) |-> Zero]
                   \o <<IF PromptLen + Len(text) = BufferSize THEN Zero ELSE t.buffer[BufferSize + 1]>>,
        !.len = PromptLen + Len(text),
        !.curview = [x \in Columns |-> IF x <= t.len THEN Zero ELSE @[x]]])

\* MUTANT: in the middle of a line the rest of it is not moved.
insertOver(t, c) ==
    IF t.len >= BufferSize THEN t
    ELSE advance([WithCell(t, t.crsr, c) EXCEPT !.len = @ + 1, !.crsr = @ + 1])
insert(t, c) ==
    IF t.len >= BufferSize THEN t
    ELSE IF t.crsr = t.len
    THEN advance([WithCell(WithCell(t, t.len, c), t.len + 1, Zero) EXCEPT !.len = @ + 1, !.crsr = @ + 1])
    ELSE advance([t EXCEPT !.buffer = [memmove(@, t.crsr + 1, t.crsr, t.len - t.crsr) EXCEPT ![t.crsr + 1] = c],
                           !.len = @ + 1, !.crsr = @ + 1])
Removed(t, i) ==
    [t EXCEPT !.buffer = [memmove(@, i, i + 1, t.len - (i + 1)) EXCEPT ![t.len] = Zero], !.len = @ - 1]
backspace(t) ==
    IF t.crsr <= PromptLen THEN t ELSE Back([Removed(t, t.crsr - 1) EXCEPT !.crsr = @ - 1])
del(t) == IF t.crsr = t.len THEN t ELSE Removed(t, t.crsr)
RECURSIVE ErasedTo(_)
ErasedTo(t) ==
    IF t.crsr > PromptLen /\ Cell(t, t.crsr - 1) # " " THEN ErasedTo(backspace(t)) ELSE t
eraseword(t) == ErasedTo(backspace(t))

\* Behind the line what was there before stays, and the first character of what was
\* to the right.
clearleft(t) ==
    IF t.crsr = t.len THEN set(t, <<>>)
    ELSE advance([t EXCEPT !.buffer = memmove(@, PromptLen, t.crsr, t.len - t.crsr),
                           !.len = @ - (t.crsr - PromptLen), !.crsr = PromptLen, !.wcrsr = 0])
clearright(t) ==
    [t EXCEPT !.buffer = [i \in DOMAIN @ |-> IF i - 1 \in t.crsr + 1 .. t.len THEN Zero ELSE @[i]],
              !.len = t.crsr]

-----------------------------------------------------------------------------
(* The history; an entry is marked when it is a line that was entered.     *)
Entry(text, isline) == [text |-> text, isline |-> isline]
EachEntry(texts) == FoldLeft(LAMBDA all, s : Append(all, Entry(s, TRUE)), <<>>, texts)
Shown(t, history, i) == set([t EXCEPT !.history = history, !.historycrsr = i], history[i + 1].text)
\* Leaving a line that is not empty makes it an entry; past the last one operator[]
\* makes an empty one.
crup(t) ==
    LET history == IF t.historycrsr = Len(t.history) /\ t.len > PromptLen
                   THEN Append(t.history, Entry(CString(t), FALSE)) ELSE t.history IN
    IF t.historycrsr = 0 THEN [t EXCEPT !.history = history] ELSE Shown(t, history, t.historycrsr - 1)
crdown(t) ==
    LET i == t.historycrsr + 1 IN
    IF t.historycrsr >= Len(t.history) THEN t
    ELSE Shown(t, IF i = Len(t.history) THEN Append(t.history, Entry(<<>>, FALSE)) ELSE t.history, i)
tohistory(t) ==
    LET history == IF CString(t) = <<>> THEN t.history ELSE Append(t.history, Entry(CString(t), TRUE))
        extra == Len(history) - HistoryMax IN
    [t EXCEPT !.history = IF CString(t) # <<>> /\ extra > 0 THEN SubSeq(@ \o <<Last(history)>>, extra + 1, Len(history))
                          ELSE history]
\* setprompt, with the prompt that is there.
setprompt(t) == [t EXCEPT !.historycrsr = Len(t.history)]

-----------------------------------------------------------------------------
\* MUTANT: the cursor is taken to be where it was wanted, not where it was drawn.
setposStays(at, cpos, npos) == IF npos = cpos + 1 THEN at ELSE npos
\* setpos: where the cursor gets that is at a column and believed to be at cpos.
setpos(at, cpos, npos) ==
    LET to == CASE npos = cpos -> at [] npos = cpos + 1 -> at + 1 [] OTHER -> npos IN
    IF to > WSize - 1 THEN WSize - 1 ELSE to

Wanted(t, x) == IF x + t.wcrsr >= t.len THEN " " ELSE Cell(t, x + t.wcrsr)
\* draw, on a display that looks like s with the cursor at c.
Drawn(t, s, c) ==
    LET put(d, x) ==
            LET at == setpos(d.column, d.cpos, x) IN
            IF t.curview[x] = Wanted(t, x) THEN d
            ELSE [screen |-> [d.screen EXCEPT ![at] = Wanted(t, x)],
                  column |-> IF at + 1 > WSize - 1 THEN WSize - 1 ELSE at + 1, cpos |-> x + 1]
        all == FoldLeft(LAMBDA d, x : put(d, x - 1), [screen |-> s, column |-> c, cpos |-> t.ocrsr - t.owcrsr],
                        [x \in 1 .. WSize - 1 |-> x]) IN
    [term |-> [t EXCEPT !.curview = [x \in Columns |-> IF x < WSize - 1 THEN Wanted(t, x) ELSE @[x]],
                        !.ocrsr = t.crsr, !.owcrsr = t.wcrsr],
     screen |-> all.screen, column |-> setpos(all.column, all.cpos, t.crsr - t.wcrsr)]
draw(t, s, c) ==
    LET d == Drawn(t, s, c) IN term' = d.term /\ screen' = d.screen /\ column' = d.column

BlankRow == [x \in Columns |-> " "]
-----------------------------------------------------------------------------
TerminalInit ==
    \E loaded \in Histories :
        LET new == [buffer |-> Prompt \o [i \in 1 .. BufferSize + 1 - PromptLen |-> Zero],
                    len |-> PromptLen, crsr |-> PromptLen, wcrsr |-> 0, ocrsr |-> 0, owcrsr |-> 0,
                    curview |-> BlankRow, history |-> EachEntry(loaded), historycrsr |-> 0]
            d == Drawn(set(setprompt(new), <<>>), BlankRow, 0) IN
        /\ term = d.term /\ screen = d.screen /\ column = d.column
        /\ messages = 0 /\ keys = 0 /\ line = <<>> /\ cleared = FALSE /\ far = FALSE
        /\ given = [text |-> <<>>, line |-> <<>>, exact |-> TRUE] /\ entered = loaded

InWindow(t) == t.crsr - t.wcrsr \in 0 .. WSize - 1
\* A key that changes the termbuffer into t and the line into edited.
Pressed(t, edited, leaves, jumps) ==
    /\ keys < MaxKeys /\ keys' = keys + 1
    /\ draw(t, screen, column)
    /\ line' = edited /\ cleared' = leaves
    /\ far' = (~ InWindow(t) /\ (jumps \/ far))
    /\ UNCHANGED <<messages, given, entered>>

Position == term.crsr - PromptLen
AtEnd == term.crsr = term.len

\* The byte behind the buffer ends a line that fills it, if its last character is
\* typed at the end; one that is filled in its middle has no end and is left out.
KeyInsert == \E c \in Characters :
    /\ AtEnd \/ term.len # BufferSize - 1
    /\ Pressed(insert(term, c), IF term.len >= BufferSize THEN line ELSE InsertAt(line, Position + 1, c), cleared, FALSE)
KeyBackspace ==
    Pressed(backspace(term), IF Position = 0 THEN line ELSE RemoveAt(line, Position), cleared, FALSE)
KeyDel == Pressed(del(term), IF AtEnd THEN line ELSE RemoveAt(line, Position + 1), cleared, FALSE)
KeyEraseword ==
    LET words == {n \in 0 .. Position - 1 : n = 0 \/ line[n] = " "}
        start == CHOOSE n \in words : \A k \in words : k <= n IN
    Pressed(eraseword(term), IF Position = 0 THEN line
                         ELSE SubSeq(line, 1, start) \o SubSeq(line, Position + 1, Len(line)), cleared, FALSE)
KeyClearleft ==
    Pressed(clearleft(term), SubSeq(line, Position + 1, Len(line)), ~ AtEnd /\ (cleared \/ Position > 0), FALSE)
KeyClearright == Pressed(clearright(term), SubSeq(line, 1, Position), cleared \/ ~ AtEnd, FALSE)
KeyMove == \E t \in {crend(term), crhome(term), crleft(term), crright(term), wordleft(term)} :
    Pressed(t, line, cleared, FALSE)
KeyWordright == Pressed(wordright(term), line, cleared, TRUE)
KeyHistory == \E t \in {crup(term), crdown(term)} :
    LET moved == t.historycrsr # term.historycrsr IN
    Pressed(t, IF moved THEN t.history[t.historycrsr + 1].text ELSE line, cleared /\ ~ moved, FALSE)
KeyClearscreen ==
    /\ keys < MaxKeys /\ keys' = keys + 1
    /\ draw([term EXCEPT !.curview = [x \in Columns |-> Zero]], BlankRow, 0)
    /\ UNCHANGED <<messages, line, cleared, far, given, entered>>

\* RETURN: readline gives the line, and is called again.
KeyReturn ==
    LET kept == setprompt(tohistory(term)) IN
    /\ keys < MaxKeys /\ keys' = keys + 1
    /\ given' = [text |-> CString(term), line |-> line, exact |-> ~ cleared]
    /\ entered' = IF CString(term) = <<>> THEN entered ELSE Append(entered, CString(term))
    /\ draw(set(kept, <<>>), BlankRow, 0)
    /\ line' = <<>> /\ cleared' = FALSE /\ far' = FALSE
    /\ UNCHANGED messages

sendconsole ==
    /\ messages < MaxMessages /\ messages' = messages + 1
    /\ UNCHANGED <<term, screen, column, keys, line, cleared, far, given, entered>>
\* getkey has had no key for a second: each message ends the line of the display.
ShowMessages ==
    /\ messages > 0 /\ messages' = 0
    /\ draw([term EXCEPT !.curview = [x \in Columns |-> IF x < term.len THEN Zero ELSE @[x]]], BlankRow, 0)
    /\ UNCHANGED <<keys, line, cleared, far, given, entered>>

TerminalNext ==
    \/ KeyInsert \/ KeyBackspace \/ KeyDel \/ KeyEraseword \/ KeyClearleft \/ KeyClearright
    \/ KeyMove \/ KeyWordright \/ KeyHistory \/ KeyClearscreen \/ KeyReturn
    \/ sendconsole \/ ShowMessages
TerminalSpec == TerminalInit /\ [][TerminalNext]_terminalVars

-----------------------------------------------------------------------------
\* The cursors are where a cursor may be.
TerminalTypeOK ==
    /\ PromptLen <= term.crsr /\ term.crsr <= term.len /\ term.len <= BufferSize
    /\ Len(term.buffer) = BufferSize + 1 /\ Len(term.history) <= HistoryMax + MaxKeys
    /\ term.historycrsr \in 0 .. Len(term.history) /\ column \in Columns

\* Whatever is inserted and erased where, the buffer has the line that the keys
\* describe, and readline gives that line, unless clearleft or clearright left
\* something behind it since it was set as a whole.
LineAsEdited ==
    /\ SubSeq(term.buffer, 1, term.len) = Prompt \o line
    /\ given.exact => given.text = given.line

\* The lines that were entered are in the history in their order; only when it is
\* full, also of lines that were left and of empty ones, the oldest is gone.
HistoryKept ==
    LET kept == SelectSeq(term.history, LAMBDA e : e.isline) IN
    /\ IsSuffix([i \in DOMAIN kept |-> kept[i].text], entered)
    /\ Len(kept) < Len(entered) => Len(term.history) >= HistoryMax

\* Whatever was drawn when, the display shows the window of the line and the cursor
\* in its place; only wordright can take the cursor out of the window.
ScreenShows ==
    /\ \A x \in 0 .. WSize - 2 : screen[x] = Wanted(term, x)
    /\ InWindow(term) \/ far
    /\ InWindow(term) => column = term.crsr - term.wcrsr
=============================================================================

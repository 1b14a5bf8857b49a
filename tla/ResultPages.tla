---------------------------- MODULE ResultPages ----------------------------
(***************************************************************************)
(* How a model reads a text that is longer than one result: read_file,     *)
(* memory_read and read_tool_result return a page and the arguments of the *)
(* call that returns the next one (pony/tools/result_view.py).  The calls  *)
(* of one reading may be far apart; the file may change between them, and  *)
(* a retained tool result expires with its turn.                           *)
(*                                                                         *)
(* A text is the sequence of its lines, a line the number of its           *)
(* characters, each of Wide bytes.  What the model has read is a sequence  *)
(* of places <<line, character>>.                                          *)
(***************************************************************************)
EXTENDS Naturals, SequencesExt

CONSTANTS MaxTextLines,    \* bound on the lines of a text
          MaxTextWidth,    \* bound on the characters of a line
          MaxPageLines,    \* max_lines
          MaxPageSize,     \* the smaller of max_bytes and max_tokens, in characters
          MaxTextEdits     \* bound on the edits of the file

\* A header, a character and a continuation fit a page.
ASSUME PagesAssumption ==
    /\ MaxTextLines \in Nat /\ MaxTextWidth \in Nat \ {0}
    /\ MaxPageLines \in Nat \ {0}
    /\ MaxPageSize \in Nat /\ MaxPageSize >= 3
    /\ MaxTextEdits \in Nat

VARIABLES text,      \* the text now, and how often it was edited
          reading    \* the reading: its next call and what it brought

pagesVars == <<text, reading>>

\* The texts a file may have: a line is its length, with the line break.
PageTexts == UNION {[1..n -> 1..MaxTextWidth] : n \in 0..MaxTextLines}

Wide == 2
NoLine == 0
NoText == <<0>>

\* The arguments of a call; expected is the text whose hash is expected.
PageCall(start, end, byte, expected) ==
    [start |-> start, end |-> end, byte |-> byte, expected |-> expected]

\* The last line the call is about.
LastRequested(lines, c) == IF c.end = NoLine \/ c.end > Len(lines) THEN Len(lines) ELSE c.end

\* The characters a line still has from the k-th on, and those of whole lines.
Rest(lines, i, k) == [n \in 1..(lines[i] - k) |-> <<i, k + n>>]
Places(lines, i, k, last) ==
    IF i > last THEN <<>>
    ELSE Rest(lines, i, k) \o FlattenSeq([n \in 1..(last - i) |-> Rest(lines, i + n, 0)])

\* policy.fits(_render_page(...)): the header, the body and the continuation.
PageFits(body, continued) == 1 + Len(body) + (IF continued THEN 1 ELSE 0) <= MaxPageSize

\* _page_view, with the arguments of the next call.
Page(body, start, end, total, next, byte, reasons) ==
    [error |-> "none", body |-> body, start |-> start, end |-> end, total |-> total,
     next |-> next, byte |-> byte, reasons |-> reasons]
LastPage(body, start, end, total) == Page(body, start, end, total, NoLine, NoLine, {})
PageError(code) == [error |-> code]

\* Mutant of WholeLines: the continuation names the last line of the page.
WholeLinesAgain(lines, c, i, k, n) ==
    LET last == LastRequested(lines, c)
        end == i + n - 1
    IN  IF end = last THEN LastPage(Places(lines, i, k, end), i, end, Len(lines))
        ELSE Page(Places(lines, i, k, end), i, end, Len(lines), end, NoLine, {"lines"})

\* The first n lines, and why there are no more.
WholeLines(lines, c, i, k, n) ==
    LET last == LastRequested(lines, c)
        end == i + n - 1
        why == IF n = MaxPageLines THEN {"lines"} ELSE {"size"}
    IN  IF end = last THEN LastPage(Places(lines, i, k, end), i, end, Len(lines))
        ELSE Page(Places(lines, i, k, end), i, end, Len(lines), end + 1, NoLine, why)

\* The longest part of a line that fits; the next call goes on inside it.
LinePart(lines, c, i, k) ==
    LET part(m) == [n \in 1..m |-> <<i, k + n>>]
        fitting == {m \in 1..(lines[i] - k) : PageFits(part(m), TRUE)}
    IN  IF fitting = {} THEN PageError("budget_too_small")
        ELSE Page(part(Max(fitting)), i, i, Len(lines), i, Wide * (k + Max(fitting)), {"size"})

\* The lines a page takes: one more as long as it fits.
Accepted(lines, c, i, k) ==
    LET last == LastRequested(lines, c)
        Candidate(n) == PageFits(Places(lines, i, k, i + n - 1), i + n - 1 < last)
        most == Min({MaxPageLines, last - i + 1})
    IN  Max({n \in 0..most : \A m \in 1..n : Candidate(m)})

PageFrom(lines, c, i, k) ==
    LET n == Accepted(lines, c, i, k)
    IN  IF n > 0 THEN WholeLines(lines, c, i, k, n) ELSE LinePart(lines, c, i, k)

\* Mutant of SourceExpected: the text is not compared with the earlier pages'.
SourceAssumed(lines, c) == c.byte # NoLine => c.expected # NoText

\* The hash of the text, redacted as the model sees it, is the expected one.
SourceExpected(lines, c) == c.expected \in {NoText, lines}

\* page_text: a call inside a line names its text, its offset is between two
\* characters, and one at the end of a line means the next.
PageText(lines, c) ==
    LET k == c.byte \div Wide
        last == LastRequested(lines, c)
    IN  IF c.byte # NoLine /\ c.expected = NoText THEN PageError("page_invalid")
        ELSE IF ~SourceExpected(lines, c) THEN PageError("source_changed")
        ELSE IF c.start > last
        THEN IF c.byte # NoLine THEN PageError("page_invalid")
             ELSE LastPage(<<>>, c.start, Min({Len(lines), c.start - 1}), Len(lines))
        ELSE IF c.byte % Wide # 0 \/ k > lines[c.start] THEN PageError("page_invalid")
        ELSE IF k < lines[c.start] THEN PageFrom(lines, c, c.start, k)
        ELSE IF c.start = last THEN LastPage(<<>>, c.start, c.start, Len(lines))
        ELSE PageFrom(lines, c, c.start + 1, 0)

\* project_result_view: only such a page reaches the model uncut, any other
\* one is shortened like an overlong output.
ViewAccepted(page) ==
    /\ page.start >= 1 /\ page.end <= page.total
    /\ page.next # NoLine <=> page.reasons # {}

-----------------------------------------------------------------------------
(* A reading                                                                *)

\* Some lines of a text are asked for.  The hash of a retained result is its
\* name, so the tool expects it on every call; that of a file is not known yet.
PagesInit ==
    \E lines \in PageTexts, kind \in {"file", "result"} :
        \E start \in 1..Len(lines) + 1, end \in NoLine..Len(lines) + 1 :
            /\ end # NoLine => start <= end
            /\ text = [lines |-> lines, edits |-> 0]
            /\ reading = [pc |-> "reading", kind |-> kind, start |-> start, first |-> NoText,
                          call |-> PageCall(start, end, NoLine,
                                        IF kind = "file" THEN NoText ELSE lines),
                          got |-> <<>>, pages |-> 0, error |-> "none"]

\* The page is returned and the model goes on with the call it names
\* (tool_read_file, tool_memory_read, tool_read_tool_result).
Delivered(page) ==
    [reading EXCEPT
        !.pc = CASE ~ViewAccepted(page) -> "cut"
                 [] page.next = NoLine -> "complete"
                 [] OTHER -> "reading",
        !.first = IF @ = NoText THEN text.lines ELSE @,
        !.call = PageCall(page.next, @.end, page.byte, text.lines),
        !.got = @ \o page.body,
        !.pages = @ + 1]

ReadPage ==
    LET page == PageText(text.lines, reading.call)
    IN  /\ reading.pc = "reading"
        /\ reading' = IF page.error = "none" THEN Delivered(page)
                      ELSE [reading EXCEPT !.pc = "failed", !.error = page.error]
        /\ UNCHANGED text

\* The turn ends, and with it its retained results (RunStore.read_tool_result).
ExpireResult ==
    /\ reading.pc = "reading" /\ reading.kind = "result"
    /\ reading' = [reading EXCEPT !.pc = "failed", !.error = "expired"]
    /\ UNCHANGED text

\* Somebody edits the file between two calls.
EditText ==
    /\ reading.pc = "reading" /\ reading.kind = "file" /\ text.edits < MaxTextEdits
    /\ \E lines \in PageTexts \ {text.lines} :
        text' = [lines |-> lines, edits |-> text.edits + 1]
    /\ UNCHANGED reading

PagesNext == ReadPage \/ ExpireResult \/ EditText

PagesSpec == PagesInit /\ [][PagesNext]_pagesVars

-----------------------------------------------------------------------------
(* Properties *)

PagesTypeOK ==
    /\ text.lines \in PageTexts /\ text.edits \in 0..MaxTextEdits
    /\ reading.pc \in {"reading", "complete", "cut", "failed"}
    /\ reading.first \in PageTexts \cup {NoText}
    /\ reading.pages <= 1 + Len(reading.got)

\* However the lines and the limits fall, the pages one after the other are
\* the lines that were asked for, of one text, without a gap or an overlap
\* (page_text): what was read is a beginning of them, and all when the last page
\* says so.
PagesTellTheText ==
    LET asked == Places(reading.first, reading.start, 0, LastRequested(reading.first, reading.call))
    IN  reading.pages > 0 =>
            /\ IsPrefix(reading.got, asked)
            /\ reading.pc = "complete" => reading.got = asked

\* Who follows the pages is refused only when the text changed or expired, never
\* over the call a page named, and no page is cut on its way to the model
\* (project_result_view).
PagesCanBeFollowed ==
    /\ reading.pc # "cut"
    /\ reading.error \in {"none", "expired", "source_changed"}
    /\ reading.error = "source_changed" => text.lines # reading.first
=============================================================================

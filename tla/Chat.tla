-------------------------------- MODULE Chat --------------------------------
(***************************************************************************)
(* The report chat for one person and one run: who may ask                 *)
(* (api/routers/chat.py), what is put before the model (chat/pack.py,      *)
(* textfit.py), and what of the model's answer is shown while it arrives   *)
(* and what is cited when it has (chat/answer.py).                         *)
(*                                                                         *)
(* A line is its length; the lengths of headings and notes are those of    *)
(* the code, so the ceiling is the code's.  The answer is a sequence of    *)
(* symbols in which Marker stands for <<<SOURCES>>>.  What a question      *)
(* costs and how it is counted is in ModelCalls.                           *)
(***************************************************************************)
EXTENDS Integers, Subsequences, TLC

CONSTANTS
    Conversations,   \* what is stored, who asks, and what the model will say
    Marker           \* CITATION_MARKER, a sequence of symbols

ASSUME MarkerAssumption == Marker \in Seq(STRING) /\ Marker # <<>>

StoredRows(rows) == IsSeq(rows) /\ \A i \in DOMAIN rows : rows[i].length \in Nat

\* What is stored is in order, and what the model says is text.
ASSUME ConversationsAssumption ==
    \A c \in Conversations :
        /\ c.says \in Seq(STRING)
        /\ StoredRows(c.run.findings) /\ StoredRows(c.run.coverage) /\ StoredRows(c.run.rules)
        /\ StoredRows(c.run.guidance) /\ StoredRows(c.run.artifacts) /\ StoredRows(c.run.earlier)
        /\ \A r \in ToSet(c.run.earlier) : StoredRows(r.findings)
        /\ c.run.remarks \in Seq(Nat) /\ c.run.told \in Seq(Nat) /\ c.run.figures \in Seq(Nat)
        /\ c.run.report \in Nat

MAX_PACK_CHARS == 24000
TRIM_NOTE_RESERVE == 1500
MAX_REPORT_CHARS == 8000
PREVIOUS_RUNS == 3
Share == MAX_PACK_CHARS \div 6

VARIABLES
    conversation,  \* one of Conversations
    panel,         \* what the opening said
    chat,          \* "idle", "refused", "streaming", "done" or "error"
    pack,          \* what the model was given
    received,      \* how much of the answer has arrived
    shown,         \* the pieces the reader was sent, put together
    closing        \* the closing event: what is cited and what could not be

chatVars == <<conversation, panel, chat, pack, received, shown, closing>>

TheRun == conversation.run
Limits == conversation.settings

Least(a, b) == IF a < b THEN a ELSE b
\* Of the first k of some lengths.
TotalOfFirst(lengths) ==
    LET total[k \in 0 .. Len(lengths)] == IF k = 0 THEN 0 ELSE total[k - 1] + lengths[k]
    IN  total
Total(lengths) == TotalOfFirst(lengths)[Len(lengths)]
Lengths(rows) == [i \in DOMAIN rows |-> rows[i].length]

-----------------------------------------------------------------------------
(* What is put before the model: lines, and what an answer may cite.       *)

\* Checks, compliance rules and field constraints alike.
GlobalRules ==
    Kept(TheRun.rules, {r \in ToSet(TheRun.rules) : r.state = "active" /\ r.scope = "everywhere"})

SubtypeRules ==
    IF TheRun.programme = "" THEN <<>>
    ELSE Kept(TheRun.guidance,
              {r \in ToSet(TheRun.guidance) : r.state = "active" /\ r.scope = TheRun.programme})

Visible(findings) == Kept(findings, {f \in ToSet(findings) : ~f.shadow})

\* The newest first; a line of its own for each, and one for each of its findings.
Earlier ==
    LET same == Kept(TheRun.earlier,
                     {r \in ToSet(TheRun.earlier) :
                         r.finalized /\ r.customer = TheRun.customer
                         /\ r.configuration = TheRun.configuration})
    IN  IF TheRun.configuration = "" THEN <<>>
        ELSE SubSeq(Reverse(same), 1, Least(PREVIOUS_RUNS, Len(same)))
HistoryLines ==
    FlattenSeq([i \in DOMAIN Earlier |->
                   <<Earlier[i].length>> \o Lengths(Visible(Earlier[i].findings))])

\* CoveredEntries the run covered, reports, notices, and who froze it.
CoveredEntries == Kept(TheRun.coverage, {c \in ToSet(TheRun.coverage) : c.id # ""})
CoverageLines == Lengths(CoveredEntries) \o TheRun.remarks

\* The programme, the date, the suppressions, the notes: at least one line.
GuidanceLines == TheRun.told

Inventory == Lengths(TheRun.artifacts)

\* Figures code computed, only if an administrator said so.
Aggregates == IF Limits.aggregates THEN TheRun.figures ELSE <<>>

Section(number, name, what, lines, share) ==
    [number |-> number, name |-> name, what |-> what, lines |-> lines, share |-> share]

\* In prompt order, with the lengths of their names and of the word for a line of theirs.
Sections ==
    <<Section(1, 19, 7, Lengths(Visible(TheRun.findings)), Share),
      Section(2, 53, 4, CoverageLines, Share),
      Section(3, 25, 4, Lengths(GlobalRules), Share),
      Section(4, 36, 14, Lengths(SubtypeRules), Share \div 2),
      Section(5, 22, 4, GuidanceLines, Share \div 2),
      Section(6, 47, 4, HistoryLines, Share),
      Section(7, 26, 8, Inventory, Share \div 2),
      Section(8, 50, 9, Aggregates, Share)>>
HistorySection == 6
RulesSection == 3
ReportName == 34

\* A finding wins an id that a requirement has too.
CitedAs(rows, kind) == [id \in {r.id : r \in ToSet(rows)} |-> kind]
Citable ==
    "REPORT" :> "report" @@ CitedAs(Visible(TheRun.findings), "finding")
    @@ CitedAs(CoveredEntries, "requirement") @@ CitedAs(TheRun.artifacts, "artifact")
    @@ CitedAs(GlobalRules \o SubtypeRules, "rule")

-----------------------------------------------------------------------------
(* Fitting lines into a cap (textfit.fit): the first ones go, and a line   *)
(* of its own, which nobody counts, says how many.                         *)

\* No section has a million lines.
Digits(n) ==
    IF n < 10 THEN 1 ELSE IF n < 100 THEN 2 ELSE IF n < 1000 THEN 3
    ELSE IF n < 10000 THEN 4 ELSE IF n < 100000 THEN 5 ELSE 6

\* "- " before each line and a newline after it.
Fit(lines, what, cap) ==
    LET last == TotalOfFirst(Reverse([i \in DOMAIN lines |-> lines[i] + 3]))
        kept == CHOOSE k \in DOMAIN last :
                    last[k] <= cap /\ \A j \in DOMAIN last : last[j] <= cap => j <= k
        dropped == Len(lines) - kept
    IN  [dropped |-> dropped,
         length |-> IF dropped = 0 THEN last[kept] - 1
                    ELSE 49 + Digits(dropped) + what + last[kept]]

(* build_pack: each section within its share and within what is left.      *)

Part(k, length, dropped) == [section |-> k, length |-> length, dropped |-> dropped]
NewPack == [budget |-> MAX_PACK_CHARS - TRIM_NOTE_RESERVE, blocks |-> <<>>, trimmed |-> <<>>]

Trim(p, k, length) == [p EXCEPT !.trimmed = Append(@, [section |-> k, length |-> length])]

AddSection(p, s) ==
    LET allowed == Least(s.share, p.budget)
        block == Fit(s.lines, s.what, allowed)
        added == [p EXCEPT !.budget = @ - (block.length + s.name + 5),
                           !.blocks = Append(@, Part(s.number, block.length, block.dropped))]
    IN  CASE s.lines = <<>> -> p
          [] s.lines # <<>> /\ allowed <= 0 -> Trim(p, s.number, 84 + s.name)
          [] OTHER -> IF block.dropped = 0 THEN added
                      ELSE Trim(added, s.number, 59 + Digits(block.dropped) + Digits(Len(s.lines))
                                                    + s.what + s.name)

\* The frozen report takes what is left; its text, cut, ends in a character more.
AddReport(p) ==
    LET cap == Least(MAX_REPORT_CHARS, p.budget - ReportName)
        length == IF TheRun.report <= cap THEN TheRun.report ELSE cap + 1
    IN  IF cap <= 0 \/ TheRun.report = 0 THEN p
        ELSE [p EXCEPT !.budget = @ - (length + ReportName + 5),
                       !.blocks = Append(@, Part(Len(Sections) + 1, length, 0))]

\* One section after the other.
AddSections(p) ==
    LET added[k \in 0 .. Len(Sections)] ==
            IF k = 0 THEN p ELSE AddSection(added[k - 1], Sections[k])
    IN  added[Len(Sections)]

\* Faulty variant: nothing is held back for the notes.
PackWithoutReserve == AddReport(AddSections([NewPack EXCEPT !.budget = MAX_PACK_CHARS]))

BuildPack == AddReport(AddSections(NewPack))

\* RunPack.rendered: a heading for each block, the notes under one of their own.
RenderedPack(p) ==
    LET name(k) == IF k \in DOMAIN Sections THEN Sections[k].name ELSE ReportName
        parts == [i \in DOMAIN p.blocks |-> 4 + name(p.blocks[i].section) + p.blocks[i].length]
                 \o IF p.trimmed = <<>> THEN <<>>
                    ELSE <<37 + Total(Lengths(p.trimmed)) + Len(p.trimmed) - 1>>
    IN  IF parts = <<>> THEN 0 ELSE Total(parts) + 2 * (Len(parts) - 1)

-----------------------------------------------------------------------------
(* Who may ask.  Nobody's questions are counted with login off.            *)

Counted(n) == IF conversation.known THEN n ELSE 0

MayNotAsk ==
    IF ~Limits.enabled THEN "off"
    ELSE IF ~TheRun.frozen THEN "not frozen"
    ELSE IF Limits.perDay = 0 THEN "not yet"
    ELSE IF Counted(conversation.today) >= Limits.perDay THEN "today"
    ELSE IF Counted(conversation.here) >= Limits.perRun THEN "here"
    ELSE ""

\* starters: at most four questions the pack can answer.
Starters(p) ==
    LET has(k) == \E i \in DOMAIN p.blocks : p.blocks[i].section = k
        serious(f) == Citable[f.id] = "finding" /\ f.severity = "high"
        first == (IF \E f \in ToSet(Visible(TheRun.findings)) : serious(f) THEN <<"why high">> ELSE <<>>)
                 \o (IF has(HistorySection) THEN <<"what changed">> ELSE <<>>)
                 \o (IF "requirement" \in {Citable[id] : id \in DOMAIN Citable}
                     THEN <<"what did nobody check">> ELSE <<>>)
                 \o (IF has(RulesSection) THEN <<"which rules">> ELSE <<>>)
    IN  IF has(Len(Sections) + 1) /\ Len(first) < 4 THEN Append(first, "summarise") ELSE first

NotOpened == [step |-> "closed"]
NoPack == [turns |-> 0, given |-> NewPack]
NoVerdict == [cited |-> {}, unverified |-> FALSE, discarded |-> 0]

NothingAsked ==
    /\ panel = NotOpened /\ chat = "idle" /\ pack = NoPack
    /\ received = 0 /\ shown = <<>> /\ closing = NoVerdict

ChatInit == conversation \in Conversations /\ NothingAsked

(* chat_opening: the same limits, and what a pack built now leaves out.    *)
OpenPanel ==
    /\ panel = NotOpened /\ chat = "idle"
    /\ panel' = IF MayNotAsk # "" THEN [step |-> "unavailable", why |-> MayNotAsk]
                ELSE LET p == BuildPack
                     IN  [step |-> "open", starters |-> Starters(p), trimmed |-> p.trimmed,
                          left |-> Limits.perRun - Counted(conversation.here)]
    /\ UNCHANGED <<conversation, chat, pack, received, shown, closing>>

\* Of the transcript the browser sends the last turns are kept.
TurnsKept == Least(conversation.turns, Limits.maxTurns)

(* chat_answer and _events: the pack is built for every question.          *)
AskModel ==
    /\ chat = "idle"
    /\ IF MayNotAsk # "" THEN chat' = "refused" /\ UNCHANGED pack
       ELSE /\ chat' = "streaming"
            /\ pack' = [turns |-> TurnsKept, given |-> BuildPack]
    /\ UNCHANGED <<conversation, panel, received, shown, closing>>

-----------------------------------------------------------------------------
(* The answer: prose, the marker, and the ids of what it was taken from.   *)

FullAnswer == conversation.says

\* Where the marker first begins in a text, or one past its end.
MarkerAt(text) ==
    LET places == {i \in 1 .. Len(text) - Len(Marker) + 1 :
                       SubSeq(text, i, i + Len(Marker) - 1) = Marker}
    IN  IF places = {} THEN Len(text) + 1 ELSE CHOOSE i \in places : \A j \in places : i <= j
Marked(text) == MarkerAt(text) <= Len(text)
Prose(text) == SubSeq(text, 1, MarkerAt(text) - 1)

\* What of a text that has arrived may be shown.
\* Faulty variant: nothing is held back while a marker may be on its way.
ReleasedAtOnce(text) == Prose(text)

Releasable(text) ==
    IF Marked(text) THEN Prose(text)
    ELSE SubSeq(text, 1, Len(text) - Least(Len(Marker), Len(text)))

(* answer_turn: a piece of any size arrives.                               *)
Piece(n) ==
    /\ chat = "streaming" /\ received + n <= Len(FullAnswer)
    /\ received' = received + n
    /\ LET before == SubSeq(FullAnswer, 1, received)
           now == Releasable(SubSeq(FullAnswer, 1, received'))
       IN  shown' = IF Marked(before) THEN shown
                    ELSE shown \o SubSeq(now, Len(shown) + 1, Len(now))
    /\ UNCHANGED <<conversation, panel, chat, pack, closing>>

\* split_answer: pieces between commas, stripped.
Ids(tail) ==
    LET add(pieces, symbol) ==
            CASE symbol = "," -> Append(pieces, <<>>)
              [] symbol = " " -> pieces
              [] OTHER -> Append(Front(pieces), Append(Last(pieces), symbol))
    IN  SelectSeq(FoldLeft(add, <<<<>>>>, tail), LAMBDA id : id # <<>>)

\* Only what the pack can name becomes a chip, once.
Cited(ids) == {id \in DOMAIN Citable : <<id>> \in ToSet(ids)}

Closing(text) ==
    LET after == SubSeq(text, MarkerAt(text) + Len(Marker), Len(text))
        tail == SelectSeq(after, LAMBDA symbol : symbol # " ")
        ids == IF Marked(text) /\ tail # <<>> /\ tail[1] # "NONE" THEN Ids(after) ELSE <<>>
        unusable == ~Marked(text) \/ (ids = <<>> /\ (tail = <<>> \/ tail[1] # "NONE"))
    IN  [cited |-> Cited(ids),
         unverified |-> unusable \/ (ids # <<>> /\ Cited(ids) = {}),
         discarded |-> Len(SelectSeq(ids, LAMBDA id : Cited(<<id>>) = {}))]

(* The end of the stream: what was held back is shown, and the sources.    *)
EndOfStream ==
    /\ chat = "streaming" /\ received = Len(FullAnswer)
    /\ shown' = shown \o SubSeq(Prose(FullAnswer), Len(shown) + 1, Len(Prose(FullAnswer)))
    /\ closing' = Closing(FullAnswer)
    /\ chat' = "done"
    /\ UNCHANGED <<conversation, panel, pack, received>>

\* The endpoint fails after some pieces; what was shown stays.
ModelFails ==
    /\ chat = "streaming"
    /\ chat' = "error"
    /\ UNCHANGED <<conversation, panel, pack, received, shown, closing>>

ChatNext ==
    \/ OpenPanel \/ AskModel \/ EndOfStream \/ ModelFails
    \/ \E n \in 1 .. Len(FullAnswer) : Piece(n)

ChatSpec == ChatInit /\ [][ChatNext]_chatVars

-----------------------------------------------------------------------------
\* However the answer is cut into pieces, the reader is never shown a part of the marker or
\* what follows it, and at the end has the prose whole, nothing skipped (chat/answer.py).
ShownIsTheProse ==
    /\ IsPrefix(shown, Prose(FullAnswer))
    /\ chat = "done" => shown = Prose(FullAnswer)

\* "The ceiling on the whole pack, and enforced as one": the notes about what was left out
\* included, for each section that lost a line (chat/pack.py:75, 125).
PackKeepsItsCeiling ==
    chat = "streaming" =>
        /\ RenderedPack(pack.given) <= MAX_PACK_CHARS
        /\ \A k \in DOMAIN Sections :
               \/ Sections[k].lines = <<>>
               \/ \E i \in DOMAIN pack.given.blocks :
                      pack.given.blocks[i].section = k /\ pack.given.blocks[i].dropped = 0
               \/ \E i \in DOMAIN pack.given.trimmed : pack.given.trimmed[i].section = k

\* "A block that is too long loses its oldest lines" (textfit.py:16). Not so of the history,
\* which is listed from the newest run on.
HistoryKeepsTheNewest ==
    chat = "streaming" =>
        \A i \in DOMAIN pack.given.blocks :
            pack.given.blocks[i].section = HistorySection =>
                pack.given.blocks[i].dropped = 0 \/ Len(Earlier) = 1

\* "`trimmed`: what was dropped to fit" (chat/pack.py:140). Not so of the report's own text.
ReportIsWholeOrTold ==
    chat = "streaming" /\ TheRun.report > 0 =>
        Len(pack.given.blocks) > 0 /\ Last(pack.given.blocks) = Part(Len(Sections) + 1, TheRun.report, 0)
=============================================================================

----------------------------- MODULE DocsRender -----------------------------
(***************************************************************************)
(* The answer to a /docs question on its way to Discord: renderDocsMessages *)
(* cuts the text into messages, line by line, closing a code fence at the  *)
(* end of a message and opening it again in the next one; then             *)
(* deliverDocsMessages sends them in order and stops at the first failure. *)
(*                                                                         *)
(* A line is its length and whether it begins with a fence; a message is   *)
(* its length, the lines in it, and whether its fences are odd.            *)
(***************************************************************************)
EXTENDS Naturals, Sequences

CONSTANTS
    Lines,           \* the lines a text may have
    MaxLines,        \* bound on the lines of a text
    MaxCharacters,   \* maximumMessageCharacters
    MaxMessages      \* maximumMessages

ASSUME RenderAssumption ==
    /\ Lines \subseteq [len : Nat, fence : BOOLEAN]
    /\ \A line \in Lines : line.fence => line.len >= 3
    /\ {MaxLines, MaxCharacters, MaxMessages} \subseteq Nat

VARIABLES
    text,       \* the lines to render
    taken,      \* how many have been dealt with
    current,    \* the message being filled
    fence,      \* the length of the opening line of the open fence, 0 if none is
    messages,   \* the messages that are complete
    outcome,    \* "rendering", "rendered", or why rendering failed
    sent,       \* how many messages have been delivered
    failed      \* whether a delivery has failed

vars == <<text, taken, current, fence, messages, outcome, sent, failed>>

Blank == [len |-> 0, lines |-> {}, odd |-> FALSE]

Init ==
    /\ text \in UNION {[1..n -> Lines] : n \in 1..MaxLines}
    /\ taken = 0
    /\ current = Blank
    /\ fence = 0
    /\ messages = <<>>
    /\ outcome = "rendering"
    /\ sent = 0
    /\ failed = FALSE

\* The newline between two lines of a message.
Separator(m) == IF m.len = 0 THEN 0 ELSE 1

\* Inside a fence there has to be room left for the line that closes it.
Reserve(line) == IF fence = 0 \/ line.fence THEN 0 ELSE 4

Overflows(line) ==
    current.len + Separator(current) + line.len + Reserve(line) > MaxCharacters

\* Mutant of Closed: the fence is left open at the end of the message.
ClosedNot(m) == m

\* A newline and three backticks close the fence that is open.
Closed(m) == IF fence = 0 THEN m ELSE [m EXCEPT !.len = @ + 4, !.odd = ~@]

\* A message is put out unless it is empty, and the next one opens the fence again.
Flushed(m) == IF m.len = 0 THEN messages ELSE Append(messages, m)
Fresh(m) ==
    IF m.len = 0 THEN m
    ELSE IF fence = 0 THEN Blank ELSE [len |-> fence + 1, lines |-> {}, odd |-> TRUE]

\* Mutant of With: a line that starts a message is left behind.
WithRest(m, line) ==
    [len |-> m.len + Separator(m) + line.len,
     lines |-> IF m.len = 0 THEN m.lines ELSE m.lines \cup {taken + 1},
     odd |-> m.odd # line.fence]

With(m, line) ==
    [len |-> m.len + Separator(m) + line.len,
     lines |-> m.lines \cup {taken + 1},
     odd |-> m.odd # line.fence]

\* The message a line goes to, and the messages before it.
Target(line) == IF Overflows(line) THEN Fresh(Closed(current)) ELSE current
Before(line) == IF Overflows(line) THEN Flushed(Closed(current)) ELSE messages

HasRoom(m, line) == m.len + Separator(m) + line.len <= MaxCharacters

TakeLine ==
    /\ outcome = "rendering" /\ taken < Len(text)
    /\ LET line == text[taken + 1] IN
          /\ HasRoom(Target(line), line)
          /\ messages' = Before(line)
          /\ current' = With(Target(line), line)
          /\ fence' = IF ~line.fence THEN fence ELSE IF fence = 0 THEN line.len ELSE 0
    /\ taken' = taken + 1
    /\ UNCHANGED <<text, outcome, sent, failed>>

Unsplittable ==
    /\ outcome = "rendering" /\ taken < Len(text)
    /\ ~HasRoom(Target(text[taken + 1]), text[taken + 1])
    /\ outcome' = "unsplittable_line"
    /\ UNCHANGED <<text, taken, current, fence, messages, sent, failed>>

\* All the lines are taken: the last message is put out and the result judged.
Finish ==
    /\ outcome = "rendering" /\ taken = Len(text)
    /\ messages' = IF fence = 0 THEN Flushed(current) ELSE messages
    /\ current' = IF fence = 0 THEN Blank ELSE current
    /\ outcome' = CASE fence # 0                         -> "unclosed_code_fence"
                    [] fence = 0 /\ messages' = <<>>     -> "unsplittable_line"
                    [] fence = 0 /\ Len(messages') > MaxMessages -> "too_many_messages"
                    [] OTHER                             -> "rendered"
    /\ UNCHANGED <<text, taken, fence, sent, failed>>

\* The first message edits the deferred response, the others follow it up.
Deliver ==
    /\ outcome = "rendered" /\ ~failed /\ sent < Len(messages)
    /\ sent' = sent + 1
    /\ UNCHANGED <<text, taken, current, fence, messages, outcome, failed>>

DeliveryFails ==
    /\ outcome = "rendered" /\ ~failed /\ sent < Len(messages)
    /\ failed' = TRUE
    /\ UNCHANGED <<text, taken, current, fence, messages, outcome, sent>>

Next == TakeLine \/ Unsplittable \/ Finish \/ Deliver \/ DeliveryFails

Spec == Init /\ [][Next]_vars
-----------------------------------------------------------------------------
Message == [len : Nat, lines : SUBSET Nat, odd : BOOLEAN]

TypeOK ==
    /\ text \in Seq(Lines)
    /\ taken \in 0..Len(text)
    /\ current \in Message
    /\ fence \in Nat
    /\ messages \in Seq(Message)
    /\ outcome \in {"rendering", "rendered", "unclosed_code_fence", "unsplittable_line",
                    "too_many_messages"}
    /\ sent \in 0..Len(messages)
    /\ failed \in BOOLEAN

\* Every message closes the fences it opens, so that each of them, and whatever
\* was delivered before a failure, reads as the answer does.
FencesAreWhole == \A i \in 1..Len(messages) : ~messages[i].odd

\* Every line of the text that is not blank is in one of the messages, and the
\* messages have them in the order of the text.
NothingIsLost ==
    /\ \A k \in 1..taken :
          text[k].len > 0 =>
              k \in current.lines \/ \E i \in 1..Len(messages) : k \in messages[i].lines
    /\ \A i \in 1..Len(messages) : \A k \in messages[i].lines :
          /\ \A j \in (i + 1)..Len(messages) : \A l \in messages[j].lines : k < l
          /\ \A l \in current.lines : k < l

\* No message is longer than configured (docs.unit.test.ts: `message.length <= 90`
\* under a maximum of 90).  False of a message that is cut right after the line
\* that opens a fence: nothing was reserved for the line that closes it.
SizeIsBounded ==
    outcome = "rendered" => \A i \in 1..Len(messages) : messages[i].len <= MaxCharacters
=============================================================================

-------------------------- MODULE DocsRenderProofs --------------------------
(***************************************************************************)
(* Proofs about DocsRender: whatever the text and the limits are, the      *)
(* messages close their fences, lose no line, keep the order of the text   *)
(* and exceed the configured size by at most four characters.              *)
(***************************************************************************)
EXTENDS DocsRender, TLAPS

\* The message being filled: it fits, its fences are odd exactly while a fence
\* is open, and it has only lines that were taken and are no longer than it is.
CurrentOK ==
    /\ current.len <= MaxCharacters
    /\ current.odd <=> fence # 0
    /\ \A k \in current.lines : k \in 1..taken /\ text[k].len <= current.len

\* A complete message has only lines that were taken.
LinesTaken == \A i \in 1..Len(messages) : messages[i].lines \subseteq 1..taken

\* No message is longer than configured by more than the line that closes its
\* fence; that it may be longer at all is what SizeIsBounded of DocsRender denies.
OverByAFence == \A i \in 1..Len(messages) : messages[i].len <= MaxCharacters + 4

IInv ==
    /\ TypeOK /\ CurrentOK /\ LinesTaken
    /\ FencesAreWhole /\ NothingIsLost /\ OverByAFence

Filled(m) == m \in Message /\ m.lines \subseteq 1..taken
-----------------------------------------------------------------------------
\* Closing a message only adds to it, and evens out its fences.
LEMMA ClosingFacts ==
    ASSUME IInv
    PROVE  /\ Closed(current) \in Message
           /\ Closed(current).lines = current.lines
           /\ Closed(current).len <= MaxCharacters + 4
           /\ ~Closed(current).odd
           /\ Closed(current).len = 0 => Closed(current) = current /\ fence = 0
           /\ Closed(current).len >= current.len
<1>1. current \in Message /\ fence \in Nat /\ current.len <= MaxCharacters
      /\ (current.odd <=> fence # 0) /\ MaxCharacters \in Nat
  BY RenderAssumption DEF IInv, TypeOK, CurrentOK
<1>2. CASE fence = 0
  BY <1>1, <1>2 DEF Closed, Message
<1>3. CASE fence # 0
  <2>1. current.odd = TRUE
    BY <1>1, <1>3 DEF Message
  <2>2. Closed(current) = [len |-> current.len + 4, lines |-> current.lines, odd |-> FALSE]
    BY <1>1, <1>3, <2>1 DEF Closed, Message
  <2>. QED
    BY <1>1, <1>3, <2>2 DEF Message
<1>. QED
  BY <1>2, <1>3

\* Flushing adds at most the message it is given, behind the others.
LEMMA FlushFacts ==
    ASSUME messages \in Seq(Message), NEW m \in Message
    PROVE  /\ Flushed(m) \in Seq(Message)
           /\ Len(messages) <= Len(Flushed(m))
           /\ \A i \in 1..Len(messages) : Flushed(m)[i] = messages[i]
           /\ \A i \in 1..Len(Flushed(m)) : i \notin 1..Len(messages) =>
                  i = Len(messages) + 1 /\ Flushed(m)[i] = m
           /\ m.len # 0 =>
                  Len(messages) + 1 \in 1..Len(Flushed(m)) /\ Flushed(m)[Len(messages) + 1] = m
<1>1. CASE m.len = 0
  BY <1>1 DEF Flushed
<1>2. CASE m.len # 0
  BY <1>2 DEF Flushed
<1>. QED
  BY <1>1, <1>2

\* Whatever is flushed with even fences, not too long, and with the lines of the
\* current message, keeps what holds of the complete messages.
LEMMA FlushKeeps ==
    ASSUME IInv, NEW m \in Message,
           m.lines = current.lines, m.len <= MaxCharacters + 4, ~m.odd
    PROVE  /\ Flushed(m) \in Seq(Message)
           /\ \A i \in 1..Len(Flushed(m)) :
                 /\ ~Flushed(m)[i].odd
                 /\ Flushed(m)[i].len <= MaxCharacters + 4
                 /\ Flushed(m)[i].lines \subseteq 1..taken
                 /\ \A j \in (i + 1)..Len(Flushed(m)) :
                       \A k \in Flushed(m)[i].lines : \A l \in Flushed(m)[j].lines : k < l
<1>1. messages \in Seq(Message) /\ Len(messages) \in Nat
  BY DEF IInv, TypeOK
<1>2. current.lines \subseteq 1..taken
  BY DEF IInv, CurrentOK
<1>3. ASSUME NEW i \in 1..Len(Flushed(m))
      PROVE  /\ ~Flushed(m)[i].odd
             /\ Flushed(m)[i].len <= MaxCharacters + 4
             /\ Flushed(m)[i].lines \subseteq 1..taken
  <2>1. CASE i \in 1..Len(messages)
    BY <1>1, <1>3, <2>1, FlushFacts DEF IInv, FencesAreWhole, OverByAFence, LinesTaken
  <2>2. CASE i \notin 1..Len(messages)
    BY <1>1, <1>2, <1>3, <2>2, FlushFacts
  <2>. QED
    BY <2>1, <2>2
<1>4. ASSUME NEW i \in 1..Len(Flushed(m)), NEW j \in (i + 1)..Len(Flushed(m)),
             NEW k \in Flushed(m)[i].lines, NEW l \in Flushed(m)[j].lines
      PROVE  k < l
  <2>1. i \in 1..Len(messages) /\ Flushed(m)[i] = messages[i] /\ j \in 1..Len(Flushed(m))
        /\ i \in Nat /\ j \in Nat
    <3>1. Len(Flushed(m)) \in Nat
      BY FlushFacts, <1>1
    <3>2. i \in Nat /\ j \in Nat /\ i < j /\ j \in 1..Len(Flushed(m))
      BY <1>4, <3>1
    <3>3. i # Len(messages) + 1
      <4>1. j \in 1..Len(messages) \/ j = Len(messages) + 1
        BY <1>1, <3>2, FlushFacts
      <4>. QED
        BY <1>1, <3>2, <4>1
    <3>4. i \in 1..Len(messages)
      BY <1>1, <1>4, <3>3, FlushFacts
    <3>. QED
      BY <1>1, <3>2, <3>4, FlushFacts
  <2>2. CASE j \in 1..Len(messages)
    <3>1. Flushed(m)[j] = messages[j] /\ j \in (i + 1)..Len(messages)
      BY <1>1, <1>4, <2>1, <2>2, FlushFacts
    <3>. QED
      BY <1>4, <2>1, <3>1 DEF IInv, NothingIsLost
  <2>3. CASE j \notin 1..Len(messages)
    <3>1. Flushed(m)[j] = m
      BY <1>1, <2>1, <2>3, FlushFacts
    <3>. QED
      BY <1>4, <2>1, <3>1 DEF IInv, NothingIsLost
  <2>. QED
    BY <2>2, <2>3
<1>. QED
  BY <1>1, <1>3, <1>4, FlushFacts
-----------------------------------------------------------------------------
\* The message a line goes to: its fences are odd exactly while one is open, it
\* has lines that were taken, and every line is in it or in those before it.
LEMMA TargetFacts ==
    ASSUME IInv, NEW line \in [len : Nat, fence : BOOLEAN]
    PROVE  /\ Target(line) \in Message
           /\ Target(line).odd <=> fence # 0
           /\ \A k \in Target(line).lines : k \in 1..taken /\ text[k].len <= Target(line).len
           /\ Before(line) \in Seq(Message)
           /\ \A i \in 1..Len(Before(line)) :
                 /\ ~Before(line)[i].odd
                 /\ Before(line)[i].len <= MaxCharacters + 4
                 /\ Before(line)[i].lines \subseteq 1..taken
                 /\ \A j \in (i + 1)..Len(Before(line)) :
                       \A k \in Before(line)[i].lines : \A l \in Before(line)[j].lines : k < l
                 /\ \A k \in Before(line)[i].lines : \A l \in Target(line).lines : k < l
           /\ \A k \in 1..taken : text[k].len > 0 =>
                 k \in Target(line).lines
                     \/ \E i \in 1..Len(Before(line)) : k \in Before(line)[i].lines
           /\ Len(messages) <= Len(Before(line))
<1>. DEFINE m == Closed(current)
<1>1. /\ m \in Message /\ m.lines = current.lines /\ m.len <= MaxCharacters + 4
      /\ ~m.odd /\ (m.len = 0 => m = current /\ fence = 0)
  BY ClosingFacts
<1>2. messages \in Seq(Message) /\ current \in Message /\ fence \in Nat /\ taken \in Nat
  BY DEF IInv, TypeOK
<1>3. CASE ~Overflows(line)
  <2>1. Target(line) = current /\ Before(line) = messages
    BY <1>3 DEF Target, Before
  <2>. QED
    BY <1>2, <2>1 DEF IInv, CurrentOK, LinesTaken, FencesAreWhole, OverByAFence, NothingIsLost
<1>4. CASE Overflows(line) /\ m.len = 0
  <2>1. Target(line) = current /\ Before(line) = messages
    BY <1>1, <1>4 DEF Target, Before, Fresh, Flushed
  <2>. QED
    BY <1>2, <2>1 DEF IInv, CurrentOK, LinesTaken, FencesAreWhole, OverByAFence, NothingIsLost
<1>5. CASE Overflows(line) /\ m.len # 0
  <2>1. Target(line) = (IF fence = 0 THEN Blank
                                     ELSE [len |-> fence + 1, lines |-> {}, odd |-> TRUE])
    BY <1>5 DEF Target, Fresh
  <2>2. /\ Target(line) \in Message /\ Target(line).lines = {}
        /\ Target(line).odd <=> fence # 0
    BY <1>2, <2>1 DEF Blank, Message
  <2>3. Before(line) = Flushed(m)
    BY <1>5 DEF Before
  <2>4. /\ Flushed(m) \in Seq(Message)
        /\ \A i \in 1..Len(Flushed(m)) :
              /\ ~Flushed(m)[i].odd
              /\ Flushed(m)[i].len <= MaxCharacters + 4
              /\ Flushed(m)[i].lines \subseteq 1..taken
              /\ \A j \in (i + 1)..Len(Flushed(m)) :
                    \A k \in Flushed(m)[i].lines : \A l \in Flushed(m)[j].lines : k < l
    BY <1>1, FlushKeeps
  <2>5. ASSUME NEW k \in 1..taken, text[k].len > 0
        PROVE  \E i \in 1..Len(Flushed(m)) : k \in Flushed(m)[i].lines
    <3>1. CASE k \in current.lines
      <4>1. Len(messages) + 1 \in 1..Len(Flushed(m)) /\ Flushed(m)[Len(messages) + 1] = m
        BY <1>1, <1>2, <1>5, FlushFacts
      <4>. QED
        BY <1>1, <3>1, <4>1
    <3>2. CASE \E i \in 1..Len(messages) : k \in messages[i].lines
      <4>1. PICK i \in 1..Len(messages) : k \in messages[i].lines
        BY <3>2
      <4>2. i \in 1..Len(Flushed(m)) /\ Flushed(m)[i] = messages[i]
        BY <1>1, <1>2, <4>1, FlushFacts
      <4>. QED
        BY <4>1, <4>2
    <3>. QED
      BY <2>5, <3>1, <3>2 DEF IInv, NothingIsLost
  <2>6. Len(messages) <= Len(Flushed(m))
    BY <1>1, <1>2, FlushFacts
  <2>. QED
    BY <2>2, <2>3, <2>4, <2>5, <2>6
<1>. QED
  BY <1>3, <1>4, <1>5

\* Taking a line keeps the invariant.
LEMMA TakeLineStep ==
    ASSUME IInv, TakeLine
    PROVE  IInv'
<1>. DEFINE line == text[taken + 1]
            t == Target(line)
            b == Before(line)
<1>1. /\ text \in Seq(Lines) /\ taken \in Nat /\ taken < Len(text) /\ fence \in Nat
      /\ taken' = taken + 1 /\ text' = text /\ outcome' = outcome /\ sent' = sent
      /\ failed' = failed
  BY DEF IInv, TypeOK, TakeLine
<1>2. /\ line \in Lines /\ line \in [len : Nat, fence : BOOLEAN]
      /\ line.len \in Nat /\ line.fence \in BOOLEAN /\ (line.fence => line.len >= 3)
  BY <1>1, RenderAssumption
<1>3. /\ HasRoom(t, line) /\ messages' = b /\ current' = With(t, line)
      /\ fence' = IF ~line.fence THEN fence ELSE IF fence = 0 THEN line.len ELSE 0
  BY DEF TakeLine
<1>4. /\ t \in Message
      /\ t.odd <=> fence # 0
      /\ \A k \in t.lines : k \in 1..taken /\ text[k].len <= t.len
  BY <1>2, TargetFacts
<1>5. /\ b \in Seq(Message)
      /\ \A i \in 1..Len(b) :
            /\ ~b[i].odd /\ b[i].len <= MaxCharacters + 4 /\ b[i].lines \subseteq 1..taken
            /\ \A j \in (i + 1)..Len(b) : \A k \in b[i].lines : \A l \in b[j].lines : k < l
            /\ \A k \in b[i].lines : \A l \in t.lines : k < l
      /\ \A k \in 1..taken : text[k].len > 0 =>
            k \in t.lines \/ \E i \in 1..Len(b) : k \in b[i].lines
      /\ Len(messages) <= Len(b)
  BY <1>2, TargetFacts
<1>. HIDE DEF t, b
<1>6. /\ current'.len = t.len + Separator(t) + line.len
      /\ current'.lines = t.lines \cup {taken + 1}
      /\ current'.odd = (t.odd # line.fence)
      /\ current' = [len |-> t.len + Separator(t) + line.len,
                     lines |-> t.lines \cup {taken + 1}, odd |-> (t.odd # line.fence)]
  BY <1>3 DEF With
<1>7. Separator(t) \in Nat /\ t.len \in Nat /\ t.lines \subseteq Nat /\ t.odd \in BOOLEAN
  BY <1>4 DEF Separator, Message
<1>. HIDE DEF line
<1>8. TypeOK'
  <2>1. current' \in Message
    BY <1>1, <1>2, <1>6, <1>7 DEF Message
  <2>2. fence' \in Nat
    BY <1>1, <1>2, <1>3
  <2>3. sent' \in 0..Len(messages') /\ messages' \in Seq(Message)
    BY <1>1, <1>3, <1>5 DEF IInv, TypeOK
  <2>. QED
    BY <1>1, <2>1, <2>2, <2>3 DEF IInv, TypeOK
<1>9. CurrentOK'
  <2>1. current'.len <= MaxCharacters
    BY <1>3, <1>6 DEF HasRoom
  <2>2. current'.odd <=> fence' # 0
    <3>1. CASE ~line.fence
      BY <1>2, <1>3, <1>4, <1>6, <1>7, <3>1
    <3>2. CASE line.fence /\ fence = 0
      <4>1. fence' # 0
        BY <1>2, <1>3, <3>2
      <4>. QED
        BY <1>2, <1>4, <1>6, <1>7, <3>2, <4>1
    <3>3. CASE line.fence /\ fence # 0
      BY <1>2, <1>3, <1>4, <1>6, <1>7, <3>3
    <3>. QED
      BY <1>2, <3>1, <3>2, <3>3
  <2>3. ASSUME NEW k \in current'.lines
        PROVE  k \in 1..taken' /\ text'[k].len <= current'.len
    <3>1. CASE k \in t.lines
      <4>1. k \in 1..taken /\ text[k].len <= t.len /\ text[k] \in Lines
        BY <1>1, <1>4, <3>1
      <4>2. text[k].len \in Nat
        BY <4>1, RenderAssumption
      <4>. QED
        BY <1>1, <1>2, <1>6, <1>7, <4>1, <4>2
    <3>2. CASE k = taken + 1
      BY <1>1, <1>2, <1>6, <1>7, <3>2 DEF line
    <3>. QED
      BY <1>6, <2>3, <3>1, <3>2
  <2>. QED
    BY <2>1, <2>2, <2>3 DEF CurrentOK
<1>10. LinesTaken' /\ FencesAreWhole' /\ OverByAFence'
  <2>1. FencesAreWhole' /\ OverByAFence'
    BY <1>3, <1>5 DEF FencesAreWhole, OverByAFence
  <2>2. 1..taken \subseteq 1..taken'
    BY <1>1
  <2>3. LinesTaken'
    BY <1>3, <1>5, <2>2 DEF LinesTaken
  <2>. QED
    BY <2>1, <2>3
<1>11. NothingIsLost'
  <2>1. ASSUME NEW k \in 1..taken', text'[k].len > 0
        PROVE  k \in current'.lines \/ \E i \in 1..Len(messages') : k \in messages'[i].lines
    BY <1>1, <1>3, <1>5, <1>6, <2>1
  <2>2. ASSUME NEW i \in 1..Len(messages'), NEW k \in messages'[i].lines
        PROVE  /\ \A j \in (i + 1)..Len(messages') : \A l \in messages'[j].lines : k < l
               /\ \A l \in current'.lines : k < l
    <3>1. k \in 1..taken
      BY <1>3, <1>5, <2>2
    <3>. QED
      BY <1>1, <1>3, <1>5, <1>6, <2>2, <3>1
  <2>. QED
    BY <2>1, <2>2 DEF NothingIsLost
<1>. QED
  BY <1>8, <1>9, <1>10, <1>11 DEF IInv

\* Putting out the last message keeps the invariant.
LEMMA FinishStep ==
    ASSUME IInv, Finish
    PROVE  IInv'
<1>1. /\ text' = text /\ taken' = taken /\ fence' = fence /\ sent' = sent /\ failed' = failed
      /\ outcome' \in {"rendering", "rendered", "unclosed_code_fence", "unsplittable_line",
                       "too_many_messages"}
  BY DEF Finish
<1>2. /\ messages \in Seq(Message) /\ current \in Message /\ fence \in Nat /\ taken \in Nat
      /\ sent \in 0..Len(messages) /\ MaxCharacters \in Nat /\ text \in Seq(Lines)
      /\ taken \in 0..Len(text) /\ failed \in BOOLEAN
  BY RenderAssumption DEF IInv, TypeOK
<1>3. CASE fence # 0
  <2>1. messages' = messages /\ current' = current
    BY <1>3 DEF Finish
  <2>. QED
    BY <1>1, <1>2, <2>1 DEF IInv, TypeOK, CurrentOK, LinesTaken, FencesAreWhole,
                            NothingIsLost, OverByAFence
<1>4. CASE fence = 0
  <2>1. messages' = Flushed(current) /\ current' = Blank
    BY <1>4 DEF Finish
  <2>2. ~current.odd /\ current.len <= MaxCharacters + 4
        /\ \A k \in current.lines : k \in 1..taken /\ text[k].len <= current.len
    BY <1>2, <1>4 DEF IInv, CurrentOK, Message
  <2>3. /\ Flushed(current) \in Seq(Message)
        /\ \A i \in 1..Len(Flushed(current)) :
              /\ ~Flushed(current)[i].odd
              /\ Flushed(current)[i].len <= MaxCharacters + 4
              /\ Flushed(current)[i].lines \subseteq 1..taken
              /\ \A j \in (i + 1)..Len(Flushed(current)) :
                    \A k \in Flushed(current)[i].lines :
                        \A l \in Flushed(current)[j].lines : k < l
    BY <1>2, <2>2, FlushKeeps
  <2>4. Len(messages) <= Len(Flushed(current))
    BY <1>2, FlushFacts
  <2>5. TypeOK'
    BY <1>1, <1>2, <2>1, <2>3, <2>4 DEF TypeOK, Blank, Message
  <2>6. CurrentOK'
    BY <1>1, <1>2, <1>4, <2>1 DEF CurrentOK, Blank
  <2>7. LinesTaken' /\ FencesAreWhole' /\ OverByAFence'
    BY <1>1, <2>1, <2>3 DEF LinesTaken, FencesAreWhole, OverByAFence
  <2>8. ASSUME NEW k \in 1..taken, text[k].len > 0
        PROVE  \E i \in 1..Len(Flushed(current)) : k \in Flushed(current)[i].lines
    <3>1. CASE k \in current.lines
      <4>1. text[k] \in Lines /\ text[k].len <= current.len
        BY <1>2, <2>2, <2>8, <3>1
      <4>2. current.len # 0
        BY <1>2, <2>8, <4>1, RenderAssumption DEF Message
      <4>. QED
        BY <1>2, <3>1, <4>2, FlushFacts
    <3>2. CASE \E i \in 1..Len(messages) : k \in messages[i].lines
      <4>1. PICK i \in 1..Len(messages) : k \in messages[i].lines
        BY <3>2
      <4>2. i \in 1..Len(Flushed(current)) /\ Flushed(current)[i] = messages[i]
        BY <1>2, <4>1, FlushFacts
      <4>. QED
        BY <4>1, <4>2
    <3>. QED
      BY <2>8, <3>1, <3>2 DEF IInv, NothingIsLost
  <2>9. NothingIsLost'
    BY <1>1, <2>1, <2>3, <2>8 DEF NothingIsLost, Blank
  <2>. QED
    BY <2>5, <2>6, <2>7, <2>9 DEF IInv
<1>. QED
  BY <1>3, <1>4
-----------------------------------------------------------------------------
LEMMA InitIInv == Init => IInv
<1>. SUFFICES ASSUME Init PROVE IInv
  OBVIOUS
<1>1. text \in Seq(Lines)
  <2>1. PICK n \in 1..MaxLines : text \in [1..n -> Lines]
    BY DEF Init
  <2>. QED
    BY <2>1, RenderAssumption
<1>2. Len(text) \in Nat
  BY <1>1
<1>3. /\ taken = 0 /\ fence = 0 /\ messages = <<>> /\ sent = 0 /\ failed = FALSE
      /\ outcome = "rendering" /\ current = [len |-> 0, lines |-> {}, odd |-> FALSE]
  BY DEF Init, Blank
<1>4. current \in Message /\ messages \in Seq(Message) /\ Len(messages) = 0
  BY <1>3 DEF Message
<1>5. TypeOK
  <2>1. taken \in 0..Len(text) /\ sent \in 0..Len(messages) /\ fence \in Nat
    BY <1>2, <1>3, <1>4
  <2>2. failed \in BOOLEAN
    BY <1>3
  <2>3. outcome \in {"rendering", "rendered", "unclosed_code_fence", "unsplittable_line",
                    "too_many_messages"}
    BY <1>3
  <2>. QED
    BY <1>1, <1>4, <2>1, <2>2, <2>3 DEF TypeOK
<1>6. CurrentOK
  BY <1>3, RenderAssumption DEF CurrentOK
<1>7. LinesTaken /\ FencesAreWhole /\ NothingIsLost /\ OverByAFence
  BY <1>3, <1>4 DEF LinesTaken, FencesAreWhole, NothingIsLost, OverByAFence
<1>. QED
  BY <1>5, <1>6, <1>7 DEF IInv

LEMMA StepIInv == IInv /\ [Next]_vars => IInv'
<1>. SUFFICES ASSUME IInv, [Next]_vars PROVE IInv'
  OBVIOUS
<1>1. CASE TakeLine
  BY <1>1, TakeLineStep
<1>2. CASE Finish
  BY <1>2, FinishStep
<1>3. CASE Unsplittable \/ Deliver \/ DeliveryFails \/ UNCHANGED vars
  <2>1. UNCHANGED <<text, taken, current, fence, messages>>
    BY <1>3 DEF Unsplittable, Deliver, DeliveryFails, vars
  <2>2. /\ sent' \in 0..Len(messages) /\ failed' \in BOOLEAN
        /\ outcome' \in {"rendering", "rendered", "unclosed_code_fence",
                         "unsplittable_line", "too_many_messages"}
    <3>1. /\ Len(messages) \in Nat /\ sent \in 0..Len(messages) /\ failed \in BOOLEAN
          /\ outcome \in {"rendering", "rendered", "unclosed_code_fence",
                         "unsplittable_line", "too_many_messages"}
      BY DEF IInv, TypeOK
    <3>2. CASE Unsplittable
      BY <3>1, <3>2 DEF Unsplittable
    <3>3. CASE Deliver
      BY <3>1, <3>3 DEF Deliver
    <3>4. CASE DeliveryFails \/ UNCHANGED vars
      BY <3>1, <3>4 DEF DeliveryFails, vars
    <3>. QED
      BY <1>3, <3>2, <3>3, <3>4
  <2>. QED
    BY <2>1, <2>2 DEF IInv, TypeOK, CurrentOK, LinesTaken, FencesAreWhole, NothingIsLost,
                      OverByAFence
<1>. QED
  BY <1>1, <1>2, <1>3 DEF Next

\* The state of rendering and delivery has the types it is declared with.
THEOREM RenderTypeCorrect == Spec => []TypeOK
<1>1. IInv => TypeOK
  BY DEF IInv
<1>. QED
  BY <1>1, InitIInv, StepIInv, PTL DEF Spec

\* Every message that renderDocsMessages puts out closes the fences it opens.
THEOREM MessagesCloseTheirFences == Spec => []FencesAreWhole
<1>1. IInv => FencesAreWhole
  BY DEF IInv
<1>. QED
  BY <1>1, InitIInv, StepIInv, PTL DEF Spec

\* No line of an answer is lost or moved when it is cut into messages.
THEOREM MessagesKeepTheText == Spec => []NothingIsLost
<1>1. IInv => NothingIsLost
  BY DEF IInv
<1>. QED
  BY <1>1, InitIInv, StepIInv, PTL DEF Spec

\* A message exceeds maximumMessageCharacters by at most four characters.
THEOREM MessagesAreBounded == Spec => []OverByAFence
<1>1. IInv => OverByAFence
  BY DEF IInv
<1>. QED
  BY <1>1, InitIInv, StepIInv, PTL DEF Spec
=============================================================================

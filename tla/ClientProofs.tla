---------------------------- MODULE ClientProofs ----------------------------
(***************************************************************************)
(* Theorems about ChatClient and the StreamRelay under it, for any         *)
(* messages and any number of breaks, crashes, lost requests and reloads.  *)
(* LinkInv says what a connection carries in terms of the entry it reads   *)
(* and of the stored row; NothingMissed and NobodyHangs follow from it.    *)
(* PageInv and, for a patient user, HookInv say what the hook, its         *)
(* EventSource and the page know of each other; ShownTextIsOwn,            *)
(* ShownVerdictIsStored and SettledViewIsFinal follow from them.           *)
(***************************************************************************)
EXTENDS ChatClientProperties, SequenceTheorems, TLAPS

\* A stream starts with message_start, and nothing follows a closing event.
Shape(b) ==
  \A k \in 1..Len(b) :
    /\ k = 1 <=> b[k] = "message_start"
    /\ k < Len(b) => b[k] \notin ClosingType

\* A verdict in the buffer b is stored in the row r, with all the tokens.
Told(r, b) ==
  Closed(b) /\ b[Len(b)] # "error" =>
    r.status = StatusOf(b[Len(b)]) /\ r.content = Len(b) - 2

Sound(b, r) == Shape(b) /\ Told(r, b)

EntrySound(e, r) ==
  /\ Sound(e.buffer, r)
  /\ e.state = "absent" => e.buffer = <<>>
  /\ e.state = "open" => e.buffer # <<>>
  /\ e.state = "ended" => Closed(e.buffer)

\* An entry e, an EventSource s, its connection (handler h, kept entry k, events
\* w on the wire and d dispatched) and the row r of one inference.
LinkOf(e, s, h, k, w, d, r) ==
  /\ EntrySound(e, r)
  /\ e.state = "open" /\ ~Closed(e.buffer) => r.status = "streaming"
  /\ h # "none" => s = "open"
  /\ h = "resolved" /\ e.state = "absent" => k.state = "ended" /\ EntrySound(k, r)
  /\ h = "live" => e.state = "open"
  /\ h = "finished" => e.state # "open" /\ Closed(d \o w)
  /\ h \in {"live", "finished"} /\ e.state # "absent" => d \o w = e.buffer
  /\ h \notin {"live", "finished"} => w = <<>> /\ d = <<>>
  /\ Sound(d \o w, r)

Link(i) ==
  LinkOf(streams[i], source[i], handler[i], kept[i], wire[i], received[i], row[i])

\* The EventSource is opened by the answer, the row by the acceptance.
Posted(i) ==
  /\ post[i] \in {"none", "sent", "accepted"} => source[i] = "none"
  /\ post[i] \in {"none", "sent"} => row[i].status = "none"

MessageStatus == {"none", "streaming", "completed", "cancelled", "failed"}
Row == [status : MessageStatus, content : Nat]
PostState == {"none", "sent", "accepted", "answered", "failed", "gone"}

LinkInv ==
  /\ RelayTypeOK
  /\ row \in [Inference -> Row] /\ post \in [Inference -> PostState]
  /\ \A i \in Inference : Link(i) /\ Posted(i)
-----------------------------------------------------------------------------
Ref == Inference \cup {NoInference}
Texting == Seq(Ref \X Nat)
Verdict == {"completed", "cancelled"}
Message == [status : MessageStatus, content : Texting]
Hook ==
  [status : {"idle", "streaming", "completed", "cancelled", "error"},
   text : Texting, inference : Ref]

\* The page: its streaming message is one that streams, and a message that was
\* never sent is not shown.
PageInv ==
  /\ view \in [Inference -> Message] /\ state \in Hook
  /\ streamingId \in Ref /\ sseRef \in Ref
  /\ dirty \in BOOLEAN /\ mounted \in BOOLEAN
  /\ streamingId # NoInference => view[streamingId].status = "streaming"
  /\ \A i \in Inference : post[i] = "none" => view[i].status = "none"

OwnText(i, t) == t = Text(i, Len(t))
StoredAs(i, status, t) == row[i].status = status /\ row[i].content = Len(t)

\* One request is pending at a time, and no EventSource is open while one is.
OneAtATime ==
  /\ \A i \in Inference : source[i] = "open" => sseRef = i
  /\ PostPending => sseRef = NoInference
  /\ \A i, j \in Inference :
       post[i] \in {"sent", "accepted"} /\ post[j] \in {"sent", "accepted"} => i = j
  /\ \A i \in Inference :
       post[i] \in {"sent", "accepted"} => streamingId \in {i, NoInference}

\* While the hook streams, it has the text of what its EventSource dispatched,
\* unless the connection is broken, which the hook has not been told yet.
Follows ==
  IsStreaming =>
    /\ state.inference \in Inference
    /\ sseRef = state.inference /\ source[state.inference] = "open"
    /\ \/ handler[state.inference] = "broken"
       \/ received[state.inference] = <<>> /\ state.text = <<>>
       \/ Len(received[state.inference]) = Len(state.text) + 1

\* The hook's text is of one inference, that of the page's streaming message as
\* far as a render may still show it, and its verdict is stored.
HookState ==
  /\ mounted = FALSE => state = Idle /\ streamingId = NoInference
  /\ OwnText(state.inference, state.text)
  /\ streamingId # NoInference /\ (IsStreaming \/ (dirty = TRUE /\ state.status \in Verdict))
       => streamingId = state.inference
  /\ state.status \in Verdict =>
       /\ state.inference \in Inference
       /\ StoredAs(state.inference, state.status, state.text)

Shows ==
  \A i \in Inference :
    /\ OwnText(i, view[i].content)
    /\ view[i].status \in Verdict => StoredAs(i, view[i].status, view[i].content)

HookInv == OneAtATime /\ Follows /\ HookState /\ Shows

ClientInv == LinkInv /\ PageInv /\ (Patient => HookInv)
-----------------------------------------------------------------------------
\* Sequences of events.

LEMMA EmptyEvents ==
  /\ <<>> \in Seq(StreamEvent) /\ <<>> \o <<>> = <<>>
  /\ ~Closed(<<>>) /\ \A r : Sound(<<>>, r)
<1>1. <<>> \in Seq(StreamEvent) /\ Len(<<>>) = 0
  BY EmptySeq
<1>2. <<>> \o <<>> = <<>>
  BY <1>1, ConcatEmptySeq
<1>. QED BY <1>1, <1>2 DEF Closed, Sound, Shape, Told

LEMMA FirstEvent ==
  LET b == <<"message_start">>
  IN  b \in Seq(StreamEvent) /\ b # <<>> /\ ~Closed(b) /\ \A r : Sound(b, r)
<1> DEFINE b == <<"message_start">>
<1>1. b \in Seq(StreamEvent) /\ Len(b) = 1 /\ b[1] = "message_start" /\ b # <<>>
  BY DEF StreamEvent
<1> HIDE DEF b
<1>2. ~Closed(b) /\ Shape(b)
  BY <1>1 DEF Closed, Shape, ClosingType
<1>. QED BY <1>1, <1>2 DEF Sound, Told, b

LEMMA AppendSound ==
  ASSUME NEW b \in Seq(StreamEvent), b # <<>>, Shape(b), ~Closed(b),
         NEW x \in StreamEvent, x # "message_start"
  PROVE  LET c == Append(b, x)
         IN  /\ c \in Seq(StreamEvent) /\ c # <<>> /\ Len(c) = Len(b) + 1
             /\ c[Len(c)] = x /\ Shape(c) /\ (Closed(c) <=> x \in ClosingType)
<1> DEFINE c == Append(b, x)
<1>1. /\ c \in Seq(StreamEvent) /\ c # <<>> /\ Len(c) = Len(b) + 1 /\ c[Len(b) + 1] = x
      /\ \A k \in 1..Len(b) : c[k] = b[k]
      /\ Len(b) \in Nat /\ Len(b) > 0
  BY AppendProperties, EmptySeq
<1> HIDE DEF c
<1>2. b[Len(b)] \notin ClosingType
  BY DEF Closed
<1>3. ASSUME NEW k \in 1..Len(c)
      PROVE  (k = 1 <=> c[k] = "message_start") /\ (k < Len(c) => c[k] \notin ClosingType)
  <2>1. CASE k = Len(b) + 1
    BY <1>1, <2>1
  <2>2. CASE k \in 1..Len(b)
    <3>1. c[k] = b[k] /\ (k = 1 <=> b[k] = "message_start")
      BY <1>1, <2>2 DEF Shape
    <3>2. b[k] \notin ClosingType
      <4>1. k < Len(b) \/ k = Len(b)
        BY <1>1, <2>2
      <4>. QED BY <1>2, <2>2, <4>1 DEF Shape
    <3>. QED BY <3>1, <3>2
  <2>3. k = Len(b) + 1 \/ k \in 1..Len(b)
    BY <1>1
  <2>. QED BY <2>1, <2>2, <2>3
<1>4. Closed(c) <=> x \in ClosingType
  BY <1>1 DEF Closed
<1>. QED BY <1>1, <1>3, <1>4 DEF Shape, c

\* The event x is written to a response that carried b.
LEMMA EmitConcat ==
  ASSUME NEW d \in Seq(StreamEvent), NEW w \in Seq(StreamEvent), NEW x \in StreamEvent
  PROVE  /\ w \o <<x>> \in Seq(StreamEvent)
         /\ d \o (w \o <<x>>) = Append(d \o w, x)
<1>1. <<x>> \in Seq(StreamEvent)
  OBVIOUS
<1>2. d \o w \in Seq(StreamEvent) /\ w \o <<x>> \in Seq(StreamEvent)
  BY <1>1, ConcatProperties
<1>3. (d \o w) \o <<x>> = d \o (w \o <<x>>)
  BY <1>1, ConcatAssociative
<1>4. Append(d \o w, x) = (d \o w) \o <<x>>
  BY <1>2, AppendIsConcat
<1>. QED BY <1>2, <1>3, <1>4

\* An event is dispatched: it moves from the wire to what was received.
LEMMA DispatchConcat ==
  ASSUME NEW d \in Seq(StreamEvent), NEW w \in Seq(StreamEvent), w # <<>>
  PROVE  /\ Tail(w) \in Seq(StreamEvent) /\ Append(d, Head(w)) \in Seq(StreamEvent)
         /\ Head(w) \in StreamEvent
         /\ Len(Append(d, Head(w))) = Len(d) + 1
         /\ Append(d, Head(w)) \o Tail(w) = d \o w
         /\ (d \o w)[Len(d) + 1] = Head(w)
         /\ Len(d) + 1 \in 1..Len(d \o w)
         /\ Len(d \o w) = Len(d) + 1 => Tail(w) = <<>>
<1> DEFINE c == Append(d, Head(w))
<1>1. /\ Head(w) \in StreamEvent /\ Tail(w) \in Seq(StreamEvent)
      /\ Len(Tail(w)) = Len(w) - 1 /\ Head(w) = w[1]
      /\ \A k \in 1..Len(Tail(w)) : Tail(w)[k] = w[k + 1]
      /\ Len(w) \in Nat /\ Len(w) > 0 /\ Len(d) \in Nat
  BY EmptySeq
<1>2. /\ c \in Seq(StreamEvent) /\ Len(c) = Len(d) + 1 /\ c[Len(d) + 1] = w[1]
      /\ \A k \in 1..Len(d) : c[k] = d[k]
  BY <1>1, AppendProperties
<1> HIDE DEF c
<1> DEFINE u == c \o Tail(w)
           v == d \o w
<1>3. /\ u \in Seq(StreamEvent) /\ v \in Seq(StreamEvent)
      /\ Len(u) = Len(c) + Len(Tail(w)) /\ Len(v) = Len(d) + Len(w)
      /\ \A k \in 1..(Len(c) + Len(Tail(w))) :
           u[k] = IF k <= Len(c) THEN c[k] ELSE Tail(w)[k - Len(c)]
      /\ \A k \in 1..(Len(d) + Len(w)) :
           v[k] = IF k <= Len(d) THEN d[k] ELSE w[k - Len(d)]
  BY <1>1, <1>2, ConcatProperties
<1> HIDE DEF u, v
<1>4. Len(u) = Len(v)
  BY <1>1, <1>2, <1>3
<1>5. ASSUME NEW k \in 1..Len(u) PROVE u[k] = v[k]
  <2>1. CASE k <= Len(d)
    <3>1. u[k] = c[k] /\ v[k] = d[k] /\ k \in 1..Len(d)
      BY <1>1, <1>2, <1>3, <1>4, <2>1
    <3>. QED BY <1>2, <3>1
  <2>2. CASE k = Len(d) + 1
    <3>1. u[k] = c[k] /\ v[k] = w[k - Len(d)]
      BY <1>1, <1>2, <1>3, <1>4, <2>2
    <3>2. k - Len(d) = 1
      BY <1>1, <2>2
    <3>. QED BY <1>2, <2>2, <3>1, <3>2
  <2>3. CASE k > Len(d) + 1
    <3>1. u[k] = Tail(w)[k - Len(c)] /\ v[k] = w[k - Len(d)]
      BY <1>1, <1>2, <1>3, <1>4, <2>3
    <3>2. k - Len(c) \in 1..Len(Tail(w)) /\ (k - Len(c)) + 1 = k - Len(d)
      BY <1>1, <1>2, <1>3, <1>4, <2>3
    <3>3. Tail(w)[k - Len(c)] = w[(k - Len(c)) + 1]
      BY <1>1, <3>2
    <3>. QED BY <3>1, <3>2, <3>3
  <2>4. k \in Int
    OBVIOUS
  <2>. QED BY <1>1, <2>1, <2>2, <2>3, <2>4
<1>6. u = v
  BY <1>3, <1>4, <1>5, SeqEqual
<1>7. v[Len(d) + 1] = Head(w) /\ Len(d) + 1 \in 1..Len(v)
  <2>1. Len(d) + 1 \in 1..(Len(d) + Len(w)) /\ ~(Len(d) + 1 <= Len(d))
        /\ (Len(d) + 1) - Len(d) = 1
    BY <1>1
  <2>. QED BY <1>1, <1>3, <2>1
<1>8. Len(v) = Len(d) + 1 => Tail(w) = <<>>
  BY <1>1, <1>3, EmptySeq
<1>. QED BY <1>1, <1>2, <1>6, <1>7, <1>8 DEF c, u, v
-----------------------------------------------------------------------------
\* What each step makes of a link, said by its values.

Entry == StreamEntry(StreamEvent)
Tape == Seq(StreamEvent)

\* An entry to which x was published, one that ended with the events l, the wire
\* of a response whose handler h is listening, and that handler at the end.
Longer(e, x) == [state |-> "open", buffer |-> Append(e.buffer, x)]
Finished(e, l) == [state |-> "ended", buffer |-> e.buffer \o l]
Written(h, w, l) == IF h = "live" THEN w \o l ELSE w
AtEnd(h) == IF h = "live" THEN "finished" ELSE h

\* The connection is gone, or has none of the stream yet.
LEMMA LinkReset ==
  ASSUME NEW e, NEW s, NEW h, NEW k, NEW w, NEW d, NEW r, LinkOf(e, s, h, k, w, d, r),
         NEW s2, NEW h2 \in {"none", "refused", "broken"}, h2 # "none" => s2 = "open",
         NEW k2
  PROVE  LinkOf(e, s2, h2, k2, <<>>, <<>>, r)
BY EmptyEvents DEF LinkOf

\* A stream is opened, for the first time: nobody follows it.
LEMMA LinkOpened ==
  ASSUME NEW e, NEW s, NEW k, NEW w, NEW d, NEW r, LinkOf(e, s, "none", k, w, d, r),
         NEW e2, e2 = [state |-> "open", buffer |-> <<"message_start">>],
         NEW r2, r2.status = "streaming"
  PROVE  LinkOf(e2, s, "none", k, w, d, r2)
<1>1. w = <<>> /\ d = <<>> /\ Sound(<<>> \o <<>>, r2)
  BY EmptyEvents DEF LinkOf
<1>2. e2.state = "open" /\ e2.buffer = <<"message_start">>
  OBVIOUS
<1>3. EntrySound(e2, r2)
  BY <1>2, FirstEvent DEF EntrySound
<1>. QED BY <1>1, <1>2, <1>3 DEF LinkOf

\* An event is published and written to a response that is being followed.
LEMMA LinkPublished ==
  ASSUME NEW e \in Entry, NEW s, NEW h, NEW k, NEW w \in Tape, NEW d \in Tape, NEW r,
         LinkOf(e, s, h, k, w, d, r), e.state = "open", ~Closed(e.buffer),
         NEW x \in StreamEvent, x # "message_start",
         NEW r2,
         x = "token" => r2 = r,
         x \in ClosingType /\ x # "error" =>
           r2.status = StatusOf(x) /\ r2.content = Len(e.buffer) - 1
  PROVE  /\ Longer(e, x) \in Entry /\ Written(h, w, <<x>>) \in Tape
         /\ LinkOf(Longer(e, x), s, h, k, Written(h, w, <<x>>), d, r2)
<1> DEFINE b == e.buffer
           c == Append(b, x)
           e2 == Longer(e, x)
           w2 == Written(h, w, <<x>>)
<1>. SUFFICES e2 \in Entry /\ w2 \in Tape /\ LinkOf(e2, s, h, k, w2, d, r2)
  OBVIOUS
<1>1. b \in Tape /\ b # <<>> /\ Shape(b) /\ Len(b) \in Nat
  BY DEF Entry, Tape, StreamEntry, LinkOf, EntrySound, Sound
<1>2. /\ c \in Tape /\ c # <<>> /\ Len(c) = Len(b) + 1
      /\ c[Len(c)] = x /\ Shape(c) /\ (Closed(c) <=> x \in ClosingType)
  BY <1>1, AppendSound DEF Tape
<1>3. e2.state = "open" /\ e2.buffer = c /\ e2 \in Entry
  BY <1>2 DEF Entry, Tape, StreamEntry, Longer
<1>3a. w2 = IF h = "live" THEN w \o <<x>> ELSE w
  BY DEF Written
<1> HIDE DEF c, e2, w2
<1>4. Len(c) - 2 = Len(b) - 1
  BY <1>1, <1>2
<1>5. Sound(c, r2)
  BY <1>2, <1>4 DEF Sound, Told
<1>6. EntrySound(e2, r2)
  BY <1>2, <1>3, <1>5 DEF EntrySound
<1>7. x = "token" \/ x \in ClosingType
  BY DEF StreamEvent
<1>8. ~Closed(c) => r2.status = "streaming"
  BY <1>2, <1>7 DEF LinkOf
<1>9. CASE h = "live"
  <2>1. d \o w = b
    BY <1>9 DEF LinkOf
  <2>2. w2 \in Tape /\ d \o w2 = c
    BY <1>3a, <1>9, <2>1, EmitConcat DEF Tape, c
  <2>. QED BY <1>3, <1>5, <1>6, <1>8, <1>9, <2>2 DEF LinkOf
<1>10. CASE h # "live"
  <2>1. w2 = w /\ h # "finished" /\ w = <<>> /\ d = <<>>
    BY <1>3a, <1>10 DEF LinkOf
  <2>2. Sound(d \o w2, r2)
    BY <2>1, EmptyEvents
  <2>3. w2 \in Tape
    BY <2>1
  <2>. QED BY <1>3, <1>6, <1>8, <1>10, <2>1, <2>2, <2>3 DEF LinkOf
<1>. QED BY <1>9, <1>10

\* end(): the last words and 'end' reach whoever follows.
LEMMA LinkEnded ==
  ASSUME NEW e \in Entry, NEW s, NEW h, NEW k, NEW w \in Tape, NEW d \in Tape, NEW r,
         LinkOf(e, s, h, k, w, d, r), e.state = "open",
         NEW l,
         l = IF Closed(e.buffer) THEN <<>> ELSE <<"error">>
  PROVE  /\ Finished(e, l) \in Entry /\ Written(h, w, l) \in Tape
         /\ LinkOf(Finished(e, l), s, AtEnd(h), k, Written(h, w, l), d, r)
<1> DEFINE b == e.buffer
           c == b \o l
           e2 == Finished(e, l)
           w2 == Written(h, w, l)
           h2 == AtEnd(h)
<1>. SUFFICES e2 \in Entry /\ w2 \in Tape /\ LinkOf(e2, s, h2, k, w2, d, r)
  OBVIOUS
<1>0. /\ w2 = IF h = "live" THEN w \o l ELSE w
      /\ h2 = IF h = "live" THEN "finished" ELSE h
  BY DEF Written, AtEnd
<1>1. b \in Tape /\ b # <<>> /\ Sound(b, r) /\ Shape(b)
  BY DEF Entry, Tape, StreamEntry, LinkOf, EntrySound, Sound
<1>2. /\ c \in Tape /\ Closed(c) /\ Sound(c, r) /\ c # <<>>
      /\ h = "live" => w2 \in Tape /\ d \o w2 = c
  <2>1. CASE Closed(b)
    <3>1. c = b /\ (h = "live" => w2 = w)
      BY <1>0, <2>1, ConcatEmptySeq, <1>1 DEF Tape
    <3>. QED BY <1>1, <2>1, <3>1 DEF LinkOf
  <2>2. CASE ~Closed(b)
    <3>1. "error" \in StreamEvent /\ "error" \in ClosingType
      BY DEF StreamEvent, ClosingType
    <3>2. l = <<"error">> /\ c = Append(b, "error")
      BY <1>1, <2>2, <3>1, AppendIsConcat DEF Tape
    <3> HIDE DEF c
    <3>3. /\ Append(b, "error") \in Tape /\ Append(b, "error") # <<>>
          /\ Append(b, "error")[Len(Append(b, "error"))] = "error"
          /\ Shape(Append(b, "error")) /\ Closed(Append(b, "error"))
      BY <1>1, <2>2, <3>1, AppendSound DEF Tape
    <3>4. h = "live" => w2 \in Tape /\ d \o w2 = c
      <4>1. w \o l \in Tape /\ d \o (w \o l) = Append(d \o w, "error")
        <5>1. w \in Seq(StreamEvent) /\ d \in Seq(StreamEvent)
          BY DEF Tape
        <5>2. w \o <<"error">> \in Tape
              /\ d \o (w \o <<"error">>) = Append(d \o w, "error")
          BY <3>1, <5>1, EmitConcat DEF Tape
        <5>. QED BY <3>2, <5>2
      <4>2. h = "live" => d \o w = b
        BY DEF LinkOf
      <4>. QED BY <1>0, <3>2, <4>1, <4>2
    <3>5. c \in Tape /\ c # <<>> /\ c[Len(c)] = "error" /\ Shape(c) /\ Closed(c)
      BY <3>2, <3>3
    <3>. QED BY <3>4, <3>5 DEF Sound, Told
  <2>. QED BY <2>1, <2>2
<1>3. e2.state = "ended" /\ e2.buffer = c /\ e2 \in Entry
  BY <1>2 DEF Entry, Tape, StreamEntry, Finished
<1> HIDE DEF c, e2, w2, h2
<1>4. EntrySound(e2, r)
  BY <1>2, <1>3 DEF EntrySound
<1>5. CASE h = "live"
  BY <1>0, <1>2, <1>3, <1>4, <1>5 DEF LinkOf
<1>6. CASE h # "live"
  <2>1. w2 = w /\ h2 = h /\ h # "finished" /\ w = <<>> /\ d = <<>>
    BY <1>0, <1>6 DEF LinkOf
  <2>. QED BY <1>3, <1>4, <1>6, <2>1, EmptyEvents DEF LinkOf
<1>. QED BY <1>5, <1>6

\* The grace timer: a handler between look-up and subscription keeps the entry.
LEMMA LinkExpired ==
  ASSUME NEW e, NEW s, NEW h, NEW k, NEW w, NEW d, NEW r,
         LinkOf(e, s, h, k, w, d, r), e.state = "ended",
         NEW k2, k2 = IF h = "resolved" THEN e ELSE k
  PROVE  LinkOf(NoEntry, s, h, k2, w, d, r)
<1>1. NoEntry.state = "absent" /\ NoEntry.buffer = <<>>
  BY DEF NoEntry
<1>2. EntrySound(NoEntry, r)
  BY <1>1, EmptyEvents DEF EntrySound
<1>. QED BY <1>1, <1>2 DEF LinkOf

LEMMA LinkLookedUp ==
  ASSUME NEW e, NEW k, NEW w, NEW d, NEW r,
         LinkOf(e, "open", "none", k, w, d, r),
         NEW h2, h2 = IF e.state = "absent" THEN "refused" ELSE "resolved"
  PROVE  LinkOf(e, "open", h2, k, w, d, r)
BY DEF LinkOf

\* The subscription replays the buffer, of an entry the map may have lost.
LEMMA LinkSubscribed ==
  ASSUME NEW e \in Entry, NEW s, NEW k \in Entry, NEW w, NEW d, NEW r,
         LinkOf(e, s, "resolved", k, w, d, r),
         NEW f, f = IF e.state = "absent" THEN k ELSE e,
         NEW h2, h2 = IF f.state = "ended" THEN "finished" ELSE "live",
         NEW k2
  PROVE  f.buffer \in Tape /\ LinkOf(e, s, h2, k2, f.buffer, d, r)
<1>1. f \in Entry /\ f.state \in {"open", "ended"} /\ EntrySound(f, r)
  BY DEF LinkOf, Entry, StreamEntry
<1>2. f.buffer \in Tape
  BY <1>1 DEF Entry, StreamEntry, Tape
<1>3. d = <<>>
  BY DEF LinkOf
<1>4. d \o f.buffer = f.buffer
  BY <1>2, <1>3, ConcatEmptySeq DEF Tape
<1>5. f.state = "open" => e.state = "open"
  BY <1>1 DEF LinkOf
<1>6. f.state = "ended" => e.state # "open"
  BY <1>1
<1>7. e.state # "absent" => f = e
  OBVIOUS
<1>. QED BY <1>1, <1>2, <1>4, <1>5, <1>6, <1>7 DEF LinkOf, EntrySound

LEMMA LinkDispatched ==
  ASSUME NEW e, NEW s, NEW h, NEW k, NEW w \in Tape, NEW d \in Tape, NEW r,
         LinkOf(e, s, h, k, w, d, r), w # <<>>
  PROVE  /\ Tail(w) \in Tape /\ Append(d, Head(w)) \in Tape
         /\ LinkOf(e, s, h, k, Tail(w), Append(d, Head(w)), r)
BY DispatchConcat DEF LinkOf, Tape

LEMMA LinkLost ==
  ASSUME NEW e, NEW s, NEW h, NEW k, NEW w, NEW d, NEW r, LinkOf(e, s, h, k, w, d, r),
         NEW h2, h2 = IF h \in {"none", "refused"} THEN h ELSE "broken", NEW k2
  PROVE  LinkOf(NoEntry, s, h2, k2, <<>>, <<>>, r)
<1>1. NoEntry.state = "absent" /\ NoEntry.buffer = <<>>
  BY DEF NoEntry
<1>2. EntrySound(NoEntry, r)
  BY <1>1, EmptyEvents DEF EntrySound
<1>. QED BY <1>1, <1>2, EmptyEvents DEF LinkOf
-----------------------------------------------------------------------------
\* What each step makes of all links.

Linked == RelayTypeOK /\ \A i \in Inference : Link(i)

Same(j) ==
  /\ streams'[j] = streams[j] /\ source'[j] = source[j] /\ handler'[j] = handler[j]
  /\ kept'[j] = kept[j] /\ wire'[j] = wire[j] /\ received'[j] = received[j]
  /\ row'[j] = row[j]

LEMMA LinkedAt ==
  ASSUME Linked, RelayTypeOK', NEW i \in Inference, Link(i)',
         \A j \in Inference \ {i} : Same(j)
  PROVE  Linked'
<1>1. ASSUME NEW j \in Inference \ {i} PROVE Link(j)'
  <2>1. Link(j) /\ Same(j)
    BY DEF Linked
  <2>. QED BY <2>1 DEF Link, Same
<1>. QED BY <1>1 DEF Linked

LEMMA LinkTypes ==
  ASSUME Linked, NEW i \in Inference
  PROVE  /\ streams[i] \in Entry /\ source[i] \in {"none", "open", "closed"}
         /\ handler[i] \in HandlerState /\ kept[i] \in Entry
         /\ wire[i] \in Tape /\ received[i] \in Tape
         /\ LinkOf(streams[i], source[i], handler[i], kept[i], wire[i], received[i],
                   row[i])
BY DEF Linked, RelayTypeOK, Link, Entry, Tape

LEMMA RelayTypes ==
  RelayTypeOK <=>
    /\ streams \in [Inference -> Entry]
    /\ source \in [Inference -> {"none", "open", "closed"}]
    /\ handler \in [Inference -> HandlerState]
    /\ kept \in [Inference -> Entry]
    /\ wire \in [Inference -> Tape]
    /\ received \in [Inference -> Tape]
    /\ drops \in 0..MaxDrops
    /\ crashes \in 0..MaxCrashes
BY DEF RelayTypeOK, Entry, Tape

LEMMA EmptyValues == NoEntry \in Entry /\ <<>> \in Tape /\ NoEntry.state = "absent"
BY EmptyEvents DEF NoEntry, Entry, Tape, StreamEntry

LEMMA PublishedOpen ==
  ASSUME NEW e \in Entry, e.state = "open", NEW x
  PROVE  Published(e, x) = [state |-> "open", buffer |-> Append(e.buffer, x)]
BY DEF Published, Entry, StreamEntry

LEMMA OpenedLinked ==
  ASSUME Linked, NEW i \in Inference, RelayOpen(i), handler[i] = "none",
         row' = [row EXCEPT ![i].status = "streaming"], row \in [Inference -> Row]
  PROVE  Linked'
<1>1. /\ streams[i].state = "absent"
      /\ streams' = [streams EXCEPT ![i] = Published(Opened, "message_start")]
      /\ UNCHANGED <<source, handler, kept, wire, received, drops, crashes>>
  BY DEF RelayOpen, OpenStream, connection
<1>2. Published(Opened, "message_start") =
        [state |-> "open", buffer |-> <<"message_start">>]
  BY DEF Published, Opened
<1>3. [state |-> "open", buffer |-> <<"message_start">>] \in Entry
  BY FirstEvent DEF Entry, StreamEntry
<1>4. RelayTypeOK
  BY DEF Linked
<1>5. RelayTypeOK'
  BY <1>1, <1>2, <1>3, <1>4 DEF RelayTypeOK, Entry
<1>6. /\ streams'[i] = [state |-> "open", buffer |-> <<"message_start">>]
      /\ row'[i].status = "streaming"
      /\ \A j \in Inference \ {i} : Same(j)
  BY <1>1, <1>2, <1>4 DEF RelayTypeOK, Same, Row
<1>7. Link(i)'
  <2>1. LinkOf(streams[i], source[i], "none", kept[i], wire[i], received[i], row[i])
    BY LinkTypes
  <2>2. LinkOf(streams'[i], source[i], "none", kept[i], wire[i], received[i], row'[i])
    BY <1>6, <2>1, LinkOpened
  <2>. QED BY <1>1, <2>2 DEF Link
<1>. QED BY <1>5, <1>6, <1>7, LinkedAt

\* publish(), of a token or a closing event.
LEMMA PublishedLinked ==
  ASSUME Linked, NEW i \in Inference,
         NEW x \in StreamEvent, x # "message_start",
         streams[i].state = "open", ~Closed(streams[i].buffer),
         streams' = [streams EXCEPT ![i] = Published(@, x)],
         Emit(i, <<x>>),
         UNCHANGED <<source, handler, kept, received, drops, crashes>>,
         \A j \in Inference \ {i} : row'[j] = row[j],
         x = "token" => row'[i] = row[i],
         x \in ClosingType /\ x # "error" =>
           /\ row'[i].status = StatusOf(x)
           /\ row'[i].content = Len(streams[i].buffer) - 1
  PROVE  Linked'
<1> DEFINE w2 == Written(handler[i], wire[i], <<x>>)
           e2 == Longer(streams[i], x)
<1>1. /\ RelayTypeOK
      /\ streams \in [Inference -> Entry] /\ wire \in [Inference -> Tape]
  BY RelayTypes DEF Linked
<1>2. /\ streams[i] \in Entry /\ wire[i] \in Tape /\ received[i] \in Tape
      /\ LinkOf(streams[i], source[i], handler[i], kept[i], wire[i], received[i], row[i])
  BY LinkTypes
<1>3. /\ e2 \in Entry /\ w2 \in Tape
      /\ LinkOf(e2, source[i], handler[i], kept[i], w2, received[i], row'[i])
  BY <1>2, LinkPublished
<1>4. streams' = [streams EXCEPT ![i] = e2]
  BY <1>1, <1>2, PublishedOpen DEF Longer
<1>5. wire' = [wire EXCEPT ![i] = w2]
  BY <1>1 DEF Emit, Written
<1> HIDE DEF e2, w2
<1>6. streams' \in [Inference -> Entry] /\ wire' \in [Inference -> Tape]
  BY <1>1, <1>3, <1>4, <1>5
<1>7. RelayTypeOK'
  BY <1>1, <1>6 DEF RelayTypeOK, Entry, Tape
<1>8. streams'[i] = e2 /\ wire'[i] = w2
  BY <1>1, <1>4, <1>5
<1>9. \A j \in Inference \ {i} : Same(j)
  BY <1>1, <1>4, <1>5 DEF Same
<1>10. Link(i)'
  BY <1>3, <1>8 DEF Link
<1>. QED BY <1>7, <1>9, <1>10, LinkedAt

LEMMA TokenLinked ==
  ASSUME Linked, NEW i \in Inference, RelayToken(i), row' = row PROVE Linked'
<1>1. "token" \in StreamEvent /\ "token" \notin ClosingType
  BY DEF StreamEvent, ClosingType
<1>2. /\ streams[i].state = "open" /\ ~Closed(streams[i].buffer)
      /\ streams' = [streams EXCEPT ![i] = Published(@, "token")]
      /\ Emit(i, <<"token">>)
      /\ UNCHANGED <<source, handler, kept, received, drops, crashes>>
  BY DEF RelayToken, PublishToken
<1>. QED BY <1>1, <1>2, PublishedLinked

LEMMA ClosingLinked ==
  ASSUME Linked, NEW i \in Inference, NEW e \in ClosingType, RelayClosing(i, e),
         row' = [row EXCEPT ![i] = [status |-> StatusOf(e),
                                    content |-> Len(streams[i].buffer) - 1]],
         row \in [Inference -> Row]
  PROVE  Linked'
<1>1. e \in StreamEvent /\ e # "message_start" /\ e # "token"
  BY DEF StreamEvent, ClosingType
<1>2. /\ streams[i].state = "open" /\ ~Closed(streams[i].buffer)
      /\ streams' = [streams EXCEPT ![i] = Published(@, e)]
      /\ Emit(i, <<e>>)
      /\ UNCHANGED <<source, handler, kept, received, drops, crashes>>
  BY DEF RelayClosing, PublishClosing
<1>3. /\ row'[i].status = StatusOf(e)
      /\ row'[i].content = Len(streams[i].buffer) - 1
      /\ \A j \in Inference \ {i} : row'[j] = row[j]
  OBVIOUS
<1>. QED BY <1>1, <1>2, <1>3, PublishedLinked

LEMMA EndedLinked ==
  ASSUME Linked, NEW i \in Inference, RelayEnd(i), row' = row PROVE Linked'
<1> DEFINE l == LastWords(i)
           e2 == Finished(streams[i], l)
           w2 == Written(handler[i], wire[i], l)
           h2 == AtEnd(handler[i])
<1>1. /\ streams[i].state = "open"
      /\ streams' = [streams EXCEPT
                       ![i] = [state |-> "ended", buffer |-> @.buffer \o l]]
      /\ wire' = IF handler[i] = "live" THEN [wire EXCEPT ![i] = @ \o l] ELSE wire
      /\ handler' = IF handler[i] = "live" THEN [handler EXCEPT ![i] = "finished"]
                                           ELSE handler
      /\ UNCHANGED <<source, kept, received, drops, crashes>>
  BY DEF RelayEnd, EndStream, Emit
<1>2. /\ RelayTypeOK /\ streams \in [Inference -> Entry]
      /\ handler \in [Inference -> HandlerState] /\ wire \in [Inference -> Tape]
  BY RelayTypes DEF Linked
<1>3. /\ streams[i] \in Entry /\ wire[i] \in Tape /\ received[i] \in Tape
      /\ handler[i] \in HandlerState
      /\ LinkOf(streams[i], source[i], handler[i], kept[i], wire[i], received[i], row[i])
  BY LinkTypes
<1>4. l = IF Closed(streams[i].buffer) THEN <<>> ELSE <<"error">>
  BY DEF LastWords
<1> HIDE DEF l
<1>5. /\ e2 \in Entry /\ w2 \in Tape
      /\ LinkOf(e2, source[i], h2, kept[i], w2, received[i], row[i])
  BY <1>1, <1>3, <1>4, LinkEnded
<1>6. h2 \in HandlerState
  BY <1>3 DEF HandlerState, AtEnd
<1>7. streams' = [streams EXCEPT ![i] = e2]
  BY <1>1 DEF Finished
<1>8. wire' = [wire EXCEPT ![i] = w2] /\ handler' = [handler EXCEPT ![i] = h2]
  BY <1>1, <1>2 DEF Written, AtEnd
<1> HIDE DEF e2, w2, h2
<1>9. /\ streams' \in [Inference -> Entry] /\ wire' \in [Inference -> Tape]
      /\ handler' \in [Inference -> HandlerState]
  BY <1>2, <1>5, <1>6, <1>7, <1>8
<1>10. RelayTypeOK'
  BY <1>1, <1>2, <1>9 DEF RelayTypeOK, Entry, Tape
<1>11. streams'[i] = e2 /\ wire'[i] = w2 /\ handler'[i] = h2
  BY <1>2, <1>7, <1>8
<1>12. \A j \in Inference \ {i} : Same(j)
  BY <1>1, <1>2, <1>7, <1>8 DEF Same
<1>13. Link(i)'
  BY <1>1, <1>5, <1>11 DEF Link
<1>. QED BY <1>10, <1>12, <1>13, LinkedAt

LEMMA ExpiredLinked ==
  ASSUME Linked, NEW i \in Inference, RelayExpire(i), row' = row PROVE Linked'
<1> DEFINE k2 == IF handler[i] = "resolved" THEN streams[i] ELSE kept[i]
<1>1. /\ streams[i].state = "ended" /\ streams' = [streams EXCEPT ![i] = NoEntry]
      /\ kept' = IF handler[i] = "resolved" THEN [kept EXCEPT ![i] = streams[i]] ELSE kept
      /\ UNCHANGED <<source, handler, wire, received, drops, crashes>>
  BY DEF RelayExpire, ExpireStream
<1>2. /\ RelayTypeOK /\ streams \in [Inference -> Entry] /\ kept \in [Inference -> Entry]
  BY RelayTypes DEF Linked
<1>3. /\ streams[i] \in Entry /\ kept[i] \in Entry
      /\ LinkOf(streams[i], source[i], handler[i], kept[i], wire[i], received[i], row[i])
  BY LinkTypes
<1>4. LinkOf(NoEntry, source[i], handler[i], k2, wire[i], received[i], row[i])
  BY <1>1, <1>3, LinkExpired
<1>5. kept' = [kept EXCEPT ![i] = k2] /\ k2 \in Entry
  BY <1>1, <1>2, <1>3
<1> HIDE DEF k2
<1>6. streams' \in [Inference -> Entry] /\ kept' \in [Inference -> Entry]
  BY <1>1, <1>2, <1>5, EmptyValues
<1>7. RelayTypeOK'
  BY <1>1, <1>2, <1>6 DEF RelayTypeOK, Entry
<1>8. streams'[i] = NoEntry /\ kept'[i] = k2
  BY <1>1, <1>2, <1>5
<1>9. \A j \in Inference \ {i} : Same(j)
  BY <1>1, <1>2, <1>5 DEF Same
<1>10. Link(i)'
  BY <1>1, <1>4, <1>8 DEF Link
<1>. QED BY <1>7, <1>9, <1>10, LinkedAt

LEMMA LookupLinked ==
  ASSUME Linked, NEW i \in Inference, Lookup(i), row' = row PROVE Linked'
<1> DEFINE h2 == IF streams[i].state = "absent" THEN "refused" ELSE "resolved"
<1>1. /\ source[i] = "open" /\ handler[i] = "none"
      /\ handler' = [handler EXCEPT ![i] = h2]
      /\ UNCHANGED <<streams, source, kept, wire, received, drops, crashes>>
  BY DEF Lookup
<1>2. RelayTypeOK /\ handler \in [Inference -> HandlerState]
  BY RelayTypes DEF Linked
<1>3. LinkOf(streams[i], "open", "none", kept[i], wire[i], received[i], row[i])
  BY <1>1, LinkTypes
<1>4. LinkOf(streams[i], "open", h2, kept[i], wire[i], received[i], row[i])
  BY <1>3, LinkLookedUp
<1>5. h2 \in HandlerState
  BY DEF HandlerState
<1> HIDE DEF h2
<1>6. handler' \in [Inference -> HandlerState] /\ handler'[i] = h2
  BY <1>1, <1>2, <1>5
<1>7. RelayTypeOK'
  BY <1>1, <1>2, <1>6 DEF RelayTypeOK
<1>8. \A j \in Inference \ {i} : Same(j)
  BY <1>1, <1>2 DEF Same
<1>9. Link(i)'
  BY <1>1, <1>4, <1>6 DEF Link
<1>. QED BY <1>7, <1>8, <1>9, LinkedAt

LEMMA SubscribedLinked ==
  ASSUME Linked, NEW i \in Inference, Subscribe(i), row' = row PROVE Linked'
<1> DEFINE f == Referenced(i)
           h2 == IF f.state = "ended" THEN "finished" ELSE "live"
<1>1. /\ handler[i] = "resolved"
      /\ wire' = [wire EXCEPT ![i] = f.buffer]
      /\ handler' = [handler EXCEPT ![i] = h2]
      /\ kept' = [kept EXCEPT ![i] = NoEntry]
      /\ UNCHANGED <<streams, source, received, drops, crashes>>
  BY DEF Subscribe
<1>2. /\ RelayTypeOK /\ handler \in [Inference -> HandlerState]
      /\ wire \in [Inference -> Tape] /\ kept \in [Inference -> Entry]
  BY RelayTypes DEF Linked
<1>3. /\ streams[i] \in Entry /\ kept[i] \in Entry
      /\ LinkOf(streams[i], source[i], "resolved", kept[i], wire[i], received[i], row[i])
  BY <1>1, LinkTypes
<1>4. f = IF streams[i].state = "absent" THEN kept[i] ELSE streams[i]
  BY DEF Referenced
<1> HIDE DEF f
<1>5. /\ f.buffer \in Tape
      /\ LinkOf(streams[i], source[i], h2, NoEntry, f.buffer, received[i], row[i])
  BY <1>3, <1>4, LinkSubscribed
<1>6. h2 \in HandlerState
  BY DEF HandlerState
<1> HIDE DEF h2
<1>7. /\ handler' \in [Inference -> HandlerState] /\ handler'[i] = h2
      /\ wire' \in [Inference -> Tape] /\ wire'[i] = f.buffer
      /\ kept' \in [Inference -> Entry] /\ kept'[i] = NoEntry
  BY <1>1, <1>2, <1>5, <1>6, EmptyValues
<1>8. RelayTypeOK'
  BY <1>1, <1>2, <1>7 DEF RelayTypeOK, Entry, Tape
<1>9. \A j \in Inference \ {i} : Same(j)
  BY <1>1, <1>2 DEF Same
<1>10. Link(i)'
  BY <1>1, <1>5, <1>7 DEF Link
<1>. QED BY <1>8, <1>9, <1>10, LinkedAt

\* A connection is reset, and its EventSource perhaps opened or closed.
LEMMA ResetLinked ==
  ASSUME Linked, NEW i \in Inference,
         NEW h2 \in {"none", "refused", "broken"}, Reset(i, h2),
         NEW s2 \in {"open", "closed"}, h2 # "none" => s2 = "open",
         source' = [source EXCEPT ![i] = s2],
         drops' \in 0..MaxDrops, UNCHANGED <<streams, crashes, row>>
  PROVE  Linked'
<1>1. /\ handler' = [handler EXCEPT ![i] = h2] /\ kept' = [kept EXCEPT ![i] = NoEntry]
      /\ wire' = [wire EXCEPT ![i] = <<>>] /\ received' = [received EXCEPT ![i] = <<>>]
  BY DEF Reset
<1>2. /\ RelayTypeOK /\ handler \in [Inference -> HandlerState]
      /\ wire \in [Inference -> Tape] /\ kept \in [Inference -> Entry]
      /\ received \in [Inference -> Tape]
      /\ source \in [Inference -> {"none", "open", "closed"}]
  BY RelayTypes DEF Linked
<1>3. LinkOf(streams[i], source[i], handler[i], kept[i], wire[i], received[i], row[i])
  BY LinkTypes
<1>4. LinkOf(streams[i], s2, h2, NoEntry, <<>>, <<>>, row[i])
  BY <1>3, LinkReset
<1>5. h2 \in HandlerState
  BY DEF HandlerState
<1>6. /\ handler' \in [Inference -> HandlerState] /\ handler'[i] = h2
      /\ wire' \in [Inference -> Tape] /\ wire'[i] = <<>>
      /\ kept' \in [Inference -> Entry] /\ kept'[i] = NoEntry
      /\ received' \in [Inference -> Tape] /\ received'[i] = <<>>
      /\ source' \in [Inference -> {"none", "open", "closed"}] /\ source'[i] = s2
  BY <1>1, <1>2, <1>5, EmptyValues
<1>7. RelayTypeOK'
  BY <1>2, <1>6 DEF RelayTypeOK, Entry, Tape
<1>8. \A j \in Inference \ {i} : Same(j)
  BY <1>1, <1>2 DEF Same
<1>9. Link(i)'
  BY <1>4, <1>6 DEF Link
<1>. QED BY <1>7, <1>8, <1>9, LinkedAt

LEMMA CloseSourceLinked ==
  ASSUME Linked, NEW i \in Inference, CloseSource(i), row' = row PROVE Linked'
<1>1. drops' \in 0..MaxDrops
  BY DEF CloseSource, Linked, RelayTypeOK
<1>. QED BY <1>1, ResetLinked DEF CloseSource

LEMMA DispatchErrorLinked ==
  ASSUME Linked, NEW i \in Inference, DispatchError(i), row' = row PROVE Linked'
<1>1. drops' \in 0..MaxDrops
  BY DEF DispatchError, Linked, RelayTypeOK
<1>. QED BY <1>1, ResetLinked DEF DispatchError

LEMMA BreakLinked ==
  ASSUME Linked, NEW i \in Inference, BreakConnection(i), row' = row PROVE Linked'
<1>1. /\ drops < MaxDrops /\ drops' = drops + 1 /\ source[i] = "open" /\ source' = source
      /\ Reset(i, "broken") /\ UNCHANGED <<streams, crashes, row>>
  BY DEF BreakConnection
<1>2. drops' \in 0..MaxDrops /\ source' = [source EXCEPT ![i] = "open"]
  BY <1>1, RelayAssumption DEF Linked, RelayTypeOK
<1>. QED BY <1>1, <1>2, ResetLinked

LEMMA OpenSourceLinked ==
  ASSUME Linked, NEW i \in Inference, OpenSource(i), row' = row PROVE Linked'
<1>1. /\ source[i] = "none" /\ source' = [source EXCEPT ![i] = "open"]
      /\ UNCHANGED <<streams, handler, kept, wire, received, drops, crashes>>
  BY DEF OpenSource
<1>2. RelayTypeOK /\ source \in [Inference -> {"none", "open", "closed"}]
  BY RelayTypes DEF Linked
<1>3. LinkOf(streams[i], source[i], handler[i], kept[i], wire[i], received[i], row[i])
  BY LinkTypes
<1>4. LinkOf(streams[i], "open", handler[i], kept[i], wire[i], received[i], row[i])
  BY <1>3 DEF LinkOf
<1>5. RelayTypeOK'
  BY <1>1, <1>2 DEF RelayTypeOK
<1>6. source'[i] = "open" /\ \A j \in Inference \ {i} : Same(j)
  BY <1>1, <1>2 DEF Same
<1>7. Link(i)'
  BY <1>1, <1>4, <1>6 DEF Link
<1>. QED BY <1>5, <1>6, <1>7, LinkedAt

LEMMA DispatchLinked ==
  ASSUME Linked, NEW i \in Inference, DispatchEvent(i), row' = row PROVE Linked'
<1>1. /\ wire[i] # <<>> /\ wire' = [wire EXCEPT ![i] = Tail(@)]
      /\ received' = [received EXCEPT ![i] = Append(@, Head(wire[i]))]
      /\ UNCHANGED <<streams, source, handler, kept, drops, crashes>>
  BY DEF DispatchEvent
<1>2. /\ RelayTypeOK /\ wire \in [Inference -> Tape] /\ received \in [Inference -> Tape]
  BY RelayTypes DEF Linked
<1>3. /\ wire[i] \in Tape /\ received[i] \in Tape
      /\ LinkOf(streams[i], source[i], handler[i], kept[i], wire[i], received[i], row[i])
  BY LinkTypes
<1> DEFINE t == Tail(wire[i])
           a == Append(received[i], Head(wire[i]))
<1>4. /\ t \in Tape /\ a \in Tape
      /\ LinkOf(streams[i], source[i], handler[i], kept[i], t, a, row[i])
  BY <1>1, <1>3, LinkDispatched
<1>5. wire' = [wire EXCEPT ![i] = t] /\ received' = [received EXCEPT ![i] = a]
  BY <1>1, <1>2
<1> HIDE DEF t, a
<1>6. /\ wire' \in [Inference -> Tape] /\ received' \in [Inference -> Tape]
      /\ wire'[i] = t /\ received'[i] = a
      /\ \A j \in Inference \ {i} : wire'[j] = wire[j] /\ received'[j] = received[j]
  BY <1>2, <1>4, <1>5
<1>7. RelayTypeOK'
  BY <1>1, <1>2, <1>6 DEF RelayTypeOK, Tape
<1>8. \A j \in Inference \ {i} : Same(j)
  BY <1>1, <1>6 DEF Same
<1>9. Link(i)'
  BY <1>1, <1>4, <1>6 DEF Link
<1>. QED BY <1>7, <1>8, <1>9, LinkedAt

\* An event is dispatched, and its callback closes an EventSource.
LEMMA DispatchCloseLinked ==
  ASSUME Linked, NEW i \in Inference, NEW j \in Inference, DispatchAndClose(i, j),
         row' = row
  PROVE  Linked'
<1> DEFINE t == Tail(wire[i])
           a == Append(received[i], Head(wire[i]))
<1>1. /\ source[j] = "open" /\ wire[i] # <<>>
      /\ source' = [source EXCEPT ![j] = "closed"]
      /\ handler' = [handler EXCEPT ![j] = "none"]
      /\ kept' = [kept EXCEPT ![j] = NoEntry]
      /\ wire' = [wire EXCEPT ![i] = Tail(@), ![j] = <<>>]
      /\ received' = [received EXCEPT ![i] = Append(@, Head(wire[i])), ![j] = <<>>]
      /\ UNCHANGED <<streams, drops, crashes>>
  BY DEF DispatchAndClose
<1>2. /\ RelayTypeOK /\ handler \in [Inference -> HandlerState]
      /\ wire \in [Inference -> Tape] /\ kept \in [Inference -> Entry]
      /\ received \in [Inference -> Tape]
      /\ source \in [Inference -> {"none", "open", "closed"}]
  BY RelayTypes DEF Linked
<1>3. /\ wire[i] \in Tape /\ received[i] \in Tape
      /\ LinkOf(streams[i], source[i], handler[i], kept[i], wire[i], received[i], row[i])
      /\ LinkOf(streams[j], source[j], handler[j], kept[j], wire[j], received[j], row[j])
  BY LinkTypes
<1>4. /\ t \in Tape /\ a \in Tape
      /\ LinkOf(streams[i], source[i], handler[i], kept[i], t, a, row[i])
  BY <1>1, <1>3, LinkDispatched
<1>5. /\ wire' = [[wire EXCEPT ![i] = t] EXCEPT ![j] = <<>>]
      /\ received' = [[received EXCEPT ![i] = a] EXCEPT ![j] = <<>>]
  BY <1>1, <1>2
<1> HIDE DEF t, a
<1>6. "none" \in HandlerState
  BY DEF HandlerState
<1>7. /\ wire' \in [Inference -> Tape] /\ received' \in [Inference -> Tape]
      /\ wire'[j] = <<>> /\ received'[j] = <<>>
      /\ i # j => wire'[i] = t /\ received'[i] = a
      /\ \A l \in Inference \ {i, j} : wire'[l] = wire[l] /\ received'[l] = received[l]
  BY <1>2, <1>4, <1>5, EmptyValues
<1>8. /\ source' \in [Inference -> {"none", "open", "closed"}] /\ source'[j] = "closed"
      /\ handler' \in [Inference -> HandlerState] /\ handler'[j] = "none"
      /\ kept' \in [Inference -> Entry] /\ kept'[j] = NoEntry
      /\ \A l \in Inference \ {j} :
           source'[l] = source[l] /\ handler'[l] = handler[l] /\ kept'[l] = kept[l]
  BY <1>1, <1>2, <1>6, EmptyValues
<1>9. RelayTypeOK'
  BY <1>1, <1>2, <1>7, <1>8 DEF RelayTypeOK, Entry, Tape
<1>10. Link(j)'
  <2>1. LinkOf(streams[j], "closed", "none", NoEntry, <<>>, <<>>, row[j])
    BY <1>3, LinkReset
  <2>. QED BY <1>1, <1>7, <1>8, <2>1 DEF Link
<1>11. i # j => Link(i)'
  BY <1>1, <1>4, <1>7, <1>8 DEF Link
<1>12. ASSUME NEW l \in Inference \ {i, j} PROVE Link(l)'
  <2>1. Link(l)
    BY DEF Linked
  <2>. QED BY <1>1, <1>7, <1>8, <2>1 DEF Link
<1>. QED BY <1>9, <1>10, <1>11, <1>12 DEF Linked

LEMMA CloseAllLinked ==
  ASSUME Linked, CloseAllSources, row' = row PROVE Linked'
<1>1. /\ source' = [i \in Inference |-> IF source[i] = "open" THEN "closed" ELSE source[i]]
      /\ handler' = [i \in Inference |-> "none"]
      /\ kept' = [i \in Inference |-> NoEntry]
      /\ wire' = [i \in Inference |-> <<>>]
      /\ received' = [i \in Inference |-> <<>>]
      /\ UNCHANGED <<streams, drops, crashes>>
  BY DEF CloseAllSources
<1>2. RelayTypeOK /\ source \in [Inference -> {"none", "open", "closed"}]
  BY RelayTypes DEF Linked
<1>3. source' \in [Inference -> {"none", "open", "closed"}] /\ "none" \in HandlerState
  BY <1>1, <1>2 DEF HandlerState
<1>4. RelayTypeOK'
  BY <1>1, <1>2, <1>3, EmptyValues DEF RelayTypeOK, Entry, Tape
<1>5. ASSUME NEW i \in Inference PROVE Link(i)'
  <2>1. LinkOf(streams[i], source[i], handler[i], kept[i], wire[i], received[i], row[i])
    BY LinkTypes
  <2>2. LinkOf(streams[i], source'[i], "none", NoEntry, <<>>, <<>>, row[i])
    BY <2>1, LinkReset
  <2>. QED BY <1>1, <2>2 DEF Link
<1>. QED BY <1>4, <1>5 DEF Linked

LEMMA CrashLinked ==
  ASSUME Linked, CrashApi, row' = row PROVE Linked'
<1>1. /\ crashes < MaxCrashes /\ crashes' = crashes + 1
      /\ streams' = [i \in Inference |-> NoEntry]
      /\ handler' = [i \in Inference |->
                       IF handler[i] \in {"none", "refused"} THEN handler[i] ELSE "broken"]
      /\ kept' = [i \in Inference |-> NoEntry]
      /\ wire' = [i \in Inference |-> <<>>]
      /\ received' = [i \in Inference |-> <<>>]
      /\ UNCHANGED <<source, drops>>
  BY DEF CrashApi, LoseStreams
<1>2. RelayTypeOK /\ handler \in [Inference -> HandlerState]
  BY RelayTypes DEF Linked
<1>3. handler' \in [Inference -> HandlerState]
  BY <1>1, <1>2 DEF HandlerState
<1>4. crashes' \in 0..MaxCrashes
  BY <1>1, <1>2, RelayAssumption DEF RelayTypeOK
<1>5. RelayTypeOK'
  BY <1>1, <1>2, <1>3, <1>4, EmptyValues DEF RelayTypeOK, Entry, Tape
<1>6. ASSUME NEW i \in Inference PROVE Link(i)'
  <2>1. LinkOf(streams[i], source[i], handler[i], kept[i], wire[i], received[i], row[i])
    BY LinkTypes
  <2>2. LinkOf(NoEntry, source[i], handler'[i], NoEntry, <<>>, <<>>, row[i])
    BY <1>1, <2>1, LinkLost
  <2>. QED BY <1>1, <2>2 DEF Link
<1>. QED BY <1>5, <1>6 DEF Linked

LEMMA StutterLinked ==
  ASSUME Linked, UNCHANGED <<relayVars, row>> PROVE Linked'
<1>1. UNCHANGED <<streams, source, handler, kept, wire, received, drops, crashes, row>>
  BY DEF relayVars, connection
<1>2. RelayTypeOK'
  BY <1>1 DEF Linked, RelayTypeOK
<1>3. \A i \in Inference : Link(i)'
  BY <1>1 DEF Linked, Link
<1>. QED BY <1>2, <1>3 DEF Linked
-----------------------------------------------------------------------------
\* The links through the steps of the client and of the API behind it.

SourceKept == \A j \in Inference : source[j] = "none" => source'[j] = "none"
OpenKept == \A j \in Inference : source'[j] = "open" => source[j] = "open"

LEMMA LinkInvLinked == LinkInv => Linked
BY DEF LinkInv, Linked

\* What a page that does not open an EventSource can do to the links.
Quiet(i) ==
  \/ RelayToken(i) \/ RelayEnd(i) \/ RelayExpire(i) \/ Lookup(i) \/ Subscribe(i)
  \/ BreakConnection(i) \/ DispatchEvent(i) \/ DispatchError(i) \/ CloseSource(i)
  \/ \E j \in Inference : DispatchAndClose(i, j)

LEMMA QuietLinked ==
  ASSUME Linked, NEW i \in Inference, Quiet(i), row' = row
  PROVE  Linked' /\ SourceKept /\ OpenKept
<1>0. source \in [Inference -> {"none", "open", "closed"}]
  BY DEF Linked, RelayTypeOK
<1>1. CASE RelayToken(i) \/ RelayEnd(i) \/ RelayExpire(i) \/ Lookup(i) \/ Subscribe(i)
  <2>1. source' = source
    BY <1>1 DEF RelayToken, RelayEnd, RelayExpire, Lookup, Subscribe
  <2>. QED BY <1>1, <2>1, TokenLinked, EndedLinked, ExpiredLinked, LookupLinked,
              SubscribedLinked DEF SourceKept, OpenKept
<1>2. CASE BreakConnection(i) \/ DispatchEvent(i)
  <2>1. source' = source
    BY <1>2 DEF BreakConnection, DispatchEvent
  <2>. QED BY <1>2, <2>1, BreakLinked, DispatchLinked DEF SourceKept, OpenKept
<1>3. CASE DispatchError(i)
  <2>1. source[i] = "open" /\ \E s \in {"open", "closed"} : source' = [source EXCEPT ![i] = s]
    BY <1>3 DEF DispatchError
  <2>. QED BY <1>0, <1>3, <2>1, DispatchErrorLinked DEF SourceKept, OpenKept
<1>4. CASE CloseSource(i)
  <2>1. source[i] = "open" /\ source' = [source EXCEPT ![i] = "closed"]
    BY <1>4 DEF CloseSource
  <2>. QED BY <1>0, <1>4, <2>1, CloseSourceLinked DEF SourceKept, OpenKept
<1>5. CASE \E j \in Inference : DispatchAndClose(i, j)
  <2>1. PICK j \in Inference : DispatchAndClose(i, j)
    BY <1>5
  <2>2. source[j] = "open" /\ source' = [source EXCEPT ![j] = "closed"]
    BY <2>1 DEF DispatchAndClose
  <2>. QED BY <1>0, <2>1, <2>2, DispatchCloseLinked DEF SourceKept, OpenKept
<1>. QED BY <1>1, <1>2, <1>3, <1>4, <1>5 DEF Quiet

LEMMA StutterQuiet ==
  ASSUME Linked, UNCHANGED <<relayVars, row>>
  PROVE  Linked' /\ SourceKept /\ OpenKept
BY StutterLinked DEF SourceKept, OpenKept, relayVars, connection

\* sseRef.current?.close() leaves nothing of that EventSource.
LEMMA CloseRefLinked ==
  ASSUME Linked, CloseRef, sseRef \in Ref, row' = row
  PROVE  /\ Linked' /\ SourceKept /\ OpenKept
         /\ sseRef' = NoInference
         /\ sseRef # NoInference => source'[sseRef] # "open"
<1>1. CASE sseRef # NoInference /\ source[sseRef] = "open"
  <2>1. sseRef \in Inference /\ CloseSource(sseRef)
    BY <1>1 DEF Ref, CloseRef
  <2>2. source'[sseRef] = "closed"
    BY <2>1 DEF CloseSource, Linked, RelayTypeOK
  <2>. QED BY <2>1, <2>2, QuietLinked DEF Quiet, CloseRef
<1>2. CASE ~(sseRef # NoInference /\ source[sseRef] = "open")
  <2>1. UNCHANGED relayVars
    BY <1>2 DEF CloseRef
  <2>2. source' = source
    BY <2>1 DEF relayVars, connection
  <2>. QED BY <1>2, <2>1, <2>2, StutterQuiet DEF CloseRef
<1>. QED BY <1>1, <1>2

Waiting == {"none", "sent", "accepted"}
Unstored == {"none", "sent"}

LEMMA LinkKept ==
  ASSUME LinkInv, Linked', SourceKept, row' = row, post' \in [Inference -> PostState],
         \A j \in Inference : post'[j] \in Waiting => post[j] \in Waiting,
         \A j \in Inference : post'[j] \in Unstored => post[j] \in Unstored
  PROVE  LinkInv'
<1>1. ASSUME NEW j \in Inference PROVE Posted(j)'
  BY DEF LinkInv, Posted, SourceKept, Waiting, Unstored
<1>. QED BY <1>1 DEF LinkInv, Linked

\* A row with a verdict is not written again.
RowFinal == \A i \in Inference : row[i].status \in Verdict => row'[i] = row[i]

LEMMA AcceptLink ==
  ASSUME LinkInv, NEW i \in Inference, Accept(i)
  PROVE  LinkInv' /\ RowFinal /\ OpenKept
<1>1. /\ post[i] = "sent" /\ RelayOpen(i)
      /\ post' = [post EXCEPT ![i] = "accepted"]
      /\ row' = [row EXCEPT ![i].status = "streaming"]
  BY DEF Accept
<1>2. /\ Linked /\ row \in [Inference -> Row] /\ post \in [Inference -> PostState]
      /\ \A j \in Inference : Posted(j)
  BY LinkInvLinked DEF LinkInv
<1>3. source[i] = "none" /\ row[i].status = "none"
  BY <1>1, <1>2 DEF Posted
<1>4. handler[i] = "none"
  BY <1>3, LinkTypes, <1>2 DEF LinkOf
<1>5. Linked'
  BY <1>1, <1>2, <1>4, OpenedLinked
<1>6. source' = source
  BY <1>1 DEF RelayOpen, connection
<1>7. row' \in [Inference -> Row] /\ \A j \in Inference \ {i} : row'[j] = row[j]
  BY <1>1, <1>2 DEF Row, MessageStatus
<1>8. /\ post' \in [Inference -> PostState] /\ post'[i] = "accepted"
      /\ \A j \in Inference \ {i} : post'[j] = post[j]
  BY <1>1, <1>2 DEF PostState
<1>9. ASSUME NEW j \in Inference PROVE Posted(j)'
  BY <1>2, <1>3, <1>6, <1>7, <1>8 DEF Posted
<1>10. RowFinal /\ OpenKept
  BY <1>3, <1>6, <1>7 DEF RowFinal, Verdict, OpenKept
<1>. QED BY <1>5, <1>7, <1>8, <1>9, <1>10 DEF LinkInv, Linked

LEMMA CloseLink ==
  ASSUME LinkInv, NEW i \in Inference, NEW e \in ClosingType, Close(i, e)
  PROVE  LinkInv' /\ RowFinal /\ OpenKept
<1> DEFINE r == [status |-> StatusOf(e), content |-> Len(streams[i].buffer) - 1]
<1>1. /\ RelayClosing(i, e) /\ row' = [row EXCEPT ![i] = r] /\ post' = post
  BY DEF Close, requests
<1>2. /\ Linked /\ row \in [Inference -> Row] /\ post \in [Inference -> PostState]
      /\ \A j \in Inference : Posted(j)
  BY LinkInvLinked DEF LinkInv
<1>3. Linked'
  BY <1>1, <1>2, ClosingLinked
<1>4. /\ streams[i].state = "open" /\ ~Closed(streams[i].buffer) /\ source' = source
  BY <1>1 DEF RelayClosing, PublishClosing
<1>5. /\ streams[i] \in Entry
      /\ LinkOf(streams[i], source[i], handler[i], kept[i], wire[i], received[i], row[i])
  BY <1>2, LinkTypes
<1>6. row[i].status = "streaming" /\ streams[i].buffer # <<>>
  BY <1>4, <1>5 DEF LinkOf, EntrySound
<1>7. Len(streams[i].buffer) - 1 \in Nat
  <2>1. streams[i].buffer \in Tape
    BY <1>5 DEF Entry, StreamEntry, Tape
  <2>2. Len(streams[i].buffer) \in Nat \ {0}
    BY <1>6, <2>1, EmptySeq DEF Tape
  <2>. QED BY <2>2
<1>8. r \in Row
  BY <1>7 DEF Row, MessageStatus, StatusOf, ClosingType
<1> HIDE DEF r
<1>9. row' \in [Inference -> Row] /\ \A j \in Inference \ {i} : row'[j] = row[j]
  BY <1>1, <1>2, <1>8
<1>10. ASSUME NEW j \in Inference PROVE Posted(j)'
  BY <1>1, <1>2, <1>4, <1>6, <1>9 DEF Posted
<1>11. RowFinal /\ OpenKept
  BY <1>4, <1>6, <1>9 DEF RowFinal, Verdict, OpenKept
<1>. QED BY <1>1, <1>2, <1>3, <1>9, <1>10, <1>11 DEF LinkInv, Linked

\* The answer to a POST opens the EventSource.
LEMMA AnsweredLink ==
  ASSUME LinkInv, NEW i \in Inference, PostAnswered(i)
  PROVE  LinkInv' /\ RowFinal
<1>1. /\ post' = [post EXCEPT ![i] = "answered"] /\ OpenSource(i) /\ row' = row
  BY DEF PostAnswered
<1>2. /\ Linked /\ post \in [Inference -> PostState]
      /\ \A j \in Inference : Posted(j)
  BY LinkInvLinked DEF LinkInv
<1>3. Linked'
  BY <1>1, <1>2, OpenSourceLinked
<1>4. \A j \in Inference \ {i} : source'[j] = source[j] /\ post'[j] = post[j]
  BY <1>1, <1>2 DEF OpenSource, Linked, RelayTypeOK
<1>5. post' \in [Inference -> PostState] /\ post'[i] = "answered"
  BY <1>1, <1>2 DEF PostState
<1>6. ASSUME NEW j \in Inference PROVE Posted(j)'
  BY <1>1, <1>2, <1>4, <1>5 DEF Posted
<1>. QED BY <1>1, <1>3, <1>5, <1>6 DEF LinkInv, Linked, RowFinal

\* Every other step leaves the rows alone and opens no EventSource.
LEMMA CalmLink ==
  ASSUME LinkInv, sseRef \in Ref,
         \/ \E i \in Inference :
              \/ Produce(i) \/ Serve(i) \/ Expire(i) \/ Break(i) \/ Receives(i)
              \/ Submit(i) \/ PostFails(i) \/ CancelSettles(i)
         \/ ClickCancel \/ Dismiss \/ Unmount \/ Refresh \/ Commit \/ CrashServer
         \/ UNCHANGED clientVars
  PROVE  LinkInv' /\ row' = row /\ OpenKept
<1>0. Linked /\ post \in [Inference -> PostState]
  BY LinkInvLinked DEF LinkInv
<1>1. ASSUME NEW i \in Inference,
             Produce(i) \/ Serve(i) \/ Expire(i) \/ Break(i) \/ Receives(i)
      PROVE  LinkInv' /\ row' = row /\ OpenKept
  <2>1. row' = row /\ post' = post
    BY <1>1 DEF Produce, Serve, Expire, Break, Receives, ReceiveToken, ReceiveIgnored,
                ReceiveClosing, SourceError, Unseen, requests
  <2>2. Quiet(i)
    <3>1. CASE ReceiveClosing(i)
      BY <3>1 DEF ReceiveClosing, Quiet, Ref
    <3>. QED BY <1>1, <3>1 DEF Produce, Serve, Expire, Break, Receives, ReceiveToken,
                               ReceiveIgnored, SourceError, Quiet
  <2>3. Linked' /\ SourceKept /\ OpenKept
    BY <1>0, <2>1, <2>2, QuietLinked
  <2>. QED BY <1>0, <2>1, <2>3, LinkKept
<1>2. CASE CrashServer
  <2>1. row' = row /\ post' = post /\ CrashApi /\ source' = source
    BY <1>2 DEF CrashServer, CrashApi, Unseen, requests
  <2>2. Linked' /\ SourceKept /\ OpenKept
    BY <1>0, <2>1, CrashLinked DEF SourceKept, OpenKept
  <2>. QED BY <1>0, <2>1, <2>2, LinkKept
<1>3. ASSUME NEW i \in Inference, Submit(i) PROVE LinkInv' /\ row' = row /\ OpenKept
  <2>1. /\ row' = row /\ CloseRef /\ post[i] = "none"
        /\ post' = [post EXCEPT ![i] = "sent"]
    BY <1>3 DEF Submit, NextMessage, SendPost
  <2>2. Linked' /\ SourceKept /\ OpenKept
    BY <1>0, <2>1, CloseRefLinked
  <2>3. post' \in [Inference -> PostState] /\ \A j \in Inference \ {i} : post'[j] = post[j]
    BY <1>0, <2>1 DEF PostState
  <2>. QED BY <2>1, <2>2, <2>3, LinkKept DEF Waiting, Unstored
<1>4. CASE \/ \E i \in Inference : PostFails(i) \/ CancelSettles(i)
           \/ ClickCancel \/ UNCHANGED clientVars
  <2>1. UNCHANGED <<relayVars, row>>
    BY <1>4 DEF PostFails, CancelSettles, ClickCancel, clientVars
  <2>2. Linked' /\ SourceKept /\ OpenKept
    BY <1>0, <2>1, StutterQuiet
  <2>3. \/ post' = post
        \/ \E i \in Inference : post' = [post EXCEPT ![i] = "failed"]
    BY <1>4 DEF PostFails, CancelSettles, ClickCancel, clientVars, requests
  <2>4. /\ post' \in [Inference -> PostState]
        /\ \A j \in Inference : post'[j] = post[j] \/ post'[j] = "failed"
    BY <1>0, <2>3 DEF PostState
  <2>. QED BY <2>1, <2>2, <2>4, LinkKept DEF Waiting, Unstored
<1>5. CASE Dismiss \/ Unmount
  <2>1. row' = row /\ post' = post /\ CloseRef
    BY <1>5 DEF Dismiss, Unmount, requests
  <2>2. Linked' /\ SourceKept /\ OpenKept
    BY <1>0, <2>1, CloseRefLinked
  <2>. QED BY <1>0, <2>1, <2>2, LinkKept
<1>6. CASE Refresh
  <2>1. /\ row' = row /\ CloseAllSources
        /\ post' = [j \in Inference |-> IF post[j] = "none" THEN "none" ELSE "gone"]
    BY <1>6 DEF Refresh
  <2>2. Linked' /\ SourceKept /\ OpenKept
    BY <1>0, <2>1, CloseAllLinked DEF CloseAllSources, SourceKept, OpenKept
  <2>3. post' \in [Inference -> PostState]
        /\ \A j \in Inference : post'[j] = "gone" \/ post'[j] = post[j]
    BY <2>1 DEF PostState
  <2>. QED BY <2>1, <2>2, <2>3, LinkKept DEF Waiting, Unstored
<1>7. CASE Commit
  <2>1. row' = row /\ post' = post /\ (CloseRef \/ UNCHANGED relayVars)
    BY <1>7 DEF Commit, ShowText, ShowError, ShowVerdict, ShowNothing, requests
  <2>2. Linked' /\ SourceKept /\ OpenKept
    BY <1>0, <2>1, CloseRefLinked, StutterQuiet
  <2>. QED BY <1>0, <2>1, <2>2, LinkKept
<1>. QED BY <1>1, <1>2, <1>3, <1>4, <1>5, <1>6, <1>7

LEMMA LinkStep ==
  ASSUME LinkInv, PageInv, [ClientNext]_clientVars
  PROVE  LinkInv' /\ RowFinal
<1>1. sseRef \in Ref
  BY DEF PageInv
<1>2. ASSUME NEW i \in Inference, Settles(i) PROVE LinkInv' /\ RowFinal
  <2>1. CASE PostFails(i)
    BY <1>1, <2>1, CalmLink DEF RowFinal
  <2>. QED BY <1>2, <2>1, AcceptLink, AnsweredLink DEF Settles
<1>3. ASSUME NEW i \in Inference, Closes(i) PROVE LinkInv' /\ RowFinal
  BY <1>3, CloseLink DEF Closes
<1>4. ASSUME NEW i \in Inference,
             \/ Submit(i) \/ CancelSettles(i) \/ Produce(i) \/ Serve(i) \/ Expire(i)
             \/ Break(i) \/ Receives(i)
      PROVE  LinkInv' /\ RowFinal
  BY <1>1, <1>4, CalmLink DEF RowFinal
<1>5. CASE \/ ClickCancel \/ Dismiss \/ Unmount \/ Refresh \/ Commit \/ CrashServer
           \/ UNCHANGED clientVars
  BY <1>1, <1>5, CalmLink DEF RowFinal
<1>. QED BY <1>2, <1>3, <1>4, <1>5 DEF ClientNext
-----------------------------------------------------------------------------
\* The tokens of one inference.

LEMMA TextFacts ==
  ASSUME NEW i \in Ref, NEW n \in Nat
  PROVE  /\ Text(i, n) \in Texting /\ Len(Text(i, n)) = n /\ OwnText(i, Text(i, n))
         /\ Append(Text(i, n), <<i, n + 1>>) = Text(i, n + 1)
<1>1. ASSUME NEW m \in Nat
      PROVE  /\ Text(i, m) \in Texting /\ Len(Text(i, m)) = m
             /\ \A k \in 1..m : Text(i, m)[k] = <<i, k>>
  <2>1. Text(i, m) \in [1..m -> Ref \X Nat]
    BY DEF Text
  <2>2. Text(i, m) \in Seq(Ref \X Nat)
    BY <2>1, SeqDef
  <2>. QED BY <2>1, <2>2, LenProperties DEF Text, Texting
<1>2. OwnText(i, Text(i, n))
  BY <1>1 DEF OwnText
<1> DEFINE s == Text(i, n)
           a == Append(s, <<i, n + 1>>)
           t == Text(i, n + 1)
<1>3. <<i, n + 1>> \in Ref \X Nat
  OBVIOUS
<1>4. /\ a \in Texting /\ Len(a) = n + 1 /\ a[n + 1] = <<i, n + 1>>
      /\ \A k \in 1..n : a[k] = <<i, k>>
  <2>1. s \in Seq(Ref \X Nat) /\ Len(s) = n /\ \A k \in 1..n : s[k] = <<i, k>>
    BY <1>1 DEF Texting
  <2> HIDE DEF s
  <2>2. /\ a \in Seq(Ref \X Nat) /\ Len(a) = n + 1 /\ a[n + 1] = <<i, n + 1>>
        /\ \A k \in 1..n : a[k] = s[k]
    BY <1>3, <2>1, AppendProperties
  <2>. QED BY <2>1, <2>2 DEF Texting
<1>5. t \in Texting /\ Len(t) = n + 1 /\ \A k \in 1..(n + 1) : t[k] = <<i, k>>
  BY <1>1
<1> HIDE DEF a, t
<1>6. ASSUME NEW k \in 1..Len(a) PROVE a[k] = t[k]
  <2>1. k = n + 1 \/ k \in 1..n
    BY <1>4
  <2>2. CASE k = n + 1
    BY <1>4, <1>5, <2>2
  <2>3. CASE k \in 1..n
    BY <1>4, <1>5, <2>3
  <2>. QED BY <2>1, <2>2, <2>3
<1>7. a = t
  BY <1>4, <1>5, <1>6, SeqEqual DEF Texting
<1>. QED BY <1>1, <1>2, <1>7 DEF a, t

LEMMA NoText ==
  /\ <<>> \in Texting /\ Len(<<>>) = 0
  /\ \A i \in Ref : Text(i, 0) = <<>> /\ OwnText(i, <<>>)
<1>1. <<>> \in Texting /\ Len(<<>>) = 0
  BY EmptySeq DEF Texting
<1>2. ASSUME NEW i \in Ref PROVE Text(i, 0) = <<>>
  BY TextFacts, EmptySeq DEF Texting
<1>. QED BY <1>1, <1>2 DEF OwnText

LEMMA HookStates ==
  /\ Idle \in Hook /\ Failure \in Hook /\ \A i \in Inference : Streaming(i) \in Hook
  /\ Idle.status = "idle" /\ Failure.status = "error"
  /\ Idle.text = <<>> /\ Idle.inference = NoInference
  /\ Failure.text = <<>> /\ Failure.inference = NoInference
  /\ \A i \in Inference : /\ Streaming(i).status = "streaming"
                          /\ Streaming(i).text = <<>> /\ Streaming(i).inference = i
<1>1. NoInference \in Ref /\ <<>> \in Texting
  BY NoText DEF Ref
<1>2. Failure = [status |-> "error", text |-> <<>>, inference |-> NoInference]
  BY DEF Failure, Idle
<1>3. \A i \in Inference : i \in Ref
  BY DEF Ref
<1>. QED BY <1>1, <1>2, <1>3 DEF Hook, Idle, Streaming

LEMMA Messages ==
  /\ Placeholder \in Message /\ Placeholder.status = "streaming"
  /\ Placeholder.content = <<>>
  /\ NoMessage \in Message /\ NoMessage.status = "none" /\ NoMessage.content = <<>>
BY NoText DEF Placeholder, NoMessage, Message, MessageStatus

\* setState, of a mounted page and of one that was left.
LEMMA SetStateFacts ==
  ASSUME PageInv, NEW s \in Hook, SetState(s)
  PROVE  /\ state' \in Hook /\ dirty' \in BOOLEAN
         /\ mounted = TRUE => state' = s
         /\ mounted = FALSE => state' = state /\ dirty' = dirty
BY DEF PageInv, SetState

LEMMA ClientInitInv == ClientInit => ClientInv
<1>. SUFFICES ASSUME ClientInit PROVE ClientInv
  OBVIOUS
<1>1. /\ streams = [i \in Inference |-> NoEntry]
      /\ source = [i \in Inference |-> "none"]
      /\ handler = [i \in Inference |-> "none"]
      /\ kept = [i \in Inference |-> NoEntry]
      /\ wire = [i \in Inference |-> <<>>]
      /\ received = [i \in Inference |-> <<>>]
      /\ drops = 0 /\ crashes = 0
  BY DEF ClientInit, RelayInit, SourceInit
<1>2. /\ post = [i \in Inference |-> "none"]
      /\ row = [i \in Inference |-> [status |-> "none", content |-> 0]]
      /\ view = [i \in Inference |-> NoMessage]
      /\ streamingId = NoInference /\ sseRef = NoInference
      /\ state = Idle /\ dirty = FALSE /\ mounted = TRUE
  BY DEF ClientInit
<1>3. "none" \in HandlerState
  BY DEF HandlerState
<1>4. 0 \in 0..MaxDrops /\ 0 \in 0..MaxCrashes
  BY RelayAssumption
<1>5. RelayTypeOK
  BY <1>1, <1>3, <1>4, EmptyValues DEF RelayTypeOK, Entry, Tape
<1>6. ASSUME NEW r PROVE LinkOf(NoEntry, "none", "none", NoEntry, <<>>, <<>>, r)
  <2>1. NoEntry.state = "absent" /\ NoEntry.buffer = <<>>
    BY DEF NoEntry
  <2>2. EntrySound(NoEntry, r)
    BY <2>1, EmptyEvents DEF EntrySound
  <2>. QED BY <2>1, <2>2, EmptyEvents DEF LinkOf
<1>7. ASSUME NEW i \in Inference PROVE Link(i) /\ Posted(i)
  BY <1>1, <1>2, <1>6 DEF Link, Posted
<1>8. row \in [Inference -> Row] /\ post \in [Inference -> PostState]
  BY <1>2 DEF Row, MessageStatus, PostState
<1>9. LinkInv
  BY <1>5, <1>7, <1>8 DEF LinkInv
<1>10. PageInv
  BY <1>2, HookStates, Messages DEF PageInv, Ref
<1>11. OneAtATime
  BY <1>1, <1>2 DEF OneAtATime, PostPending
<1>12. Follows /\ HookState
  BY <1>2, HookStates, NoText DEF Follows, HookState, IsStreaming, Ref, Verdict
<1>13. Shows
  BY <1>2, Messages, NoText DEF Shows, Verdict, Ref
<1>. QED BY <1>9, <1>10, <1>11, <1>12, <1>13 DEF ClientInv, HookInv
-----------------------------------------------------------------------------
\* The page through the steps of the client.

LEMMA PageKept ==
  ASSUME PageInv, UNCHANGED <<view, streamingId, mounted>>,
         state' \in Hook, dirty' \in BOOLEAN, sseRef' \in Ref,
         \A j \in Inference : post'[j] = "none" => post[j] = "none"
  PROVE  PageInv'
BY DEF PageInv

\* One more token of an inference in the hook's text, and its end.
LEMMA HookGrows ==
  ASSUME PageInv, LinkInv, NEW i \in Inference
  PROVE  LET s == [state EXCEPT !.text = Append(@, <<i, Len(received[i])>>)]
         IN  /\ s \in Hook /\ s.status = state.status /\ s.inference = state.inference
             /\ s.text = Append(state.text, <<i, Len(received[i])>>)
<1> DEFINE t == Append(state.text, <<i, Len(received[i])>>)
<1>1. state \in Hook /\ state.text \in Texting
  BY DEF PageInv, Hook
<1>2. received[i] \in Tape
  BY LinkInvLinked, LinkTypes
<1>3. Len(received[i]) \in Nat
  BY <1>2 DEF Tape
<1>4. <<i, Len(received[i])>> \in Ref \X Nat
  BY <1>3 DEF Ref
<1>5. t \in Texting
  BY <1>1, <1>4, AppendProperties DEF Texting
<1> HIDE DEF t
<1>6. [state EXCEPT !.text = t] \in Hook
  BY <1>1, <1>5 DEF Hook
<1>. QED BY <1>1, <1>6 DEF Hook, t

LEMMA HookEnds ==
  ASSUME PageInv, NEW e \in ClosingType, e # "error"
  PROVE  LET s == [state EXCEPT !.status = StatusOf(e)]
         IN  /\ s \in Hook /\ s.status = StatusOf(e) /\ s.status \in Verdict
             /\ s.inference = state.inference /\ s.text = state.text
<1>1. state \in Hook
  BY DEF PageInv
<1>2. StatusOf(e) \in Verdict
  BY DEF StatusOf, ClosingType, Verdict
<1>. QED BY <1>1, <1>2 DEF Hook, Verdict

LEMMA UnseenPage ==
  ASSUME PageInv, UNCHANGED <<page, sseRef>>,
         \A j \in Inference : post'[j] = "none" => post[j] = "none"
  PROVE  PageInv'
BY PageKept DEF page, PageInv

LEMMA SettlesPage ==
  ASSUME PageInv, LinkInv, NEW i \in Inference, Settles(i) \/ CancelSettles(i)
  PROVE  PageInv'
<1>1. post \in [Inference -> PostState]
  BY DEF LinkInv
<1>2. i \in Ref
  BY DEF Ref
<1>3. CASE Accept(i)
  <2>1. UNCHANGED <<page, sseRef>> /\ post' = [post EXCEPT ![i] = "accepted"]
    BY <1>3 DEF Accept
  <2>. QED BY <1>1, <2>1, UnseenPage
<1>4. CASE PostAnswered(i)
  <2>1. /\ post' = [post EXCEPT ![i] = "answered"] /\ SetState(Streaming(i))
        /\ sseRef' = i /\ UNCHANGED <<view, streamingId, mounted>>
    BY <1>4 DEF PostAnswered
  <2>. QED BY <1>1, <1>2, <2>1, PageKept, SetStateFacts, HookStates
<1>5. CASE PostFails(i)
  <2>1. /\ post' = [post EXCEPT ![i] = "failed"] /\ SetState(Failure)
        /\ UNCHANGED <<view, streamingId, sseRef, mounted>>
    BY <1>5 DEF PostFails
  <2>2. sseRef' \in Ref
    BY <2>1 DEF PageInv
  <2>. QED BY <1>1, <2>1, <2>2, PageKept, SetStateFacts, HookStates
<1>6. CASE CancelSettles(i)
  <2>1. /\ UNCHANGED <<post, view, streamingId, sseRef, mounted>>
        /\ UNCHANGED <<state, dirty>> \/ SetState(Failure)
    BY <1>6 DEF CancelSettles
  <2>2. state' \in Hook /\ dirty' \in BOOLEAN /\ sseRef' \in Ref
    BY <2>1, SetStateFacts, HookStates DEF PageInv
  <2>. QED BY <2>1, <2>2, PageKept
<1>. QED BY <1>3, <1>4, <1>5, <1>6 DEF Settles

LEMMA ReceivesPage ==
  ASSUME PageInv, LinkInv, NEW i \in Inference, Receives(i)
  PROVE  PageInv'
<1>1. CASE ReceiveToken(i)
  <2>1. /\ UNCHANGED <<requests, view, streamingId, sseRef, mounted>>
        /\ \/ SetState([state EXCEPT !.text = Append(@, <<i, Len(received[i])>>)])
           \/ UNCHANGED <<state, dirty>>
    BY <1>1 DEF ReceiveToken
  <2>2. state' \in Hook /\ dirty' \in BOOLEAN /\ sseRef' \in Ref
    BY <2>1, SetStateFacts, HookGrows DEF PageInv
  <2>. QED BY <2>1, <2>2, PageKept DEF requests
<1>2. CASE ReceiveIgnored(i)
  BY <1>2, UnseenPage DEF ReceiveIgnored, Unseen, requests
<1>3. CASE ReceiveClosing(i)
  <2> DEFINE e == Head(wire[i])
             s == IF e = "error" THEN Failure ELSE [state EXCEPT !.status = StatusOf(e)]
  <2>1. /\ UNCHANGED <<requests, view, streamingId, mounted>>
        /\ e \in ClosingType /\ sseRef' = NoInference /\ SetState(s)
    BY <1>3 DEF ReceiveClosing
  <2>2. s \in Hook
    BY <2>1, HookEnds, HookStates
  <2> HIDE DEF s, e
  <2>3. state' \in Hook /\ dirty' \in BOOLEAN /\ sseRef' \in Ref
    BY <2>1, <2>2, SetStateFacts DEF Ref
  <2>. QED BY <2>1, <2>3, PageKept DEF requests
<1>4. CASE SourceError(i)
  <2>1. /\ UNCHANGED <<requests, view, streamingId, sseRef, mounted>>
        /\ UNCHANGED <<state, dirty>> \/ SetState(Failure)
    BY <1>4 DEF SourceError
  <2>2. state' \in Hook /\ dirty' \in BOOLEAN /\ sseRef' \in Ref
    BY <2>1, SetStateFacts, HookStates DEF PageInv
  <2>. QED BY <2>1, <2>2, PageKept DEF requests
<1>. QED BY <1>1, <1>2, <1>3, <1>4 DEF Receives

LEMMA UserPage ==
  ASSUME PageInv, LinkInv,
         \/ \E i \in Inference : Submit(i)
         \/ ClickCancel \/ Dismiss \/ Unmount \/ Refresh
  PROVE  PageInv'
<1>1. /\ post \in [Inference -> PostState] /\ row \in [Inference -> Row]
      /\ view \in [Inference -> Message] /\ NoInference \in Ref
  BY DEF LinkInv, PageInv, Ref
<1>2. ASSUME NEW i \in Inference, Submit(i) PROVE PageInv'
  <2>1. /\ view' = [view EXCEPT ![i] = Placeholder] /\ streamingId' = i
        /\ sseRef' = NoInference /\ post' = [post EXCEPT ![i] = "sent"]
        /\ UNCHANGED <<state, dirty, mounted>>
    BY <1>2 DEF Submit, CloseRef, SendPost
  <2>2. view' \in [Inference -> Message] /\ view'[i].status = "streaming"
        /\ \A j \in Inference \ {i} : view'[j] = view[j] /\ post'[j] = post[j]
    BY <1>1, <2>1, Messages
  <2>3. post'[i] = "sent" /\ i \in Ref
    BY <1>1, <2>1 DEF Ref
  <2>4. \A j \in Inference : post'[j] = "none" => view'[j].status = "none"
    BY <2>2, <2>3 DEF PageInv
  <2>. QED BY <1>1, <2>1, <2>2, <2>3, <2>4 DEF PageInv
<1>3. CASE ClickCancel
  BY <1>3, UnseenPage DEF ClickCancel
<1>4. CASE Dismiss
  <2>1. /\ state' = Idle /\ dirty' = TRUE /\ sseRef' = NoInference
        /\ UNCHANGED <<requests, view, streamingId, mounted>>
    BY <1>4 DEF Dismiss, CloseRef
  <2>. QED BY <1>1, <2>1, HookStates, PageKept DEF requests
<1>5. CASE Unmount
  <2>1. /\ view' = [j \in Inference |-> NoMessage] /\ streamingId' = NoInference
        /\ sseRef' = NoInference /\ state' = Idle /\ dirty' = FALSE /\ mounted' = FALSE
        /\ UNCHANGED requests
    BY <1>5 DEF Unmount, CloseRef
  <2>. QED BY <1>1, <2>1, HookStates, Messages DEF PageInv
<1>6. CASE Refresh
  <2>1. /\ view' = [j \in Inference |-> StoredMessage(j)]
        /\ streamingId' = NoInference /\ sseRef' = NoInference /\ state' = Idle
        /\ dirty' = FALSE /\ mounted' = mounted
        /\ post' = [j \in Inference |-> IF post[j] = "none" THEN "none" ELSE "gone"]
    BY <1>6 DEF Refresh
  <2>2. ASSUME NEW j \in Inference
        PROVE  StoredMessage(j) \in Message /\ StoredMessage(j).status = row[j].status
    <3>1. row[j].content \in Nat /\ row[j].status \in MessageStatus /\ j \in Ref
      BY <1>1 DEF Row, Ref
    <3>. QED BY <3>1, TextFacts DEF StoredMessage, Message
  <2>3. view' \in [Inference -> Message]
    BY <2>1, <2>2
  <2>4. \A j \in Inference : post'[j] = "none" => view'[j].status = "none"
    BY <2>1, <2>2 DEF LinkInv, Posted
  <2>. QED BY <1>1, <2>1, <2>3, <2>4, HookStates DEF PageInv
<1>. QED BY <1>2, <1>3, <1>4, <1>5, <1>6

\* A render: only the streaming message changes, and it streams no more once its
\* verdict or its error is shown.
LEMMA CommitPage ==
  ASSUME PageInv, Commit
  PROVE  /\ PageInv'
         /\ \A j \in Inference : view[j].status # "streaming" => view'[j] = view[j]
<1>1. /\ view \in [Inference -> Message] /\ state \in Hook /\ sseRef \in Ref
      /\ streamingId \in Ref /\ NoInference \in Ref
      /\ streamingId # NoInference =>
           streamingId \in Inference /\ view[streamingId].status = "streaming"
  BY DEF PageInv, Ref
<1>2. dirty' = FALSE /\ UNCHANGED <<requests, row, mounted>>
  BY DEF Commit
<1>3. CASE ShowText
  <2>1. /\ streamingId # NoInference /\ UNCHANGED <<sseRef, state, streamingId>>
        /\ view' = [view EXCEPT ![streamingId].content = state.text]
    BY <1>3 DEF ShowText
  <2>2. state.text \in Texting
    BY <1>1 DEF Hook
  <2>3. /\ view' \in [Inference -> Message] /\ view'[streamingId].status = "streaming"
        /\ \A j \in Inference \ {streamingId} : view'[j] = view[j]
    BY <1>1, <2>1, <2>2 DEF Message
  <2>. QED BY <1>1, <1>2, <2>1, <2>3 DEF PageInv, requests
<1>4. CASE ShowError
  <2>1. /\ streamingId # NoInference /\ UNCHANGED <<sseRef, state>>
        /\ view' = [view EXCEPT ![streamingId].status = "failed"]
        /\ streamingId' = NoInference
    BY <1>4 DEF ShowError
  <2>2. /\ view' \in [Inference -> Message]
        /\ \A j \in Inference \ {streamingId} : view'[j] = view[j]
    BY <1>1, <2>1 DEF Message, MessageStatus
  <2>. QED BY <1>1, <1>2, <2>1, <2>2 DEF PageInv, requests
<1>5. CASE ShowVerdict
  <2>1. /\ streamingId # NoInference /\ sseRef' = NoInference /\ state' = Idle
        /\ state.status \in {"completed", "cancelled"}
        /\ view' = [view EXCEPT ![streamingId] = [status |-> state.status,
                                                  content |-> state.text]]
        /\ streamingId' = NoInference
    BY <1>5 DEF ShowVerdict, CloseRef
  <2>2. [status |-> state.status, content |-> state.text] \in Message
    BY <1>1, <2>1 DEF Message, MessageStatus, Hook
  <2>3. /\ view' \in [Inference -> Message]
        /\ \A j \in Inference \ {streamingId} : view'[j] = view[j]
    BY <1>1, <2>1, <2>2
  <2>. QED BY <1>1, <1>2, <2>1, <2>3, HookStates DEF PageInv, requests
<1>6. CASE ShowNothing
  BY <1>1, <1>2, <1>6 DEF ShowNothing, PageInv, requests
<1>. QED BY <1>3, <1>4, <1>5, <1>6 DEF Commit

LEMMA PageStep ==
  ASSUME PageInv, LinkInv, [ClientNext]_clientVars
  PROVE  PageInv'
<1>1. CASE \E i \in Inference :
             Produce(i) \/ Closes(i) \/ Serve(i) \/ Expire(i) \/ Break(i)
  BY <1>1, UnseenPage
  DEF Produce, Closes, Close, Serve, Expire, Break, Unseen, requests
<1>2. CASE CrashServer \/ UNCHANGED clientVars
  BY <1>2, UnseenPage DEF CrashServer, Unseen, requests, clientVars
<1>3. CASE Commit
  BY <1>3, CommitPage
<1>. QED
  BY <1>1, <1>2, <1>3, SettlesPage, ReceivesPage, UserPage DEF ClientNext
-----------------------------------------------------------------------------
\* The hook through the steps of the client, for a patient user.  What a step
\* leaves to each of the conjuncts of HookInv:

Pending(j) == post[j] \in {"sent", "accepted"}
PendingKept == \A j \in Inference : Pending(j)' => Pending(j)

\* No EventSource is opened, no request is sent, and the page's streaming message
\* stays or is forgotten.
LEMMA OneKept ==
  ASSUME OneAtATime, sseRef' = sseRef, OpenKept, PendingKept,
         streamingId' \in {streamingId, NoInference}
  PROVE  OneAtATime'
<1>1. PostPending' => PostPending
  BY DEF PostPending, PendingKept, Pending
<1>2. ASSUME NEW i \in Inference, source'[i] = "open" PROVE sseRef' = i
  BY <1>2 DEF OneAtATime, OpenKept
<1>3. ASSUME NEW i \in Inference, Pending(i)'
      PROVE  Pending(i) /\ streamingId' \in {i, NoInference}
  BY <1>3 DEF OneAtATime, PendingKept, Pending
<1>4. ASSUME NEW i \in Inference, NEW j \in Inference, Pending(i)', Pending(j)'
      PROVE  i = j
  BY <1>3, <1>4 DEF OneAtATime, Pending
<1>. QED BY <1>1, <1>2, <1>3, <1>4 DEF OneAtATime, Pending

\* The EventSource is closed and forgotten.
LEMMA OneClosed ==
  ASSUME OneAtATime, sseRef' = NoInference, PendingKept,
         \A j \in Inference : source'[j] # "open",
         streamingId' \in {streamingId, NoInference}
  PROVE  OneAtATime'
<1>1. ASSUME NEW i \in Inference, Pending(i)'
      PROVE  Pending(i) /\ streamingId' \in {i, NoInference}
  BY <1>1 DEF OneAtATime, PendingKept, Pending
<1>2. ASSUME NEW i \in Inference, NEW j \in Inference, Pending(i)', Pending(j)'
      PROVE  i = j
  BY <1>1, <1>2 DEF OneAtATime, Pending
<1>. QED BY <1>1, <1>2 DEF OneAtATime, Pending

LEMMA RefCloses ==
  ASSUME OneAtATime, LinkInv, CloseRef, sseRef \in Ref, row' = row
  PROVE  sseRef' = NoInference /\ \A j \in Inference : source'[j] # "open"
<1>1. /\ OpenKept /\ sseRef' = NoInference
      /\ sseRef # NoInference => source'[sseRef] # "open"
  BY LinkInvLinked, CloseRefLinked
<1>2. ASSUME NEW j \in Inference, source'[j] = "open" PROVE FALSE
  <2>1. sseRef = j
    BY <1>1, <1>2 DEF OneAtATime, OpenKept
  <2>. QED BY <1>1, <1>2, <2>1, ClientAssumption
<1>. QED BY <1>1, <1>2

LEMMA ShowsKept == ASSUME Shows, view' = view, RowFinal PROVE Shows'
BY DEF Shows, StoredAs, RowFinal

\* A hook that shows nothing of an inference.
Blank(s) == s.status \in {"idle", "error"} /\ s.text = <<>> /\ s.inference = NoInference

LEMMA BlankStates == Blank(Idle) /\ Blank(Failure)
BY HookStates DEF Blank

LEMMA HookBlank ==
  ASSUME Blank(state'), mounted' = FALSE => state' = Idle /\ streamingId' = NoInference
  PROVE  HookState' /\ Follows'
<1>1. state'.status \notin Verdict /\ ~IsStreaming'
  BY DEF Blank, Verdict, IsStreaming
<1>2. OwnText(state'.inference, state'.text)
  BY NoText DEF Blank, Ref
<1>. QED BY <1>1, <1>2 DEF HookState, Follows

LEMMA HookStateKept ==
  ASSUME HookState, UNCHANGED <<state, mounted>>, dirty' = TRUE => dirty = TRUE,
         streamingId' \in {streamingId, NoInference}, RowFinal
  PROVE  HookState'
<1>1. OwnText(state.inference, state.text)'
  BY DEF HookState, OwnText, Text
<1>2. state.status \in Verdict =>
        state.inference \in Inference /\ StoredAs(state.inference, state.status, state.text)'
  BY DEF HookState, StoredAs, RowFinal
<1>. QED BY <1>1, <1>2 DEF HookState, IsStreaming

\* The hook's connection was not touched, or it broke.
Undisturbed(j) ==
  /\ source'[j] = source[j]
  /\ \/ handler'[j] = "broken"
     \/ received'[j] = received[j] /\ (handler[j] = "broken" => handler'[j] = "broken")

LEMMA FollowsKept ==
  ASSUME Follows, UNCHANGED <<state, sseRef>>, \A j \in Inference : Undisturbed(j)
  PROVE  Follows'
BY DEF Follows, IsStreaming, Undisturbed

\* Steps the page does not notice.
LEMMA UnseenHook ==
  ASSUME HookInv, UNCHANGED <<page, sseRef>>, RowFinal, OpenKept, PendingKept, Follows'
  PROVE  HookInv'
<1>1. UNCHANGED <<view, streamingId, state, dirty, mounted>>
  BY DEF page
<1>. QED BY <1>1, OneKept, HookStateKept, ShowsKept DEF HookInv

\* What happens between the API and the browser.
LEMMA RelayUndisturbed ==
  ASSUME LinkInv, NEW i \in Inference,
         \/ Produce(i) \/ Closes(i) \/ Serve(i) \/ Expire(i) \/ Break(i) \/ Accept(i)
  PROVE  \A j \in Inference : Undisturbed(j)
<1>0. /\ handler \in [Inference -> HandlerState]
      /\ source \in [Inference -> {"none", "open", "closed"}]
      /\ received \in [Inference -> Tape]
  BY RelayTypes DEF LinkInv
<1>1. CASE \/ RelayToken(i) \/ RelayExpire(i) \/ RelayOpen(i)
           \/ \E e \in ClosingType : RelayClosing(i, e)
  <2>1. UNCHANGED <<source, handler, received>>
    BY <1>1 DEF RelayToken, RelayExpire, RelayOpen, RelayClosing, connection
  <2>. QED BY <2>1 DEF Undisturbed
<1>2. CASE RelayEnd(i)
  <2>1. /\ UNCHANGED <<source, received>>
        /\ handler' = IF handler[i] = "live" THEN [handler EXCEPT ![i] = "finished"]
                                             ELSE handler
    BY <1>2 DEF RelayEnd
  <2>. QED BY <1>0, <2>1 DEF Undisturbed
<1>3. CASE Lookup(i) \/ Subscribe(i)
  <2>1. /\ UNCHANGED <<source, received>> /\ handler[i] # "broken"
        /\ \E h \in HandlerState : handler' = [handler EXCEPT ![i] = h]
    BY <1>3 DEF Lookup, Subscribe, HandlerState
  <2>. QED BY <1>0, <2>1 DEF Undisturbed
<1>4. CASE BreakConnection(i)
  <2>1. /\ source' = source /\ handler' = [handler EXCEPT ![i] = "broken"]
        /\ received' = [received EXCEPT ![i] = <<>>]
    BY <1>4 DEF BreakConnection, Reset
  <2>2. handler'[i] = "broken"
        /\ \A j \in Inference \ {i} : handler'[j] = handler[j] /\ received'[j] = received[j]
    BY <1>0, <2>1
  <2>. QED BY <2>1, <2>2 DEF Undisturbed
<1>. QED
  BY <1>1, <1>2, <1>3, <1>4 DEF Produce, Closes, Close, Serve, Expire, Break, Accept

LEMMA CrashUndisturbed ==
  ASSUME LinkInv, CrashApi PROVE \A j \in Inference : Undisturbed(j)
<1>1. /\ source' = source
      /\ handler' = [i \in Inference |->
                       IF handler[i] \in {"none", "refused"} THEN handler[i] ELSE "broken"]
      /\ received' = [i \in Inference |-> <<>>]
  BY DEF CrashApi
<1>2. ASSUME NEW j \in Inference, handler[j] \in {"none", "refused"}
      PROVE  received[j] = <<>>
  <2>1. LinkOf(streams[j], source[j], handler[j], kept[j], wire[j], received[j], row[j])
    BY LinkInvLinked, LinkTypes
  <2>. QED BY <1>2, <2>1 DEF LinkOf
<1>. QED BY <1>1, <1>2 DEF Undisturbed

LEMMA RelayHook ==
  ASSUME HookInv, PageInv, LinkInv, RowFinal,
         \/ \E i \in Inference :
              Produce(i) \/ Closes(i) \/ Serve(i) \/ Expire(i) \/ Break(i) \/ Accept(i)
         \/ CrashServer \/ ClickCancel \/ UNCHANGED clientVars
  PROVE  HookInv'
<1>1. UNCHANGED <<page, sseRef>>
  BY DEF Produce, Closes, Close, Serve, Expire, Break, Accept, CrashServer, ClickCancel,
         Unseen, clientVars
<1>2. PendingKept
  <2>1. ASSUME NEW i \in Inference, Accept(i) PROVE PendingKept
    <3>1. post[i] = "sent" /\ post' = [post EXCEPT ![i] = "accepted"]
      BY <2>1 DEF Accept
    <3>2. \A j \in Inference \ {i} : post'[j] = post[j]
      BY <3>1 DEF LinkInv
    <3>. QED BY <3>1, <3>2 DEF PendingKept, Pending
  <2>2. ASSUME post' = post PROVE PendingKept
    BY <2>2 DEF PendingKept, Pending
  <2>. QED BY <2>1, <2>2 DEF Produce, Closes, Close, Serve, Expire, Break, CrashServer,
                             ClickCancel, Unseen, requests, clientVars
<1>3. \A j \in Inference : Undisturbed(j)
  <2>1. ASSUME UNCHANGED relayVars PROVE \A j \in Inference : Undisturbed(j)
    BY <2>1 DEF relayVars, connection, Undisturbed
  <2>. QED BY <2>1, RelayUndisturbed, CrashUndisturbed
           DEF CrashServer, ClickCancel, clientVars
<1>4. UNCHANGED state
  BY <1>1 DEF page
<1>5. OpenKept
  BY <1>3 DEF OpenKept, Undisturbed
<1>. QED BY <1>1, <1>2, <1>3, <1>4, <1>5, UnseenHook, FollowsKept DEF HookInv
-----------------------------------------------------------------------------
\* The hook fails: nothing else changes, except that the failing connection may
\* be closed by the browser.
LEMMA FailsHook ==
  ASSUME HookInv, PageInv, UNCHANGED <<view, streamingId, mounted>>, SetState(Failure),
         sseRef' = sseRef, RowFinal, OpenKept, PendingKept
  PROVE  HookInv'
<1>1. OneAtATime' /\ Shows'
  BY OneKept, ShowsKept DEF HookInv
<1>2. /\ mounted = TRUE => state' = Failure
      /\ mounted = FALSE => state' = state /\ state = Idle /\ streamingId = NoInference
      /\ mounted \in BOOLEAN
  BY SetStateFacts, HookStates DEF HookInv, HookState, PageInv
<1>3. HookState' /\ Follows'
  BY <1>2, BlankStates, HookBlank
<1>. QED BY <1>1, <1>3 DEF HookInv

LEMMA SettlesHook ==
  ASSUME HookInv, PageInv, LinkInv, NEW i \in Inference, PostFails(i) \/ CancelSettles(i)
  PROVE  HookInv'
<1>1. UNCHANGED <<relayVars, row, view, streamingId, sseRef, mounted>>
  BY DEF PostFails, CancelSettles
<1>2. UNCHANGED <<source, handler, received>>
  BY <1>1 DEF relayVars, connection
<1>3. RowFinal /\ OpenKept /\ \A j \in Inference : Undisturbed(j)
  BY <1>1, <1>2 DEF RowFinal, OpenKept, Undisturbed
<1>4. PendingKept
  <2>1. post' = post \/ post' = [post EXCEPT ![i] = "failed"]
    BY DEF PostFails, CancelSettles
  <2>2. \A j \in Inference : post'[j] \in {post[j], "failed"}
    BY <2>1 DEF LinkInv
  <2>. QED BY <2>2 DEF PendingKept, Pending
<1>5. CASE SetState(Failure)
  BY <1>1, <1>3, <1>4, <1>5, FailsHook
<1>6. CASE UNCHANGED <<state, dirty>>
  <2>1. UNCHANGED <<page, sseRef>>
    BY <1>1, <1>6 DEF page
  <2>. QED BY <1>1, <1>3, <1>4, <1>6, <2>1, UnseenHook, FollowsKept DEF HookInv
<1>. QED BY <1>5, <1>6 DEF PostFails, CancelSettles

\* The answer to the only pending POST: the hook follows a new EventSource.
LEMMA AnsweredHook ==
  ASSUME HookInv, PageInv, LinkInv, NEW i \in Inference, PostAnswered(i)
  PROVE  HookInv'
<1>1. /\ post[i] = "accepted" /\ post' = [post EXCEPT ![i] = "answered"]
      /\ SetState(Streaming(i)) /\ OpenSource(i) /\ sseRef' = i
      /\ UNCHANGED <<row, view, streamingId, mounted>>
  BY DEF PostAnswered
<1>2. /\ source[i] = "none" /\ source' = [source EXCEPT ![i] = "open"]
      /\ received' = received
  BY <1>1 DEF OpenSource
<1>3. PostPending /\ sseRef = NoInference /\ streamingId \in {i, NoInference}
  BY <1>1 DEF PostPending, HookInv, OneAtATime
<1>4. /\ \A j \in Inference \ {i} : source'[j] = source[j] /\ post'[j] = post[j]
      /\ source'[i] = "open" /\ post'[i] = "answered"
  BY <1>1, <1>2 DEF LinkInv, RelayTypeOK
<1>5. \A j \in Inference : source[j] # "open"
  BY <1>3, ClientAssumption DEF HookInv, OneAtATime
<1>6. ASSUME NEW j \in Inference, Pending(j)' PROVE FALSE
  <2>1. j # i
    BY <1>4, <1>6 DEF Pending
  <2>2. Pending(j) /\ Pending(i)
    BY <1>1, <1>4, <1>6, <2>1 DEF Pending
  <2>. QED BY <2>1, <2>2 DEF HookInv, OneAtATime, Pending
<1>7. OneAtATime'
  BY <1>1, <1>4, <1>5, <1>6 DEF OneAtATime, PostPending, Pending
<1>8. Shows'
  BY <1>1, ShowsKept DEF HookInv, RowFinal
<1>9. received'[i] = <<>>
  <2>1. LinkOf(streams[i], source[i], handler[i], kept[i], wire[i], received[i], row[i])
    BY LinkInvLinked, LinkTypes
  <2>. QED BY <1>2, <2>1 DEF LinkOf
<1>10. CASE mounted = TRUE
  <2>1. state' = Streaming(i)
    BY <1>1, <1>10, SetStateFacts, HookStates
  <2>2. state'.status = "streaming" /\ state'.text = <<>> /\ state'.inference = i
    BY <2>1, HookStates
  <2>3. OwnText(i, <<>>)
    BY NoText DEF Ref
  <2>4. HookState'
    BY <1>1, <1>3, <1>10, <2>2, <2>3 DEF HookState, Verdict
  <2>5. Follows'
    BY <1>1, <1>4, <1>9, <2>2 DEF Follows
  <2>. QED BY <1>7, <1>8, <2>4, <2>5 DEF HookInv
<1>11. CASE mounted = FALSE
  <2>1. state' = state /\ state = Idle /\ streamingId = NoInference
    BY <1>1, <1>11, SetStateFacts, HookStates DEF HookInv, HookState
  <2>. QED BY <1>1, <1>7, <1>8, <2>1, BlankStates, HookBlank DEF HookInv
<1>. QED BY <1>10, <1>11 DEF PageInv
-----------------------------------------------------------------------------
\* The user.

LEMMA SubmitHook ==
  ASSUME HookInv, PageInv, LinkInv, Patient, NEW i \in Inference, Submit(i)
  PROVE  HookInv'
<1>1. /\ mounted /\ ~dirty /\ state.status # "streaming"
      /\ view' = [view EXCEPT ![i] = Placeholder] /\ streamingId' = i
      /\ CloseRef /\ post' = [post EXCEPT ![i] = "sent"]
      /\ UNCHANGED <<row, state, dirty, mounted>>
  BY DEF Submit, UserActs, MayCompose, IsStreaming, SendPost
<1>2. ~PostPending
  BY DEF Submit, NextMessage
<1>3. sseRef' = NoInference /\ \A j \in Inference : source'[j] # "open"
  BY <1>1, RefCloses DEF HookInv, PageInv
<1>4. ASSUME NEW j \in Inference, Pending(j)' PROVE j = i
  <2>1. j # i => post'[j] = post[j]
    BY <1>1 DEF LinkInv
  <2>. QED BY <1>2, <1>4, <2>1 DEF Pending, PostPending
<1>5. OneAtATime'
  BY <1>1, <1>3, <1>4 DEF OneAtATime, PostPending, Pending
<1>6. Follows'
  BY <1>1 DEF Follows, IsStreaming
<1>7. HookState'
  <2>1. OwnText(state.inference, state.text)'
    BY <1>1 DEF HookInv, HookState, OwnText, Text
  <2>2. state.status \in Verdict =>
          /\ state.inference \in Inference
          /\ StoredAs(state.inference, state.status, state.text)'
    BY <1>1 DEF HookInv, HookState, StoredAs
  <2>. QED BY <1>1, <2>1, <2>2 DEF HookState, IsStreaming
<1>8. Shows'
  <2>1. /\ view'[i] = Placeholder
        /\ \A j \in Inference \ {i} : view'[j] = view[j]
    BY <1>1 DEF PageInv
  <2>2. OwnText(i, Placeholder.content) /\ Placeholder.status \notin Verdict
    BY Messages, NoText DEF Ref, Verdict
  <2>. QED BY <1>1, <2>1, <2>2 DEF HookInv, Shows, StoredAs
<1>. QED BY <1>5, <1>6, <1>7, <1>8 DEF HookInv

LEMMA LeavesHook ==
  ASSUME HookInv, PageInv, LinkInv, Dismiss \/ Unmount
  PROVE  HookInv'
<1>1. /\ CloseRef /\ state' = Idle /\ UNCHANGED <<post, row>>
      /\ mounted' = FALSE => streamingId' = NoInference
      /\ streamingId' \in {streamingId, NoInference}
  BY DEF Dismiss, Unmount, UserActs, ErrorShown, requests
<1>2. sseRef' = NoInference /\ \A j \in Inference : source'[j] # "open"
  BY <1>1, RefCloses DEF HookInv, PageInv
<1>3. OneAtATime'
  BY <1>1, <1>2, OneClosed DEF HookInv, PendingKept, Pending
<1>4. HookState' /\ Follows'
  BY <1>1, BlankStates, HookBlank
<1>5. Shows'
  <2>1. CASE view' = view
    BY <1>1, <2>1, ShowsKept DEF HookInv, RowFinal
  <2>2. CASE view' = [j \in Inference |-> NoMessage]
    BY <2>2, Messages, NoText DEF Shows, Verdict, Ref
  <2>. QED BY <2>1, <2>2 DEF Dismiss, Unmount
<1>. QED BY <1>3, <1>4, <1>5 DEF HookInv

LEMMA RefreshHook ==
  ASSUME HookInv, PageInv, LinkInv, Refresh
  PROVE  HookInv'
<1>1. /\ source' = [j \in Inference |-> IF source[j] = "open" THEN "closed" ELSE source[j]]
      /\ post' = [j \in Inference |-> IF post[j] = "none" THEN "none" ELSE "gone"]
      /\ view' = [j \in Inference |-> StoredMessage(j)]
      /\ streamingId' = NoInference /\ sseRef' = NoInference /\ state' = Idle
      /\ row' = row
  BY DEF Refresh, CloseAllSources
<1>2. PendingKept /\ \A j \in Inference : source'[j] # "open"
  BY <1>1 DEF PendingKept, Pending
<1>3. OneAtATime'
  BY <1>1, <1>2, OneClosed DEF HookInv
<1>4. HookState' /\ Follows'
  BY <1>1, BlankStates, HookBlank
<1>5. ASSUME NEW j \in Inference
      PROVE  /\ OwnText(j, view'[j].content)
             /\ row'[j].status = view'[j].status
             /\ row'[j].content = Len(view'[j].content)
  <2>1. j \in Ref /\ row[j].content \in Nat
    BY DEF Ref, LinkInv, Row
  <2>2. view'[j].status = row[j].status /\ view'[j].content = Text(j, row[j].content)
    BY <1>1 DEF StoredMessage
  <2>. QED BY <1>1, <2>1, <2>2, TextFacts
<1>6. Shows'
  BY <1>5 DEF Shows, OwnText, Text, StoredAs
<1>. QED BY <1>3, <1>4, <1>6 DEF HookInv
-----------------------------------------------------------------------------
\* The EventSource.

\* What is dispatched while the hook streams comes from its own inference, after
\* all of its text.
LEMMA DispatchFollows ==
  ASSUME HookInv, PageInv, LinkInv, NEW i \in Inference, source[i] = "open",
         wire[i] # <<>>, mounted => IsStreaming
  PROVE  mounted = TRUE =>
           /\ sseRef = i /\ state.inference = i
           /\ IF Head(wire[i]) = "message_start"
              THEN Len(received[i]) = 0 /\ state.text = <<>>
              ELSE Len(received[i]) = Len(state.text) + 1
<1>. SUFFICES ASSUME mounted = TRUE
              PROVE  /\ sseRef = i /\ state.inference = i
                     /\ IF Head(wire[i]) = "message_start"
                        THEN Len(received[i]) = 0 /\ state.text = <<>>
                        ELSE Len(received[i]) = Len(state.text) + 1
  OBVIOUS
<1>1. sseRef = i /\ state.inference = i
  BY DEF HookInv, OneAtATime, Follows
<1>2. /\ received[i] \in Tape /\ wire[i] \in Tape
      /\ LinkOf(streams[i], source[i], handler[i], kept[i], wire[i], received[i], row[i])
  BY LinkInvLinked, LinkTypes
<1>3. handler[i] # "broken" /\ Shape(received[i] \o wire[i])
  BY <1>2 DEF LinkOf, Sound
<1>4. /\ (received[i] \o wire[i])[Len(received[i]) + 1] = Head(wire[i])
      /\ Len(received[i]) + 1 \in 1..Len(received[i] \o wire[i])
      /\ Len(received[i]) \in Nat
  <2> DEFINE d == received[i]
             w == wire[i]
  <2>1. d \in Seq(StreamEvent) /\ w \in Seq(StreamEvent) /\ w # <<>>
    BY <1>2 DEF Tape
  <2>2. Len(d) \in Nat
    BY <2>1
  <2> HIDE DEF d, w
  <2>3. (d \o w)[Len(d) + 1] = Head(w) /\ Len(d) + 1 \in 1..Len(d \o w)
    BY <2>1, DispatchConcat
  <2>. QED BY <2>2, <2>3 DEF d, w
<1>5. Len(received[i]) + 1 = 1 <=> Head(wire[i]) = "message_start"
  BY <1>3, <1>4 DEF Shape
<1>6. received[i] = <<>> <=> Len(received[i]) = 0
  BY <1>2, EmptySeq DEF Tape
<1>7. \/ received[i] = <<>> /\ state.text = <<>>
      \/ Len(received[i]) = Len(state.text) + 1
  BY <1>1, <1>3 DEF HookInv, Follows
<1>8. Len(state.text) \in Nat
  BY DEF PageInv, Hook, Texting
<1>. QED BY <1>1, <1>4, <1>5, <1>6, <1>7, <1>8

\* What a dispatch does to the number of events received.
LEMMA DispatchCounts ==
  ASSUME LinkInv, NEW i \in Inference, DispatchEvent(i)
  PROVE  Len(received'[i]) = Len(received[i]) + 1
<1>1. /\ received \in [Inference -> Tape] /\ received[i] \in Tape /\ wire[i] \in Tape
  BY LinkInvLinked, LinkTypes, RelayTypes DEF LinkInv
<1>2. wire[i] # <<>> /\ received' = [received EXCEPT ![i] = Append(@, Head(wire[i]))]
  BY DEF DispatchEvent
<1>3. received'[i] = Append(received[i], Head(wire[i]))
  BY <1>1, <1>2
<1> DEFINE d == received[i]
           w == wire[i]
<1>4. d \in Seq(StreamEvent) /\ w \in Seq(StreamEvent) /\ w # <<>>
  BY <1>1, <1>2 DEF Tape
<1> HIDE DEF d, w
<1>5. Len(Append(d, Head(w))) = Len(d) + 1
  BY <1>4, DispatchConcat
<1>. QED BY <1>3, <1>5 DEF d, w

LEMMA TokenHook ==
  ASSUME HookInv, PageInv, LinkInv, NEW i \in Inference, ReceiveToken(i)
  PROVE  HookInv'
<1>1. /\ source[i] = "open" /\ wire[i] # <<>> /\ Head(wire[i]) = "token"
      /\ received' = [received EXCEPT ![i] = Append(@, Head(wire[i]))]
      /\ UNCHANGED <<source, handler, row, post, view, streamingId, sseRef, mounted>>
  BY DEF ReceiveToken, DispatchEvent, requests
<1>2. RowFinal /\ OpenKept /\ PendingKept
  BY <1>1 DEF RowFinal, OpenKept, PendingKept, Pending
<1>3. OneAtATime' /\ Shows'
  BY <1>1, <1>2, OneKept, ShowsKept DEF HookInv
<1>4. CASE mounted = TRUE /\ IsStreaming
  <2> DEFINE s == [state EXCEPT !.text = Append(@, <<i, Len(received[i])>>)]
             n == Len(state.text)
  <2>1. /\ s \in Hook /\ s.status = "streaming" /\ s.inference = state.inference
        /\ s.text = Append(state.text, <<i, Len(received[i])>>)
    BY <1>4, HookGrows DEF IsStreaming
  <2>2. state' = s
    BY <1>1, <1>4, <2>1, SetStateFacts DEF ReceiveToken, Listening
  <2> HIDE DEF s
  <2>3. sseRef = i /\ state.inference = i /\ Len(received[i]) = n + 1
    BY <1>1, <1>4, DispatchFollows
  <2>4. state.text = Text(i, n) /\ n \in Nat /\ i \in Ref
    BY <2>3 DEF HookInv, HookState, OwnText, PageInv, Hook, Texting, Ref
  <2>5. s.text = Text(i, n + 1)
    BY <2>1, <2>3, <2>4, TextFacts
  <2>6. Len(s.text) = n + 1 /\ OwnText(i, s.text)
    BY <2>4, <2>5, TextFacts
  <2>7. Len(received'[i]) = Len(received[i]) + 1
    BY DispatchCounts DEF ReceiveToken
  <2>8. HookState'
    BY <1>1, <1>4, <2>1, <2>2, <2>3, <2>6 DEF HookInv, HookState, IsStreaming, Verdict
  <2>9. Follows'
    BY <1>1, <1>4, <2>1, <2>2, <2>3, <2>6, <2>7 DEF HookInv, Follows
  <2>. QED BY <1>3, <2>8, <2>9 DEF HookInv
<1>5. CASE ~(mounted = TRUE /\ IsStreaming)
  <2>1. UNCHANGED <<state, dirty>> /\ ~IsStreaming
    <3>1. mounted = FALSE => ~IsStreaming
      BY HookStates DEF HookInv, HookState, IsStreaming
    <3>2. mounted \in BOOLEAN
      BY DEF PageInv
    <3>. QED BY <1>5, <3>1, <3>2 DEF ReceiveToken, Listening
  <2>2. Follows'
    BY <2>1 DEF Follows, IsStreaming
  <2>. QED BY <1>1, <1>2, <1>3, <2>1, <2>2, HookStateKept DEF HookInv
<1>. QED BY <1>4, <1>5

LEMMA IgnoredHook ==
  ASSUME HookInv, PageInv, LinkInv, NEW i \in Inference, ReceiveIgnored(i)
  PROVE  HookInv'
<1>1. /\ source[i] = "open" /\ wire[i] # <<>>
      /\ received' = [received EXCEPT ![i] = Append(@, Head(wire[i]))]
      /\ UNCHANGED <<source, handler, row, post, page, sseRef>>
      /\ Listening => Head(wire[i]) = "message_start"
  BY DEF ReceiveIgnored, DispatchEvent, requests, Unseen
<1>2. RowFinal /\ OpenKept /\ PendingKept
  BY <1>1 DEF RowFinal, OpenKept, PendingKept, Pending
<1>3. UNCHANGED <<state, mounted>>
  BY <1>1 DEF page
<1>4. CASE IsStreaming
  <2>1. mounted = TRUE
    BY <1>4, HookStates DEF HookInv, HookState, IsStreaming, PageInv
  <2>2. sseRef = i /\ state.inference = i /\ Len(received[i]) = 0 /\ state.text = <<>>
    BY <1>1, <1>4, <2>1, DispatchFollows DEF Listening
  <2>3. Len(received'[i]) = 0 + 1
    BY <2>2, DispatchCounts DEF ReceiveIgnored
  <2>4. Len(received'[i]) = Len(state.text) + 1
    BY <2>2, <2>3, NoText
  <2>5. Follows'
    BY <1>1, <1>3, <2>2, <2>4 DEF Follows
  <2>. QED BY <1>1, <1>2, <2>5, UnseenHook
<1>5. CASE ~IsStreaming
  <2>1. Follows'
    BY <1>3, <1>5 DEF Follows, IsStreaming
  <2>. QED BY <1>1, <1>2, <2>1, UnseenHook
<1>. QED BY <1>4, <1>5

\* The verdict of a stream is in the row, with the tokens the hook has.
LEMMA VerdictStored ==
  ASSUME HookInv, PageInv, LinkInv, NEW i \in Inference, source[i] = "open",
         wire[i] # <<>>, mounted = TRUE, IsStreaming, Head(wire[i]) \in ClosingType,
         Head(wire[i]) # "error"
  PROVE  StoredAs(i, StatusOf(Head(wire[i])), state.text)
<1> DEFINE d == received[i]
           w == wire[i]
           v == d \o w
<1>1. /\ d \in Tape /\ w \in Tape
      /\ LinkOf(streams[i], source[i], handler[i], kept[i], w, d, row[i])
  BY LinkInvLinked, LinkTypes
<1>2. Head(w) # "message_start" /\ w # <<>>
  BY DEF ClosingType
<1>3. Len(d) = Len(state.text) + 1 /\ Len(state.text) \in Nat
  BY <1>2, DispatchFollows DEF PageInv, Hook, Texting
<1>4. Shape(v) /\ Told(row[i], v)
  BY <1>1 DEF LinkOf, Sound
<1>5. v \in Tape
  BY <1>1, ConcatProperties DEF Tape
<1>6. d \in Seq(StreamEvent) /\ w \in Seq(StreamEvent)
  BY <1>1 DEF Tape
<1> HIDE DEF w, d
<1>6a. v[Len(d) + 1] = Head(w) /\ Len(d) + 1 \in 1..Len(v)
  BY <1>2, <1>6, DispatchConcat
<1> HIDE DEF v
<1>7. Len(v) \in Nat
  BY <1>5 DEF Tape
<1>8. Len(d) + 1 = Len(v)
  <2>1. ~(Len(d) + 1 < Len(v))
    BY <1>4, <1>6a DEF Shape, w
  <2>. QED BY <1>3, <1>6a, <1>7, <2>1
<1>9. Closed(v) /\ v[Len(v)] = Head(w)
  BY <1>3, <1>5, <1>6a, <1>8, EmptySeq DEF Closed, Tape, w
<1>10. row[i].status = StatusOf(Head(w)) /\ row[i].content = Len(v) - 2
  BY <1>4, <1>9 DEF Told, w
<1>11. Len(v) - 2 = Len(state.text)
  BY <1>3, <1>8
<1>. QED BY <1>10, <1>11 DEF StoredAs, w

LEMMA ClosingHook ==
  ASSUME HookInv, PageInv, LinkInv, NEW i \in Inference, ReceiveClosing(i), OpenKept
  PROVE  HookInv'
<1> DEFINE e == Head(wire[i])
           s == IF e = "error" THEN Failure ELSE [state EXCEPT !.status = StatusOf(e)]
<1>1. /\ mounted = TRUE /\ IsStreaming /\ e \in ClosingType /\ sseRef' = NoInference
      /\ SetState(s) /\ UNCHANGED <<row, post, view, streamingId, mounted>>
  BY DEF ReceiveClosing, Listening, requests, PageInv
<1>2. source[i] = "open" /\ wire[i] # <<>>
  BY DEF ReceiveClosing, DispatchAndClose, DispatchEvent
<1>3. sseRef = i /\ state.inference = i
  BY <1>1, <1>2, DispatchFollows
<1>4. \A j \in Inference : source'[j] # "open"
  <2>1. DispatchAndClose(i, i)
    BY <1>2, <1>3, ClientAssumption DEF ReceiveClosing
  <2>2. source'[i] = "closed"
    BY <2>1 DEF DispatchAndClose, LinkInv, RelayTypeOK
  <2>. QED BY <1>3, <2>2 DEF HookInv, OneAtATime, OpenKept
<1>5. OneAtATime'
  BY <1>1, <1>4, OneClosed DEF HookInv, PendingKept, Pending
<1>6. Shows'
  BY <1>1, ShowsKept DEF HookInv, RowFinal
<1>7. CASE e = "error"
  <2>1. state' = Failure
    BY <1>1, <1>7, SetStateFacts, HookStates
  <2>. QED BY <1>1, <1>5, <1>6, <2>1, BlankStates, HookBlank DEF HookInv
<1>8. CASE e # "error"
  <2>1. /\ s \in Hook /\ s.status = StatusOf(e) /\ s.status \in Verdict
        /\ s.inference = state.inference /\ s.text = state.text
    BY <1>1, <1>8, HookEnds
  <2>2. StoredAs(i, StatusOf(e), state.text)
    BY <1>1, <1>2, <1>8, VerdictStored
  <2> HIDE DEF s, e
  <2>3. state' = s
    BY <1>1, <2>1, SetStateFacts
  <2>4. OwnText(i, state.text) /\ (streamingId # NoInference => streamingId = i)
    BY <1>1, <1>3 DEF HookInv, HookState
  <2>5. row'[i].status = state'.status /\ row'[i].content = Len(state'.text)
    BY <1>1, <2>1, <2>2, <2>3 DEF StoredAs
  <2>6. HookState'
    BY <1>1, <1>3, <2>1, <2>3, <2>4, <2>5 DEF HookState, StoredAs
  <2>7. Follows'
    BY <2>1, <2>3 DEF Follows, IsStreaming, Verdict
  <2>. QED BY <1>5, <1>6, <2>6, <2>7 DEF HookInv
<1>. QED BY <1>7, <1>8

LEMMA ErrorHook ==
  ASSUME HookInv, PageInv, LinkInv, NEW i \in Inference, SourceError(i), OpenKept
  PROVE  HookInv'
<1>1. /\ UNCHANGED <<row, post, view, streamingId, sseRef, mounted>>
  BY DEF SourceError, requests
<1>2. RowFinal /\ PendingKept
  BY <1>1 DEF RowFinal, PendingKept, Pending
<1>3. CASE SetState(Failure)
  BY <1>1, <1>2, <1>3, FailsHook
<1>4. CASE UNCHANGED <<state, dirty>> /\ ~(mounted /\ state.status \in {"streaming", "idle"})
  <2>1. ~IsStreaming
    BY <1>4, HookStates DEF HookInv, HookState, IsStreaming, PageInv
  <2>2. Follows'
    BY <1>4, <2>1 DEF Follows, IsStreaming
  <2>3. UNCHANGED <<page, sseRef>>
    BY <1>1, <1>4 DEF page
  <2>. QED BY <1>2, <2>2, <2>3, UnseenHook
<1>. QED BY <1>3, <1>4 DEF SourceError
-----------------------------------------------------------------------------
\* A render.

LEMMA ShowTextHook ==
  ASSUME HookInv, PageInv, LinkInv, ShowText, UNCHANGED <<post, row, mounted>>,
         dirty' = FALSE
  PROVE  HookInv'
<1>1. /\ streamingId # NoInference /\ IsStreaming
      /\ view' = [view EXCEPT ![streamingId].content = state.text]
      /\ UNCHANGED <<relayVars, sseRef, state, streamingId>>
  BY DEF ShowText
<1>2. UNCHANGED <<source, handler, received>>
  BY <1>1 DEF relayVars, connection
<1>3. RowFinal /\ OpenKept /\ PendingKept /\ \A j \in Inference : Undisturbed(j)
  BY <1>2 DEF RowFinal, OpenKept, PendingKept, Pending, Undisturbed
<1>4. OneAtATime' /\ HookState' /\ Follows'
  BY <1>1, <1>3, OneKept, HookStateKept, FollowsKept DEF HookInv
<1>5. /\ streamingId \in Inference /\ view \in [Inference -> Message]
      /\ view[streamingId].status = "streaming"
      /\ OwnText(streamingId, state.text)
  BY <1>1 DEF PageInv, Ref, HookInv, HookState
<1>6. /\ view'[streamingId].content = state.text
      /\ view'[streamingId].status \notin Verdict
      /\ \A j \in Inference \ {streamingId} : view'[j] = view[j]
  BY <1>1, <1>5 DEF Message, Verdict
<1>7. ASSUME NEW j \in Inference
      PROVE  /\ OwnText(j, view'[j].content)
             /\ view'[j].status \in Verdict =>
                  row[j].status = view'[j].status /\ row[j].content = Len(view'[j].content)
  BY <1>5, <1>6 DEF HookInv, Shows, StoredAs
<1>8. Shows'
  BY <1>7 DEF Shows, OwnText, Text, StoredAs
<1>. QED BY <1>4, <1>8 DEF HookInv

LEMMA ShowErrorHook ==
  ASSUME HookInv, PageInv, LinkInv, ShowError, UNCHANGED <<post, row, mounted>>,
         dirty' = FALSE
  PROVE  HookInv'
<1>1. /\ streamingId # NoInference /\ streamingId' = NoInference
      /\ view' = [view EXCEPT ![streamingId].status = "failed"]
      /\ UNCHANGED <<relayVars, sseRef, state>>
  BY DEF ShowError
<1>2. UNCHANGED <<source, handler, received>>
  BY <1>1 DEF relayVars, connection
<1>3. RowFinal /\ OpenKept /\ PendingKept /\ \A j \in Inference : Undisturbed(j)
  BY <1>2 DEF RowFinal, OpenKept, PendingKept, Pending, Undisturbed
<1>4. OneAtATime' /\ HookState' /\ Follows'
  BY <1>1, <1>3, OneKept, HookStateKept, FollowsKept DEF HookInv
<1>5. streamingId \in Inference /\ view \in [Inference -> Message]
  BY <1>1 DEF PageInv, Ref
<1>6. /\ view'[streamingId].content = view[streamingId].content
      /\ view'[streamingId].status \notin Verdict
      /\ \A j \in Inference \ {streamingId} : view'[j] = view[j]
  BY <1>1, <1>5 DEF Message, Verdict
<1>7. ASSUME NEW j \in Inference
      PROVE  /\ OwnText(j, view'[j].content)
             /\ view'[j].status \in Verdict =>
                  row[j].status = view'[j].status /\ row[j].content = Len(view'[j].content)
  BY <1>5, <1>6 DEF HookInv, Shows, StoredAs
<1>8. Shows'
  BY <1>7 DEF Shows, OwnText, Text, StoredAs
<1>. QED BY <1>4, <1>8 DEF HookInv

LEMMA ShowVerdictHook ==
  ASSUME HookInv, PageInv, LinkInv, ShowVerdict, UNCHANGED <<post, row, mounted>>,
         dirty = TRUE, mounted = TRUE
  PROVE  HookInv'
<1>1. /\ streamingId # NoInference /\ streamingId' = NoInference
      /\ state.status \in Verdict /\ state' = Idle /\ CloseRef
      /\ view' = [view EXCEPT ![streamingId] = [status |-> state.status,
                                                content |-> state.text]]
  BY DEF ShowVerdict, Verdict
<1>2. sseRef' = NoInference /\ \A j \in Inference : source'[j] # "open"
  BY <1>1, RefCloses DEF HookInv, PageInv
<1>3. OneAtATime'
  BY <1>1, <1>2, OneClosed DEF HookInv, PendingKept, Pending
<1>4. HookState' /\ Follows'
  BY <1>1, BlankStates, HookBlank
<1>5. /\ streamingId \in Inference /\ view \in [Inference -> Message]
      /\ OwnText(streamingId, state.text)
      /\ StoredAs(streamingId, state.status, state.text)
  BY <1>1 DEF PageInv, Ref, HookInv, HookState
<1>6. /\ view'[streamingId].content = state.text
      /\ view'[streamingId].status = state.status
      /\ \A j \in Inference \ {streamingId} : view'[j] = view[j]
  BY <1>1, <1>5
<1>7. ASSUME NEW j \in Inference
      PROVE  /\ OwnText(j, view'[j].content)
             /\ view'[j].status \in Verdict =>
                  row[j].status = view'[j].status /\ row[j].content = Len(view'[j].content)
  BY <1>5, <1>6 DEF HookInv, Shows, StoredAs
<1>8. Shows'
  BY <1>7 DEF Shows, OwnText, Text, StoredAs
<1>. QED BY <1>3, <1>4, <1>8 DEF HookInv

LEMMA CommitHook ==
  ASSUME HookInv, PageInv, LinkInv, Commit
  PROVE  HookInv'
<1>1. /\ mounted = TRUE /\ dirty = TRUE /\ dirty' = FALSE /\ UNCHANGED <<post, row, mounted>>
  BY DEF Commit, requests, PageInv
<1>2. CASE ShowNothing
  <2>1. UNCHANGED <<relayVars, sseRef, state, view, streamingId>>
    BY <1>2 DEF ShowNothing
  <2>2. UNCHANGED <<source, handler, received>>
    BY <2>1 DEF relayVars, connection
  <2>3. RowFinal /\ OpenKept /\ PendingKept /\ \A j \in Inference : Undisturbed(j)
    BY <1>1, <2>2 DEF RowFinal, OpenKept, PendingKept, Pending, Undisturbed
  <2>. QED BY <1>1, <2>1, <2>3, OneKept, HookStateKept, FollowsKept, ShowsKept
           DEF HookInv
<1>. QED BY <1>1, <1>2, ShowTextHook, ShowErrorHook, ShowVerdictHook DEF Commit
-----------------------------------------------------------------------------
LEMMA ReceivesHook ==
  ASSUME HookInv, PageInv, LinkInv, NEW i \in Inference, Receives(i)
  PROVE  HookInv'
<1>1. OpenKept
  BY CalmLink DEF PageInv
<1>. QED BY <1>1, TokenHook, IgnoredHook, ClosingHook, ErrorHook DEF Receives

LEMMA HookStep ==
  ASSUME HookInv, PageInv, LinkInv, Patient, [ClientNext]_clientVars
  PROVE  HookInv'
<1>1. RowFinal
  BY LinkStep
<1>2. ASSUME NEW i \in Inference, Settles(i) \/ CancelSettles(i) PROVE HookInv'
  BY <1>1, <1>2, AnsweredHook, SettlesHook, RelayHook DEF Settles
<1>3. ASSUME NEW i \in Inference,
             Produce(i) \/ Closes(i) \/ Serve(i) \/ Expire(i) \/ Break(i)
      PROVE  HookInv'
  BY <1>1, <1>3, RelayHook
<1>4. CASE CrashServer \/ ClickCancel \/ UNCHANGED clientVars
  BY <1>1, <1>4, RelayHook
<1>5. CASE Dismiss \/ Unmount \/ Refresh \/ Commit
  BY <1>5, LeavesHook, RefreshHook, CommitHook
<1>. QED
  BY <1>2, <1>3, <1>4, <1>5, SubmitHook, ReceivesHook DEF ClientNext

LEMMA ClientStep == ClientInv /\ [ClientNext]_clientVars => ClientInv'
BY LinkStep, PageStep, HookStep DEF ClientInv

\* What a connection carries, and what the hook and the page make of it, are
\* consistent in every reachable state of the client.
THEOREM ClientInvariant == ClientSpec => []ClientInv
BY ClientInitInv, ClientStep, PTL DEF ClientSpec

\* Every variable of the relay stays in the set of values its code can give it.
THEOREM RelayTypeCorrect == ClientSpec => []RelayTypeOK
<1>1. ClientInv => RelayTypeOK
  BY DEF ClientInv, LinkInv
<1>. QED BY <1>1, ClientInvariant, PTL

\* A connection that is served carries the whole buffer of its stream in order,
\* from message_start on, wherever publishing, end() and the grace timer fell
\* between the SSE handler's look-up and its subscription, and whatever broke.
THEOREM ConnectionsMissNothing == ClientSpec => []NothingMissed
<1>1. LinkInv => NothingMissed
  <2>. SUFFICES ASSUME LinkInv, NEW i \in Inference,
                       handler[i] \in {"live", "finished"}, streams[i].state # "absent"
                PROVE  received[i] \o wire[i] = streams[i].buffer
    BY DEF NothingMissed, OnTheWay
  <2>1. LinkOf(streams[i], source[i], handler[i], kept[i], wire[i], received[i], row[i])
    BY LinkInvLinked, LinkTypes
  <2>. QED BY <2>1 DEF LinkOf
<1>2. ClientInv => NothingMissed
  BY <1>1 DEF ClientInv
<1>. QED BY <1>2, ClientInvariant, PTL

\* A handler that listens does so to a stream that will still emit 'end', and a
\* response that ended did so after a closing event.
THEOREM NoSubscriberHangs == ClientSpec => []NobodyHangs
<1>1. LinkInv => NobodyHangs
  <2>. SUFFICES ASSUME LinkInv, NEW i \in Inference
                PROVE  /\ handler[i] = "live" => streams[i].state = "open"
                       /\ handler[i] = "finished" => Closed(received[i] \o wire[i])
    BY DEF NobodyHangs, OnTheWay
  <2>1. LinkOf(streams[i], source[i], handler[i], kept[i], wire[i], received[i], row[i])
    BY LinkInvLinked, LinkTypes
  <2>. QED BY <2>1 DEF LinkOf
<1>2. ClientInv => NobodyHangs
  BY <1>1 DEF ClientInv
<1>. QED BY <1>2, ClientInvariant, PTL

\* When the user sends one message at a time, a bubble shows a prefix of its own
\* inference's tokens, each once and in order, although the callbacks of the
\* EventSource do not ask which inference they are called for.
THEOREM BubblesShowTheirOwnText == ClientSpec => []ShownTextIsOwn
<1>1. ClientInv => ShownTextIsOwn
  BY DEF ClientInv, HookInv, Shows, OwnText, ShownTextIsOwn
<1>. QED BY <1>1, ClientInvariant, PTL

\* A bubble that says completed or cancelled says what is stored, and shows as
\* many tokens as are stored.
THEOREM BubblesAgreeWithRows == ClientSpec => []ShownVerdictIsStored
<1>1. ClientInv => ShownVerdictIsStored
  BY DEF ClientInv, HookInv, Shows, StoredAs, Verdict, ShownVerdictIsStored
<1>. QED BY <1>1, ClientInvariant, PTL

\* Whoever the user is, a message that was settled on the screen changes only
\* when the page is left or loaded again.
THEOREM SettledBubblesStay == ClientSpec => SettledViewIsFinal
<1> DEFINE Kept(i) == view[i].status \in {"completed", "cancelled", "failed"} =>
                        view'[i] = view[i] \/ Refresh \/ Unmount
<1>1. ASSUME ClientInv, ClientNext, NEW i \in Inference PROVE Kept(i)
  <2>1. PageInv /\ LinkInv
    BY <1>1 DEF ClientInv
  <2>2. CASE Commit
    <3>1. view[i].status # "streaming" => view'[i] = view[i]
      BY <2>1, <2>2, CommitPage
    <3>. QED BY <3>1
  <2>3. ASSUME NEW j \in Inference, Submit(j) PROVE Kept(i)
    <3>1. post[j] = "none" /\ view' = [view EXCEPT ![j] = Placeholder]
      BY <2>3 DEF Submit, NextMessage
    <3>2. view[j].status = "none" /\ (i # j => view'[i] = view[i])
      BY <2>1, <3>1 DEF PageInv
    <3>. QED BY <3>2
  <2>4. CASE view' = view
    BY <2>4
  <2>5. CASE Refresh \/ Unmount
    BY <2>5
  <2>6. ASSUME NEW j \in Inference,
               \/ Settles(j) \/ CancelSettles(j) \/ Produce(j) \/ Closes(j)
               \/ Serve(j) \/ Expire(j) \/ Break(j)
        PROVE  view' = view
    BY <2>6 DEF Settles, Accept, PostAnswered, PostFails, CancelSettles, Produce, Closes,
                Close, Serve, Expire, Break, Unseen, page
  <2>7. ASSUME NEW j \in Inference, Receives(j) PROVE view' = view
    BY <2>7 DEF Receives, ReceiveToken, ReceiveIgnored, ReceiveClosing, SourceError,
                Unseen, page
  <2>8. CASE ClickCancel \/ Dismiss \/ CrashServer
    <3>1. view' = view
      BY <2>8 DEF ClickCancel, Dismiss, CrashServer, Unseen, page
    <3>. QED BY <3>1
  <2>. HIDE DEF Kept
  <2>. QED BY <1>1, <2>2, <2>3, <2>4, <2>5, <2>6, <2>7, <2>8 DEF ClientNext
<1>2. ClientInv /\ [ClientNext]_clientVars => [\A i \in Inference : Kept(i)]_clientVars
  <2>. HIDE DEF Kept
  <2>. QED BY <1>1
<1>. QED BY <1>2, ClientInvariant, PTL DEF ClientSpec, SettledViewIsFinal
=============================================================================

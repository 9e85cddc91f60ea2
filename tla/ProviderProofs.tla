--------------------------- MODULE ProviderProofs ---------------------------
(***************************************************************************)
(* Theorems about ProviderStream, for any adapters, any length of the SDK  *)
(* stream and any counts: its types, CompletedIsFaithful and               *)
(* FailedKeepsText, from an invariant that follows each text from the SDK  *)
(* through the chunk in flight to the content, and the refinement of       *)
(* AttemptContract.                                                        *)
(***************************************************************************)
EXTENDS ProviderStream, SequenceTheorems, TLAPS

Usages == [CountField -> Counts \cup {0}]
ChunkType ==
  [type : {"token", "completed", "error"}, text : 0..MaxItems, usage : Usages,
   retryable : BOOLEAN]
OutcomeType ==
  [kind : {"pending", "completed", "cancelled", "error", "exception"},
   retryable : BOOLEAN, usage : Usages]
SentType ==
  [items : 0..MaxItems, texts : SUBSET (1..MaxItems), counts : Usages]

\* The content c is faithful to the texts t, of which none comes after the
\* item n.
Faithful(c, t, n) ==
  /\ Texts(c) = t /\ InOrder(c) /\ Len(c) <= n
  /\ \A k \in DOMAIN c : c[k] <= n

\* A token is in flight from the generator to the content.
InFlight == pc = "mark" \/ (pc = "chunk" /\ chunk.type = "token")
Upcoming == IF InFlight THEN Append(content, chunk.text) ELSE content

Types ==
  /\ adapter \in Adapters
  /\ pc \in {"create", "next", "final", "chunk", "mark", "done"}
  /\ usage \in Usages /\ chunk \in ChunkType
  /\ content \in Seq(0..MaxItems)
  /\ stamped \in BOOLEAN /\ aborted \in BOOLEAN
  /\ outcome \in OutcomeType
  /\ sent \in SentType

\* The texts and the counts, wherever the attempt is.
TextsKept ==
  pc # "done" \/ outcome.kind \in {"completed", "error"} =>
    Faithful(Upcoming, sent.texts, sent.items)
CountsKept ==
  /\ pc \in {"create", "next", "mark"} \/ InFlight => usage = sent.counts
  /\ pc = "final" => adapter = "anthropic"
  /\ pc = "chunk" /\ chunk.type = "completed" => chunk.usage = sent.counts
  /\ outcome.kind = "completed" => outcome.usage = sent.counts
\* What the loop's own state says of the place it has reached.
LoopState ==
  /\ pc = "done" <=> outcome.kind # "pending"
  /\ outcome.kind # "error" => outcome.retryable = FALSE
  /\ pc # "done" => (stamped = TRUE /\ pc # "mark" <=> Len(content) > 0)
  /\ pc = "mark" => stamped = TRUE
  /\ stamped = FALSE => Len(content) = 0
  /\ Len(content) <= MaxItems

AttemptInv == Types /\ TextsKept /\ CountsKept /\ LoopState
-----------------------------------------------------------------------------
\* An item without text, and one with a text, keep a content faithful.
LEMMA FaithfulSkip ==
  ASSUME NEW c \in Seq(0..MaxItems), NEW t, NEW n \in Nat, Faithful(c, t, n)
  PROVE  Faithful(c, t, n + 1)
<1>1. /\ Len(c) \in Nat /\ Len(c) <= n
      /\ \A k \in DOMAIN c : c[k] \in Nat /\ c[k] <= n
  BY ElementOfSeq, AdapterAssumption DEF Faithful
<1>2. Len(c) <= n + 1 /\ \A k \in DOMAIN c : c[k] <= n + 1
  BY <1>1
<1>. QED BY <1>2 DEF Faithful

LEMMA FaithfulAppend ==
  ASSUME NEW c \in Seq(0..MaxItems), NEW t, NEW n \in Nat, Faithful(c, t, n),
         NEW x \in {0, n + 1}, x \in 0..MaxItems
  PROVE  Faithful(Append(c, x), IF x = 0 THEN t ELSE t \cup {x}, n + 1)
<1> DEFINE d == Append(c, x)
<1>1. /\ Len(c) \in Nat /\ Len(c) <= n /\ DOMAIN c = 1..Len(c)
      /\ \A k \in DOMAIN c : c[k] \in Nat /\ c[k] <= n
  BY ElementOfSeq, AdapterAssumption DEF Faithful
<1>2. /\ DOMAIN d = 1..(Len(c) + 1) /\ Len(d) = Len(c) + 1 /\ d[Len(c) + 1] = x
      /\ \A k \in 1..Len(c) : d[k] = c[k]
  OBVIOUS
<1>3. \A k \in DOMAIN d : k = Len(c) + 1 \/ k \in 1..Len(c)
  BY <1>1, <1>2
<1> HIDE DEF d
<1>4. Len(d) <= n + 1 /\ \A k \in DOMAIN d : d[k] <= n + 1
  <2>1. ASSUME NEW k \in DOMAIN d PROVE d[k] <= n + 1
    <3>1. CASE k = Len(c) + 1
      BY <1>2, <3>1
    <3>2. CASE k \in 1..Len(c)
      <4>1. d[k] = c[k] /\ c[k] \in Nat /\ c[k] <= n
        BY <1>1, <1>2, <3>2
      <4>. QED BY <4>1
    <3>. QED BY <1>3, <3>1, <3>2
  <2>. QED BY <1>1, <1>2, <2>1
<1>5. InOrder(d)
  <2>1. ASSUME NEW j \in DOMAIN d, NEW k \in DOMAIN d, j < k, d[j] # 0, d[k] # 0
        PROVE  d[j] < d[k]
    <3>1. j \in 1..Len(c)
      BY <1>1, <1>2, <2>1
    <3>2. d[j] = c[j] /\ c[j] \in Nat /\ c[j] <= n
      BY <1>1, <1>2, <3>1
    <3>3. CASE k = Len(c) + 1
      <4>1. d[k] = n + 1
        BY <1>2, <2>1, <3>3
      <4>. QED BY <3>2, <4>1
    <3>4. CASE k \in 1..Len(c)
      <4>1. d[k] = c[k]
        BY <1>2, <3>4
      <4>. QED BY <1>1, <2>1, <3>1, <3>2, <3>4, <4>1 DEF Faithful, InOrder
    <3>. QED BY <1>3, <3>3, <3>4
  <2>. QED BY <2>1 DEF InOrder
<1>6. Texts(d) = Texts(c) \cup ({x} \ {0})
  <2>1. ASSUME NEW y PROVE y \in Texts(d) <=> y \in Texts(c) \cup ({x} \ {0})
    <3>1. ASSUME y \in Texts(d) PROVE y \in Texts(c) \cup ({x} \ {0})
      <4>1. PICK k \in DOMAIN d : y = d[k] /\ y # 0
        BY <3>1 DEF Texts
      <4>2. CASE k = Len(c) + 1
        BY <1>2, <4>1, <4>2
      <4>3. CASE k \in 1..Len(c)
        <5>1. k \in DOMAIN c /\ y = c[k]
          BY <1>1, <1>2, <4>1, <4>3
        <5>. QED BY <4>1, <5>1 DEF Texts
      <4>. QED BY <1>3, <4>2, <4>3
    <3>2. ASSUME y \in Texts(c) PROVE y \in Texts(d)
      <4>1. PICK k \in 1..Len(c) : y = c[k] /\ y # 0
        BY <1>1, <3>2 DEF Texts
      <4>2. k \in DOMAIN d /\ y = d[k]
        BY <1>1, <1>2, <4>1
      <4>. QED BY <4>1, <4>2 DEF Texts
    <3>3. ASSUME y \in {x} \ {0} PROVE y \in Texts(d)
      <4>1. Len(c) + 1 \in DOMAIN d
        BY <1>1, <1>2
      <4>. QED BY <1>2, <3>3, <4>1 DEF Texts
    <3>. QED BY <3>1, <3>2, <3>3
  <2>. QED BY <2>1
<1>7. Texts(d) = IF x = 0 THEN t ELSE t \cup {x}
  BY <1>6 DEF Faithful
<1>. QED BY <1>4, <1>5, <1>7 DEF Faithful, d

\* What the attempt is made of is well-formed.
LEMMA AttemptTypes ==
  /\ NoCounts \in Usages
  /\ \A text \in 0..MaxItems : TokenChunk(text) \in ChunkType
  /\ \A u \in Usages : CompletedChunk(u) \in ChunkType
  /\ \A r \in BOOLEAN : ErrorChunk(r) \in ChunkType
  /\ Pending \in OutcomeType
  /\ \A r \in BOOLEAN : Failed(r) \in OutcomeType
  /\ \A k \in {"completed", "cancelled", "exception"} :
       Ending(k) \in OutcomeType
  /\ \A u \in Usages : [Ending("completed") EXCEPT !.usage = u] \in OutcomeType
<1>1. NoCounts \in Usages
  BY DEF NoCounts, Usages, CountField
<1>2. 0 \in 0..MaxItems
  BY AdapterAssumption
<1>. QED
  BY <1>1, <1>2
  DEF TokenChunk, CompletedChunk, ErrorChunk, Pending, Failed, Ending, ChunkType,
      OutcomeType

LEMMA AttemptInit == Init => AttemptInv
<1>. SUFFICES ASSUME Init PROVE AttemptInv
  OBVIOUS
<1>1. /\ adapter \in Adapters /\ pc \in {"create", "next"} /\ usage = NoCounts
      /\ chunk = TokenChunk(0) /\ content = <<>> /\ stamped = FALSE /\ aborted = FALSE
      /\ outcome = Pending
      /\ sent = [items |-> 0, texts |-> {}, counts |-> NoCounts]
  BY DEF Init, FirstAwait
<1>2. 0 \in 0..MaxItems
  BY AdapterAssumption
<1>3. Types
  <2>1. adapter \in Adapters /\ pc \in {"create", "next"} /\ content \in Seq(0..MaxItems)
    BY <1>1
  <2>2. usage \in Usages /\ chunk \in ChunkType /\ outcome \in OutcomeType
    BY <1>1, <1>2, AttemptTypes
  <2>3. {} \in SUBSET (1..MaxItems) /\ NoCounts \in Usages
    BY AttemptTypes
  <2>4. sent \in SentType
    BY <1>1, <1>2, <2>3 DEF SentType
  <2>. QED BY <1>1, <2>1, <2>2, <2>4 DEF Types
<1>4. outcome.kind = "pending" /\ outcome.retryable = FALSE
  BY <1>1 DEF Pending
<1>5. sent.items = 0 /\ sent.texts = {} /\ sent.counts = NoCounts
  BY <1>1
<1>6. Faithful(<<>>, {}, 0)
  BY DEF Faithful, Texts, InOrder
<1>7. TextsKept
  BY <1>1, <1>5, <1>6 DEF TextsKept, Upcoming, InFlight
<1>8. CountsKept
  BY <1>1, <1>4, <1>5 DEF CountsKept, InFlight
<1>9. LoopState
  BY <1>1, <1>2, <1>4, AdapterAssumption DEF LoopState
<1>. QED BY <1>3, <1>7, <1>8, <1>9 DEF AttemptInv

\* The attempt ends: cancelled, thrown out of, or failed with all its texts.
LEMMA AttemptEnds ==
  ASSUME AttemptInv, pc # "done", pc' = "done",
         UNCHANGED <<adapter, stamped, content>>, aborted' = aborted,
         usage' \in Usages, chunk' \in ChunkType,
         sent' \in SentType,
         outcome' \in {Ending("cancelled"), Ending("exception"), Failed(FALSE)},
         outcome' = Failed(FALSE) => Faithful(content, sent'.texts, sent'.items)
  PROVE  AttemptInv'
<1>1. Types'
  BY AttemptTypes DEF AttemptInv, Types
<1>2. /\ outcome'.kind \in {"cancelled", "exception", "error"}
      /\ outcome'.retryable = FALSE
      /\ outcome'.kind = "error" => outcome' = Failed(FALSE)
  BY DEF Ending, Failed, Pending
<1>3. TextsKept'
  BY <1>2 DEF TextsKept, Upcoming, InFlight
<1>4. CountsKept'
  BY <1>2 DEF CountsKept, InFlight
<1>5. LoopState'
  BY <1>2 DEF AttemptInv, LoopState
<1>. QED BY <1>1, <1>3, <1>4, <1>5 DEF AttemptInv

LEMMA ReturnedInv ==
  ASSUME AttemptInv, pc \in {"create", "next", "final"}, GeneratorReturned,
         UNCHANGED <<adapter, usage, chunk, content, stamped, aborted>>,
         sent' \in SentType,
         aborted \/ sent' = sent
  PROVE  AttemptInv'
<1>1. pc' = "done" /\ outcome' \in {Ending("cancelled"), Failed(FALSE)}
  BY DEF GeneratorReturned, Finish
<1>2. Faithful(content, sent.texts, sent.items)
  BY DEF AttemptInv, TextsKept, Upcoming, InFlight
<1>3. aborted => outcome' = Ending("cancelled")
  BY DEF GeneratorReturned, Finish
<1>4. Ending("cancelled").kind = "cancelled" /\ Failed(FALSE).kind = "error"
  BY DEF Ending, Failed, Pending
<1>5. outcome' = Failed(FALSE) => Faithful(content, sent'.texts, sent'.items)
  BY <1>2, <1>3, <1>4
<1>. QED BY <1>1, <1>5, AttemptEnds DEF AttemptInv, Types

\* The counts of an item, and what is kept of them.
LEMMA ReportedType ==
  ASSUME NEW old \in Usages, NEW u \in ItemUsage(adapter), adapter \in Adapters
  PROVE  Reported(old, u) \in Usages
<1>1. u \in [CountField -> Counts \cup {Missing}]
  BY AdapterAssumption DEF ItemUsage, NoUsage
<1>2. ASSUME NEW f \in CountField
      PROVE  (IF u[f] = Missing THEN old[f] ELSE u[f]) \in Counts \cup {0}
  BY <1>1 DEF Usages
<1>. QED BY <1>2 DEF Reported, Usages

\* The chunks of a generator are told apart by their type.
LEMMA ChunkFields ==
  /\ \A text \in 0..MaxItems :
       TokenChunk(text).type = "token" /\ TokenChunk(text).text = text
  /\ \A u \in Usages :
       CompletedChunk(u).type = "completed" /\ CompletedChunk(u).usage = u
  /\ \A r \in BOOLEAN : ErrorChunk(r).type = "error" /\ ErrorChunk(r).retryable = r
BY DEF TokenChunk, CompletedChunk, ErrorChunk

LEMMA CreatedInv == ASSUME AttemptInv, Created PROVE AttemptInv'
<1>1. pc = "create" /\ pc' = "next"
  BY DEF Created
<1>2. UNCHANGED <<adapter, usage, chunk, content, stamped, aborted, outcome, sent>>
  BY DEF Created
<1>3. Types'
  BY <1>1, <1>2 DEF AttemptInv, Types
<1>4. TextsKept'
  BY <1>1, <1>2 DEF AttemptInv, TextsKept, Upcoming, InFlight
<1>5. CountsKept'
  BY <1>1, <1>2 DEF AttemptInv, CountsKept, InFlight
<1>6. LoopState'
  BY <1>1, <1>2 DEF AttemptInv, LoopState
<1>. QED BY <1>3, <1>4, <1>5, <1>6 DEF AttemptInv

LEMMA CancelInv == ASSUME AttemptInv, Cancel PROVE AttemptInv'
<1>1. aborted' = TRUE
  BY DEF Cancel
<1>2. UNCHANGED <<adapter, pc, usage, chunk, content, stamped, outcome, sent>>
  BY DEF Cancel
<1>3. Types'
  BY <1>1, <1>2 DEF AttemptInv, Types
<1>4. TextsKept'
  BY <1>2 DEF AttemptInv, TextsKept, Upcoming, InFlight
<1>5. CountsKept'
  BY <1>2 DEF AttemptInv, CountsKept, InFlight
<1>6. LoopState'
  BY <1>2 DEF AttemptInv, LoopState
<1>. QED BY <1>3, <1>4, <1>5, <1>6 DEF AttemptInv

\* An item of the SDK: its text goes into flight, or is none.
LEMMA SdkItemInv == ASSUME AttemptInv, SdkItem PROVE AttemptInv'
<1>1. /\ pc = "next" /\ sent.items < MaxItems
      /\ UNCHANGED <<adapter, content, stamped, aborted>>
  BY DEF SdkItem
<1>2. PICK text \in {0, sent.items + 1}, u \in ItemUsage(adapter) :
        /\ sent' = [sent EXCEPT !.items = @ + 1,
                                !.texts = IF text = 0 THEN @ ELSE @ \cup {text},
                                !.counts = Reported(@, u)]
        /\ IF StopsReading
           THEN GeneratorReturned /\ UNCHANGED <<usage, chunk>>
           ELSE KeepUsage(u) /\ TakeItem(text) /\ UNCHANGED outcome
  BY DEF SdkItem
<1>3. /\ adapter \in Adapters /\ usage \in Usages /\ sent \in SentType
      /\ chunk \in ChunkType /\ outcome \in OutcomeType /\ content \in Seq(0..MaxItems)
      /\ stamped \in BOOLEAN /\ aborted \in BOOLEAN
  BY DEF AttemptInv, Types
<1>4. /\ sent.items \in 0..MaxItems /\ sent.items \in Nat
      /\ sent.texts \in SUBSET (1..MaxItems) /\ sent.counts \in Usages
  BY <1>3, AdapterAssumption DEF SentType
<1>5. /\ sent.items + 1 \in 1..MaxItems /\ sent.items + 1 \in 0..MaxItems
      /\ text \in 0..MaxItems
  BY <1>1, <1>2, <1>4, AdapterAssumption
<1>6. Reported(sent.counts, u) \in Usages /\ Reported(usage, u) \in Usages
  BY <1>2, <1>3, <1>4, ReportedType
<1> DEFINE t == IF text = 0 THEN sent.texts ELSE sent.texts \cup {text}
<1>7. t \in SUBSET (1..MaxItems)
  BY <1>2, <1>4, <1>5
<1>8. sent' = [items |-> sent.items + 1, texts |-> t,
               counts |-> Reported(sent.counts, u)]
  BY <1>2, <1>3 DEF SentType
<1> HIDE DEF t
<1>9. /\ sent'.items = sent.items + 1 /\ sent'.texts = t
      /\ sent'.counts = Reported(sent.counts, u)
  BY <1>8
<1>10. sent' \in SentType
  BY <1>4, <1>5, <1>6, <1>7, <1>8 DEF SentType
<1>11. CASE StopsReading
  BY <1>1, <1>2, <1>10, <1>11, ReturnedInv DEF StopsReading
<1>12. CASE ~StopsReading
  <2>1. usage' = Reported(usage, u) /\ TakeItem(text) /\ outcome' = outcome
    BY <1>2, <1>12 DEF KeepUsage
  <2>2. /\ Faithful(content, sent.texts, sent.items)
        /\ usage = sent.counts /\ outcome.kind = "pending"
    BY <1>1 DEF AttemptInv, TextsKept, CountsKept, LoopState, Upcoming,
                InFlight
  <2>3. CASE text = 0 /\ SkipsEmpty(adapter)
    <3>1. pc' = "next" /\ chunk' = chunk
      BY <2>1, <2>3 DEF TakeItem
    <3>2. Types'
      BY <1>1, <1>3, <1>6, <1>10, <2>1, <3>1 DEF Types
    <3>3. t = sent.texts
      BY <2>3 DEF t
    <3>4. Faithful(content, sent.texts, sent.items + 1)
      BY <1>3, <1>4, <2>2, FaithfulSkip
    <3>5. TextsKept'
      BY <1>1, <1>9, <3>1, <3>3, <3>4 DEF TextsKept, Upcoming, InFlight
    <3>6. CountsKept'
      BY <1>9, <2>1, <2>2, <3>1 DEF CountsKept, InFlight
    <3>7. LoopState'
      BY <1>1, <2>1, <3>1 DEF AttemptInv, LoopState
    <3>. QED BY <3>2, <3>5, <3>6, <3>7 DEF AttemptInv
  <2>4. CASE ~(text = 0 /\ SkipsEmpty(adapter))
    <3>1. pc' = "chunk" /\ chunk' = TokenChunk(text)
      BY <2>1, <2>4 DEF TakeItem, Yield
    <3>2. chunk' \in ChunkType /\ chunk'.type = "token" /\ chunk'.text = text
      BY <1>5, <3>1, AttemptTypes, ChunkFields
    <3>3. Types'
      BY <1>1, <1>3, <1>6, <1>10, <2>1, <3>1, <3>2 DEF Types
    <3>4. Faithful(Append(content, text), t, sent.items + 1)
      BY <1>2, <1>3, <1>4, <1>5, <2>2, FaithfulAppend DEF t
    <3>5. TextsKept'
      BY <1>1, <1>9, <3>1, <3>2, <3>4 DEF TextsKept, Upcoming, InFlight
    <3>6. CountsKept'
      BY <1>9, <2>1, <2>2, <3>1, <3>2 DEF CountsKept, InFlight
    <3>7. LoopState'
      BY <1>1, <2>1, <3>1 DEF AttemptInv, LoopState
    <3>. QED BY <3>3, <3>5, <3>6, <3>7 DEF AttemptInv
  <2>. QED BY <2>3, <2>4
<1>. QED BY <1>11, <1>12

\* The adapter yields its last chunk: no token is in flight.
LEMMA LastChunkInv ==
  ASSUME AttemptInv, pc \in {"create", "next", "final"}, pc' = "chunk",
         UNCHANGED <<adapter, usage, content, stamped, aborted, outcome>>,
         chunk' \in ChunkType, sent' \in SentType,
         sent'.items = sent.items, sent'.texts = sent.texts,
         chunk'.type \in {"completed", "error"},
         chunk'.type = "completed" => chunk'.usage = sent'.counts
  PROVE  AttemptInv'
<1>1. outcome.kind = "pending" /\ Faithful(content, sent.texts, sent.items)
  BY DEF AttemptInv, LoopState, TextsKept, Upcoming, InFlight
<1>2. Types'
  BY DEF AttemptInv, Types
<1>3. TextsKept'
  BY <1>1 DEF TextsKept, Upcoming, InFlight
<1>4. CountsKept'
  BY <1>1 DEF CountsKept, InFlight
<1>5. LoopState'
  BY DEF AttemptInv, LoopState
<1>. QED BY <1>2, <1>3, <1>4, <1>5 DEF AttemptInv

LEMMA SdkEndsInv == ASSUME AttemptInv, SdkEnds PROVE AttemptInv'
<1>1. /\ pc = "next"
      /\ UNCHANGED <<adapter, usage, content, stamped, aborted, outcome, sent>>
  BY DEF SdkEnds
<1>2. CASE adapter = "anthropic"
  <2>1. pc' = "final" /\ chunk' = chunk
    BY <1>2 DEF SdkEnds
  <2>2. Types'
    BY <1>1, <2>1 DEF AttemptInv, Types
  <2>3. TextsKept'
    BY <1>1, <2>1 DEF AttemptInv, TextsKept, Upcoming, InFlight
  <2>4. CountsKept'
    BY <1>1, <1>2, <2>1 DEF AttemptInv, CountsKept, InFlight
  <2>5. LoopState'
    BY <1>1, <2>1 DEF AttemptInv, LoopState
  <2>. QED BY <2>2, <2>3, <2>4, <2>5 DEF AttemptInv
<1>3. CASE adapter # "anthropic"
  <2>1. pc' = "chunk" /\ chunk' = CompletedChunk(usage)
    BY <1>3 DEF SdkEnds, Yield
  <2>2. usage \in Usages /\ sent \in SentType /\ usage = sent.counts
    BY <1>1 DEF AttemptInv, Types, CountsKept
  <2>3. chunk' \in ChunkType /\ chunk'.type = "completed" /\ chunk'.usage = usage
    BY <2>1, <2>2, AttemptTypes, ChunkFields
  <2>. QED BY <1>1, <2>1, <2>2, <2>3, LastChunkInv
<1>. QED BY <1>2, <1>3

LEMMA FinalMessageInv == ASSUME AttemptInv, FinalMessage PROVE AttemptInv'
<1>1. /\ pc = "final"
      /\ UNCHANGED <<adapter, usage, content, stamped, aborted, outcome>>
  BY DEF FinalMessage
<1>2. PICK u \in [CountField -> Counts] :
        /\ Yield(CompletedChunk(u))
        /\ sent' = [sent EXCEPT !.counts = u]
  BY DEF FinalMessage
<1>3. u \in Usages /\ sent \in SentType
  BY DEF AttemptInv, Types, Usages
<1>4. sent' = [items |-> sent.items, texts |-> sent.texts, counts |-> u]
  BY <1>2, <1>3 DEF SentType
<1>5. /\ sent'.items = sent.items /\ sent'.texts = sent.texts /\ sent'.counts = u
      /\ sent' \in SentType
  BY <1>3, <1>4 DEF SentType
<1>6. pc' = "chunk" /\ chunk' = CompletedChunk(u)
  BY <1>2 DEF Yield
<1>7. chunk' \in ChunkType /\ chunk'.type = "completed" /\ chunk'.usage = u
  BY <1>3, <1>6, AttemptTypes, ChunkFields
<1>. QED BY <1>1, <1>5, <1>6, <1>7, LastChunkInv

LEMMA SdkRaisesInv == ASSUME AttemptInv, SdkRaises PROVE AttemptInv'
<1>1. /\ pc \in {"create", "next", "final"}
      /\ UNCHANGED <<adapter, usage, content, stamped, aborted, outcome, sent>>
  BY DEF SdkRaises, AwaitingSdk
<1>2. PICK r \in BOOLEAN : Yield(ErrorChunk(r))
  BY DEF SdkRaises, Retryable
<1>3. pc' = "chunk" /\ chunk' = ErrorChunk(r)
  BY <1>2 DEF Yield
<1>4. chunk' \in ChunkType /\ chunk'.type = "error"
  BY <1>3, AttemptTypes, ChunkFields
<1>5. sent' \in SentType
  BY <1>1 DEF AttemptInv, Types
<1>. QED BY <1>1, <1>3, <1>4, <1>5, LastChunkInv

LEMMA SdkRaisesAbortErrorInv ==
  ASSUME AttemptInv, SdkRaisesAbortError PROVE AttemptInv'
<1>1. /\ pc \in {"create", "next", "final"} /\ GeneratorReturned
      /\ UNCHANGED <<adapter, usage, chunk, content, stamped, aborted, sent>>
  BY DEF SdkRaisesAbortError, AwaitingSdk
<1>2. sent \in SentType
  BY DEF AttemptInv, Types
<1>. QED BY <1>1, <1>2, ReturnedInv

\* The token in flight reaches the content.
LEMMA AppendInv ==
  ASSUME AttemptInv, InFlight, stamped = TRUE, pc' = "next",
         content' = Append(content, chunk.text),
         UNCHANGED <<adapter, usage, chunk, stamped, aborted, outcome, sent>>
  PROVE  AttemptInv'
<1>1. pc \in {"chunk", "mark"}
  BY DEF InFlight
<1>2. /\ content \in Seq(0..MaxItems) /\ chunk.text \in 0..MaxItems
      /\ sent.items \in 0..MaxItems
  BY DEF AttemptInv, Types, ChunkType, SentType
<1>3. /\ Faithful(content', sent.texts, sent.items)
      /\ usage = sent.counts
      /\ outcome.kind = "pending" /\ outcome.retryable = FALSE
  BY <1>1 DEF AttemptInv, TextsKept, CountsKept, LoopState, Upcoming
<1>4. content' \in Seq(0..MaxItems) /\ Len(content') = Len(content) + 1
      /\ Len(content) \in Nat
  BY <1>2
<1>5. Types'
  BY <1>4 DEF AttemptInv, Types
<1>6. TextsKept'
  BY <1>3 DEF TextsKept, Upcoming, InFlight
<1>7. CountsKept'
  BY <1>3 DEF CountsKept, InFlight
<1>8. Len(content') <= sent.items
  BY <1>3 DEF Faithful
<1>9. Len(content') > 0 /\ Len(content') <= MaxItems
  BY <1>2, <1>4, <1>8, AdapterAssumption
<1>10. LoopState'
  BY <1>3, <1>9 DEF LoopState
<1>. QED BY <1>5, <1>6, <1>7, <1>10 DEF AttemptInv

LEMMA TakeChunkInv == ASSUME AttemptInv, TakeChunk PROVE AttemptInv'
<1>1. pc = "chunk" /\ UNCHANGED <<adapter, usage, chunk, aborted, sent>>
  BY DEF TakeChunk
<1>2. /\ usage \in Usages /\ chunk \in ChunkType /\ sent \in SentType
      /\ content \in Seq(0..MaxItems) /\ aborted \in BOOLEAN /\ stamped \in BOOLEAN
      /\ adapter \in Adapters
  BY DEF AttemptInv, Types
<1>3. /\ chunk.usage \in Usages /\ chunk.retryable \in BOOLEAN
  BY <1>2 DEF ChunkType
<1>4. outcome.kind = "pending" /\ outcome.retryable = FALSE
  BY <1>1 DEF AttemptInv, LoopState
<1>5. CASE aborted /\ Finish(Ending("cancelled")) /\ UNCHANGED <<content, stamped>>
  <2>1. pc' = "done" /\ outcome' = Ending("cancelled")
    BY <1>5 DEF Finish
  <2>2. Ending("cancelled").kind = "cancelled" /\ Failed(FALSE).kind = "error"
    BY DEF Ending, Failed, Pending
  <2>3. outcome' # Failed(FALSE)
    BY <2>1, <2>2
  <2>. QED BY <1>1, <1>2, <1>5, <2>1, <2>3, AttemptEnds
<1>6. CASE /\ ~aborted /\ chunk.type = "token" /\ ~stamped
           /\ stamped' = TRUE /\ pc' = "mark"
           /\ UNCHANGED <<content, outcome>>
  <2>1. stamped = FALSE
    BY <1>2, <1>6
  <2>2. Len(content) = 0
    BY <2>1 DEF AttemptInv, LoopState
  <2>3. Types'
    BY <1>1, <1>6 DEF AttemptInv, Types
  <2>4. TextsKept'
    BY <1>1, <1>6 DEF AttemptInv, TextsKept, Upcoming, InFlight
  <2>5. CountsKept'
    BY <1>1, <1>4, <1>6 DEF AttemptInv, CountsKept, InFlight
  <2>6. LoopState'
    BY <1>4, <1>6, <2>2, AdapterAssumption DEF LoopState
  <2>. QED BY <2>3, <2>4, <2>5, <2>6 DEF AttemptInv
<1>7. CASE /\ ~aborted /\ chunk.type = "token" /\ stamped
           /\ content' = Append(content, chunk.text) /\ pc' = "next"
           /\ UNCHANGED <<stamped, outcome>>
  <2>1. InFlight /\ stamped = TRUE
    BY <1>1, <1>2, <1>7 DEF InFlight
  <2>. QED BY <1>1, <1>7, <2>1, AppendInv
<1>8. CASE /\ ~aborted /\ chunk.type = "completed"
           /\ Finish([Ending("completed") EXCEPT !.usage = chunk.usage])
           /\ UNCHANGED <<content, stamped>>
  <2>1. pc' = "done" /\ outcome' = [Ending("completed") EXCEPT !.usage = chunk.usage]
    BY <1>8 DEF Finish
  <2>2. outcome' = [kind |-> "completed", retryable |-> FALSE, usage |-> chunk.usage]
    BY <2>1 DEF Ending, Pending
  <2>3. /\ outcome'.kind = "completed" /\ outcome'.retryable = FALSE
        /\ outcome'.usage = chunk.usage
    BY <2>2
  <2>4. /\ chunk.usage = sent.counts
        /\ Faithful(content, sent.texts, sent.items)
    BY <1>1, <1>8 DEF AttemptInv, TextsKept, CountsKept, Upcoming, InFlight
  <2>5. outcome' \in OutcomeType
    BY <1>3, <2>2 DEF OutcomeType
  <2>6. Types'
    BY <1>1, <1>2, <1>8, <2>1, <2>5 DEF Types
  <2>7. TextsKept'
    BY <1>1, <1>8, <2>1, <2>4 DEF TextsKept, Upcoming, InFlight
  <2>8. CountsKept'
    BY <1>1, <2>1, <2>3, <2>4 DEF CountsKept, InFlight
  <2>9. LoopState'
    BY <1>1, <1>8, <2>1, <2>3 DEF AttemptInv, LoopState
  <2>. QED BY <2>6, <2>7, <2>8, <2>9 DEF AttemptInv
<1>9. CASE /\ ~aborted /\ chunk.type = "error"
           /\ Finish(Failed(chunk.retryable))
           /\ UNCHANGED <<content, stamped>>
  <2>1. pc' = "done" /\ outcome' = Failed(chunk.retryable)
    BY <1>9 DEF Finish
  <2>2. outcome' = [kind |-> "error", retryable |-> chunk.retryable, usage |-> NoCounts]
    BY <2>1 DEF Failed, Pending
  <2>3. outcome'.kind = "error" /\ outcome'.retryable = chunk.retryable
    BY <2>2
  <2>4. Faithful(content, sent.texts, sent.items)
    BY <1>1, <1>9 DEF AttemptInv, TextsKept, Upcoming, InFlight
  <2>5. outcome' \in OutcomeType
    BY <1>3, <2>1, AttemptTypes
  <2>6. Types'
    BY <1>1, <1>2, <1>9, <2>1, <2>5 DEF Types
  <2>7. TextsKept'
    BY <1>1, <1>9, <2>1, <2>4 DEF TextsKept, Upcoming, InFlight
  <2>8. CountsKept'
    BY <1>1, <2>1, <2>3 DEF CountsKept, InFlight
  <2>9. LoopState'
    BY <1>1, <1>9, <2>1, <2>3 DEF AttemptInv, LoopState
  <2>. QED BY <2>6, <2>7, <2>8, <2>9 DEF AttemptInv
<1>. QED BY <1>5, <1>6, <1>7, <1>8, <1>9 DEF TakeChunk

LEMMA MarkFirstTokenInv == ASSUME AttemptInv, MarkFirstToken PROVE AttemptInv'
<1>1. pc = "mark" /\ UNCHANGED <<adapter, usage, chunk, stamped, aborted, sent>>
  BY DEF MarkFirstToken
<1>2. stamped = TRUE
  BY <1>1 DEF AttemptInv, LoopState
<1>3. CASE content' = Append(content, chunk.text) /\ pc' = "next" /\ outcome' = outcome
  BY <1>1, <1>2, <1>3, AppendInv DEF InFlight
<1>4. CASE Finish(Ending("exception")) /\ content' = content
  <2>1. pc' = "done" /\ outcome' = Ending("exception")
    BY <1>4 DEF Finish
  <2>2. Ending("exception").kind = "exception" /\ Failed(FALSE).kind = "error"
    BY DEF Ending, Failed, Pending
  <2>3. outcome' # Failed(FALSE)
    BY <2>1, <2>2
  <2>4. usage \in Usages /\ chunk \in ChunkType /\ sent \in SentType
    BY DEF AttemptInv, Types
  <2>. QED BY <1>1, <1>4, <2>1, <2>3, <2>4, AttemptEnds
<1>. QED BY <1>3, <1>4 DEF MarkFirstToken

LEMMA AttemptStutter == ASSUME AttemptInv, UNCHANGED vars PROVE AttemptInv'
BY DEF AttemptInv, Types, TextsKept, CountsKept, LoopState, Upcoming,
       InFlight, vars

LEMMA AttemptStep == AttemptInv /\ [Next]_vars => AttemptInv'
<1>. SUFFICES ASSUME AttemptInv, [Next]_vars PROVE AttemptInv'
  OBVIOUS
<1>1. CASE Consumer
  BY <1>1, TakeChunkInv, MarkFirstTokenInv DEF Consumer
<1>2. CASE Remote
  BY <1>2, CreatedInv, SdkItemInv, SdkEndsInv, FinalMessageInv, SdkRaisesInv,
     SdkRaisesAbortErrorInv DEF Remote, SdkAborts
<1>3. CASE Cancel
  BY <1>3, CancelInv
<1>4. CASE Done
  BY <1>4, AttemptStutter DEF Done
<1>5. CASE UNCHANGED vars
  BY <1>5, AttemptStutter
<1>. QED BY <1>1, <1>2, <1>3, <1>4, <1>5 DEF Next

LEMMA AttemptInvariant == Spec => []AttemptInv
BY AttemptInit, AttemptStep, PTL DEF Spec
-----------------------------------------------------------------------------
\* An attempt's variables keep their types, and no content is longer than what
\* the SDK streamed, for any adapter and any stream.
THEOREM ProviderTypeCorrect == Spec => []TypeOK
<1>1. AttemptInv => TypeOK
  BY DEF AttemptInv, Types, LoopState, TypeOK, Usages, ChunkType, OutcomeType,
         SentType
<1>. QED BY <1>1, AttemptInvariant, PTL

\* A completed attempt appended every text of the provider, once and in order,
\* and reports the counts the provider reported last, whichever adapter served
\* it and however long the stream was.
THEOREM CompletedAttemptFaithful == Spec => []CompletedIsFaithful
<1>1. AttemptInv => CompletedIsFaithful
  <2>. SUFFICES ASSUME AttemptInv, outcome.kind = "completed"
                PROVE  CompletedIsFaithful
    BY DEF CompletedIsFaithful
  <2>1. pc = "done"
    BY DEF AttemptInv, LoopState
  <2>2. Faithful(content, sent.texts, sent.items) /\ outcome.usage = sent.counts
    BY <2>1 DEF AttemptInv, TextsKept, CountsKept, Upcoming, InFlight
  <2>. QED BY <2>2 DEF CompletedIsFaithful, Faithful
<1>. QED BY <1>1, AttemptInvariant, PTL

\* An attempt that failed kept every text the provider had sent, once and in
\* order, and may be tried elsewhere only if there was none, whichever adapter
\* served it and wherever the stream broke off.
THEOREM FailedAttemptKeepsText == Spec => []FailedKeepsText
<1>1. AttemptInv => FailedKeepsText
  <2>. SUFFICES ASSUME AttemptInv, outcome.kind = "error"
                PROVE  FailedKeepsText
    BY DEF FailedKeepsText
  <2>1. pc = "done"
    BY DEF AttemptInv, LoopState
  <2>2. Faithful(content, sent.texts, sent.items)
    BY <2>1 DEF AttemptInv, TextsKept, Upcoming, InFlight
  <2>3. ASSUME stamped = FALSE
        PROVE  sent.texts = {}
    <3>1. Len(content) = 0 /\ content \in Seq(0..MaxItems)
      BY <2>3 DEF AttemptInv, Types, LoopState
    <3>2. DOMAIN content = {}
      BY <3>1
    <3>. QED BY <2>2, <3>2 DEF Faithful, Texts
  <2>4. stamped \in BOOLEAN
    BY DEF AttemptInv, Types
  <2>. QED BY <2>2, <2>3, <2>4 DEF FailedKeepsText, Faithful
<1>. QED BY <1>1, AttemptInvariant, PTL
-----------------------------------------------------------------------------
\* The result the contract speaks of, before an attempt ends and at its end.
Result(o, s) == IF o.retryable /\ ~s THEN "retryable" ELSE o.kind

LEMMA ResultPending ==
  ASSUME AttemptInv, pc # "done"
  PROVE  Result(outcome, stamped) = "pending"
BY DEF AttemptInv, LoopState, Result

\* A step that leaves the content, the signal and the outcome alone, away from
\* the write of the first token, is none of the contract.
LEMMA ContractStutter ==
  ASSUME pc # "mark", pc' # "mark",
         UNCHANGED <<content, stamped, aborted, outcome>>
  PROVE  UNCHANGED Contract!attempt
BY DEF Contract!attempt

\* The loop ends for a reason the contract allows.
LEMMA ContractEnds ==
  ASSUME AttemptInv, pc # "done", pc' = "done",
         UNCHANGED <<content, stamped, aborted>>,
         NEW r \in Contract!Results, Result(outcome', stamped) = r,
         pc = "mark" => r = "exception",
         aborted /\ pc # "mark" => r = "cancelled",
         ~aborted => r # "cancelled",
         r = "retryable" => Len(content) = 0
  PROVE  Contract!AttemptNext
<1>1. Result(outcome, stamped) = "pending"
  BY ResultPending
<1>2. Contract!End(r)
  BY <1>1 DEF Contract!End, Result
<1>. QED BY <1>2 DEF Contract!AttemptNext

LEMMA ContractReturned ==
  ASSUME AttemptInv, pc \in {"create", "next", "final"}, GeneratorReturned,
         UNCHANGED <<content, stamped, aborted>>
  PROVE  Contract!AttemptNext
<1>1. pc' = "done" /\ outcome' = IF aborted THEN Ending("cancelled") ELSE Failed(FALSE)
  BY DEF GeneratorReturned, Finish
<1>2. /\ Ending("cancelled").kind = "cancelled" /\ Ending("cancelled").retryable = FALSE
      /\ Failed(FALSE).kind = "error" /\ Failed(FALSE).retryable = FALSE
  BY DEF Ending, Failed, Pending
<1>3. CASE aborted
  <2>1. Result(outcome', stamped) = "cancelled" /\ "cancelled" \in Contract!Results
    BY <1>1, <1>2, <1>3 DEF Result, Contract!Results
  <2>. QED BY <1>1, <1>3, <2>1, ContractEnds
<1>4. CASE ~aborted
  <2>1. Result(outcome', stamped) = "error" /\ "error" \in Contract!Results
    BY <1>1, <1>2, <1>4 DEF Result, Contract!Results
  <2>. QED BY <1>1, <1>4, <2>1, ContractEnds
<1>. QED BY <1>3, <1>4

\* What the SDK and the adapter do shows in the contract only where the
\* generator returns.
LEMMA RemoteContract ==
  ASSUME AttemptInv, Remote
  PROVE  Contract!AttemptNext \/ UNCHANGED Contract!attempt
<1>1. CASE Created
  BY <1>1, ContractStutter DEF Created
<1>2. CASE SdkItem
  <2>1. pc = "next" /\ UNCHANGED <<content, stamped, aborted>>
    BY <1>2 DEF SdkItem
  <2>2. \/ GeneratorReturned
        \/ outcome' = outcome /\ pc' \in {"next", "chunk"}
    BY <1>2 DEF SdkItem, TakeItem, Yield
  <2>. QED BY <2>1, <2>2, ContractReturned, ContractStutter
<1>3. CASE SdkEnds
  <2>1. /\ pc = "next" /\ pc' \in {"final", "chunk"}
        /\ UNCHANGED <<content, stamped, aborted, outcome>>
    BY <1>3 DEF SdkEnds, Yield
  <2>. QED BY <2>1, ContractStutter
<1>4. CASE FinalMessage
  <2>1. /\ pc = "final" /\ pc' = "chunk"
        /\ UNCHANGED <<content, stamped, aborted, outcome>>
    BY <1>4 DEF FinalMessage, Yield
  <2>. QED BY <2>1, ContractStutter
<1>5. CASE SdkRaises
  <2>1. /\ pc \in {"create", "next", "final"} /\ pc' = "chunk"
        /\ UNCHANGED <<content, stamped, aborted, outcome>>
    BY <1>5 DEF SdkRaises, AwaitingSdk, Yield
  <2>. QED BY <2>1, ContractStutter
<1>6. CASE SdkRaisesAbortError
  BY <1>6, ContractReturned DEF SdkRaisesAbortError, AwaitingSdk
<1>. QED BY <1>1, <1>2, <1>3, <1>4, <1>5, <1>6 DEF Remote, SdkAborts

LEMMA TakeChunkContract ==
  ASSUME AttemptInv, TakeChunk
  PROVE  Contract!AttemptNext
<1>1. pc = "chunk" /\ aborted' = aborted
  BY DEF TakeChunk
<1>2. Result(outcome, stamped) = "pending"
  BY <1>1, ResultPending
<1>3. /\ aborted \in BOOLEAN /\ stamped \in BOOLEAN /\ chunk.retryable \in BOOLEAN
      /\ stamped = FALSE => Len(content) = 0
      /\ content \in Seq(0..MaxItems)
      /\ stamped = TRUE <=> Len(content) > 0
  BY <1>1 DEF AttemptInv, Types, ChunkType, LoopState
<1>4. CASE aborted /\ Finish(Ending("cancelled")) /\ UNCHANGED <<content, stamped>>
  <2>1. pc' = "done" /\ outcome' = Ending("cancelled")
    BY <1>4 DEF Finish
  <2>2. Result(outcome', stamped) = "cancelled" /\ "cancelled" \in Contract!Results
    BY <2>1 DEF Result, Ending, Pending, Contract!Results
  <2>. QED BY <1>1, <1>4, <2>1, <2>2, ContractEnds
<1>5. CASE /\ ~aborted /\ chunk.type = "token" /\ ~stamped
           /\ stamped' = TRUE /\ pc' = "mark"
           /\ UNCHANGED <<content, outcome>>
  <2>1. Result(outcome', stamped') = "pending"
    BY <1>1, <1>5 DEF AttemptInv, LoopState, Result
  <2>2. Len(content) = 0
    BY <1>3, <1>5
  <2>3. Contract!StartFirst
    BY <1>1, <1>2, <1>5, <2>1, <2>2 DEF Contract!StartFirst, Result
  <2>. QED BY <2>3 DEF Contract!AttemptNext
<1>6. CASE /\ ~aborted /\ chunk.type = "token" /\ stamped
           /\ content' = Append(content, chunk.text) /\ pc' = "next"
           /\ UNCHANGED <<stamped, outcome>>
  <2>1. Len(content) > 0
    BY <1>3, <1>6
  <2>2. Len(content') = Len(content) + 1
    BY <1>3, <1>6
  <2>3. Contract!AddToken
    BY <1>1, <1>2, <1>6, <2>1, <2>2 DEF Contract!AddToken, Result
  <2>. QED BY <2>3 DEF Contract!AttemptNext
<1>7. CASE /\ ~aborted /\ chunk.type = "completed"
           /\ Finish([Ending("completed") EXCEPT !.usage = chunk.usage])
           /\ UNCHANGED <<content, stamped>>
  <2>1. /\ pc' = "done"
        /\ outcome' = [kind |-> "completed", retryable |-> FALSE, usage |-> chunk.usage]
    BY <1>7 DEF Finish, Ending, Pending
  <2>2. Result(outcome', stamped) = "completed" /\ "completed" \in Contract!Results
    BY <2>1 DEF Result, Contract!Results
  <2>. QED BY <1>1, <1>7, <2>1, <2>2, ContractEnds
<1>8. CASE /\ ~aborted /\ chunk.type = "error"
           /\ Finish(Failed(chunk.retryable))
           /\ UNCHANGED <<content, stamped>>
  <2>1. /\ pc' = "done"
        /\ outcome' = [kind |-> "error", retryable |-> chunk.retryable, usage |-> NoCounts]
    BY <1>8 DEF Finish, Failed, Pending
  <2>2. CASE chunk.retryable = TRUE /\ stamped = FALSE
    <3>1. Result(outcome', stamped) = "retryable" /\ "retryable" \in Contract!Results
      BY <2>1, <2>2 DEF Result, Contract!Results
    <3>. QED BY <1>1, <1>3, <1>8, <2>1, <2>2, <3>1, ContractEnds
  <2>3. CASE ~(chunk.retryable = TRUE /\ stamped = FALSE)
    <3>1. Result(outcome', stamped) = "error" /\ "error" \in Contract!Results
      BY <1>3, <2>1, <2>3 DEF Result, Contract!Results
    <3>. QED BY <1>1, <1>8, <2>1, <3>1, ContractEnds
  <2>. QED BY <2>2, <2>3
<1>. QED BY <1>4, <1>5, <1>6, <1>7, <1>8 DEF TakeChunk

LEMMA MarkContract ==
  ASSUME AttemptInv, MarkFirstToken
  PROVE  Contract!AttemptNext
<1>1. pc = "mark" /\ UNCHANGED <<stamped, aborted>>
  BY DEF MarkFirstToken
<1>2. Result(outcome, stamped) = "pending"
  BY <1>1, ResultPending
<1>3. CASE content' = Append(content, chunk.text) /\ pc' = "next" /\ outcome' = outcome
  <2>1. Len(content') = Len(content) + 1
    BY <1>3 DEF AttemptInv, Types
  <2>2. Contract!AddToken
    BY <1>1, <1>2, <1>3, <2>1 DEF Contract!AddToken, Result
  <2>. QED BY <2>2 DEF Contract!AttemptNext
<1>4. CASE Finish(Ending("exception")) /\ content' = content
  <2>1. pc' = "done" /\ outcome' = Ending("exception")
    BY <1>4 DEF Finish
  <2>2. Result(outcome', stamped) = "exception" /\ "exception" \in Contract!Results
    BY <2>1 DEF Result, Ending, Pending, Contract!Results
  <2>. QED BY <1>1, <1>4, <2>1, <2>2, ContractEnds
<1>. QED BY <1>3, <1>4 DEF MarkFirstToken

LEMMA CancelContract == ASSUME Cancel PROVE Contract!AttemptNext
<1>1. Contract!Stop
  BY DEF Cancel, Contract!Stop
<1>. QED BY <1>1 DEF Contract!AttemptNext

\* Every adapter, under the loop that consumes it, is an attempt as the
\* inference run assumes it: nothing is started, completed or failed over once
\* the signal has fired, and only what streamed no token may be tried elsewhere.
THEOREM AdaptersImplementAttempt == Spec => ImplementsAttempt
<1>1. Init => Contract!AttemptInit
  BY DEF Init, FirstAwait, Pending, Contract!AttemptInit
<1>2. AttemptInv /\ [Next]_vars => [Contract!AttemptNext]_(Contract!attempt)
  <2>. SUFFICES ASSUME AttemptInv, [Next]_vars
                PROVE  Contract!AttemptNext \/ UNCHANGED Contract!attempt
    OBVIOUS
  <2>1. UNCHANGED vars => UNCHANGED Contract!attempt
    BY DEF vars, Contract!attempt
  <2>. QED
    BY <2>1, RemoteContract, TakeChunkContract, MarkContract, CancelContract
    DEF Next, Consumer, Done
<1>. QED BY <1>1, <1>2, AttemptInvariant, PTL
         DEF Spec, ImplementsAttempt, Contract!AttemptSpec
=============================================================================

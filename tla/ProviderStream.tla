--------------------------- MODULE ProviderStream ---------------------------
(***************************************************************************)
(* One attempt at a provider: the async generator stream() of the three    *)
(* LLM adapters, and the for-await loop of runAttempt that consumes it.    *)
(* The vendor's SDK and the service behind it are external: SdkItem,       *)
(* SdkEnds, SdkRaises and SdkAborts are all they may do to an adapter that *)
(* awaits them.  A text is the position at which the provider sent it, an  *)
(* empty delta is 0, a status is its class.                                *)
(***************************************************************************)
EXTENDS Integers, Sequences

CONSTANTS
  Adapters,     \* the adapters considered, of {"anthropic", "openai", "gemini"}
  MaxItems,     \* bound: items of one SDK stream
  Counts        \* token counts the provider may report

ASSUME AdapterAssumption ==
  /\ Adapters \subseteq {"anthropic", "openai", "gemini"}
  /\ MaxItems \in Nat
  /\ Counts \subseteq Nat

VARIABLES
  adapter,   \* the adapter the factory returned
  pc,        \* what is awaited: create, next, final, chunk, mark, or done
  usage,     \* the adapter's inputTokens and outputTokens
  chunk,     \* the chunk the generator yielded last
  content,   \* assistantContent, as the texts appended
  stamped,   \* firstTokenAt is set
  aborted,   \* the abort signal
  outcome,   \* the AttemptOutcome, or pending
  sent       \* what the provider sent: items, the set of texts, last counts

vars == <<adapter, pc, usage, chunk, content, stamped, aborted, outcome, sent>>

Missing == -1   \* a count the usage metadata leaves out
Status == {"none", "client", "server"}
CountField == {"input", "output"}
NoUsage == [f \in CountField |-> Missing]
NoCounts == [f \in CountField |-> 0]

Signalled(a) == a # "gemini"   \* its SDK call is given the abort signal
SkipsEmpty(a) == a # "anthropic"

Pending == [kind |-> "pending", retryable |-> FALSE, usage |-> NoCounts]
Failed(retryable) == [Pending EXCEPT !.kind = "error", !.retryable = retryable]
Ending(kind) == [Pending EXCEPT !.kind = kind]

TokenChunk(text) == [type |-> "token", text |-> text, usage |-> NoCounts,
                     retryable |-> FALSE]
CompletedChunk(u) == [TokenChunk(0) EXCEPT !.type = "completed", !.usage = u]
ErrorChunk(retryable) ==
  [TokenChunk(0) EXCEPT !.type = "error", !.retryable = retryable]

\* Where stream() first waits: messages.stream() of Anthropic returns at once.
FirstAwait(a) == IF a = "anthropic" THEN "next" ELSE "create"

Init ==
  /\ adapter \in Adapters
  /\ pc = FirstAwait(adapter)
  /\ usage = NoCounts /\ chunk = TokenChunk(0)
  /\ content = <<>> /\ stamped = FALSE /\ aborted = FALSE
  /\ outcome = Pending
  /\ sent = [items |-> 0, texts |-> {}, counts |-> NoCounts]

AwaitingSdk == pc \in {"create", "next", "final"}

Yield(c) == chunk' = c /\ pc' = "chunk"
Finish(o) == outcome' = o /\ pc' = "done"

\* The generator returned without a terminal chunk: runAttempt asks the
\* cancellation registry why.
GeneratorReturned ==
  Finish(IF aborted THEN Ending("cancelled") ELSE Failed(FALSE))
-----------------------------------------------------------------------------
\* The SDK and the adapters.

Created ==
  /\ pc = "create"
  /\ pc' = "next"
  /\ UNCHANGED <<adapter, usage, chunk, content, stamped, aborted, outcome, sent>>

\* Counts an item carries: Anthropic reports them with the final message only,
\* OpenAI all at once, Gemini any of them.
ItemUsage(a) ==
  CASE a = "anthropic" -> {NoUsage}
    [] a = "openai" -> {NoUsage} \cup [CountField -> Counts]
    [] a = "gemini" -> [CountField -> Counts \cup {Missing}]

Reported(old, new) ==
  [f \in CountField |-> IF new[f] = Missing THEN old[f] ELSE new[f]]

\* What an adapter keeps of the counts of an item.
KeepUsage(u) == usage' = Reported(usage, u)

\* Seeded fault: an item that carries counts is not looked at for text.
TakeItemOrUsage(text) ==
  IF (text = 0 /\ SkipsEmpty(adapter)) \/ usage' # usage
  THEN pc' = "next" /\ UNCHANGED chunk
  ELSE Yield(TokenChunk(text))

\* A text, an empty delta, or none (an event that is no text delta, a chunk
\* with counts only): what the adapter yields for it.
TakeItem(text) ==
  IF text = 0 /\ SkipsEmpty(adapter)
  THEN pc' = "next" /\ UNCHANGED chunk
  ELSE Yield(TokenChunk(text))

\* Seeded fault: the signal is not looked at between two items.
NeverStopsReading == FALSE

\* Gemini's adapter looks at the signal itself, with each item it is given.
StopsReading == adapter = "gemini" /\ aborted

\* The adapter records the counts after its yield resumes; nobody sees them
\* before the completed chunk, so they are recorded with the item.
SdkItem ==
  /\ pc = "next" /\ sent.items < MaxItems
  /\ \E text \in {0, sent.items + 1}, u \in ItemUsage(adapter) :
       /\ sent' = [sent EXCEPT !.items = @ + 1,
                               !.texts = IF text = 0 THEN @ ELSE @ \cup {text},
                               !.counts = Reported(@, u)]
       /\ IF StopsReading
          THEN GeneratorReturned /\ UNCHANGED <<usage, chunk>>
          ELSE KeepUsage(u) /\ TakeItem(text) /\ UNCHANGED outcome
  /\ UNCHANGED <<adapter, content, stamped, aborted>>

\* The SDK's iterator is done: Anthropic then awaits finalMessage().
SdkEnds ==
  /\ pc = "next"
  /\ IF adapter = "anthropic" THEN pc' = "final" /\ UNCHANGED chunk
                              ELSE Yield(CompletedChunk(usage))
  /\ UNCHANGED <<adapter, usage, content, stamped, aborted, outcome, sent>>

FinalMessage ==
  /\ pc = "final"
  /\ \E u \in [CountField -> Counts] :
       /\ Yield(CompletedChunk(u))
       /\ sent' = [sent EXCEPT !.counts = u]
  /\ UNCHANGED <<adapter, usage, content, stamped, aborted, outcome>>

\* How an error shows the status the provider answered with: as a field of the
\* SDK's APIError or, for Gemini, in the message, as a bracketed prefix or as the
\* code of a JSON body.  A network error and a timeout have no status, nor has
\* an error event in a stream that was answered with 200, whoever's fault it is.
\* Gemini's prefix is searched for in the whole message, so three digits after a
\* bracket anywhere in its text pass for a status.
ErrorShape(status) ==
  IF adapter = "gemini"
  THEN [bracketed : Status, jsonCode : {"none", status}, field : {"none"}]
  ELSE {[bracketed |-> "none", jsonCode |-> "none", field |-> status]}

StatusOf(err) ==
  IF adapter # "gemini" THEN err.field
  ELSE IF err.bracketed # "none" THEN err.bracketed
  ELSE err.jsonCode

Retryable(err) == StatusOf(err) = "server"

\* A failure of the provider or of the way to it, while the adapter waits.
SdkRaises ==
  /\ AwaitingSdk
  /\ \E status \in Status : \E err \in ErrorShape(status) :
       Yield(ErrorChunk(Retryable(err)))
  /\ UNCHANGED <<adapter, usage, content, stamped, aborted, outcome, sent>>

\* An error named AbortError makes the generator return, aborted or not.
SdkRaisesAbortError ==
  /\ AwaitingSdk
  /\ GeneratorReturned
  /\ UNCHANGED <<adapter, usage, chunk, content, stamped, aborted, sent>>

\* What an SDK that was given the signal does when it fires: raise an error of
\* either kind, or end its iterator.
SdkAborts ==
  /\ aborted /\ Signalled(adapter)
  /\ SdkRaisesAbortError \/ SdkRaises \/ SdkEnds
-----------------------------------------------------------------------------
\* runAttempt.

\* Seeded fault: the abort signal is not looked at between two chunks.
TakeChunkBlindly ==
  /\ pc = "chunk"
  /\ \/ /\ chunk.type = "token"
        /\ content' = Append(content, chunk.text)
        /\ pc' = "next" /\ stamped' = TRUE /\ UNCHANGED outcome
     \/ /\ chunk.type = "completed"
        /\ Finish([Ending("completed") EXCEPT !.usage = chunk.usage])
        /\ UNCHANGED <<content, stamped>>
     \/ /\ chunk.type = "error" /\ Finish(Failed(chunk.retryable))
        /\ UNCHANGED <<content, stamped>>
  /\ UNCHANGED <<adapter, usage, chunk, aborted, sent>>

TakeChunk ==
  /\ pc = "chunk"
  /\ \/ /\ aborted
        /\ Finish(Ending("cancelled"))
        /\ UNCHANGED <<content, stamped>>
     \/ /\ ~aborted /\ chunk.type = "token" /\ ~stamped
        /\ stamped' = TRUE /\ pc' = "mark"
        /\ UNCHANGED <<content, outcome>>
     \/ /\ ~aborted /\ chunk.type = "token" /\ stamped
        /\ content' = Append(content, chunk.text) /\ pc' = "next"
        /\ UNCHANGED <<stamped, outcome>>
     \/ /\ ~aborted /\ chunk.type = "completed"
        /\ Finish([Ending("completed") EXCEPT !.usage = chunk.usage])
        /\ UNCHANGED <<content, stamped>>
     \/ /\ ~aborted /\ chunk.type = "error"
        /\ Finish(Failed(chunk.retryable))
        /\ UNCHANGED <<content, stamped>>
  /\ UNCHANGED <<adapter, usage, chunk, aborted, sent>>

\* Seeded fault: a failed write of the first token's time is caught, and the
\* token skipped as if none had come.
MarkFirstTokenSkipping ==
  /\ pc = "mark" /\ pc' = "next"
  /\ \/ content' = Append(content, chunk.text) /\ UNCHANGED stamped
     \/ stamped' = FALSE /\ UNCHANGED content
  /\ UNCHANGED <<adapter, usage, chunk, aborted, outcome, sent>>

\* The write of the first token's time returns or throws out of the attempt.
MarkFirstToken ==
  /\ pc = "mark"
  /\ \/ /\ content' = Append(content, chunk.text) /\ pc' = "next"
        /\ UNCHANGED outcome
     \/ Finish(Ending("exception")) /\ UNCHANGED content
  /\ UNCHANGED <<adapter, usage, chunk, stamped, aborted, sent>>

\* A cancel fires the signal at any time of the attempt.
Cancel ==
  /\ pc # "done" /\ ~aborted
  /\ aborted' = TRUE
  /\ UNCHANGED <<adapter, pc, usage, chunk, content, stamped, outcome, sent>>

Done == pc = "done" /\ UNCHANGED vars

Consumer == TakeChunk \/ MarkFirstToken
Remote == Created \/ SdkItem \/ SdkEnds \/ FinalMessage \/ SdkRaises
          \/ SdkRaisesAbortError \/ SdkAborts
Next == Consumer \/ Remote \/ Cancel \/ Done

Spec == Init /\ [][Next]_vars

\* The consumer is a loop of the process and its database write settles; an
\* SDK with the signal settles what is awaited of it once the signal fires.
\* Nothing is assumed of the provider: there is no timeout on it.
FairSpec == Spec /\ WF_vars(Consumer) /\ WF_vars(SdkAborts)
-----------------------------------------------------------------------------
\* Properties.

TypeOK ==
  /\ adapter \in Adapters
  /\ pc \in {"create", "next", "final", "chunk", "mark", "done"}
  /\ usage \in [CountField -> Counts \cup {0}]
  /\ chunk \in [type : {"token", "completed", "error"}, text : 0..MaxItems,
                usage : [CountField -> Counts \cup {0}], retryable : BOOLEAN]
  /\ content \in Seq(0..MaxItems) /\ Len(content) <= MaxItems
  /\ stamped \in BOOLEAN /\ aborted \in BOOLEAN
  /\ outcome \in [kind : {"pending", "completed", "cancelled", "error", "exception"},
                  retryable : BOOLEAN, usage : [CountField -> Counts \cup {0}]]
  /\ sent \in [items : 0..MaxItems, texts : SUBSET (1..MaxItems),
               counts : [CountField -> Counts \cup {0}]]

Texts(c) == {c[k] : k \in DOMAIN c} \ {0}
InOrder(c) == \A j, k \in DOMAIN c : j < k /\ c[j] # 0 /\ c[k] # 0 => c[j] < c[k]

\* A completed attempt has appended every text the provider sent, once and in
\* order (texts being positions: increasing), and reports for each of the two
\* counts the last one the provider reported, whichever adapter filtered,
\* forwarded and accumulated them.  The dashboard adds the counts up and the
\* cost is computed from them.
CompletedIsFaithful ==
  outcome.kind = "completed" =>
    /\ Texts(content) = sent.texts /\ InOrder(content)
    /\ outcome.usage = sent.counts

\* A stream that breaks off keeps every text the provider had sent, once and in
\* order (architecture-notes.md:68: the partial content is kept).  And the attempt
\* goes to the fallback only if no text was sent at all: neither the user nor
\* the stored message gets an answer that begins with another provider's.
FailedKeepsText ==
  outcome.kind = "error" =>
    /\ Texts(content) = sent.texts /\ InOrder(content)
    /\ outcome.retryable /\ ~stamped => sent.texts = {}

Contract == INSTANCE AttemptContract WITH
  text <- Len(content), writing <- pc = "mark", stopped <- aborted,
  result <- IF outcome.retryable /\ ~stamped THEN "retryable" ELSE outcome.kind

\* Every adapter, under the loop that consumes it, is an attempt as the
\* inference run assumes it: in particular nothing is started, completed or
\* failed over once the signal has fired, whatever the SDK makes of it.
ImplementsAttempt == Contract!AttemptSpec

\* A cancelled attempt ends, also if its provider stays silent.  The one
\* exception is Gemini, whose SDK is not given the signal: an attempt that
\* awaits it waits until it says something, but the first thing it says, a text
\* or not, ends the attempt.
SilentForEver ==
  \E n \in 0..MaxItems : [](adapter = "gemini" /\ AwaitingSdk /\ sent.items = n)

AbortEnds ==
  /\ aborted ~> (pc = "done" \/ AwaitingSdk)
  /\ [](aborted /\ AwaitingSdk => <>(pc = "done") \/ SilentForEver)
=============================================================================

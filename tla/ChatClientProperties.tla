------------------------ MODULE ChatClientProperties ------------------------
(***************************************************************************)
(* What must be true of ChatClient.  Several of these need a patient user, *)
(* who sends no message while the POST of the one before is pending; the   *)
(* composer permits it, and then the streams of both messages mix.         *)
(***************************************************************************)
EXTENDS ChatClient

TextOf(S) == UNION {[1..n -> S \X (1..MaxTokens)] : n \in 0..(MaxTokens * Cardinality(S))}

\* Every variable stays in the set of values its code can give it.
ClientTypeOK ==
  /\ RelayTypeOK
  /\ post \in [Inference -> {"none", "sent", "accepted", "answered", "failed", "gone"}]
  /\ cancel \in [Inference -> {"none", "sent", "settled"}]
  /\ \A i \in Inference :
       /\ row[i].status \in {"none", "streaming", "completed", "cancelled", "failed"}
       /\ row[i].content \in 0..MaxTokens
       /\ view[i].status \in {"none", "streaming", "completed", "cancelled", "failed"}
       /\ view[i].content \in TextOf(Inference)
  /\ {streamingId, sseRef, state.inference} \subseteq Inference \cup {NoInference}
  /\ state.status \in {"idle", "streaming", "completed", "cancelled", "error"}
  /\ state.text \in TextOf(Inference)
  /\ {dirty, mounted} \subseteq BOOLEAN
  /\ failures \in 0..MaxTroubles

\* A message shows a prefix of its own inference's tokens, each once and in
\* order, although an EventSource that reconnects receives the stream again from
\* the start, late events arrive after the next message was sent, and the hook's
\* callbacks do not look at the inference they are called for.
ShownTextIsOwn ==
  Patient =>
    \A i \in Inference : view[i].content = Text(i, Len(view[i].content))

\* A message shown as completed or cancelled is stored with that status, and
\* nothing of its stored text is missing on the screen.
ShownVerdictIsStored ==
  Patient =>
    \A i \in Inference :
      view[i].status \in {"completed", "cancelled"} =>
        /\ row[i].status = view[i].status
        /\ row[i].content = Len(view[i].content)

\* A message that has been settled on the screen is not changed by anything that
\* arrives later (tokens, errors, failed cancels of this or another message),
\* until the page is loaded again.
SettledViewIsFinal ==
  [][\A i \in Inference :
       view[i].status \in {"completed", "cancelled", "failed"} =>
         view'[i] = view[i] \/ Refresh \/ Unmount]_clientVars

\* No placeholder stays "streaming" for ever, whatever breaks, unless the page
\* was left or reloaded.
PlaceholderSettles ==
  Patient => <>[](\A i \in Inference :
                    BubbleStreams(i) => post[i] = "gone")

\* After a reload in the middle of a stream the message is followed again and
\* shows its end once that is stored (phase-1.md: "SSE replays buffered events").
ReloadResumes ==
  <>[](\A i \in Inference :
         row[i].status \in {"completed", "cancelled", "failed"} =>
           ~BubbleStreams(i))
=============================================================================

-------------------------- MODULE ConversationTurns --------------------------
(***************************************************************************)
(* How concurrent POSTs to one conversation are numbered, stored and read  *)
(* back as model context: ChatService.startInference and the context query *)
(* of runInferenceInBackground (apps/api/src/modules/chat/chat.service.ts),*)
(* over the conversation that ConversationsService creates and updates.    *)
(* What a run does after the context query is ChatInference; here it only  *)
(* settles the assistant row.                                              *)
(***************************************************************************)
EXTENDS Integers, FiniteSets, FiniteSetsExt

CONSTANTS
  Turn,          \* the POST requests
  ContextLimit   \* CHAT_CONTEXT_MESSAGE_LIMIT

ASSUME ContextLimitAssumption == ContextLimit \in Nat \ {0}

VARIABLES
  conversation,  \* status of the conversation row, "none" before it exists
  messages,      \* the messages table: sequence number -> row
  turn           \* each request's locals, and the await it is at

vars == <<conversation, messages, turn>>

ConversationStatus == {"active", "completed", "cancelled", "archived"}
Settled == {"completed", "failed", "cancelled"}
Row == [role : {"user", "assistant"}, turn : Turn, status : Settled \cup {"streaming"}]
Place == {"idle", "readMax", "commit", "loadContext", "running", "settled",
          "notFound", "archived", "conflict", "error"}

Init ==
  /\ conversation = "none"
  /\ messages = <<>>
  /\ turn = [t \in Turn |-> [pc |-> "idle", userSeq |-> 0, context |-> {}]]
-----------------------------------------------------------------------------
\* ConversationsService.create and update; the status may change at any time.
CreateConversation ==
  /\ conversation = "none"
  /\ conversation' = "active"
  /\ UNCHANGED <<messages, turn>>

UpdateConversation(s) ==
  /\ conversation # "none"
  /\ conversation' = s
  /\ UNCHANGED <<messages, turn>>
-----------------------------------------------------------------------------
\* startInference: three awaits, of which only the last one is a transaction.
CheckConversation(t) ==
  /\ turn[t].pc = "idle"
  /\ turn' = [turn EXCEPT ![t].pc =
                CASE conversation = "none" -> "notFound"
                  [] conversation = "archived" -> "archived"
                  [] OTHER -> "readMax"]
  /\ UNCHANGED <<conversation, messages>>

\* findFirst by sequenceNumber descending; -1 stands for "no message".
LastSeq == IF DOMAIN messages = {} THEN -1 ELSE Max(DOMAIN messages)

\* Seeded fault: an off-by-one that skips a number after the first turn.
ReadMaxSkipping(t) ==
  /\ turn[t].pc = "readMax"
  /\ turn' = [turn EXCEPT ![t].pc = "commit",
                          ![t].userSeq = IF LastSeq = -1 THEN 0 ELSE LastSeq + 2]
  /\ UNCHANGED <<conversation, messages>>

ReadMax(t) ==
  /\ turn[t].pc = "readMax"
  /\ turn' = [turn EXCEPT ![t].pc = "commit", ![t].userSeq = LastSeq + 1]
  /\ UNCHANGED <<conversation, messages>>

\* Seeded fault: the table has no unique (conversationId, sequenceNumber).
NumbersTakenUnchecked(s) == FALSE

\* The unique index of the table: an insert of a taken number fails.
NumbersTaken(s) == s \in DOMAIN messages \/ s + 1 \in DOMAIN messages

\* Seeded fault: the assistant placeholder gets the number before the prompt.
InsertTurnSwapped(t, s) ==
  [n \in DOMAIN messages \cup {s, s + 1} |->
     CASE n = s -> [role |-> "assistant", turn |-> t, status |-> "streaming"]
       [] n = s + 1 -> [role |-> "user", turn |-> t, status |-> "completed"]
       [] OTHER -> messages[n]]

InsertTurn(t, s) ==
  [n \in DOMAIN messages \cup {s, s + 1} |->
     CASE n = s -> [role |-> "user", turn |-> t, status |-> "completed"]
       [] n = s + 1 -> [role |-> "assistant", turn |-> t, status |-> "streaming"]
       [] OTHER -> messages[n]]

\* Seeded fault: a commit whose reply was lost is tried again as it stands.
CommitTurnRetrying(t) ==
  /\ turn[t].pc = "commit"
  /\ LET s == turn[t].userSeq IN
       \/ /\ NumbersTaken(s)
          /\ turn' = [turn EXCEPT ![t].pc = "conflict"]
          /\ UNCHANGED messages
       \/ /\ ~NumbersTaken(s)
          /\ messages' = InsertTurn(t, s)
          /\ turn' \in {[turn EXCEPT ![t].pc = "loadContext"], turn}
  /\ UNCHANGED conversation

\* The transaction inserts both rows or none.  A lost reply to the commit
\* leaves the rows without a run, as ChatInference models.
CommitTurn(t) ==
  /\ turn[t].pc = "commit"
  /\ LET s == turn[t].userSeq IN
       \/ /\ NumbersTaken(s)
          /\ turn' = [turn EXCEPT ![t].pc = "conflict"]
          /\ UNCHANGED messages
       \/ /\ ~NumbersTaken(s)
          /\ messages' = InsertTurn(t, s)
          /\ turn' \in {[turn EXCEPT ![t].pc = "loadContext"],
                        [turn EXCEPT ![t].pc = "error"]}
       \/ turn' = [turn EXCEPT ![t].pc = "error"] /\ UNCHANGED messages
  /\ UNCHANGED conversation
-----------------------------------------------------------------------------
CompletedSeqs == {n \in DOMAIN messages : messages[n].status = "completed"}

\* Seeded fault: the window is taken from the start of the conversation.
ContextWindowOldest ==
  {n \in CompletedSeqs :
     Cardinality({m \in CompletedSeqs : m < n}) < ContextLimit}

\* status = completed, by sequenceNumber descending, take ContextLimit.
ContextWindow ==
  {n \in CompletedSeqs :
     Cardinality({m \in CompletedSeqs : m > n}) < ContextLimit}

LoadContext(t) ==
  /\ turn[t].pc = "loadContext"
  /\ turn' = [turn EXCEPT ![t].pc = "running", ![t].context = ContextWindow]
  /\ UNCHANGED <<conversation, messages>>

\* The finalizer's update of the assistant row.
SettleAssistant(t) ==
  /\ turn[t].pc = "running"
  /\ \E v \in Settled :
       messages' = [messages EXCEPT ![turn[t].userSeq + 1].status = v]
  /\ turn' = [turn EXCEPT ![t].pc = "settled"]
  /\ UNCHANGED conversation
-----------------------------------------------------------------------------
Next ==
  \/ CreateConversation
  \/ \E s \in ConversationStatus : UpdateConversation(s)
  \/ \E t \in Turn :
       \/ CheckConversation(t) \/ ReadMax(t) \/ CommitTurn(t)
       \/ LoadContext(t) \/ SettleAssistant(t)

Spec == Init /\ [][Next]_vars
-----------------------------------------------------------------------------
\* Every variable stays in the set its columns and locals allow.
TypeOK ==
  /\ conversation \in ConversationStatus \cup {"none"}
  /\ DOMAIN messages \subseteq Nat
  /\ \A n \in DOMAIN messages : messages[n] \in Row
  /\ turn \in [Turn -> [pc : Place, userSeq : Nat, context : SUBSET Nat]]

\* The sequence numbers of a conversation are 0, 1, 2 and so on without a gap,
\* however the reads of the maximum and the transactions interleave.
SequenceContiguous ==
  DOMAIN messages = 0..(Cardinality(DOMAIN messages) - 1)

\* The conversation alternates: an even number holds a prompt and the next
\* number its own answer, never the answer to somebody else's prompt.
TurnsAdjacent ==
  \A n \in DOMAIN messages :
    n % 2 = 0 =>
      /\ n + 1 \in DOMAIN messages
      /\ messages[n].role = "user"
      /\ messages[n + 1].role = "assistant"
      /\ messages[n + 1].turn = messages[n].turn

\* A POST is turned away for its number only because another turn took it: of
\* the requests that race for a number one always gets through.
ConflictHasWinner ==
  \A t \in Turn :
    turn[t].pc = "conflict" =>
      /\ turn[t].userSeq \in DOMAIN messages
      /\ messages[turn[t].userSeq].turn # t

\* The context keeps the turn's own prompt unless prompts and answers of later
\* turns alone fill it, so it is always recent.
ContextKeepsOwnPrompt ==
  \A t \in Turn :
    turn[t].pc \in {"running", "settled"} =>
      \/ turn[t].userSeq \in turn[t].context
      \/ /\ Cardinality(turn[t].context) = ContextLimit
         /\ \A n \in turn[t].context : n > turn[t].userSeq

Ledger == INSTANCE ConversationLedger WITH
  ledger <- [k \in 1..(Cardinality(DOMAIN messages) \div 2) |->
               messages[2 * (k - 1)].turn]

\* The racing posts implement an append-only list of turns.
ImplementsLedger == Ledger!LedgerSpec
=============================================================================

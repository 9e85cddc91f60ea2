------------------------- MODULE ConversationLedger -------------------------
(***************************************************************************)
(* What the message numbering of a conversation promises: the turns form   *)
(* one list to which turns are only ever appended, each at most once.      *)
(***************************************************************************)
EXTENDS Sequences

CONSTANT Turn

VARIABLE ledger

LedgerInit == ledger = <<>>

AppendTurn(t) ==
  /\ \A n \in DOMAIN ledger : ledger[n] # t
  /\ ledger' = Append(ledger, t)

LedgerNext == \E t \in Turn : AppendTurn(t)

LedgerSpec == LedgerInit /\ [][LedgerNext]_ledger
=============================================================================

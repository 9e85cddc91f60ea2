--------------------------- MODULE StreamRegistry ---------------------------
(***************************************************************************)
(* The in-memory publish/subscribe entry of one inference: the value type  *)
(* of the map kept by apps/api/src/modules/chat/stream-registry.ts.  The   *)
(* buffer is what a late subscriber replays.  An absent entry stands for   *)
(* "no key in the map".                                                    *)
(***************************************************************************)
EXTENDS Sequences

NoEntry == [state |-> "absent", buffer |-> <<>>]

\* open(): a fresh entry replaces whatever the map held.
Opened == [state |-> "open", buffer |-> <<>>]

\* publish(): dropped when there is no entry or the entry has ended.
Published(entry, event) ==
  IF entry.state = "open"
  THEN [entry EXCEPT !.buffer = Append(@, event)]
  ELSE entry

\* end(): marks the entry; the map keeps it until the grace timer fires.
Ended(entry) ==
  IF entry.state = "absent" THEN entry ELSE [entry EXCEPT !.state = "ended"]

StreamEntry(Event) ==
  [state : {"absent", "open", "ended"}, buffer : Seq(Event)]
=============================================================================

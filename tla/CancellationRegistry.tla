------------------------ MODULE CancellationRegistry ------------------------
(***************************************************************************)
(* The two in-memory collections of                                        *)
(* apps/api/src/modules/chat/cancellation-registry.ts: entries (a map from *)
(* a registered inference to its abort controller) and                     *)
(* preRegisteredIntent (cancels that found no entry).  The controller's    *)
(* aborted flag and entry.cancelRequested are always set together, so an   *)
(* entry is one of "none", "registered" and "cancelled".                   *)
(***************************************************************************)
CONSTANT Inference

RegistryType ==
  [entries : [Inference -> {"none", "registered", "cancelled"}],
   preRegisteredIntent : SUBSET Inference]

EmptyRegistry ==
  [entries |-> [i \in Inference |-> "none"], preRegisteredIntent |-> {}]

\* Seeded fault: register() forgets to look for an earlier intent.
RegisterIgnoringIntent(reg, i) ==
  [reg EXCEPT !.entries[i] = "registered"]

\* register(): an earlier intent is consumed and aborts the new controller.
Register(reg, i) ==
  [entries |-> [reg.entries EXCEPT ![i] =
                  IF i \in reg.preRegisteredIntent THEN "cancelled"
                                                   ELSE "registered"],
   preRegisteredIntent |-> reg.preRegisteredIntent \ {i}]

\* requestCancel(): without an entry the intent is recorded for later.
RequestCancel(reg, i) ==
  IF reg.entries[i] = "none"
  THEN [reg EXCEPT !.preRegisteredIntent = @ \cup {i}]
  ELSE [reg EXCEPT !.entries[i] = "cancelled"]

\* release(): both collections forget the inference.
Release(reg, i) ==
  [entries |-> [reg.entries EXCEPT ![i] = "none"],
   preRegisteredIntent |-> reg.preRegisteredIntent \ {i}]

\* wasCancelled(), which is also the abort signal's state while registered.
WasCancelled(reg, i) == reg.entries[i] = "cancelled"
=============================================================================

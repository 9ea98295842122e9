------------------------- MODULE MCGuardedRunner --------------------------
(***************************************************************************)
(* Three tools: read is harmless and returns addresses, send has a locked  *)
(* recipient, pay has one too and needs confirmation.                      *)
(***************************************************************************)
EXTENDS GuardedRunner, TLC

CONSTANTS alice, bob, query

MCNames == {"to", "q"}
MCValues == {alice, bob, query}
MCNoName == "none"

Tool(params, locked, risk, confirm) ==
  [params |-> params, locked |-> locked,
   accepts |-> [n \in params |-> MCValues],
   fn |-> "plain", risk |-> risk, confirm |-> confirm,
   extraConfirm |-> FALSE, selector |-> MCNoName, cases |-> <<>>]

MCBundle ==
  [read |-> Tool({"q"}, {}, "read_only", FALSE),
   send |-> Tool({"to"}, {"to"}, "write", FALSE),
   pay  |-> Tool({"to"}, {"to"}, "financial", TRUE),
   draft |-> [Tool({"q"}, {}, "write", FALSE) EXCEPT !.fn = "async"]]

To(v) == [to |-> v]

Call(tool, args, trusted, confirm) ==
  [plain |-> TRUE, tool |-> tool, args |-> args, trusted |-> trusted,
   confirm |-> confirm]

Pay(v) == Call("pay", To(v), To(v), TRUE)

\* the requests of the safety and the nesting runs
MCRequests ==
  {Call("send", To(alice), To(alice), TRUE),
   Pay(alice), Pay(bob)}

\* the decisions that end a call at once
MCRefusals ==
  {Call("pay", To(alice), To(alice), FALSE),
   Call("send", To(bob), To(alice), TRUE),
   Call("draft", [q |-> query], To(alice), TRUE),
   [Call("read", [q |-> query], To(alice), TRUE) EXCEPT !.plain = FALSE]}

\* with them, one call that runs at once and one that asks first
MCAllOutcomes ==
  MCRefusals \cup {Pay(alice), Call("send", To(alice), To(alice), TRUE)}

MCResults == {{}, {alice}}

Symmetry == Permutations(Threads) \cup Permutations(Calls)
=============================================================================

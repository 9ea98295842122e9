------------------------- MODULE MCDirectDispatch -------------------------
(***************************************************************************)
(* Two tools: send has a locked recipient beside a free body; account is a *)
(* selector tool whose pay branch is financial and takes the locked        *)
(* recipient, while its read branch takes the selector alone.              *)
(***************************************************************************)
EXTENDS DirectDispatch, TLC

CONSTANTS alice, mallory, mixed, text, read, pay

MCNames == {"to", "cc", "body", "mode"}
MCValues == {alice, mallory, mixed, text, read, pay}

MCNoName == "none"
MCMixed == {mixed}

MCBundle ==
  [send |->
     [params |-> {"to", "cc", "body"}, locked |-> {"to", "cc"},
      accepts |-> [to |-> {alice, mallory, mixed},
                   cc |-> {alice, mallory}, body |-> {text, alice}],
      fn |-> "plain", risk |-> "write", confirm |-> FALSE,
      extraConfirm |-> FALSE, selector |-> MCNoName, cases |-> <<>>],
   account |->
     [params |-> {"mode", "to"}, locked |-> {"to"},
      accepts |-> [mode |-> {read, pay}, to |-> {alice, mallory, mixed}],
      fn |-> "plain", risk |-> "unknown", confirm |-> TRUE,
      extraConfirm |-> FALSE, selector |-> "mode",
      cases |-> (read :> [risk |-> "read_only", active |-> {"mode"}]) @@
                (pay :> [risk |-> "financial", active |-> {"mode", "to"}])]]

Call(tool, args, trusted) ==
  [plain |-> TRUE, tool |-> tool, args |-> args, trusted |-> trusted,
   confirm |-> TRUE]

AliceOnly == [to |-> alice]

\* complete sends, under declarations that match, miss or cover too much
Sends ==
  {Call("send", args, trusted) :
     args \in [to : {alice, mixed}, cc : {alice, mallory},
              body : {text, mallory}],
     trusted \in {[to |-> alice, cc |-> alice], AliceOnly,
                 [to |-> mixed, cc |-> mallory]}}

\* an implicit default, an inactive or missing argument, no exact case, an
\* unknown tool, a call that is not plain JSON
Others ==
  {Call("send", args, AliceOnly) :
     args \in {AliceOnly, [to |-> alice, body |-> text]}}
  \cup {Call("account", args, AliceOnly) :
          args \in [mode : {read, pay, text}]
                   \cup [mode : {read, pay}, to : {alice}]}
  \cup {Call("unknown", AliceOnly, AliceOnly),
        [Call("account", [mode |-> read], AliceOnly) EXCEPT !.plain = FALSE]}

MCRequests == Sends \cup Others
=============================================================================

------------------------- MODULE MCAuthorityPolicy -------------------------
(***************************************************************************)
(* Two tool names with alternative declarations.  Three names must be      *)
(* normalized and the budget affords two of them, so the order of          *)
(* registration decides which one is refused.                              *)
(***************************************************************************)
EXTENDS AuthorityPolicy

MCWords == {"get_item", "send", "to", "note", "item_id", "op", "zahl"}
MCEvidence ==
  [w \in MCWords |->
     CASE w = "get_item" -> {"read_only", "letters"}
       [] w = "send" -> {"write", "letters"}
       [] w = "to" -> {"final_to", "compact_sink", "letters"}
       [] w = "note" -> {"final_payload", "letters"}
       [] w = "item_id" -> {"selector", "compact_selector", "letters",
                            "final_payload"}
       [] w = "op" -> {"letters"}
       [] w = "zahl" -> {"letters"}]
MCCost == [w \in MCWords |-> CASE w = "to" -> 2 [] w = "zahl" -> 2 [] OTHER -> 0]
MCSatisfies ==
  [v \in {"a", "b", "mixed"} |-> {"string", "enum", "email"}]
MCMeasure == [v \in {"a", "b", "mixed"} |-> 1]

MCParam(n, type, sink) ==
  [name |-> n, type |-> type, sink |-> sink, limit |-> 250,
   enum |-> <<>>]
MCSelector == [name |-> "op", type |-> "enum", sink |-> "undeclared",
               limit |-> NoLimit, enum |-> <<"a", "b">>]
MCTool(n, risk, params) ==
  [name |-> n, risk |-> risk, params |-> params, selector |-> "none",
   cases |-> <<>>,
   fn |-> [kind |-> "function", positional |-> FALSE, keywords |-> TRUE,
           explicit |-> {}]]
MCBranch(v, risk, active) == [value |-> v, risk |-> risk, active |-> active]

MCToolDefs ==
  {MCTool("get_item", "read_only", <<MCParam("item_id", "string", "undeclared"),
                                    MCParam("to", "string", "undeclared")>>),
   MCTool("get_item", "financial", <<MCParam("zahl", "string", "undeclared")>>),
   MCTool("get_item", "undeclared", <<MCParam("note", "string", "no")>>),
   MCTool("send", "write", <<MCParam("zahl", "string", "undeclared"),
                            MCParam("note", "string", "undeclared"),
                            MCParam("item_id", "string", "undeclared")>>),
   MCTool("send", "read_only", <<MCParam("zahl", "string", "undeclared")>>),
   MCTool("send", "write", <<MCParam("to", "string", "no")>>),
   [MCTool("send", "unknown", <<MCSelector, MCParam("note", "string", "yes")>>)
      EXCEPT !.selector = "op", !.fn.explicit = {"op"},
             !.cases = <<MCBranch("a", "write", {"op"}),
                         MCBranch("b", "destructive", {"op", "note"})>>],
   [MCTool("send", "read_only", <<MCSelector>>)
      EXCEPT !.selector = "op",
             !.cases = <<MCBranch("a", "write", {"op"}),
                         MCBranch("b", "unknown", {"op"})>>]}
=============================================================================

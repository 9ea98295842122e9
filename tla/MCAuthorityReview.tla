-------------------------- MODULE MCAuthorityReview --------------------------
(***************************************************************************)
(* Versions of a two-tool export: its arguments and how it closes, limits, *)
(* declared risks, hints, bounds, branches, unexposed arguments, names on  *)
(* the edge of the normalization budget, and exports the scanner refuses.  *)
(***************************************************************************)
EXTENDS AuthorityReview

MCWords == {"send", "get", "drop", "to", "note", "id", "top", "op", "zahl",
            "cote", "extra"}
MCEvidence ==
  [w \in MCWords |->
     {"letters"} \cup
     (CASE w = "send" -> {"write"}
        [] w = "get" -> {"read_only"}
        [] w = "drop" -> {"destructive"}
        [] w = "to" -> {"sink"}
        [] w = "note" -> {"final_payload"}
        [] w = "id" -> {"selector", "compact_selector"}
        [] w \in {"op", "zahl"} -> {"branch_selector"}
        [] w \in {"top", "cote", "extra"} -> {})]
MCCost == [w \in MCWords |-> IF w \in {"zahl", "cote"} THEN 2 ELSE 0]

MCValues == {"a", "b", "one", "two"}
MCSatisfies == [v \in MCValues |-> IF v \in {"a", "b"} THEN {"string"} ELSE {"number"}]
MCMeasure == [v \in MCValues |-> IF v \in {"a", "one"} THEN 1 ELSE 2]

---------------------------------------------------------------------------
Text(n) == [name |-> n, form |-> "plain", types |-> {"string"}, format |-> Absent,
            enum |-> Absent, maximum |-> Absent, maxLength |-> Absent,
            other |-> Absent]
Number(n, max) == [Text(n) EXCEPT !.types = {"number"}, !.maximum = max]
Choice(n, values) == [Text(n) EXCEPT !.enum = values]
UpTo(n, len) == [Text(n) EXCEPT !.maxLength = len]
Formed(n, form) == [Text(n) EXCEPT !.form = form, !.types = {}]

Closed == [shape |-> "object", additional |-> "closed", patterns |-> FALSE,
           composed |-> FALSE, required |-> {}, other |-> Absent]
Open == [Closed EXCEPT !.additional = Absent]

Mcp == [nested |-> FALSE, outer |-> FALSE, type |-> Absent,
        aliases |-> {"inputSchema"}]

ToolDef(n, root, props) ==
  [name |-> n, wire |-> Mcp, root |-> root, props |-> props, hints |-> <<>>]
Send(root, props) == ToolDef("send", root, props)
Get(props) == ToolDef("get", Closed, props)

Evident(tier) == [tier |-> tier, evidence |-> "attested"]
NoControls == [risk |-> Absent, branches |-> Absent, arguments |-> <<>>,
               unexposed |-> <<>>]
Risky(tier) == [NoControls EXCEPT !.risk = Evident(tier)]
Control(authority, bounds) ==
  [authority |-> authority, evidence |-> "attested", bounds |-> bounds]
Bound(source, mutability, status) ==
  [source |-> source, mutability |-> mutability, status |-> status]
OnNote(controls, control) == [controls EXCEPT !.arguments = ("note" :> control)]

Doc(tools, controls) ==
  [envelopes |-> {"tools"}, report |-> FALSE, tools |-> tools, controls |-> controls]

Reading == ("get" :> Risky("read_only"))
Writing == ("send" :> Risky("write"))
GetId == Get(<<Text("id")>>)

\* the send tool next to a reading tool
With(send, controls) == Doc(<<send, GetId>>, ("send" :> controls) @@ Reading)

Surface ==
  LET roots == <<Closed, Open, [Closed EXCEPT !.patterns = TRUE],
                 [Closed EXCEPT !.composed = TRUE]>>
      props == <<<<Text("to")>>, <<Text("to"), Text("note")>>,
                 <<Text("note")>>>>
  IN [k \in 1..12 |->
        With(Send(roots[((k - 1) \div 3) + 1], props[((k - 1) % 3) + 1]),
             Risky("write"))]

Limits ==
  LET notes == <<UpTo("note", 1), UpTo("note", 2), Choice("to", <<"a">>),
                 Choice("to", <<"a", "b">>), Choice("to", <<"b", "a">>),
                 Choice("to", <<"b">>), [Text("note") EXCEPT !.other = "pattern"],
                 Number("note", 2)>>
      gets == <<Get(<<Number("top", Absent)>>), Get(<<Number("top", 1)>>),
                Get(<<Number("top", 2)>>)>>
  IN [k \in DOMAIN notes |-> With(Send(Closed, <<notes[k]>>), Risky("write"))]
       \o [k \in DOMAIN gets |-> Doc(<<gets[k]>>, Reading)]

Bounds ==
  LET chains ==
        <<<<Bound("s", "immutable", "enforced")>>,
          <<Bound("s", "trusted_party", "enforced")>>,
          <<Bound("s", "caller", "enforced")>>,
          <<Bound("s", "trusted_party", "specified")>>,
          <<Bound("s", "immutable", "not_stated")>>,
          <<Bound("u", "immutable", "enforced")>>,
          <<Bound("s", "immutable", "enforced"), Bound("u", "trusted_party", "enforced")>>,
          <<Bound("u", "trusted_party", "enforced"), Bound("s", "trusted_party", "enforced")>>,
          <<Bound("s", "caller", "enforced"), Bound("u", "caller", "enforced")>>,
          <<Bound("s", "immutable", "enforced"), Bound("u", "caller", "enforced")>>,
          <<Bound("s", "immutable", "enforced"), Bound("s", "trusted_party", "enforced")>>,
          <<Bound("s", "immutable", "enforced"), Bound("s", "caller", "enforced")>>>>
      send == Send(Closed, <<Text("note")>>)
  IN [k \in DOMAIN chains |->
        With(send, OnNote(Risky("write"), Control("constrained", chains[k])))]
     \o <<With(send, OnNote(Risky("write"), Control("locked", <<>>))),
          With(send, OnNote(Risky("write"), Control("free", <<>>)))>>

Case(v, tier, active) == [value |-> v, risk |-> Evident(tier), active |-> active]
Branches ==
  LET cases ==
        <<<<Case("a", "write", {"to"}), Case("b", "write", {"to"})>>,
          <<Case("a", "write", {"to", "note"}), Case("b", "write", {"to"})>>,
          <<Case("a", "write", {"to"}), Case("b", "write", {"to", "note"})>>,
          <<Case("a", "write", {"to"}), Case("b", "destructive", {"to"})>>,
          <<Case("a", "write", {"to", "note"})>>,
          <<Case("a", "write", {"to"})>>>>
      values(k) == [i \in DOMAIN cases[k] |-> cases[k][i].value]
  IN [k \in DOMAIN cases |->
        With(Send(Closed, <<Choice("to", values(k)), Text("note")>>),
             [NoControls EXCEPT
                !.branches = [selector |-> "to", cases |-> cases[k]]])]

Doubts ==
  LET op == Send(Closed, <<Choice("op", <<"a", "b">>), Text("note")>>)
      hint(n, v) == Doc(<<[GetId EXCEPT !.hints = (n :> v)]>>, Reading)
  IN <<Doc(<<GetId>>, Reading),
       Doc(<<GetId>>, <<>>),
       Doc(<<Get(<<Choice("op", <<"a", "b">>)>>)>>, Reading),
       Doc(<<ToolDef("drop", Closed, <<Text("note")>>)>>, ("drop" :> Risky("destructive"))),
       Doc(<<ToolDef("drop", Closed, <<Text("note")>>)>>, ("drop" :> Risky("write"))),
       With(op, Risky("write")),
       With(op, OnNote(Risky("write"), Control("free", <<>>))),
       With(op, [NoControls EXCEPT !.branches =
                   [selector |-> "op", cases |-> <<Case("a", "read_only", {"op", "note"}),
                                                  Case("b", "read_only", {"op"})>>]]),
       With(Send(Closed, <<Text("to")>>),
            [Risky("write") EXCEPT !.arguments = ("to" :> Control("free", <<>>))]),
       With(Send(Closed, <<Text("note")>>),
            [Risky("write") EXCEPT !.unexposed = ("to" :> [evidence |-> "attested"])]),
       With(Send(Open, <<Text("note")>>),
            [Risky("write") EXCEPT !.unexposed = ("to" :> [evidence |-> "attested"])]),
       hint("readOnlyHint", TRUE), hint("destructiveHint", TRUE),
       hint("idempotentHint", TRUE), hint("openWorldHint", TRUE)>>

\* three names whose normalization costs, where the budget affords one
Costly ==
  <<With(Send(Closed, <<Choice("zahl", <<"a", "b">>), Text("cote")>>), Risky("write")),
    With(Send(Closed, <<Text("cote"), Choice("zahl", <<"a", "b">>)>>), Risky("write")),
    Doc(<<GetId, ToolDef("zahl", Open, <<Text("cote")>>)>>, ("zahl" :> Risky("read_only")))>>

Refusals ==
  LET note == Send(Closed, <<Text("note")>>)
  IN <<[With(note, Risky("write")) EXCEPT !.report = TRUE],
       [With(note, Risky("write")) EXCEPT !.envelopes = {"tools", "functions"}],
       With([note EXCEPT !.wire.nested = TRUE], Risky("write")),
       With([note EXCEPT !.wire.type = "function"], Risky("write")),
       Doc(<<GetId, GetId>>, Reading),
       Doc(<<note>>, Reading),
       With(note, [Risky("write") EXCEPT !.unexposed =
                     ("note" :> [evidence |-> "attested"])]),
       With(Send(Closed, <<Choice("to", <<"a", "a">>)>>), Risky("write")),
       With(Send(Closed, <<Text("to"), Text("note"), Text("top")>>),
            [Risky("write") EXCEPT !.unexposed =
               ("extra" :> [evidence |-> "attested"])]),
       With(note, OnNote(Risky("write"), Control("constrained", <<>>))),
       With(Send([Closed EXCEPT !.shape = "direct"], <<Text("note"), Text("op")>>),
            Risky("write")),
       With(Send(Closed, <<Formed("note", "composed")>>), Risky("write"))>>

MCDocuments ==
  Surface \o Limits \o Bounds \o Branches \o Doubts \o Costly \o Refusals

---------------------------------------------------------------------------
Arg == [value : MCValues, author : {"trusted", "data"}]
ArgNames == {"to", "note", "id", "top", "extra"}
MCCalls ==
  {[tool |-> t, args |-> args, attended |-> x, beyond |-> {}, mover |-> 0] :
     t \in {"send", "get", "drop"}, x \in BOOLEAN,
     args \in UNION {[{n} -> Arg] : n \in ArgNames} \cup [{"to", "note"} -> Arg]}
  \cup
  {[tool |-> "send", args |-> args, attended |-> FALSE, beyond |-> s, mover |-> m] :
     s \in SUBSET {"s", "u"}, m \in 0..3, args \in [{"note"} -> Arg]}
=============================================================================

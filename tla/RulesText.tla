------------------------------ MODULE RulesText ------------------------------
(***************************************************************************)
(* The rules language (switch_ruleset.hpp): a line is parsed into one      *)
(* statement, or two with "bidir"; "show" prints the statements in         *)
(* canonical form; what was shown is loaded again.  A line is a sequence   *)
(* of tokens, a label value one of a few literals.  Each parser takes the  *)
(* tokens that remain and returns a value and the tokens after it.         *)
(***************************************************************************)
EXTENDS RuleStacks, FiniteSets

CONSTANTS
  Format,                  \* 1, 2 or 3
  Lit,                     \* literals, in numeric order
  Names,                   \* port patterns, some spelled like keywords
  Sources, Destinations, Services, Actions, Options   \* parts of a line, as token sequences

VARIABLES line, loaded, shown, again

vars == <<line, loaded, shown, again>>

Keywords == {"to", "allow", "drop", "capture"}
Peek(t, k) == IF k <= Len(t) THEN t[k] ELSE ""
From(t, k) == SubSeq(t, k, Len(t))
Got(v, t) == [ok |-> TRUE, v |-> v, t |-> t]
Fail == [ok |-> FALSE, v |-> AnyLabel, t |-> <<>>]
IsLabel(tok) == tok \in {Lit[i] : i \in DOMAIN Lit}
Value(tok) == CHOOSE i \in DOMAIN Lit : Lit[i] = tok

-----------------------------------------------------------------------------
(* Canonical text.                                                         *)
ElementText(e) ==
  CASE e.kind = "any" -> <<"*">>
    [] e.kind = "exact" -> <<Lit[e.value]>>
    [] e.kind = "range" -> <<"<", Lit[e.value], ",", Lit[e.upper], ">">>
    [] e.kind = "bits" -> <<"&", Lit[e.value]>>

Listed(parts, rest) ==
  LET Comma(out, p) == IF out = <<"[">> THEN out \o p ELSE Append(out, ",") \o p
  IN FoldLeft(Comma, <<"[">>, parts) \o (IF rest THEN <<",", "...">> ELSE <<>>) \o <<"]">>

MatchText(m) == Listed([i \in DOMAIN m.items |-> ElementText(m.items[i])], m.rest)

StackText(s, keep) ==
  Listed([i \in DOMAIN s.items |-> IF s.items[i].keep THEN <<keep>> ELSE <<Lit[s.items[i].value]>>], s.rest)

Identity(s) == s.rest /\ Len(s.items) = 1 /\ s.items[1].keep

EndpointTextV2(port, match) ==
  LET name == IF port = "*" THEN <<>> ELSE <<port>>
  IN IF Unrestricted(match) /\ port \notin Keywords THEN name
     ELSE name \o (IF name = <<>> THEN <<>> ELSE <<",">>) \o MatchText(match)

IdText(s) == IF s.id = "" THEN <<>> ELSE <<"[", s.id, "]">>

TextV2(s) ==
  LET to == IF s.type # "forward" THEN EndpointTextV2(s.out, s.outMatch)
            ELSE LET name == IF s.out = "*" THEN <<>> ELSE <<s.out>>
                 IN IF Identity(s.stack) THEN name
                    ELSE name \o (IF name = <<>> THEN <<>> ELSE <<",">>) \o StackText(s.stack, "*")
  IN <<"switch">> \o EndpointTextV2(s.in, s.match)
     \o (IF to = <<>> THEN <<>> ELSE <<"to">> \o to)
     \o (IF s.via = <<>> THEN <<>> ELSE <<"via">> \o Listed([i \in DOMAIN s.via |-> <<s.via[i]>>], FALSE))
     \o (IF s.type = "forward" THEN <<"allow">> ELSE <<"drop">>) \o IdText(s)

TextV1(s) ==
  LET Endpoint(port, label) == <<port, ",">> \o ElementText(label)
  IN (IF s.type = "mapping"
      THEN <<"label">> \o Endpoint(s.in, s.label) \o <<"to", s.out, ",">> \o StackText(s.stack, "keep")
      ELSE <<"switch">> \o (IF s.in = "*" THEN <<>> ELSE Endpoint(s.in, s.label))
           \o (IF s.out = "*" THEN <<>> ELSE <<"to">> \o Endpoint(s.out, s.outLabel))
           \o (IF s.allow THEN <<"allow">> ELSE <<"drop">>)) \o IdText(s)

Text(s) == IF Format >= 2 THEN TextV2(s) ELSE TextV1(s)

-----------------------------------------------------------------------------
(* RulesLine.                                                              *)
Element(t) ==
  IF Peek(t, 1) = "*" THEN Got(AnyLabel, From(t, 2))
  ELSE IF Peek(t, 1) = "&" THEN IF IsLabel(Peek(t, 2)) THEN Got([kind |-> "bits", value |-> Value(t[2]), upper |-> 0], From(t, 3)) ELSE Fail
  ELSE IF Peek(t, 1) = "<"
  THEN IF IsLabel(Peek(t, 2)) /\ Peek(t, 3) = "," /\ IsLabel(Peek(t, 4)) /\ Peek(t, 5) = ">" /\ Value(t[2]) <= Value(t[4])
       THEN Got(IF t[2] = t[4] THEN Exactly(Value(t[2])) ELSE [kind |-> "range", value |-> Value(t[2]), upper |-> Value(t[4])], From(t, 6))
       ELSE Fail
  ELSE IF IsLabel(Peek(t, 1)) THEN Got(Exactly(Value(t[1])), From(t, 2)) ELSE Fail

RECURSIVE ListItems(_, _)
ListItems(t, m) ==
  IF Peek(t, 1) = "..." THEN IF Peek(t, 2) = "]" /\ m.items # <<>> THEN Got([m EXCEPT !.rest = TRUE], From(t, 3)) ELSE Fail
  ELSE LET e == Element(t)
           more == [m EXCEPT !.items = Append(@, e.v)]
       IN IF ~e.ok \/ Len(more.items) > MaxLabels THEN Fail
          ELSE IF Peek(e.t, 1) = "," THEN ListItems(From(e.t, 2), more)
          ELSE IF Peek(e.t, 1) = "]" THEN Got(more, From(e.t, 2)) ELSE Fail

StackMatch(t) ==
  IF Peek(t, 1) = "[" THEN ListItems(From(t, 2), Rejected)
  ELSE LET e == Element(t) IN IF e.ok THEN Got([items |-> <<e.v>>, rest |-> FALSE], e.t) ELSE Fail

RECURSIVE Template(_, _)
Template(t, s) ==
  IF Peek(t, 1) = "..." THEN IF Peek(t, 2) = "]" /\ s.items # <<>> THEN Got([s EXCEPT !.rest = TRUE], From(t, 3)) ELSE Fail
  ELSE LET more == [s EXCEPT !.items = Append(@, [keep |-> t[1] = "keep", value |-> IF t[1] = "keep" THEN 0 ELSE Value(t[1])])]
       IN IF ~(Peek(t, 1) = "keep" \/ IsLabel(Peek(t, 1))) \/ Len(more.items) > MaxLabels THEN Fail
          ELSE IF Peek(t, 2) = "," THEN Template(From(t, 3), more)
          ELSE IF Peek(t, 2) = "]" THEN Got(more, From(t, 3)) ELSE Fail

Endpoint(t) ==
  IF Peek(t, 1) \notin Names THEN Fail
  ELSE IF Peek(t, 2) # "," THEN Got([port |-> t[1], label |-> AnyLabel, match |-> Everything], From(t, 2))
  ELSE IF Peek(t, 3) = "*" \/ IsLabel(Peek(t, 3))
       THEN Got([port |-> t[1], label |-> IF t[3] = "*" THEN AnyLabel ELSE Exactly(Value(t[3])), match |-> Everything], From(t, 4))
       ELSE Fail

EndpointV2(t) ==
  IF Peek(t, 1) # "[" /\ Peek(t, 1) \notin Names THEN Fail
  ELSE IF Peek(t, 1) # "[" /\ Peek(t, 2) # "," THEN Got([port |-> t[1], label |-> AnyLabel, match |-> Everything], From(t, 2))
  ELSE LET m == StackMatch(IF Peek(t, 1) = "[" THEN t ELSE From(t, 3))
       IN IF m.ok THEN Got([port |-> IF t[1] = "[" THEN "*" ELSE t[1], label |-> AnyLabel, match |-> m.v], m.t) ELSE Fail

Side(t) == IF Format >= 2 THEN EndpointV2(t) ELSE Endpoint(t)
Omitted(t) == Got([port |-> "*", label |-> AnyLabel, match |-> Everything], t)

RECURSIVE ViaNames(_, _)
ViaNames(t, out) ==
  IF Peek(t, 1) \in {"", ",", "[", "]"} \/ Contains(out, Peek(t, 1)) THEN Fail
  ELSE IF Peek(t, 2) = "," THEN ViaNames(From(t, 3), Append(out, t[1]))
  ELSE IF Peek(t, 2) = "]" THEN Got(Append(out, t[1]), From(t, 3)) ELSE Fail

\* What starts a line that names a source: a keyword does when "," (or "to") follows it.
HasSource(t) ==
  /\ Peek(t, 1) # "to" \/ Peek(t, 2) = ","
  /\ Peek(t, 1) \notin {"allow", "drop", "capture"} \/ Peek(t, 2) \in {",", "to"}

(* A "switch" or "label" line: its statement, or failure; then "bidir".    *)
SwitchLine(in, out, via) ==
  LET action == Peek(via.t, 1)
      forward == action = "allow" /\ Format >= 2
      stack == IF forward THEN OutputStack(out.v.match) ELSE Rejected
  IN IF ~via.ok \/ action \notin {"allow", "drop"} THEN Fail
     ELSE IF (forward /\ stack = Rejected) \/ (~forward /\ via.v # <<>>) THEN Fail
     ELSE Got([type |-> IF forward THEN "forward" ELSE "policy", allow |-> action = "allow", id |-> "", via |-> via.v,
               in |-> in.v.port, label |-> in.v.label, match |-> in.v.match,
               out |-> out.v.port, outLabel |-> out.v.label, outMatch |-> out.v.match, stack |-> stack], From(via.t, 2))

SwitchVia(in, out) ==
  SwitchLine(in, out, IF ~out.ok THEN Fail
                      ELSE IF Format # 3 \/ Peek(out.t, 1) # "via" THEN Got(<<>>, out.t)
                      ELSE IF Peek(out.t, 2) = "[" THEN ViaNames(From(out.t, 3), <<>>) ELSE Fail)

SwitchTo(in) ==
  SwitchVia(in, IF ~in.ok THEN Fail ELSE IF Peek(in.t, 1) = "to" THEN Side(From(in.t, 2)) ELSE Omitted(in.t))

Switch(t) == SwitchTo(IF HasSource(t) THEN Side(t) ELSE Omitted(t))

LabelLine(in, out) ==
  IF ~out.ok THEN Fail
  ELSE Got([type |-> "mapping", allow |-> FALSE, id |-> "", via |-> <<>>, in |-> in.v.port, label |-> in.v.label,
            match |-> Everything, out |-> in.t[2], outLabel |-> AnyLabel, outMatch |-> Everything, stack |-> out.v], out.t)

LabelTo(in) ==
  LabelLine(in, IF in.ok /\ Peek(in.t, 1) = "to" /\ Peek(in.t, 2) \in Names /\ Peek(in.t, 3) = "," /\ Peek(in.t, 4) = "["
                THEN Template(From(in.t, 5), Rejected) ELSE Fail)

Label(t) == LabelTo(IF Format = 1 THEN Endpoint(t) ELSE Fail)

ReverseOf(s) ==
  IF s.type = "forward" THEN ReverseForward(s)
  ELSE [s EXCEPT !.in = s.out, !.out = s.in, !.label = s.outLabel, !.outLabel = s.label,
                 !.match = s.outMatch, !.outMatch = s.match]

\* parse_switch_ruleset on one line: the statements it appends, none if it is refused.
Statements(s, bidir) ==
  LET back == ReverseOf(s)
  IN IF ~bidir THEN <<s>>
     ELSE IF back = None THEN <<>>
     ELSE <<s, [back EXCEPT !.id = IF s.id = "" THEN "" ELSE s.id \o ".reverse", !.via = <<>>]>>

Identified(s, bidir, rest) ==
  LET id == IF Len(rest) = 3 /\ rest[1] = "[" /\ rest[3] = "]" THEN rest[2] ELSE ""
  IN IF rest # <<>> /\ id = "" THEN <<>> ELSE Statements([s EXCEPT !.id = id], bidir)

Parsed(t, first) ==
  LET bidir == t[1] # "label" /\ Peek(first.t, 1) = "bidir"
  IN IF first.ok THEN Identified(first.v, bidir, IF bidir THEN From(first.t, 2) ELSE first.t) ELSE <<>>

\* "drop" alone is "switch drop".
Drop(t) == SwitchLine(Omitted(t), Omitted(t), Got(<<>>, t))

Parse(t) ==
  Parsed(t, CASE Peek(t, 1) = "switch" -> Switch(From(t, 2))
              [] Peek(t, 1) = "drop" -> Drop(t)
              [] Peek(t, 1) = "label" -> Label(From(t, 2))
              [] OTHER -> Fail)

-----------------------------------------------------------------------------
Init == line = <<>> /\ loaded = <<>> /\ shown = <<>> /\ again = <<>>

Write ==
  /\ line = <<>>
  /\ \/ \E s \in Sources, d \in Destinations, v \in Services, a \in Actions, o \in Options :
          line' = (IF a # <<>> THEN <<"switch">> ELSE <<"label">>) \o s \o d \o v \o a \o o
     \/ \E b \in {<<>>, <<"bidir">>}, o \in Options : line' = <<"drop">> \o b \o o
  /\ UNCHANGED <<loaded, shown, again>>

Load == line # <<>> /\ loaded = <<>> /\ loaded' = Parse(line) /\ loaded' # <<>> /\ UNCHANGED <<line, shown, again>>

Show == loaded # <<>> /\ shown = <<>> /\ shown' = [i \in DOMAIN loaded |-> Text(loaded[i])] /\ UNCHANGED <<line, loaded, again>>

Reload == shown # <<>> /\ again = <<>> /\ again' = [i \in DOMAIN shown |-> Parse(shown[i])] /\ UNCHANGED <<line, loaded, shown>>

Next == Write \/ Load \/ Show \/ Reload
Spec == Init /\ [][Next]_vars

\* What the switch uses of a statement at run time.
Meaning(s) == [s EXCEPT !.outMatch = IF s.type = "forward" THEN Everything ELSE @]
Bare(s) == s.via # <<>> /\ s.in = "*" /\ Unrestricted(s.match) /\ s.out = "*" /\ Identity(s.stack)

\* An export is reloadable (docs/SWITCH_RULESET_V1.md: "so `show` remains reloadable"):
\* loading what "show" printed gives statements that mean the same, one for one.
ExportReloads ==
  again # <<>> =>
    /\ \A i \in DOMAIN loaded : Len(again[i]) = 1
    /\ \A i \in DOMAIN loaded : Meaning(again[i][1]) = Meaning(loaded[i])

\* The same for every statement except a VIA rule that names neither side, whose text
\* reads as a rule from a port called "via".
ExportReloadsElse ==
  again # <<>> =>
    \A i \in DOMAIN loaded : Bare(loaded[i]) \/ (Len(again[i]) = 1 /\ Meaning(again[i][1]) = Meaning(loaded[i]))
=============================================================================

----------------------------- MODULE SwitchRules -----------------------------
(***************************************************************************)
(* How a switch decides where a frame goes (switch_ruleset.hpp,            *)
(* switch_ecmp.hpp, switch_routes.hpp, the routing in switch/main.cpp).    *)
(* The state is a rule set under construction, statement by statement as   *)
(* the parser appends them, or the legacy routes of the command line; the  *)
(* properties quantify over the ports, label stacks and connections a      *)
(* frame can meet.  A port name is a sequence of letters, a pattern a      *)
(* prefix that may be followed by "*".                                     *)
(***************************************************************************)
EXTENDS RuleStacks, FiniteSets

CONSTANTS
  Format,       \* 1 or 2
  Forms,        \* statements a configuration may hold
  RouteForms,   \* legacy routes it may hold
  MaxRules,     \* bound on the statements
  Ports,        \* names of connected ports
  Labels,       \* label values
  Depth,        \* bound on the labels of a frame
  Scores        \* values of the rendezvous hash

VARIABLES statements, bidir, routes

vars == <<statements, bidir, routes>>

Star == [prefix |-> <<>>, wild |-> TRUE]
Frames == UNION {[1..n -> Labels] : n \in 1..Depth}

PortMatches(pattern, name) ==
  IF pattern.wild THEN IsPrefix(pattern.prefix, name) ELSE pattern.prefix = name

(* The checks at the end of parse_switch_ruleset: roles must not overlap.  *)
Overlap(s, t) == PortMatches(s.out, t.out.prefix) \/ PortMatches(t.out, s.out.prefix)

Valid(list) ==
  \A i, j \in DOMAIN list : list[i].type = "exit" /\ list[j].type = "trunk" => ~Overlap(list[i], list[j])

Role(list, name, type) == \E i \in DOMAIN list : list[i].type = type /\ PortMatches(list[i].out, name)

-----------------------------------------------------------------------------
(* RulesProgram: what one ingress port needs, compiled once.               *)
EmptyProgram == [mappings |-> <<>>, policies |-> <<>>, exact |-> {}, fallback |-> None]

CompileV1(p, s) ==
  IF s.type = "mapping" /\ p.fallback = None
  THEN IF s.label.kind = "any" THEN [p EXCEPT !.fallback = s, !.mappings = Append(@, s)]
       ELSE IF \E e \in p.exact : e.label = s.label THEN p
       ELSE [p EXCEPT !.exact = @ \union {s}, !.mappings = Append(@, s)]
  ELSE IF s.type = "policy" THEN [p EXCEPT !.policies = Append(@, s)] ELSE p

CompileV2(p, s) ==
  [p EXCEPT !.mappings = IF s.type = "forward" THEN Append(@, s) ELSE @,
            !.policies = IF s.type \in {"forward", "policy"} THEN Append(@, s) ELSE @]

Program(list, name) ==
  LET Add(p, s) == IF ~PortMatches(s.in, name) THEN p
                   ELSE IF Format = 1 THEN CompileV1(p, s) ELSE CompileV2(p, s)
  IN FoldLeft(Add, EmptyProgram, list)

MappingV1(p, label) ==
  IF \E e \in p.exact : e.label.value = label THEN CHOOSE e \in p.exact : e.label.value = label ELSE p.fallback

\* Variant: scoped drops select too: the first statement whose source matches.
ScopedDropSelects(p, labels) ==
  LET hits == {i \in DOMAIN p.policies : StackMatches(p.policies[i].match, labels)}
  IN IF hits = {} THEN None ELSE p.policies[CHOOSE i \in hits : \A j \in hits : i <= j]

MappingV2(p, labels) ==
  LET Selects(s) == /\ StackMatches(s.match, labels)
                    /\ s.type = "forward" \/ (s.out = Star /\ Unrestricted(s.outMatch))
      hits == {i \in DOMAIN p.policies : Selects(p.policies[i])}
  IN IF hits = {} THEN None ELSE p.policies[CHOOSE i \in hits : \A j \in hits : i <= j]

AllowedV1(p, labels, name, out) ==
  LET Decides(s) == ElementMatches(s.label, labels[1]) /\ ElementMatches(s.outLabel, out[1]) /\ PortMatches(s.out, name)
      hits == {i \in DOMAIN p.policies : Decides(p.policies[i])}
  IN hits # {} /\ p.policies[CHOOSE i \in hits : \A j \in hits : i <= j].allow

AllowedV2(p, selected, labels, name, out) ==
  LET Denies(s) == s.type = "policy" /\ StackMatches(s.match, labels) /\ PortMatches(s.out, name) /\ StackMatches(s.outMatch, out)
  IN \E i \in DOMAIN p.policies : p.policies[i] = selected /\ \A j \in 1..(i - 1) : ~Denies(p.policies[j])

Mapping(p, labels) == IF Format = 1 THEN MappingV1(p, labels[1]) ELSE MappingV2(p, labels)
Allowed(p, s, labels, name, out) ==
  IF Format = 1 THEN AllowedV1(p, labels, name, out) ELSE AllowedV2(p, s, labels, name, out)

-----------------------------------------------------------------------------
(* EcmpSelector: rendezvous hashing over the candidates in the order they  *)
(* are met; score gives the hash of the flow with each name.               *)
NoTarget == [count |-> 0, name |-> <<>>, score |-> 0]
Before(a, b) == LET D == {i \in 1..Len(b) : i > Len(a) \/ a[i] # b[i]}
                IN D # {} /\ LET i == CHOOSE k \in D : \A m \in D : k <= m
                             IN i > Len(a) \/ (i <= Len(a) /\ a[i] = "a" /\ b[i] = "b")

Consider(sel, name, score) ==
  IF sel.count > 0 /\ (score[name] < sel.score \/ (score[name] = sel.score /\ ~Before(name, sel.name)))
  THEN [sel EXCEPT !.count = @ + 1]
  ELSE [count |-> sel.count + 1, name |-> name, score |-> score[name]]

\* The routing of a frame by the program p of its port, over the connections in table order.
Decide(p, list, labels, conns, score) ==
  LET m == Mapping(p, labels)
      out == IF m.type \in {"none", "policy"} THEN <<>> ELSE Apply(m.stack, labels)
      matching == SelectSeq(conns, LAMBDA c : PortMatches(m.out, c))
      candidates == SelectSeq(matching, LAMBDA c : Allowed(p, m, labels, c, out))
      target == FoldLeft(LAMBDA sel, c : Consider(sel, c, score), NoTarget, candidates)
  IN IF m = None THEN [result |-> "route miss"]
     ELSE IF m.type = "policy" THEN [result |-> "policy drop"]
     ELSE IF out = <<>> THEN [result |-> "rewrite drop"]
     ELSE IF target.count > 0
          THEN [result |-> "sent", to |-> target.name, labels |-> out, exit |-> Role(list, target.name, "exit")]
     ELSE [result |-> IF matching = <<>> THEN "disconnected" ELSE "policy drop"]

-----------------------------------------------------------------------------
(* Legacy routes: exact names first, then the longest matching prefix.     *)
LongestFirst(a, b) == Len(a.prefix) > Len(b.prefix)

RoutesForPort(set, name) ==
  LET From(pattern) == {r \in set : r.in = pattern}
      Emplace(have, pattern) == have \union {r \in From(pattern) : \A h \in have : h.label # r.label}
      patterns == {r.in : r \in {q \in set : q.in.wild /\ PortMatches(q.in, name)}}
  IN FoldLeft(Emplace, From([prefix |-> name, wild |-> FALSE]), SetToSortSeq(patterns, LongestFirst))

-----------------------------------------------------------------------------
Init == statements = <<>> /\ bidir = {} /\ routes = {}

\* One statement of the file; "allow bidir" appends its reverse as well.
AddStatement ==
  \E s \in Forms :
    /\ Len(statements) < MaxRules
    /\ Valid(Append(statements, s))
    /\ statements' = Append(statements, s)
    /\ UNCHANGED <<bidir, routes>>

AddBidir ==
  \E s \in {f \in Forms : f.type \in {"forward", "policy"}} :
    LET reverse == IF s.type = "forward" THEN ReverseForward(s)
                   ELSE IF Format = 1 THEN [s EXCEPT !.in = s.out, !.out = s.in, !.label = s.outLabel, !.outLabel = s.label]
                   ELSE [s EXCEPT !.in = s.out, !.out = s.in, !.match = s.outMatch, !.outMatch = s.match]
    IN /\ Len(statements) + 1 < MaxRules
       /\ reverse # None
       /\ statements' = statements \o <<s, reverse>>
       /\ bidir' = bidir \union {<<s, reverse>>}
       /\ UNCHANGED routes

AddRoute ==
  \E r \in RouteForms :
    /\ \A q \in routes : q.in # r.in \/ q.label # r.label
    /\ routes' = routes \union {r}
    /\ UNCHANGED <<statements, bidir>>

Next == AddStatement \/ AddBidir \/ AddRoute
Spec == Init /\ [][Next]_vars

-----------------------------------------------------------------------------
First(Test(_)) == LET hits == {i \in DOMAIN statements : Test(statements[i])}
                  IN IF hits = {} THEN 0 ELSE CHOOSE i \in hits : \A j \in hits : i <= j

\* File order decides (docs/SWITCH_RULESET_V1.md and V2.md): the compiled program of
\* an ingress port selects the first statement of the file that applies to the frame,
\* and lets through exactly the candidates no earlier statement denies.
FileOrder ==
  \A from \in Ports, labels \in Frames :
    LET p == Program(statements, from)
        Hit(s) == PortMatches(s.in, from) /\
                  IF Format = 1 THEN s.type = "mapping" /\ ElementMatches(s.label, labels[1])
                  ELSE StackMatches(s.match, labels) /\ (s.type = "forward" \/ (s.type = "policy" /\ s.out = Star /\ Unrestricted(s.outMatch)))
        k == First(Hit)
        m == Mapping(p, labels)
    IN /\ m = IF k = 0 THEN None ELSE statements[k]
       /\ k > 0 /\ m.type # "policy" /\ Apply(m.stack, labels) # <<>> =>
            \A to \in Ports :
              LET out == Apply(m.stack, labels)
                  Applies(s) == /\ s.type = "policy" /\ PortMatches(s.in, from) /\ PortMatches(s.out, to)
                                /\ IF Format = 1 THEN ElementMatches(s.label, labels[1]) /\ ElementMatches(s.outLabel, out[1])
                                   ELSE StackMatches(s.match, labels) /\ StackMatches(s.outMatch, out)
                  first == First(Applies)
              IN Allowed(p, m, labels, to, out) <=>
                   IF Format = 1 THEN first > 0 /\ statements[first].allow ELSE first = 0 \/ first > k

\* "Rules after the selected allow cannot change its decision": cutting a format-2
\* file after the statement a frame selects leaves every decision as it was.
LaterRulesIrrelevant ==
  Format = 2 =>
    \A from \in Ports, labels \in Frames :
      LET Selects(s) == PortMatches(s.in, from) /\ s.type = "forward" /\ StackMatches(s.match, labels)
          k == First(Selects)
          cut == SubSeq(statements, 1, k) \o SelectSeq(statements, LAMBDA s : s.type = "exit")
          p == Program(statements, from)
          q == Program(cut, from)
          zero == [n \in Ports |-> 0]
      IN k > 0 => \A to \in Ports : Decide(p, statements, labels, <<to>>, zero) = Decide(q, cut, labels, <<to>>, zero)

\* A bidirectional forwarding rule brings a reply back (reverse_forward_rule): the
\* reverse rule accepts every stack the forward rule produces and restores the labels
\* the forward rule matched, and the whole stack when nothing was cut or inserted.
BidirRestores ==
  \A b \in {x \in bidir : x[1].type = "forward"}, labels \in Frames :
    LET forward == b[1]
        out == Apply(forward.stack, labels)
        back == Apply(b[2].stack, out)
        n == Len(forward.match.items)
    IN StackMatches(forward.match, labels) /\ out # <<>> =>
         /\ StackMatches(b[2].match, out)
         /\ Len(back) >= n /\ SubSeq(back, 1, n) = SubSeq(labels, 1, n)
         /\ forward.stack.rest = forward.match.rest /\ Len(forward.stack.items) <= n => back = labels

Orders(S) == {q \in [1..Cardinality(S) -> S] : \A i, j \in DOMAIN q : q[i] = q[j] => i = j}

\* Rendezvous selection does not depend on the order of the connection table, and a
\* port that goes away moves only the flows it carried.
EcmpStable ==
  \A from \in Ports :
    LET p == Program(statements, from) IN
    \A up \in SUBSET Ports :
      LET tables == Orders(up)
          without == [gone \in up |-> Orders(up \ {gone})]
      IN \A labels \in Frames, score \in [up -> Scores] :
           LET chosen == {Decide(p, statements, labels, q, score) : q \in tables}
           IN /\ Cardinality(chosen) = 1
              /\ \A d \in chosen : d.result = "sent" =>
                   \A gone \in up \ {d.to} : \A q \in without[gone] : Decide(p, statements, labels, q, score) = d

\* A legacy route is resolved label by label: the exact port name if it has the label,
\* else the longest prefix that has it.
LongestPrefixWins ==
  \A name \in Ports, label \in Labels :
    LET have == {r \in RoutesForPort(routes, name) : r.label = label}
        fit == {r \in routes : r.label = label /\ PortMatches(r.in, name)}
    IN /\ Cardinality(have) <= 1 /\ (have = {} <=> fit = {}) /\ have \subseteq fit
       /\ \A r \in have, q \in fit : r = q \/ ~r.in.wild \/ (q.in.wild /\ Len(q.in.prefix) < Len(r.in.prefix))
=============================================================================

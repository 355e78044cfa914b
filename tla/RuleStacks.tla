----------------------------- MODULE RuleStacks -----------------------------
(***************************************************************************)
(* Label-stack matches and rewrite templates (switch_stack_match.hpp and   *)
(* RuleStack in switch_ruleset.hpp), and the rule "bidir" generates.       *)
(***************************************************************************)
EXTENDS Integers, Sequences, SequencesExt, Bitwise

CONSTANT MaxLabels     \* switch_max_labels

AnyLabel == [kind |-> "any", value |-> 0, upper |-> 0]
Exactly(v) == [kind |-> "exact", value |-> v, upper |-> 0]
Everything == [items |-> <<AnyLabel>>, rest |-> TRUE]
Rejected == [items |-> <<>>, rest |-> FALSE]
None == [type |-> "none"]

ElementMatches(e, label) ==
  \/ e.kind = "any"
  \/ e.kind = "exact" /\ label = e.value
  \/ e.kind = "range" /\ e.value <= label /\ label <= e.upper
  \/ e.kind = "bits" /\ (label & e.value) # 0

Unrestricted(m) == m.rest /\ Len(m.items) = 1 /\ m.items[1].kind = "any"

StackMatches(m, labels) ==
  /\ Len(labels) >= Len(m.items)
  /\ m.rest \/ Len(labels) = Len(m.items)
  /\ \A i \in DOMAIN m.items : ElementMatches(m.items[i], labels[i])

\* RuleStack::apply; the empty sequence is a refusal.
Apply(stack, labels) ==
  LET n == Len(stack.items)
      head == [i \in 1..n |-> IF stack.items[i].keep THEN labels[i] ELSE stack.items[i].value]
      out == IF stack.rest THEN head \o SubSeq(labels, n + 1, Len(labels)) ELSE head
  IN IF \E i \in 1..n : stack.items[i].keep /\ i > Len(labels) THEN <<>>
     ELSE IF Len(out) > MaxLabels THEN <<>> ELSE out

OutputStack(m) ==
  IF \E i \in DOMAIN m.items : m.items[i].kind \notin {"any", "exact"} THEN Rejected
  ELSE [items |-> [i \in DOMAIN m.items |-> [keep |-> m.items[i].kind = "any", value |-> m.items[i].value]],
        rest |-> m.rest]

(* reverse_forward_rule.                                                   *)
ReverseForward(r) ==
  LET source == r.match.items
      rewrite == r.stack.items
      both == r.match.rest /\ r.stack.rest
      Preserved(i) == IF i <= Len(rewrite) THEN rewrite[i].keep ELSE r.stack.rest
      count == IF r.stack.rest /\ Len(source) > Len(rewrite) THEN Len(source) ELSE Len(rewrite)
      Element(i) ==
        IF i <= Len(rewrite) /\ ~rewrite[i].keep THEN Exactly(rewrite[i].value)
        ELSE IF i <= Len(source) THEN source[i] ELSE AnyLabel
  IN IF \/ \E i \in 1..count : (i > Len(rewrite) \/ rewrite[i].keep) /\ i > Len(source) /\ ~r.match.rest
        \/ \E i \in DOMAIN source : source[i].kind # "exact" /\ ~Preserved(i)
     THEN None
     ELSE [r EXCEPT !.in = r.out, !.out = r.in,
                    !.match = [items |-> [i \in 1..count |-> Element(i)], rest |-> both],
                    !.stack = [items |-> [i \in DOMAIN source |-> [keep |-> source[i].kind # "exact",
                                            value |-> IF source[i].kind = "exact" THEN source[i].value ELSE 0]],
                               rest |-> both]]
=============================================================================

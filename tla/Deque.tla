------------------------------- MODULE Deque --------------------------------
(***************************************************************************)
(* Bounded double-ended queues, one for each event: what the message       *)
(* queues of the kernel promise. A message goes in at either end, the      *)
(* first comes out, and a queue may be emptied. A call may take from       *)
(* several queues at once.                                                 *)
(***************************************************************************)
EXTENDS Naturals, Sequences

CONSTANTS Events, Msgs, QSize

VARIABLE content

TypeOK == content \in [Events -> UNION {[1..n -> Msgs] : n \in 0..QSize}]

Init == content = [e \in Events |-> <<>>]

PostBack(c)  == {Append(c, m) : m \in IF Len(c) < QSize THEN Msgs ELSE {}}
PostFront(c) == {<<m>> \o c : m \in IF Len(c) < QSize THEN Msgs ELSE {}}
Pend(c)      == IF c = <<>> THEN {} ELSE {Tail(c)}
Flush        == {<<>>}

Step(e) == content'[e] \in {content[e]} \cup PostBack(content[e]) \cup PostFront(content[e])
                           \cup Pend(content[e]) \cup Flush

Next == content' = [e \in Events |-> content'[e]] /\ \A e \in Events : Step(e)

Spec == Init /\ [][Next]_content
=============================================================================

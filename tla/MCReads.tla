------------------------------ MODULE MCReads ------------------------------
EXTENDS Reads, TLC

Symmetry == Permutations(Nodes) \cup Permutations(Reads)

\* Messages whose delivery can still change a node; the others never will again.
Useful(m) ==
  LET s == node[m.to] IN
  /\ m.term >= s.term
  /\ \/ m.term > s.term
     \/ m.type = "ack" /\ s.role = "leader"
        /\ \/ m.match > s.match[m.from]
           \/ m.context = s.context /\ m.from \notin s.acked /\ (s.barriers # <<>> \/ s.pending # <<>>)
     \/ m.type = "readindex" /\ s.role = "leader"
     \/ m.type = "result" /\ s.frozen > 0 /\ m.context = s.follow
     \/ m.type = "timeoutnow"

(***************************************************************************)
(* States that differ in what no step reads again are one state: what a    *)
(* node that does not lead keeps of its last leadership, and how a read    *)
(* was answered.  Of generations and contexts only the comparisons matter. *)
(***************************************************************************)
NodeView(n) ==
  LET s == node[n]
      a == [s EXCEPT !.context = 0, !.follow = 0, !.gen = 0,
                     !.barriers = [i \in DOMAIN @ |-> [@[i] EXCEPT !.needs = @ <= s.gen]],
                     !.pending = [i \in DOMAIN @ |-> [@[i] EXCEPT !.context = @ = node[s.pending[i].from].follow]]]
  IN  IF s.role = "leader" THEN [a EXCEPT !.wire = IF @ < 0 THEN -1 ELSE IF @ = s.context THEN 1 ELSE 0]
      ELSE [a EXCEPT !.match = {}, !.wire = 0, !.confirmed = FALSE]

MessageView(m) ==
  CASE m.type = "ack" -> [m EXCEPT !.context = @ = node[m.to].context]
    [] m.type = "result" -> [m EXCEPT !.context = @ = node[m.to].follow]
    [] m.type = "readindex" -> [m EXCEPT !.context = @ = node[m.from].follow]
    [] OTHER -> m

View == <<[n \in Nodes |-> NodeView(n)], {MessageView(m) : m \in {x \in net : Useful(x)}}, events,
          [c \in Reads |-> IF reads[c].status \in {"none", "open"} THEN <<reads[c].status, reads[c].floor>>
                           ELSE <<reads[c].late, reads[c].seen >= reads[c].floor>>]>>
=============================================================================

----------------------------- MODULE MCMembers -----------------------------
EXTENDS Members

To(ids) == [op |-> "reconfig", ids |-> ids]
Learn(id) == [op |-> "learner", id |-> id]
Forget(id) == [op |-> "forget", id |-> id]
Write == [op |-> "submit"]

MCNodes == {1, 2, 3}
Pair == {1, 2}
Asks(q, n) == [asks |-> q, events |-> n]
MCScripts == {Asks(<<To({2, 3}), To({1})>>, 1), Asks(<<To({1}), Write>>, 0),
              Asks(<<Learn(3), To({2, 3})>>, 2), Asks(<<Learn(3), Forget(3)>>, 1)}
CommandScripts == {Asks(<<To({1}), Write>>, 0)}
LearnerScripts == {Asks(<<Learn(3)>>, 0)}
ChainScripts == {Asks(<<To({1}), To({1, 3})>>, 0)}

\* The rounds of learners change nothing but their callers' reports, and of the history of
\* results only the final ones are looked at.
View ==
  <<script, asked, elected, chosen, events, node = node,
    [n \in Nodes |-> [node[n] EXCEPT !.learning = DOMAIN @,
                                     !.out = SelectSeq(@, LAMBDA r : script[r.cookie].op = "reconfig" \/ r.status \in Final)]]>>
=============================================================================

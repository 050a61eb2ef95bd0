----------------------------- MODULE MCDemoLoop -----------------------------
\* The demo for TLC: every scenario, also driven; after one of them, that one and another in
\* any order, three requests long; and four requests that name the same one.
EXTENDS DemoLoop

First == "db_exhaustion"
Some == {First, "dependency_failure"}

MCHistories ==
  {<<a>> : a \in DOMAIN SCENARIOS} \cup {<<a, a>> : a \in DOMAIN SCENARIOS}
  \cup {<<First, a>> : a \in Some} \cup {<<First, a, b>> : a, b \in Some}
  \cup {<<First, First, First, First>>}
=============================================================================

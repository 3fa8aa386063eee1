----------------------------- MODULE MCDemoCall -----------------------------
EXTENDS DemoCall
CONSTANTS t1, t2, salon
\* Two tabs of one person, and one business to pick.
MCTabs == {t1, t2}
MCCallerOf == [t \in MCTabs |-> t1]
MCLengths == {1, 2}
\* Three clicks on a page, or two pages with one click on each.
MCVisitBounds == {[t \in MCTabs |-> IF t = t1 THEN 4 ELSE 0], [t \in MCTabs |-> 2]}
=============================================================================

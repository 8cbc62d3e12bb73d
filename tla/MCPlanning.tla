----------------------------- MODULE MCPlanning -----------------------------
EXTENDS Planning
\* Three tasks on two days of four slots, the window open for three.

Dep(pred, kind, lag) == [pred |-> pred, kind |-> kind, lag |-> lag]
Task(estimate, due, deps, sprint) == [estimate |-> estimate, due |-> due, deps |-> deps, sprint |-> sprint]

MCTasks == <<Task(1, 0, {}, FALSE), Task(2, None, {Dep(1, "FS", 1)}, FALSE),
             Task(1, 1, {Dep(2, "FF", 1), Dep(1, "SS", 0)}, TRUE)>>

MCBlocks == <<Block(1, 1, 2, FALSE), Block(2, 5, 7, FALSE), Block(3, 3, 4, TRUE)>>
MCSpans == {[start |-> 2, end |-> 4]}
MCWindows == {[id |-> "day", start |-> 1, end |-> 4]}
MCNone == -1
=============================================================================

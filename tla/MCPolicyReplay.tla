--------------------------- MODULE MCPolicyReplay ---------------------------
EXTENDS PolicyReplay

Ev(pid, inst, path, action, front, bits, odd) ==
    [pid |-> pid, inst |-> inst, path |-> path, action |-> action, front |-> front, bits |-> bits, odd |-> odd]

\* PID 2 is reused by process 13 after 12, a child of 11; instance 0 is unknown.
\* a is encrypted as a whole, b only behind its front, and the long path cannot be read.
MCTemplates ==
    { Ev(1, 11, "a", "modify", 8, 8, TRUE), Ev(1, 11, "c", "rename", 2, 2, FALSE),
      Ev(1, 11, "long", "modify", NoSample, NoSample, FALSE), Ev(2, 12, "b", "modify", 2, 8, TRUE),
      Ev(2, 13, "canary", "delete", 2, 2, FALSE), Ev(0, 0, "b", "create", 4, 4, FALSE) }
MCSteps == {-1, 0, 2}
MCUid == [i \in {0, 11, 12, 13} |-> IF i = 13 THEN 1 ELSE 0]
MCAncestors == [i \in {0, 11, 12, 13} |-> IF i = 12 THEN {11} ELSE {}]
MCRoot == [p \in {"a", "b", "c", "canary", "long"} |-> IF p \in {"b", "canary"} THEN "data" ELSE NoRoot]

Change(from, until, procs, paths, rules) ==
    [from |-> from, until |-> until, procs |-> procs, paths |-> paths, rules |-> rules]
Window(span, minFiles, detect) ==
    [span |-> span, minFiles |-> minFiles, mass |-> 2, detect |-> detect]

\* base reads just enough to show its threshold; cand reads as much with a threshold
\* out of its reach; wide samples contents, which is as much as its threshold needs.
MCPolicies ==
    [base |-> [approvals |-> <<Change(0, 3, {11, 12}, {"a", "b"}, {"instance"}),
                               Change(1, 9, {11, 12, 13}, {"a", "b", "canary"}, {BehaviorRule, "user_path"})>>,
               window |-> 1, mass |-> 2, minFiles |-> 1, detect |-> 40, block |-> 60, autoBlock |-> TRUE,
               windows |-> {Window(1, 1, 20)}, excluded |-> {}, canaries |-> {"canary"},
               head |-> 6, content |-> NoSample, threshold |-> 6, fanotify |-> TRUE],
     cand |-> [approvals |-> <<>>,
               window |-> 1, mass |-> 2, minFiles |-> 2, detect |-> 40, block |-> 60, autoBlock |-> TRUE,
               windows |-> {Window(1, 2, 30), Window(2, 1, 50)}, excluded |-> {"canary"}, canaries |-> {},
               head |-> 6, content |-> NoSample, threshold |-> 7, fanotify |-> FALSE],
     wide |-> [approvals |-> <<>>,
               window |-> 2, mass |-> 2, minFiles |-> 1, detect |-> 40, block |-> 60, autoBlock |-> TRUE,
               windows |-> {}, excluded |-> {}, canaries |-> {},
               head |-> NoSample, content |-> 7, threshold |-> 7, fanotify |-> TRUE]]
=============================================================================

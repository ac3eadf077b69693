------------------------------- MODULE MCJobs -------------------------------
EXTENDS Jobs

CONSTANTS ra, rb, ja, jb, ta, ea, eb

\* A run of two attempts that waits for an environment, and one that reports none
\* and that only the browser can approve.
MCWaits == [r \in Run |-> IF r = ra THEN "deployment" ELSE "action"]
MCAttempts == [r \in Run |-> IF r = ra THEN 2 ELSE 0]

AJob(id, active) == [id |-> id, active |-> active]
MCAnswers ==
  [r \in Run |-> [a \in Attempt |->
    IF r = ra /\ a # 1
    THEN {<<AJob(ja, TRUE)>>, <<AJob(jb, FALSE), AJob(ja, FALSE)>>}
    ELSE {<<>>}]]
\* The check is named like one job and is a part of the name of another.
MCExact == {<<ja, ta>>}
MCPart == {<<ja, ta>>, <<jb, ta>>}
=============================================================================

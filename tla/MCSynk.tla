------------------------------- MODULE MCSynk -------------------------------
EXTENDS Synk

\* One resource in every version of the chart and one that comes and goes.
SmallCharts == {{1}, {1, 2}}
SmallKinds == {[r \in {1, 2} |-> IF r = 1 THEN "patch" ELSE "merge"],
               [r \in {1, 2} |-> IF r = 1 THEN "job" ELSE "large"]}
=============================================================================

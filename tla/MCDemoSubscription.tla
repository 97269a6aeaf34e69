-------------------------- MODULE MCDemoSubscription --------------------------
(* DemoSubscription for TLC: the leaves and values are model values.        *)
EXTENDS DemoSubscription
===============================================================================

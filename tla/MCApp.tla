------------------------------- MODULE MCApp -------------------------------
\* One installation, for TLC.
EXTENDS App, TLC

\* No destination; and a destination on the timer, on the timer over Wi-Fi, by hand.
MCChoices ==
    {Default} \cup
    {[configured |-> TRUE, timed |-> TRUE, wifiOnly |-> w] : w \in BOOLEAN} \cup
    {[configured |-> TRUE, timed |-> FALSE, wifiOnly |-> FALSE]}
=============================================================================

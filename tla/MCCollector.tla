---------------------------- MODULE MCCollector ----------------------------
(* The TLC instance of Collector: a launch, swaps of its pool close behind *)
(* it and later, and other logs.                                           *)
EXTENDS Collector

MCLogAt == <<"log", "launch", "swap", "log", "swap", "log">>
=============================================================================

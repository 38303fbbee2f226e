------------------------------ MODULE MCLiveTable ------------------------------
(* Pages of one user, who may look at the table twice; another member stands for *)
(* all those whose pages are not looked at.                                      *)
EXTENDS LiveTable, TLC

CONSTANTS alice, bob, tab1, tab2

AliceAndBob == {alice, bob}
TwoTabs     == {tab1, tab2}
OneTab      == {tab1}
BothHers    == (tab1 :> alice) @@ (tab2 :> alice)
OneHers     == tab1 :> alice
=============================================================================

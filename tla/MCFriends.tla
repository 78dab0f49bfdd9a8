----------------------------- MODULE MCFriends -----------------------------
(* Instances of Friends for TLC.                                           *)
EXTENDS Friends, TLC

CONSTANTS ann, bob, s1, s2

TwoUsers   == {ann, bob}
TwoServers == {s1, s2}
AllKinds    == Kinds
=============================================================================

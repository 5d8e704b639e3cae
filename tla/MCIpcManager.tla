---------------------------- MODULE MCIpcManager ----------------------------
(* Instances of IpcManager for TLC.                                        *)
EXTENDS IpcManager

CONSTANTS l1, l2, p, q, ta, tb

TwoListeners == {l1, l2}
BothSenders  == {p, q}
OneSender    == {p}
TwoTags      == {ta, tb}

(* l1 and l2 share a tag; l2 wants it for itself.                          *)
SameTag      == [l \in TwoListeners |-> ta]
UniqueSecond == {l2}
=============================================================================

----------------------------- MODULE MCService -----------------------------
(* Small instances of Service for TLC. *)
EXTENDS Service

Write(s) == [ins |-> "Write", id |-> s]
Read(s) == [ins |-> "Read", id |-> s]
SyncWrite(s) == [ins |-> "SyncWrite", id |-> s]

NoCommands == {}
OneWrite == {<<Write(1)>>}
TwoWrites == {<<Write(1), Write(1)>>}
MixedCommands == {<<Write(1), Write(1)>>, <<Read(1)>>, <<SyncWrite(1)>>, <<>>}

NoStale == <<>>
StaleStatus == <<[ins |-> "Status", id |-> 1, order |-> 0]>>
=============================================================================
